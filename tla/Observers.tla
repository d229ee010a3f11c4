----------------------------- MODULE Observers -----------------------------
(***************************************************************************)
(* Those who watch the runtime from outside and change nothing in it: the  *)
(* Run Inspector's page, the metrics of a version, and GET /health.  They  *)
(* share no state, so a behaviour follows one of them, chosen at the start.*)
(***************************************************************************)
EXTENDS Metrics, RunInspector, Heartbeat

CONSTANTS MaxCalls,   \* bound: rows in tool_calls while metrics are watched
          Outcomes    \* bound: the terminal statuses that runs end with

ASSUME CallsAssumption == MaxCalls \in Nat

VARIABLE watch      \* the observer followed: "page", "metrics" or "health"

reportVars == <<rows, metricsVars>>
vars == <<watch, pageVars, reportVars, healthVars>>

Init == /\ watch \in {"page", "metrics", "health"}
        /\ PageInit /\ HealthInit /\ MetricsInit
        /\ RowsInit /\ \A r \in Runs : rows[r].status = "absent"
        /\ watch # "health" => boot = 0

Written == CallsOf([r \in Runs |-> rows[r].calls], Kinds)
WriteRows == /\ RowsNext
             /\ CallsOf([r \in Runs |-> rows'[r].calls], Kinds) <= MaxCalls
             /\ \A r \in Runs : rows'[r].status \notin Terminal \ Outcomes
             /\ UNCHANGED metricsVars
ReadRows == MetricsNext /\ UNCHANGED rows

WatchRun == PageNext /\ runStatus' \notin TERMINAL \ Outcomes

Next ==
  /\ UNCHANGED watch
  /\ \/ watch = "page" /\ WatchRun /\ UNCHANGED <<reportVars, healthVars>>
     \/ watch = "metrics" /\ (WriteRows \/ ReadRows) /\ UNCHANGED <<pageVars, healthVars>>
     \/ watch = "health" /\ HealthNext /\ UNCHANGED <<pageVars, reportVars>>

Spec == Init /\ [][Next]_vars /\ (watch = "page" => PageFairness)

-----------------------------------------------------------------------------
TypeOK ==
  /\ rows \in [Runs -> [status : {"absent", "queued", "running"} \cup Terminal,
                        tool_calls : 0..MaxCalls, calls : [Kinds -> 0..MaxCalls]]]
  /\ Written <= MaxCalls
  /\ reading \in BOOLEAN
  /\ DOMAIN listed \subseteq Runs /\ DOMAIN called \subseteq DOMAIN listed
  /\ PageTypeOK /\ HealthTypeOK
=============================================================================
