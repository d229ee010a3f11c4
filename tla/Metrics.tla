------------------------------ MODULE Metrics ------------------------------
(***************************************************************************)
(* core/evaluation/metrics.py: the report of GET /agents/{id}/metrics and  *)
(* of /compare, computed in the API from a SELECT over runs and then one   *)
(* SELECT over tool_calls per run, while workers write both.  Nothing makes*)
(* these SELECTs one snapshot.  Runs are those of one version.  Costs,     *)
(* latencies and steps are averaged as tool_calls is, and left out.        *)
(***************************************************************************)
EXTENDS RunRows, FiniteSets, Functions

CONSTANT NoValue   \* Python's None

ASSUME ReportAssumption == IsFiniteSet(Runs) /\ NoValue \notin [num : Nat, den : Nat]

VARIABLES
  reading, \* a request is between its first SELECT and its last
  listed,  \* list_runs_by_version's answer: run -> [status, tool_calls]
  called,  \* list_tool_calls' answers so far: run -> calls
  report   \* the last report, or NoValue while the next one is read

metricsVars == <<reading, listed, called, report>>

MetricsInit == reading = FALSE /\ listed = <<>> /\ called = <<>> /\ report = NoValue

Rate(n, d) == IF d = 0 THEN NoValue ELSE [num |-> n, den |-> d]
Total(f, set) == FoldFunctionOnSet(+, 0, f, set)
CallsOf(calls, kinds) == Total([r \in DOMAIN calls |-> Total(calls[r], kinds)], DOMAIN calls)

ComputeMetrics(runs, calls) ==
  LET total == Cardinality(DOMAIN runs)
      attempts == CallsOf(calls, Kinds)
  IN  [total |-> total,
       rates |-> [s \in Terminal |-> Rate(Cardinality({r \in DOMAIN runs : runs[r].status = s}), total)],
       tool_calls |-> Rate(Total([r \in DOMAIN runs |-> runs[r].tool_calls], DOMAIN runs), total),
       tool_error_rate |-> Rate(CallsOf(calls, {"error"}), attempts),
       policy_denial_rate |-> Rate(CallsOf(calls, {"denied"}), attempts)]

RowOf(r) == [status |-> rows[r].status, tool_calls |-> rows[r].tool_calls]

ListRuns ==
  /\ ~reading /\ reading' = TRUE
  /\ listed' = [r \in {x \in Runs : rows[x].status # "absent"} |-> RowOf(r)]
  /\ called' = <<>> /\ report' = NoValue

ListToolCalls ==
  /\ reading
  /\ \E r \in DOMAIN listed \ DOMAIN called :
       called' = [x \in DOMAIN called \cup {r} |-> IF x = r THEN rows[r].calls ELSE called[x]]
  /\ UNCHANGED <<reading, listed, report>>

Answer(r) == /\ reading /\ DOMAIN called = DOMAIN listed
             /\ reading' = FALSE
             /\ report' = r
             /\ UNCHANGED <<listed, called>>

\* A faulty variant, for the mutants of PROJECT.json: the runs are read last.
ReportOfLaterRuns == Answer(ComputeMetrics([r \in DOMAIN listed |-> RowOf(r)], called))

Report == Answer(ComputeMetrics(listed, called))

MetricsNext == ListRuns \/ ListToolCalls \/ Report

-----------------------------------------------------------------------------
(* Properties *)

Num(rate) == IF rate = NoValue THEN 0 ELSE rate.num
Den(rate) == IF rate = NoValue THEN 0 ELSE rate.den

\* A report adds up, whatever the workers wrote between its SELECTs: the calls
\* its runs count and the ones it says were denied are among the attempts its
\* rates divide by.  If all its runs had ended without a crash, the calls that
\* await approval are all that is missing.
ReportsAddUp ==
  report # NoValue =>
    LET counted == Num(report.tool_calls) + Num(report.policy_denial_rate)
        attempts == Den(report.tool_error_rate)
    IN  /\ counted <= attempts
        /\ (\A r \in DOMAIN listed : listed[r].status \in Terminal \ {"crashed"}) =>
             counted + CallsOf(called, {"pending_approval"}) = attempts

\* What a report says of ended runs is never taken back: as many of its runs,
\* or more, have ended that way since; and if all of them had, the report is
\* the one they give for ever.
ReportsAreNeverTakenBack ==
  report # NoValue =>
    LET again == ComputeMetrics([r \in DOMAIN listed |-> RowOf(r)],
                                [r \in DOMAIN listed |-> rows[r].calls])
    IN  /\ \A s \in Terminal : Num(report.rates[s]) <= Num(again.rates[s])
        /\ (\A r \in DOMAIN listed : listed[r].status \in Terminal) => report = again
=============================================================================
