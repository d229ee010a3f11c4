----------------------------- MODULE Heartbeat -----------------------------
(***************************************************************************)
(* worker/main.py's run_forever as GET /health sees it: the worker stamps  *)
(* system_heartbeat between two runs, never during one, and the API calls  *)
(* it alive while the stamp is fresh.  Time is in units of the poll        *)
(* interval; the wall clock and the worker's monotonic clock advance       *)
(* together, and the worker's own code between two calls takes no time.    *)
(***************************************************************************)
EXTENDS Integers

CONSTANTS Interval,   \* HEARTBEAT_INTERVAL_S
          Poll,       \* POLL_INTERVAL_S
          Stale,      \* WORKER_HEARTBEAT_STALE_S
          Never,      \* no row in system_heartbeat
          MaxTime     \* bound: how long the clock runs

ASSUME TimeAssumption == /\ Interval \in Nat \ {0} /\ {Poll, Stale, MaxTime} \subseteq Nat
                         /\ Never \notin Int

VARIABLES
  now,            \* the wall clock
  boot,           \* when the host booted: the zero of time.monotonic()
  ts,             \* system_heartbeat.ts
  worker,         \* where run_forever is
  since,          \* the clock at the top of its iteration (`now` in the code),
                  \* or at its death
  wake,           \* when its sleep ends, 0 if it is not asleep
  last,           \* last_heartbeat, on the wall clock
  beaten          \* this process has written its heartbeat once

healthVars == <<now, boot, ts, worker, since, wake, last, beaten>>

Places == {"down", "top", "write", "busy", "sleep"}

HealthInit == /\ now = 0
              /\ boot \in -Interval .. 0
              /\ ts = Never
              /\ worker = "top" /\ since = 0 /\ wake = 0 /\ last = boot /\ beaten = FALSE

\* At the top nothing takes time, and a sleep does not last longer than Poll.
Pass == /\ now < MaxTime
        /\ worker # "top"
        /\ worker = "sleep" => now < wake
        /\ now' = now + 1
        /\ UNCHANGED <<boot, ts, worker, since, wake, last, beaten>>

\* process_one_queued_run: a run, as long as it likes, or an empty queue.
ProcessOne == \/ worker' = "busy" /\ UNCHANGED wake
              \/ worker' = "sleep" /\ wake' = now + Poll

HeartbeatDue == since - last >= Interval

Top == /\ worker = "top"
       /\ \/ HeartbeatDue /\ worker' = "write" /\ UNCHANGED wake
          \/ ~HeartbeatDue /\ ProcessOne
       /\ UNCHANGED <<now, boot, ts, since, last, beaten>>

\* A faulty variant, for the mutants of PROJECT.json: last_heartbeat read from
\* the clock after the write.
WriteThenLook == /\ worker = "write"
                 /\ ts' = since /\ last' = now /\ beaten' = TRUE
                 /\ ProcessOne
                 /\ UNCHANGED <<now, boot, since>>

\* The stamp was taken at the top, however long SQLite then took.
Write == /\ worker = "write"
         /\ ts' = since /\ last' = since /\ beaten' = TRUE
         /\ ProcessOne
         /\ UNCHANGED <<now, boot, since>>

NextIteration == /\ worker = "busy" \/ (worker = "sleep" /\ now = wake)
                 /\ worker' = "top" /\ since' = now /\ wake' = 0
                 /\ UNCHANGED <<now, boot, ts, last, beaten>>

\* The process is killed, or write_heartbeat raises: nothing catches it.
WorkerDies == /\ worker # "down"
              /\ worker' = "down" /\ since' = now /\ wake' = 0
              /\ UNCHANGED <<now, boot, ts, last, beaten>>

\* restart: unless-stopped.  last_heartbeat = 0.0 is the monotonic clock's
\* zero: the host's boot.
WorkerRestarts == /\ worker = "down"
                  /\ worker' = "top" /\ since' = now /\ last' = boot /\ beaten' = FALSE
                  /\ UNCHANGED <<now, boot, ts, wake>>

HealthNext == Pass \/ Top \/ Write \/ NextIteration \/ WorkerDies \/ WorkerRestarts

HealthSpec == HealthInit /\ [][HealthNext]_healthVars

-----------------------------------------------------------------------------
(* Properties *)

HealthTypeOK == /\ now \in Nat /\ boot \in -Interval .. 0
                /\ ts \in Nat \cup {Never}
                /\ worker \in Places /\ since \in Nat /\ wake \in Nat
                /\ last \in Int /\ beaten \in BOOLEAN

\* GET /health: _worker_alive.
WorkerAlive == ts # Never /\ now - ts < Stale

\* "worker": false means that the worker is down, or is only just about to
\* write the heartbeat that a long run delayed, or has been in its current
\* iteration (one run, or one slow write) for more than Stale - Interval, or
\* that the host booted so recently that no heartbeat is due.  "true" means
\* that the worker is up, or was less than Stale ago.
HealthTellsTheTruth ==
  /\ worker # "down" /\ ~WorkerAlive =>
       \/ worker \in {"top", "write"} /\ HeartbeatDue
       \/ now - since > Stale - Interval
       \/ ~beaten /\ since - boot < Interval
  /\ worker = "down" /\ WorkerAlive => now - since < Stale
=============================================================================
