---------------------------- MODULE RunLifecycle ----------------------------
(***************************************************************************)
(* What the runtime promises about a run, whoever executes it: a run is    *)
(* submitted once, may be claimed once, is interpreted by at most one      *)
(* process in its whole life, and ends at most once.  RunQueue and         *)
(* Executor are shown to implement this specification.                     *)
(***************************************************************************)
CONSTANTS Runs,        \* run ids
          Procs,       \* the processes that may interpret a run
          NoProc       \* "nobody has started interpreting this run"; not in Procs

VARIABLES status,      \* runs.status of each run, "absent" before its INSERT
          owner        \* the process that created the run_state row, or NoProc

lifeVars == <<status, owner>>

\* runs.TERMINAL_STATUSES ("cancelled" is accepted by finish_run and written
\* by no caller; it is kept because finish_run would accept it).
Terminal == {"completed", "failed", "exhausted", "cancelled", "crashed"}

\* A process may come up over a database that holds runs of an earlier life.
Init == /\ status \in [Runs -> {"absent", "queued", "running"}]
        /\ owner = [r \in Runs |-> NoProc]

Submit(r) == /\ status[r] = "absent"
             /\ status' = [status EXCEPT ![r] = "queued"]
             /\ UNCHANGED owner

Claim(r) == /\ status[r] = "queued"
            /\ status' = [status EXCEPT ![r] = "running"]
            /\ UNCHANGED owner

\* The run need not be claimed: the evaluation CLI interprets queued runs.
Begin(r, p) == /\ status[r] \in {"queued", "running"}
               /\ owner[r] = NoProc
               /\ owner' = [owner EXCEPT ![r] = p]
               /\ UNCHANGED status

End(r, s) == /\ owner[r] # NoProc
             /\ status[r] \in {"queued", "running"}
             /\ status' = [status EXCEPT ![r] = s]
             /\ UNCHANGED owner

Next == \E r \in Runs : \/ Submit(r)
                        \/ Claim(r)
                        \/ \E p \in Procs : Begin(r, p)
                        \/ \E s \in Terminal : End(r, s)

Spec == Init /\ [][Next]_lifeVars
=============================================================================
