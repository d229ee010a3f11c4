------------------------------ MODULE RunRows ------------------------------
(***************************************************************************)
(* A run as whoever reads runtime.db counts it: its row in runs, and how   *)
(* many rows it has in tool_calls.  It says what a reader may rely on      *)
(* while the run goes on, and nothing of how the run decides.  Executor is *)
(* shown to implement it; Metrics reads it.                                *)
(***************************************************************************)
EXTENDS Integers

CONSTANT Runs

VARIABLE rows   \* rows[r]: [status, tool_calls, calls]; calls[k] counts r's
                \* rows in tool_calls of status k

Terminal == {"completed", "failed", "exhausted", "cancelled", "crashed"}
\* "error" stands for status "timeout" too: whoever counts them adds the two.
Kinds == {"ok", "error", "denied", "pending_approval"}
NoCalls == [k \in Kinds |-> 0]

\* The calls whose policy decision was ALLOW.
AllowedCalls(r) == rows[r].calls["ok"] + rows[r].calls["error"]
Underway(r) == rows[r].status \in {"queued", "running"}

\* A database may hold runs that nobody has touched yet.
RowsInit == rows \in [Runs -> [status : {"absent", "queued", "running"}, tool_calls : {0},
                               calls : {NoCalls}]]

Create(r) == /\ rows[r].status = "absent"
             /\ rows' = [rows EXCEPT ![r].status = "queued"]

Claim(r) == /\ rows[r].status = "queued"
            /\ rows' = [rows EXCEPT ![r].status = "running"]

\* A faulty variant, for the mutants of PROJECT.json: a second interpreter
\* goes on recording calls in a run that has ended.
RecordByAnyone(r, k) == /\ rows[r].tool_calls = AllowedCalls(r)
                        /\ rows' = [rows EXCEPT ![r].calls[k] = @ + 1]

\* A row in tool_calls ...
Record(r, k) == /\ Underway(r)
                /\ rows[r].tool_calls = AllowedCalls(r)
                /\ rows' = [rows EXCEPT ![r].calls[k] = @ + 1]

\* A faulty variant, for the mutants of PROJECT.json: counted, row or no row.
CountAnyCall(r) == /\ Underway(r)
                   /\ rows' = [rows EXCEPT ![r].tool_calls = @ + 1]

\* ... and, if the call was allowed, runs.tool_calls a moment later.
Count(r) == /\ Underway(r)
            /\ rows[r].tool_calls < AllowedCalls(r)
            /\ rows' = [rows EXCEPT ![r].tool_calls = @ + 1]

\* Only a crash comes between the two.
Finish(r, s) == /\ Underway(r)
                /\ s # "crashed" => rows[r].tool_calls = AllowedCalls(r)
                /\ rows' = [rows EXCEPT ![r].status = s]

RowsNext == \E r \in Runs : \/ Create(r) \/ Claim(r) \/ Count(r)
                            \/ \E k \in Kinds : Record(r, k)
                            \/ \E s \in Terminal : Finish(r, s)

RowsSpec == RowsInit /\ [][RowsNext]_rows
=============================================================================
