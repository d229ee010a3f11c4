----------------------------- MODULE MCRunQueue -----------------------------
(* RunQueue for TLC: small sets of processes and runs. *)
EXTENDS RunQueue, TLC

CONSTANTS c1, c2, w1, w2, e1, r1, r2, r3

TwoClients == {c1, c2}
OneClient == {c1}
TwoWorkers == {w1, w2}
OneWorker == {w1}
OneEval == {e1}
ThreeRuns == {r1, r2, r3}
TwoRuns == {r1, r2}
NoEval == {}

\* Processes of one kind are interchangeable, and so are the uuids.
Symmetry == Permutations(TwoRuns) \cup Permutations(TwoWorkers)
=============================================================================
