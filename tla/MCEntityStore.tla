---------------------------- MODULE MCEntityStore ----------------------------
(* EntityStore for TLC: three runs that may meet on two keys. *)
EXTENDS EntityStore, TLC

CONSTANTS r1, r2, r3, k1, k2

ThreeRuns == {r1, r2, r3}
TwoRuns == {r1, r2}
TwoKeys == {k1, k2}
OneKey == {k1}
Queues == {<<>>, <<"duplicate">>, <<"error", "empty">>, <<"timeout">>}
NoFaults == {<<>>}

Symmetry == Permutations(ThreeRuns)
==============================================================================
