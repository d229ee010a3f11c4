---------------------------- MODULE MCObservers ----------------------------
(* Observers for TLC: two loads of two panels, two runs, the code's 10, 2 *)
(* and 30 seconds in units of 2.                                          *)
EXTENDS Observers

CONSTANTS r1, r2, load1, load2

TwoRuns == {r1, r2}
TwoLoads == {load1, load2}
TwoOutcomes == {"completed", "crashed"}
TwoPanels == {"run", "events"}
=============================================================================
