\* Three runs, two keys, scheduled faults and two deaths.
CONSTANTS
  r1 = r1
  r2 = r2
  r3 = r3
  k1 = k1
  k2 = k2
  Runs <- ThreeRuns
  Keys <- TwoKeys
  FaultQueues <- Queues
  MaxCalls = 2
  MaxDeaths = 2
SPECIFICATION Spec
SYMMETRY Symmetry
INVARIANTS
  TypeOK
  AnswersStayTrue
  CreatedOnce
CHECK_DEADLOCK FALSE
