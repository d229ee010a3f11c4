\* Two runs, one key, nothing fails: both look before either has written.
CONSTANTS
  r1 = r1
  r2 = r2
  r3 = r3
  k1 = k1
  k2 = k2
  Runs <- TwoRuns
  Keys <- OneKey
  FaultQueues <- NoFaults
  MaxCalls = 2
  MaxDeaths = 0
SPECIFICATION Spec
INVARIANTS
  ExistingKeysAreDuplicates
CHECK_DEADLOCK FALSE
