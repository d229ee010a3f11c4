\* Two workers, an evaluator of one scenario and one API thread share two runs.
CONSTANTS
  c1 = c1
  c2 = c2
  w1 = w1
  w2 = w2
  e1 = e1
  r1 = r1
  r2 = r2
  r3 = r3
  NoRun = NoRun
  NoProc = NoProc
  Clients <- OneClient
  Workers <- TwoWorkers
  Evals <- OneEval
  Runs <- TwoRuns
  Scenarios = 1
  MaxFaults = 2
SPECIFICATION Spec
SYMMETRY Symmetry
INVARIANTS
  TypeOK
  OneInterpreter
  EventsAgreeWithStatus
  JudgedRunsAreItsOwn
  EachFaultStrandsAtMostOneRun
PROPERTIES
  TerminalIsFinal
  ClaimsInOrder
  ImplementsLifecycle
CHECK_DEADLOCK FALSE
