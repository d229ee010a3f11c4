\* One process death: the run the worker was executing stays running for ever.
CONSTANTS
  c1 = c1
  c2 = c2
  w1 = w1
  w2 = w2
  e1 = e1
  r1 = r1
  r2 = r2
  r3 = r3
  NoRun = NoRun
  NoProc = NoProc
  Clients <- OneClient
  Workers <- OneWorker
  Evals <- NoEval
  Runs <- TwoRuns
  Scenarios = 0
  MaxFaults = 1
SPECIFICATION FairSpec
PROPERTIES
  EveryRunEnds
CHECK_DEADLOCK FALSE
