\* Nothing fails: two workers and an evaluator race for the runs.
CONSTANTS
  c1 = c1
  c2 = c2
  w1 = w1
  w2 = w2
  e1 = e1
  r1 = r1
  r2 = r2
  r3 = r3
  NoRun = NoRun
  NoProc = NoProc
  Clients <- OneClient
  Workers <- TwoWorkers
  Evals <- OneEval
  Runs <- TwoRuns
  Scenarios = 1
  MaxFaults = 0
SPECIFICATION FairSpec
PROPERTIES
  EveryRunEnds
CHECK_DEADLOCK FALSE
