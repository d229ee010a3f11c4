\* The page, the metrics and /health, each beside what it watches.
\* A page that has stopped and a clock at its bound do nothing more.
CONSTANTS
  r1 = r1
  r2 = r2
  load1 = load1
  load2 = load2
  NoValue = NoValue
  NoAnswer = NoAnswer
  Never = Never
  Runs <- TwoRuns
  MaxCalls = 2
  Outcomes <- TwoOutcomes
  Loads <- TwoLoads
  Panels <- TwoPanels
  MaxCommits = 3
  Interval = 5
  Poll = 1
  Stale = 15
  MaxTime = 24
SPECIFICATION Spec
CHECK_DEADLOCK FALSE
INVARIANTS
  TypeOK
  ReportsAddUp
  ReportsAreNeverTakenBack
  SettledPageIsFinal
  HealthTellsTheTruth
PROPERTIES
  OnlyCrossedLoadsTakeThePageBack
  PollingStops
