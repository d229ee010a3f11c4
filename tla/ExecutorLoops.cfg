\* Every level, a policy that allows, refuses and asks, a budget that each dimension can end.
CONSTANTS
  web = web
  t1 = t1
  t2 = t2
  NoTable = NoTable
  low = low
  high = high
  null = null
  Texts <- Alphabet
  Others <- Unordered
  Levels <- AllLevels
  PolicySet <- StrictPolicy
  Calls <- AllCalls
  DefaultState <- Defaults
  StateSchema <- Schema
  Success <- Goal
  Failure <- Trouble
  MaxIterations = 2
  FixedSteps = 2
  MaxCallsPerAnswer = 2
  Costs <- Answers
  MaxAnswerTokens = 2
  MaxAnswerMoney = 1
  MaxSteps = 9
  MaxToolCalls = 2
  MaxTokens = 3
  MaxMoney = 1
  Domains <- MCDomains
  Tables <- MCTables
SPECIFICATION FairSpec
INVARIANTS
  TypeOK
  TablesAgree
  RanWithinBudget
  OvershootIsOneAnswer
  StateIsReplayable
  PolicyRespected
  OutcomeFollowsGoal
PROPERTIES
  ImplementsLifecycle
  ImplementsRunRows
  RunTerminates
