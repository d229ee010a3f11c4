\* An L3 agent whose max_steps is below its max_iterations.
CONSTANTS
  web = web
  t1 = t1
  t2 = t2
  NoTable = NoTable
  low = low
  high = high
  null = null
  Texts <- Alphabet
  Others <- Unordered
  Levels <- Level3
  PolicySet <- StrictPolicy
  Calls <- LoopCalls
  DefaultState <- Defaults
  StateSchema <- Schema
  Success <- Goal
  Failure <- Trouble
  MaxIterations = 3
  FixedSteps = 2
  MaxCallsPerAnswer = 2
  Costs <- OneCost
  MaxAnswerTokens = 1
  MaxAnswerMoney = 0
  MaxSteps = 1
  MaxToolCalls = 2
  MaxTokens = 4
  MaxMoney = 1
  Domains <- MCDomains
  Tables <- MCTables
SPECIFICATION Spec
INVARIANTS
  StepsWithinBudget
