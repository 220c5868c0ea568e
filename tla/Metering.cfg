CONSTANTS
  NoDecision = NoDecision
  Unset = Unset
  None = None
  OnExceed = "deny"
  c3 = c3
  c4 = c4
  Calls = {c1, c2, c3, c4}
  Commands = {m1}
  Agent <- MCAgent
  Price <- MCPrice
  Budget <- MCBudget
  AgentBudget <- MCAgentBudget
  Tokens <- MCTokens
  Hour = 1
  DayStarts = {0, 2, 4}
  MonthStarts = {0, 2}
  PruneEvery = 2
  HydrateLimit = 2
  FirstTick = 1
  LastTick = 4
  MaxFaults = 2
  TopRows = 10
SPECIFICATION Spec
SYMMETRY MCSymmetry
INVARIANTS
  MeteringTypeOK
  ForwardedIsLogged
  CallCountsSurvive
  TokenCountsSurvive
  LimitsHoldAcrossRestarts
  SpendPageAgrees
CHECK_DEADLOCK FALSE
