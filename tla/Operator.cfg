CONSTANTS
  a1 = a1
  a2 = a2
  p1 = p1
  p2 = p2
  Ids = {a1, a2}
  Channels = {}
  TimeoutAction = "deny"
  Answers = {"allow_once", "deny"}
  Askers = {"page", "cli"}
  Followers = {"watch", "forward"}
  Asks = {1, 2}
  None = None
  PollSlots = {p1, p2}
  MaxFailures = 2
  MaxFaults = 1
  HistorySize = 2
  MaxEvents = 4
  Names = {"fs"}
  Terminals = {t1, t2}
  MaxBackups = 2
  MaxKills = 1
  Desks <- MCDesks
SPECIFICATION FairSpec
INVARIANTS
  OperatorTypeOK
  AckIsTruthful
  FollowersMissNothing
  PanelFollowsRun
  CardsNeedRun
  ServersSurvive
PROPERTIES
  SaidStays
  ResolvedCardGoes
CHECK_DEADLOCK FALSE
