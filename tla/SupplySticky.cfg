CONSTANTS
  Servers = {"fs", "gh"}
  Tools = {"read", "issue"}
  Defs = {"plain", "poisoned"}
  Namespace <- MCPoisonedNamespace
  Offers <- MCPoisonedOffers
  Mode <- MCMode
  PoisonSeverities <- MCPoison
  FeedSeverities <- MCFeed
  NoDecision = NoDecision
  MaxSlots = 5
  MaxFaults = 0
SPECIFICATION Spec
PROPERTIES
  FlagsOnlyGrow
CHECK_DEADLOCK FALSE
