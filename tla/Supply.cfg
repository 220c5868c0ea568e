CONSTANTS
  Servers = {"fs", "gh", "hub"}
  Tools = {"read", "issue"}
  Defs = {"plain", "changed"}
  Namespace <- MCNamespace
  Offers <- MCOffers
  Mode <- MCMode
  PoisonSeverities <- MCPoison
  FeedSeverities <- MCFeed
  NoDecision = NoDecision
  MaxSlots = 5
  MaxFaults = 2
SPECIFICATION FairSpec
INVARIANTS
  SupplyTypeOK
  CatalogueSurvives
  NoOtherStrays
  DriftIsCaught
  NoSilentDrift
PROPERTIES
  DeadServerComesBack
CHECK_DEADLOCK FALSE
