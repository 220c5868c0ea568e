CONSTANTS
  NoDecision = NoDecision
  Unset = Unset
  c1 = c1
  c2 = c2
  Calls <- MCCalls
  Ids <- MCCalls
  Channels = {"telegram"}
  Tools <- MCTools
  Args <- MCArgs
  DestructiveArgs <- MCDestructiveArgs
  FilesystemWrite <- MCFilesystemWrite
  WorkspaceArgs <- MCWorkspaceArgs
  HostRules <- MCHostRules
  UserRules <- MCUserRules
  FloorRules <- MCFloorRules
  Requests <- MCRequests
  ThreatDecisions <- NoThreat
  Price <- MCPrice
  Tokens <- MCTokens
  Budget <- OneCallOneDollar
  OnExceed = "require_approval"
  TimeoutAction = "allow"
  ApprovalAttached = TRUE
  Minute = 0
  Hour = 1
  OverrideTicks = {2}
  MaxTime = 2
SPECIFICATION Spec
PROPERTIES
  ExhaustedCountsHardDeny
CHECK_DEADLOCK FALSE
