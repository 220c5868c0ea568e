CONSTANTS
  a1 = a1
  Ids <- MCIds
  Channels = {"telegram"}
  TimeoutAction = "allow"
  MaxTaps = 3
  NoDecision = NoDecision
  AnyAgent = AnyAgent
  Tools <- MCTools
  Args <- MCArgs
  DestructiveArgs <- MCDestructiveArgs
  FilesystemWrite <- MCFilesystemWrite
  WorkspaceArgs <- MCWorkspaceArgs
  ToolsLike <- MCToolsLike
  ShellNeedles = {}
  HostRules <- MCNoRules
  UserRules <- MCNoRules
SPECIFICATION Spec
INVARIANTS
  AllowedMeansAllowed
CHECK_DEADLOCK FALSE
