CONSTANTS
  t1 = t1
  t2 = t2
  w1 = w1
  Ambient = Ambient
  NoRun = NoRun
  Messages <- MCMessages
  From <- MCFrom
  MaxSockets = 2
  MaxFrames = 2
  QueueDepth = 1
  Limit = 1
SPECIFICATION Spec
INVARIANTS
  FloorHoldsTelegramRuns
CHECK_DEADLOCK FALSE
