CONSTANTS
  t1 = t1
  t2 = t2
  w1 = w1
  Ambient = Ambient
  NoRun = NoRun
  Messages <- MCMessages
  From <- MCFrom
  MaxSockets = 2
  MaxFrames = 2
  QueueDepth = 1
  Limit = 1
SPECIFICATION FairSpec
INVARIANTS
  ChatTypeOK
  NeverStranded
  OneRunAtATime
  RunKeepsItsChannel
  FateIsTrue
  ReplyReachesAsker
PROPERTIES
  AcceptedIsSettled
CHECK_DEADLOCK FALSE
