SPECIFICATION FairSpec
CONSTANTS
  c1 = c1
  MaxSessions = 2
  MaxChunks = 2
  MaxWrites = 3
  CallbackThreads = {c1}
  Idle = Idle
PROPERTIES BroadcastsArrive ClosedSessionsAreDone
CHECK_DEADLOCK FALSE
