SPECIFICATION FairSpec
CONSTANTS
  c1 = c1  c2 = c2
  MaxSessions = 3
  MaxChunks = 2
  MaxWrites = 1
  CallbackThreads = {c1}
  Idle = Idle
INVARIANTS PendingReadIsOwned AnnouncedFirst DeliveredInOrder OnlyEndedSessionsLeave
PROPERTIES ClosedSessionsAreDestroyed
CHECK_DEADLOCK FALSE
