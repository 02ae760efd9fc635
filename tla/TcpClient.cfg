SPECIFICATION FairSpec
CONSTANTS
  c1 = c1  c2 = c2
  idle = idle
  Idle = idle
  IoThreads = 2
  CallbackThreads = {c1}
  MaxSessions = 3
  MaxEvents = 1
  MaxSilences = 1
  MaxClosings = 1
INVARIANTS NeverAtRest EveryStartEndsOnce ConnectionIsToldFirst OnlyCurrentSessionIsRead
PROPERTIES ConnectsAgain
CHECK_DEADLOCK FALSE
