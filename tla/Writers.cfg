SPECIFICATION FairSpec
CONSTANTS
  IoThreads = 2
  Classes = {"tcp", "ssl", "serial", "ws"}
  MaxWrites = 3
  Parts = 2
  Garbage = Garbage
INVARIANTS EveryWriteIsAccountedFor QueueIsServed
PROPERTIES EveryWriteEnds IsFifo
CHECK_DEADLOCK FALSE
