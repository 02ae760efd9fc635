SPECIFICATION FairSpec
CONSTANTS
  io1 = io1  io2 = io2
  c1 = c1
  IoThreads = {io1, io2}
  CallbackThreads = {c1}
  MaxWritten = 2
  MaxReceived = 1
  MaxQueued = 2
  MaxOvertaken = 1
  MaxTroubles = 2
INVARIANTS OneOperationPerConnection NeverAtRest UserKnows QueueIsServed NoneLostOrTwice
PROPERTIES MessagesComeBetween ConnectsAgain
CHECK_DEADLOCK FALSE
