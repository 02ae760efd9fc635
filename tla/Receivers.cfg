SPECIFICATION Spec
CONSTANTS
  Classes = {"serial", "udp"}
  CallbackThreads = 2
  MaxLength = 3
  Datagrams = 3
  MaxErrors = 1
  MaxSends = 2
  Total = 8
  SizeAt <- TheSizes
  SizeRange = 8
  TypeWidth = 1
  HeaderSize = 4
  Spoiled = Spoiled
  Failed = Failed
INVARIANTS HandedOnAsReceived PacketsComeOutInOrder
PROPERTIES EveryChunkIsHandedOn DestructorReturns
CHECK_DEADLOCK FALSE
