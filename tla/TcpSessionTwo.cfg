SPECIFICATION Spec
CONSTANTS
  IoThreads = 1
  Classes = {"tcp"}
  MaxWrites = 2
  Parts = 2
  Garbage = Garbage
INVARIANTS WireIsOrdered
CHECK_DEADLOCK FALSE
