SPECIFICATION RequestsFairSpec
CONSTANTS
  r1 = r1  r2 = r2
  Requests = {r1, r2}
  Chunks = 2
  MaxRefusals = 2
  MaxReconnects = 1
INVARIANTS NeverSentTwice WokenWhenAnswered
PROPERTIES WrittenIsAnswered
CHECK_DEADLOCK FALSE
