SPECIFICATION RequestsFairSpec
CONSTANTS
  r1 = r1  r2 = r2
  Requests = {r1, r2}
  Chunks = 2
  MaxRefusals = 0
  MaxReconnects = 0
PROPERTIES HeardIsWritten
CHECK_DEADLOCK FALSE
