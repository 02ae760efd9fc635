SPECIFICATION FairSpec
CONSTANTS
  t1 = t1  t2 = t2
  newConnection = newConnection
  sessionDisconnect = sessionDisconnect
  clientDisconnect = clientDisconnect
  onNew = onNew  forward = forward  user = user
  NoCall = NoCall  NoSlot = NoSlot
  Nobody = Nobody
  Threads = {t1, t2}
  Signals <- MCSignals
  Slots <- MCSlots
  SlotsOf <- MCSlotsOf
  Body <- MCBody
  MaxCalls = 5
INVARIANTS NoCircularWait
PROPERTIES SlotsStableWhileEmitting CallsReturn
CHECK_DEADLOCK FALSE
