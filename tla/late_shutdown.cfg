SPECIFICATION ConnSpec
CONSTANTS
  t1 = t1
  loop = loop
  Senders = {t1}
  Shutters = {t1}
  LoopThread = loop
  MsgLen = 1
  MaxMessages = 0
  MaxForces = 1
INVARIANTS
  DestroyedDisconnected
CHECK_DEADLOCK FALSE
