SPECIFICATION FairNetSpec
CONSTANTS
  t1 = t1
  loop = loop
  Senders = {t1}
  Shutters = {t1}
  LoopThread = loop
  MsgLen = 2
  MaxMessages = 2
  MaxForces = 1
  MaxConnects = 1
  MaxStops = 2
  Addresses = {1, 2}
  Delays = {0, 2}
  Intervals = {0, 1}
  MaxTimers = 2
  MaxCalls = 2
  MaxLate = 1
  Byte <- TwoBytes
  Zero <- Junk
  kCheapPrepend = 1
  kInitialSize = 2
  ExtraBuf = 14
  SizeModulus = 32
  MaxBytes = 2
  MaxSize = 4
  kHeaderLen = 1
  kMinMessageLen = 2
  kMaxMessageLen = 6
  BlockSize = 4
  MessageLens = {2, 3, 4, 5}
  MaxSent = 2
  Channels = {a, b, c}
  Fds = {0, 1, 2}
INVARIANTS
  OrderOnWire
  FlushedBeforeFin
  ConnAssertions
  LateSendsOnly
  ClientAssertions
  OneAttempt
  NoSocketLeak
  TimerTypeOK
  Armed
  CancelExact
  FramesInOrder
  WatchedAsAsked
PROPERTIES
  ClosedIsDestroyed
  TimersRun
  ImplementsByteQueue
CHECK_DEADLOCK FALSE
