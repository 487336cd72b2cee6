SPECIFICATION FairBaseSpec
CONSTANTS
  Threads = {t1, t2}
  MaxFunctors = 5
  Workers = {w1, w2}
  Producers = {p1, p2, p3}
  MaxQueueSize = 2
  MaxTasks = 5
  DbThreads = {d1, d2}
  MaxInUseConns = 0
  MaxCounter = 3
  MaxQueries = 3
  MaxStale = 1
  LinesPerBuffer = 1
  MaxBuffers = 2
  MaxLines = 6
INVARIANTS
  AwakeForWork
  InOrder
  NoLostNotify
  JoinDrains
  NoLineLost
PROPERTIES
  FunctorsRun
  QuitEndsLoop
  StopReturns
  QueriesDone
  LinesWritten
CHECK_DEADLOCK FALSE
