SPECIFICATION FairLoopSpec
CONSTANTS
  t1 = t1
  Threads = {t1}
  MaxFunctors = 1
PROPERTIES
  QuitIsHeeded
CHECK_DEADLOCK FALSE
