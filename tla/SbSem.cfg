CONSTANTS
  DmaThreads = {t1}
  NoThread = NoThread
  Blocks = {1, 3}
  Longest = 3
  ResetBlock = 1
  LongBlock = 3
  Ring = 3
  SemMax = 1
  Retries = 2
  Preempted = FALSE
  Commands = {"single", "reset"}
  t1 = t1
SPECIFICATION FairSpec
CHECK_DEADLOCK FALSE
PROPERTY ResetReturns
