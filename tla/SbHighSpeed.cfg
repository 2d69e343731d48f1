CONSTANTS
  DmaThreads = {t1}
  NoThread = NoThread
  Blocks = {1, 2}
  Longest = 2
  ResetBlock = 2
  LongBlock = 3
  Ring = 3
  SemMax = 4
  Retries = 2
  Preempted = FALSE
  Commands = {"single", "hiAuto", "reset"}
  t1 = t1
SPECIFICATION FairSpec
CHECK_DEADLOCK FALSE
PROPERTY ResetReturns
