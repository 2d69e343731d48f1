CONSTANTS
  DmaThreads = {t1}
  NoThread = NoThread
  Blocks = {1}
  Longest = 1
  ResetBlock = 1
  LongBlock = 3
  Ring = 3
  SemMax = 4
  Retries = 2
  Preempted = FALSE
  Commands = {"auto", "rate", "early", "heal"}
  t1 = t1
SPECIFICATION FairSpec
CHECK_DEADLOCK FALSE
PROPERTY HealEnds
