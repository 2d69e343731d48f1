CONSTANTS
  DmaThreads = {t1}
  NoThread = NoThread
  Blocks = {1, 3}
  Longest = 3
  ResetBlock = 1
  LongBlock = 3
  Ring = 3
  SemMax = 4
  Retries = 2
  Preempted = FALSE
  Calm = TRUE
  Commands = {"single", "auto", "size", "rate", "exitAuto", "query", "heal", "reset"}
  t1 = t1
SPECIFICATION FairBeatSpec
CHECK_DEADLOCK FALSE
INVARIANTS
  AutoAlive
  QueriesHaveBlock
PROPERTIES
  ResetReturns
  BlockEnds
