CONSTANTS
  DmaThreads = {t1}
  NoThread = NoThread
  Blocks = {1}
  Longest = 1
  ResetBlock = 1
  LongBlock = 3
  Ring = 3
  SemMax = 4
  Retries = 2
  Preempted = FALSE
  Calm = FALSE
  Commands = {"single", "auto", "rate"}
  t1 = t1
SPECIFICATION FairBeatSpec
CHECK_DEADLOCK FALSE
PROPERTY BeatReturns
