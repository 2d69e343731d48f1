CONSTANTS
  DmaThreads = {t1, t2}
  NoThread = NoThread
  Blocks = {1}
  Longest = 1
  ResetBlock = 1
  LongBlock = 3
  Ring = 3
  SemMax = 4
  Retries = 2
  Preempted = TRUE
  Commands = {"single", "reset"}
  t1 = t1
  t2 = t2
SPECIFICATION Spec
INVARIANT StopWaits
