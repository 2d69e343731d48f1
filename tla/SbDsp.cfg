CONSTANTS
  DmaThreads = {t1, t2}
  NoThread = NoThread
  Blocks = {1, 3}
  Longest = 3
  ResetBlock = 1
  LongBlock = 3
  Ring = 3
  SemMax = 4
  Retries = 2
  Preempted = FALSE
  Commands = {"single", "auto", "size", "rate", "keepRate", "pause", "exitAuto", "masked", "query", "reset"}
  t1 = t1
  t2 = t2
SPECIFICATION Spec
SYMMETRY Symmetry
CHECK_DEADLOCK FALSE
INVARIANTS
  OneDma
  InStep
  NeverStarved
PROPERTIES
  ResetIsComplete
  InterruptOwed
