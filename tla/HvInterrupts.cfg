CONSTANTS
  Workers = {w1}
  PitThreads = {pit}
  Lines = {0, 1}
  StuckIters = 1
  DeferCap = 1
  MaxNested = 1
  GuestExits = {"eoi", "io", "other", "fault", "unsimulate", "halt"}
SPECIFICATION Spec
INVARIANTS AckedNotLost RequestIsFlag CancelBacked
