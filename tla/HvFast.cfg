CONSTANTS
  Workers = {}
  PitThreads = {}
  Lines = {0, 1}
  StuckIters = 1
  DeferCap = 1
  MaxNested = 0
  GuestExits = {"eoi", "io", "other"}
SPECIFICATION Spec
INVARIANT RacedIrqCancels
