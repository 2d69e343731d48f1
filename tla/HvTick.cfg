CONSTANTS
  Workers = {w1}
  PitThreads = {}
  Lines = {0}
  StuckIters = 1
  DeferCap = 1
  MaxNested = 0
  GuestExits = {"other"}
SPECIFICATION Spec
INVARIANT TickNoticed
