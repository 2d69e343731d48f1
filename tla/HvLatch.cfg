CONSTANTS
  Workers = {w1}
  PitThreads = {}
  Lines = {0}
  StuckIters = 1
  DeferCap = 2
  MaxNested = 0
  GuestExits = {"vramRead", "other"}
SPECIFICATION Spec
PROPERTY LatchProtected
