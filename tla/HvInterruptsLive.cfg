CONSTANTS
  Workers = {w1}
  PitThreads = {}
  Lines = {0}
  StuckIters = 2
  DeferCap = 1
  MaxNested = 1
  GuestExits = {"eoi", "io", "other", "stringOut", "halt", "vramRead"}
SPECIFICATION FairSpec
PROPERTIES
  TickServed
  IrqInjected
