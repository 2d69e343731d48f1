CONSTANTS
  MaxNested = 1
  PlanarIsRealMode = TRUE
  PortsTouchRegisters = FALSE
SPECIFICATION Spec
CHECK_DEADLOCK FALSE
INVARIANT TraceResumes
