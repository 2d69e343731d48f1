CONSTANTS
  MaxNested = 1
  PlanarIsRealMode = TRUE
  PortsTouchRegisters = TRUE
SPECIFICATION Spec
CHECK_DEADLOCK FALSE
INVARIANT GuestCurrent
