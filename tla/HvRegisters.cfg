CONSTANTS
  MaxNested = 1
  PlanarIsRealMode = TRUE
  PortsTouchRegisters = FALSE
SPECIFICATION Spec
CHECK_DEADLOCK FALSE
INVARIANTS
  GuestCurrent
  HandlersCurrent
