CONSTANTS
  MaxNested = 1
  PlanarIsRealMode = FALSE
  PortsTouchRegisters = FALSE
SPECIFICATION Spec
CHECK_DEADLOCK FALSE
INVARIANT HandlersCurrent
