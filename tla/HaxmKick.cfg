CONSTANT Workers = {w1, w2, w3}
SPECIFICATION FairSpec
INVARIANTS
  NeverDeaf
PROPERTIES
  TickServed
  IrqInjected
