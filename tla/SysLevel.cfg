CONSTANTS
  Threads = {t1, t2, t3}
  NoThread = NoThread
  Handles = {h1, h2, h3}
  NoHandle = NoHandle
  MaxWaiters = 2
  MaxDepth = 2
  MaxNested = 0
SPECIFICATION Spec
SYMMETRY Symmetry
INVARIANTS
  TypeOK
  MutualExclusion
  SleepersOwnNothing
  NoOrphanedEvent
  HandlesFresh
PROPERTIES
  Scheduled
