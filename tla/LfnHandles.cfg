CONSTANTS
  Pdbs = {p0, p1}
  Shell = p0
  NoPdb = NoPdb
  Finds = {f1, f2, f3, f4}
  Initial = 2
  Growth = 1
  Limit = 4
  Garbage = {0, 5}
  HandleUnit = 1
SPECIFICATION FairSpec
INVARIANTS
  FreeListSound
  OneFindEach
PROPERTIES
  KeepsPromise
  ServicesReturn
