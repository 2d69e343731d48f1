CONSTANTS
  Pdbs = {p0}
  Shell = p0
  NoPdb = NoPdb
  Finds = {f1, f2}
  Initial = 2
  Growth = 1
  Limit = 4
  Garbage = {0}
  HandleUnit = 2
SPECIFICATION Spec
PROPERTY KeepsPromise
