CONSTANTS
  t1 = t1 t2 = t2 p1 = p1 p2 = p2
  kernel32 = kernel32 kernel32wow = kernel32wow appinfo = appinfo native = native user = user
  Threads = {t1, t2}
  Processes = {p1, p2}
  ProcessOf <- MCProcessOf
  Modules = {kernel32, appinfo}
  Order <- MCOrder
  Places = {native, user}
  PlaceOf <- MCPlaceOf
  LastKey <- MCLastKey
  MaxKey = 2
  Versions = {1, 2}
  Matched = {appinfo}
  PdbLacks <- MCPdbLacks
  SigLacks <- MCSigLacks
  Rollback = FALSE
  MaxUpdates = 1
  MaxKills = 1
  None = None
SPECIFICATION Spec
SYMMETRY MCSymmetry
INVARIANTS
  FreshIsRight
  ResolvedIsRight
PROPERTY NotFetchedAgain
