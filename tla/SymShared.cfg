CONSTANTS
  t1 = t1 t2 = t2 p1 = p1 p2 = p2
  kernel32 = kernel32 kernel32wow = kernel32wow appinfo = appinfo native = native user = user
  Threads = {t1}
  Processes = {p1}
  ProcessOf <- MCProcessOf
  Modules = {kernel32, kernel32wow}
  Order <- MCWowOrder
  Places = {user}
  PlaceOf <- MCOnePlace
  LastKey <- MCTwoKeys
  MaxKey = 2
  Versions = {1, 2}
  Matched = {}
  PdbLacks <- MCNothing
  SigLacks <- MCNothing
  Rollback = FALSE
  MaxUpdates = 0
  MaxKills = 0
  None = None
SPECIFICATION Spec
PROPERTY NotFetchedAgain
