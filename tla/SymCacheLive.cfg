CONSTANTS
  t1 = t1 t2 = t2 p1 = p1 p2 = p2
  kernel32 = kernel32 kernel32wow = kernel32wow appinfo = appinfo native = native user = user
  Threads = {t1}
  Processes = {p1}
  ProcessOf <- MCProcessOf
  Modules = {kernel32, appinfo}
  Order <- MCOrder
  Places = {native, user}
  PlaceOf <- MCPlaceOf
  LastKey <- MCLastKey
  MaxKey = 2
  Versions = {1, 2}
  Matched = {appinfo}
  PdbLacks <- MCAppinfoLacks
  SigLacks <- MCNothing
  Rollback = FALSE
  MaxUpdates = 2
  MaxKills = 1
  None = None
SPECIFICATION FairSpec
PROPERTY WorksAgain
