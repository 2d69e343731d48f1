CONSTANTS
  Creators = {c1, c2}
  con = con
  Consoles = {con}
  ConsoleOf <- MCConsoleOf
  Wow = Wow
  Tasks = {t1}
  NoTask = NoTask
  Calls <- MCForced
  Windows = {"XP"}
  Detaching = {}
  Fails <- MCNoFails
  OutOfProcesses = {}
SPECIFICATION Spec
INVARIANT NoOrphan
