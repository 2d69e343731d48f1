CONSTANTS
  Creators = {c1, c2}
  con = con
  Consoles = {con}
  ConsoleOf <- MCConsoleOf
  Wow = Wow
  Tasks = {t1}
  NoTask = NoTask
  Calls <- MCCalls
  Windows = {"XP"}
  Detaching = {}
  Fails <- MCNoFails
  OutOfProcesses = {"XP"}
SPECIFICATION Spec
INVARIANT SuccessIsReal
