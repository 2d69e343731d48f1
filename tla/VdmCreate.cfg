CONSTANTS
  Creators = {c1, c2}
  con = con
  Consoles = {con}
  ConsoleOf <- MCConsoleOf
  Wow = Wow
  Tasks = {t1}
  NoTask = NoTask
  Calls <- MCCalls
  Windows = {"XP", "later"}
  Detaching = {"later"}
  Fails <- MCFails
  OutOfProcesses = {"later"}
SPECIFICATION FairSpec
INVARIANTS
  NoOrphan
  ServedIsKnown
  NothingLeft
  SuccessIsReal
PROPERTIES
  Launches
  LoadingEnds
