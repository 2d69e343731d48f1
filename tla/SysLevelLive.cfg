CONSTANTS
  Threads = {t1, t2}
  NoThread = NoThread
  Handles = {h1, h2}
  NoHandle = NoHandle
  MaxWaiters = 2
  MaxDepth = 2
  MaxNested = 1
SPECIFICATION FairSpec
PROPERTIES
  YieldKeepsDepth
  ParkedTaskResumes
