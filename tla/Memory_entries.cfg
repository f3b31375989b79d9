CONSTANTS
  t1 = t1
  t2 = t2
  p1 = p1
  p2 = p2
  Threads = {t1, t2}
  Handles = {h1, h2, h3}
  Paths = {p1, p2}
  Contents = {c1, c2}
  None = None
  PathsOf <- OwnPaths
  CloseShared = FALSE
  EndFailed = FALSE
  MaxCalls = 3
SPECIFICATION FairSpec
INVARIANTS OpenMeansRegistered CountedAndRegistered WaitsEnd
PROPERTY EveryCallReturns
CHECK_DEADLOCK FALSE
