SPECIFICATION Spec
CONSTANTS
  PRs = {n1, n2}
  Ptr = {p1, p2, p3}
  Worker = {w1}
  Client = {c1}
  Concurrency = 1
  MergeQueueMode = FALSE
  Recheck = TRUE
  DiskFaults = FALSE
  ClearSets <- Clears
  None = None
SYMMETRY Symmetry
INVARIANTS
  TypeOK
  NoLostWakeup
PROPERTIES
  CrashLosesNothing
  StoppedIsSticky
  ImplementsQueue
