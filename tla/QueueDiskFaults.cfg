SPECIFICATION Spec
CONSTANTS
  PRs = {n1}
  Ptr = {p1, p2, p3}
  Worker = {w1, w2}
  Client = {c1}
  Concurrency = 2
  MergeQueueMode = TRUE
  Recheck = TRUE
  DiskFaults = TRUE
  ClearSets <- OneClear
  None = None
SYMMETRY Symmetry
INVARIANTS
  NumbersUnique
  ActiveIsDriven
PROPERTIES
  FailedNeedsRetry
