SPECIFICATION FairSpec
CONSTANTS
  PRs = {n1, n2}
  Ptr = {p1, p2}
  Worker = {w1}
  Client = {c1}
  Concurrency = 1
  MergeQueueMode = FALSE
  Recheck = TRUE
  DiskFaults = FALSE
  ClearSets = {}
  None = None
PROPERTIES
  QueueDrains
  RunReturns
