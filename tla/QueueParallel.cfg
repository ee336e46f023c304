SPECIFICATION Spec
CONSTANTS
  PRs = {n1, n2}
  Ptr = {p1, p2, p3, p4}
  Worker = {w1, w2}
  Client = {c1}
  Concurrency = 2
  MergeQueueMode = FALSE
  Recheck = FALSE
  DiskFaults = FALSE
  ClearSets <- OneClear
  None = None
SYMMETRY Symmetry
INVARIANTS
  LiveWorkerStoppable
  NoStaleCancel
  OneLiveWorkerPerPR
