SPECIFICATION DashFairSpec
CONSTANTS
  Search <- Three
  Facts <- SomeFacts
  MinApprovals = 1
  Width = 2
  TeamQueue = TRUE
  Unsteady = {"a"}
INVARIANTS
  DashTypeOK
  LoadedMeansList
PROPERTIES
  TriageIsTrue
  ListIsWhole
  PokeIsServed
  LoopReturns
