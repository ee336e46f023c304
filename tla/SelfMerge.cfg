SPECIFICATION SelfFairSpec
CONSTANTS
  Checks = {"build"}
  Required = {"build"}
  Reviews <- SomeReviews
  MaxHead = 0
  Settings <- Defaults
  Errors = {"failed"}
CHECK_DEADLOCK FALSE
INVARIANTS
  PhaseMatchesRunner
PROPERTIES
  ParkedNotChurned
  ReadyIsMerged
