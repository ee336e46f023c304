SPECIFICATION RunnerFairSpec
CONSTANTS
  Checks = {"build"}
  Required = {"build"}
  Reviews <- FewReviews
  MaxHead = 1
  Settings <- Defaults
  Errors = {"limited"}
CHECK_DEADLOCK FALSE
PROPERTIES
  OnlyDeadEndsDecline
  RunReturns
