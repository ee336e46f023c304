SPECIFICATION RunnerSpec
CONSTANTS
  Checks = {"lint", "build"}
  Required = {"build"}
  Reviews <- AllReviews
  MaxHead = 2
  Settings <- AllSettings
  Errors = {"limited", "failed"}
CHECK_DEADLOCK FALSE
PROPERTIES
  MergesOnlyReady
  VerdictsAreTrue
  UpdatesAreNeeded
  DryRunTouchesNothing
