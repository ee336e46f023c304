SPECIFICATION ItemFairSpec
CONSTANTS
  MaxReplies = 3
  MaxCommands = 1
  MaxSecond = 2
  CallsFail = TRUE
  Skews = {0}
  Restarts = TRUE
CHECK_DEADLOCK FALSE
PROPERTIES
  NoStaleVerdict
  OutIsNoticed
  MergeIsNoticed
