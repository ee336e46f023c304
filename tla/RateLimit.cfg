SPECIFICATION RateFairSpec
CONSTANTS
  MaxWait = 2
  Retries = 3
  Grace = 1
  LongestWait = 3
  Ahead = {0, 1}
CHECK_DEADLOCK FALSE
INVARIANTS
  RateTypeOK
  LimitedDidNothing
  LimitIsRidden
PROPERTIES
  BodyIsResent
  ContextEnds
