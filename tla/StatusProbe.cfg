SPECIFICATION ProbeSpec
CONSTANTS
  Prober = {"u", "v"}
  Lengths = {0, 1}
  WaitFor = 1
  CtxTimeout = 3
  MaxUnread = 2
  MaxReplies = 2
  MaxHistory = 1
  StatsFaults = TRUE
  NoLength = NoLength
INVARIANTS
  ProbeTypeOK
  ShownIsSaved
PROPERTIES
  ProbeIsFresh
  AnswerIsFound
