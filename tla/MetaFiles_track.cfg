SPECIFICATION FSpec
CONSTANTS
  RingCap = 3
  DeleteLast = FALSE
  DBMayFail = TRUE
  Crashes = TRUE
  MaxFileSeq = 3
  MaxVer = 1
INVARIANTS  UpdatesTracked AsyncNeverBlocks NoTaskForgotten
