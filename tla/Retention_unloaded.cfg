SPECIFICATION RSpec
CONSTANTS
  CacheCap = 2
  QueueCap = 2
  Times = {1}
  FileSeqs = {0, 1, 2, 3}
  Rows0 <- OneFile
  MaxSeq = 3
  MaxTime = 5
  LoseAcks = FALSE
  GrowMayFail = FALSE
  Cover = 1
  DeleteCap = 2
  Files0 = {1}
  MaxNow = 4
INVARIANT DeletedUnreferenced
CHECK_DEADLOCK FALSE
