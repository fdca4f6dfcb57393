SPECIFICATION RFairSpec
CONSTANTS
  CacheCap = 2
  QueueCap = 2
  Times = {1}
  FileSeqs = {0, 1, 2}
  Rows0 <- TwoFiles
  MaxSeq = 4
  MaxTime = 3
  LoseAcks = FALSE
  GrowMayFail = FALSE
  Cover = 1
  DeleteCap = 2
  Files0 = {1, 2}
  MaxNow = 3
INVARIANTS OnlyExpiredMarked MarksWhatItChecked 
PROPERTY EventuallyReclaimed
CHECK_DEADLOCK FALSE
