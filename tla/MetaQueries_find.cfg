SPECIFICATION QSpec
CONSTANTS
  CacheCap = 1
  QueueCap = 3
  Times = {2, 3}
  FileSeqs = {0}
  Rows0 <- OneRow
  MaxSeq = 3
  MaxTime = 4
  LoseAcks = FALSE
  GrowMayFail = FALSE
  Points = {1, 2, 3, 4}
  Limits <- SomeLimits
INVARIANTS FindExact
CHECK_DEADLOCK FALSE
