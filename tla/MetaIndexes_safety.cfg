SPECIFICATION Spec
CONSTANTS
  CacheCap = 2
  QueueCap = 2
  Times = {1, 2}
  FileSeqs = {0}
  Rows0 <- NoRows
  MaxSeq = 3
  MaxTime = 2
  LoseAcks = TRUE
  GrowMayFail = TRUE
INVARIANTS TypeOK FullTailDropped CacheHasRoom HeadsStable OneTimeline NoLostWakeup
PROPERTIES OnlyMarkedDeleted ImplementsLog
