SPECIFICATION HFairSpec
CONSTANTS
  Stored <- ThreeBlocks
  Known0 = 2
  StartTime = 1
  EndTime = 6
  CacheCap = 2
  BufferCap = 1
  FindMayFail = TRUE
  Seeks = {0, 9}
  MayFail = TRUE
  MaxCommands = 1
INVARIANTS CursorExact  ToldOnce
CHECK_DEADLOCK FALSE
PROPERTIES CloseTerminates PlaysToEnd
