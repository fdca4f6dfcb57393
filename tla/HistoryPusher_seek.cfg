SPECIFICATION HSpec
CONSTANTS
  Stored <- ThreeBlocks
  Known0 = 3
  StartTime = 1
  EndTime = 6
  CacheCap = 2
  BufferCap = 1
  FindMayFail = FALSE
  Seeks = {0, 1, 3}
  MayFail = FALSE
  MaxCommands = 1
INVARIANT BlocksInOrder
CHECK_DEADLOCK FALSE
