SPECIFICATION WFairSpec
CONSTANTS
  BufferSize = 2
  MaxSyncReqs = 1
  FileSize = 2
  MaxBlocks = 3
  Scenes <- MCScenes
INVARIANTS NothingLost BuffersConserved 
PROPERTY EventuallyIndexed
