SPECIFICATION SFairSpec
CONSTANTS
  Clients = {1, 2}
  Channels = {1, 2, 3}
  Players = {1, 2, 3}
  Streams = {1, 2, 3, 4}
  Storages = {1, 2}
  Pushers = {1, 2, 3}
  Ports = 1
  Scenes <- MCScenes
INVARIANTS Reachable ClosedClean NotTakenOver
PROPERTIES WaitsEnd Recovers
CHECK_DEADLOCK FALSE
