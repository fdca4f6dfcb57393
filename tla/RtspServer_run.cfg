SPECIFICATION FairSpec
CONSTANTS
  c1 = c1
  c2 = c2
  a1 = a1
  Conns = {c1, c2}
  Ids = {"a", "b"}
  MaxRequests = 4
  MaxLine = 6
  MaxHeader = 9
  MaxContent = 5
  Scenes <- MCScenes
INVARIANTS
  RequestsExact
  NothingForgotten
PROPERTY
  AllEnd
CHECK_DEADLOCK FALSE
