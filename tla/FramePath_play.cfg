SPECIFICATION PSpec
CONSTANTS
    Pushers = {p1}
    InputCap = 1
    MaxCached = 1
    WriteBufferSize = 2
    Times <- Overlapping
    ParseMayStop = TRUE
    MaxFrames = 3
    MaxStreams = 2
INVARIANTS
    RefsExact
    GopsWhole
CHECK_DEADLOCK FALSE
