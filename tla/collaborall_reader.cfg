SPECIFICATION FairSpec
CONSTANTS
    Streams = {"busy", "quiet"}
    MaxTime = 3
    Slots <- BusyAndQuiet
    Lookback = 1
    Skew = 0
    PageLimit = 2
    ChunkSize = 2
    PushSize = 2
INVARIANTS
    TypeOK
    CursorIsBacked
    FileIsAPast
PROPERTY BacklogDrains
