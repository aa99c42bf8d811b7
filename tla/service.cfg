SPECIFICATION FairSpec
CONSTANTS
    Streams = {"s1", "s2", "d1"}
    Listings <- TwoAdapters
    Requests = {"ping", "batch", "other"}
    At <- PingAndPush
    MaxRepeat = 2
INVARIANTS
    TypeOK
    StoreOutlivesTheLoops
    OverlapNeedsARepeat
    DrainIsComplete
PROPERTY ShutdownCompletes
