SPECIFICATION FairSpec
CONSTANTS
    MaxTime = 2
    NumTargets = 2
    Lookback = 1
    Skew = 0
    Limit = 2
    MaxOrphans = 1
    MaxRefusals = 2
INVARIANTS
    TypeOK
    SettledBelowCursor
    CursorNotAhead
    NoReplayDuplicate
    LogRowsAreBacked
PROPERTIES
    ImplementsLedger
    BacklogIsSettled
