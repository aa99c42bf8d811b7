SPECIFICATION Spec
CONSTANTS
    MaxTime = 2
    NumTargets = 1
    Lookback = 2
    Skew = 0
    Limit = 2
    MaxOrphans = 0
    MaxRefusals = 1
INVARIANT RateLimitIsRetried
