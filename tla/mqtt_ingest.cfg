SPECIFICATION MqttFairSpec
CONSTANTS
    MaxTime = 2
    NumTargets = 2
    Lookback = 2
    Skew = 0
    Limit = 2
    MaxOrphans = 0
    MaxRefusals = 0
    MaxCopies = 1
    MaxLost = 1
INVARIANTS
    AcknowledgedBelowCursor
    ResendNeedsATornWrite
    FreshnessTracksLog
PROPERTY BacklogReachesFrost
