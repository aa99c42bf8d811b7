SPECIFICATION FairSpec
CONSTANTS
    MaxStreams = 5
    Percent = 2
    Interval = 2
INVARIANT TypeOK
PROPERTIES
    StaleNeedsTwoTicks
    OneAlertPerEntry
    StaleIsSustained
    StatusConverges
