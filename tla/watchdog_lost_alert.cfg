SPECIFICATION Spec
CONSTANTS
    MaxStreams = 2
    Percent = 100
    Interval = 2
INVARIANT ReceiverKnowsStatus
