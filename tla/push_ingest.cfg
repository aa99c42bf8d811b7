SPECIFICATION Spec
CONSTANTS
    Handlers = {h1, h2}
    Batches <- SharedReading
    NumTargets = 1
    MaxRefusals = 1
SYMMETRY HandlerSymmetry
INVARIANTS
    TypeOK
    LogRowsAreBacked
    FreshnessTracksLog
    DuplicatesNeedARace
PROPERTY AckIsDurable
