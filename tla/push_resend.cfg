SPECIFICATION Spec
CONSTANTS
    Handlers = {h1, h2}
    Batches <- SharedReading
    NumTargets = 1
    MaxRefusals = 0
SYMMETRY HandlerSymmetry
INVARIANTS
    ResendIsSafe
