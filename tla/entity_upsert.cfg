SPECIFICATION FairSpec
CONSTANTS
    Callers = {c1, c2, c3}
    MaxForeign = 2
    MaxLate = 2
    MaxDeletes = 1
INVARIANTS
    TypeOK
    NoOwnDuplicate
    AgreedId
    IdentityOutlivesRestarts
PROPERTY WaitersAreReleased
