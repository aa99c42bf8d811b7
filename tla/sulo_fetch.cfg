SPECIFICATION FetchFairSpec
CONSTANTS
    Workers = {w1, w2}
    MaxTokens = 2
    Fetcher = w1
    InitialLists <- TwoPages
    Undecodable = 4
    MaxRow = 4
    PageSize = 2
    MaxPages = 2
    RowLimits = {0, 1, 3}
INVARIANTS
    FetchTypeOK
    NoLiveTokenDropped
    NothingSkipped
    RepeatsNeedAnInsertion
PROPERTY GetReturns
