CONSTANTS
    NaN = NaN
    U = U
    Bad = Bad
    Inf = 100000000
    Unit = 3600
    LibM <- MCLibM
    Permille <- MCPermille
    ShrtMax = 100
    Wrap32 = 4
    Wrap64 = 12
    MinStart = 1
    MinFetchStart = 1
    FnvHash = 1
    ComputeMeaning <- MCCompute
    Requests <- PlainRequests
    Updates <- PlainUpdates
    Tunings <- PlainTunings
    Resizings <- PlainResizings
    Restores = {TRUE, FALSE}
    MaxCommands = 4
    Fetches <- PlainFetches
SPECIFICATION Spec
INVARIANTS
    TypeOK
    ArchiveMatchesHistory
    FetchAgreesWithHistory
    ReadersAgreeWithHistory
CHECK_DEADLOCK FALSE
