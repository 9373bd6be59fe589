CONSTANTS
    NaN = NaN
    U = U
    Bad = Bad
    Inf = 100000000
    Unit = 1024
    LibM <- MCLibM
    Permille <- MCPermille
    ShrtMax = 100
    Wrap32 = 4
    Wrap64 = 12
    MinStart = 1
    MinFetchStart = 1
    FnvHash = 1
    ComputeMeaning <- MCCompute
    Requests <- HwRequests
    Updates <- HwUpdates
    Tunings <- HwTunings
    Resizings = {}
    Restores = {FALSE}
    MaxCommands = 5
    Fetches = {}
SPECIFICATION Spec
INVARIANTS
    AberrantMatchesModel
    RestoreIsFaithful
CHECK_DEADLOCK FALSE
