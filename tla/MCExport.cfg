CONSTANTS
    NaN = NaN
    U = U
    Bad = Bad
    Unit = 100
    Inf = 1000000000
    ShrtMax = 9
    MinFetchStart = 86400
    LibM <- MCLibM
    Requests <- MCRequests
    Versions <- MCVersions
    Strays <- MCStrays
SPECIFICATION Spec
CHECK_DEADLOCK FALSE
INVARIANTS
    ColumnsMatchArchives
    
    PrintsAgree
    PictureShowsData
    RangeHoldsPicture
    ExportAligned
    
PROPERTIES
    ExpressionsFollowTime
    SummariesAgree
