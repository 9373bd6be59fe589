CONSTANTS
    Procs = {1, 2, 3}
    Conns = {1, 2, 3}
    Jobs <- MCJobs
    RbufSize = 4
    Stale = Stale
    None = None
SPECIFICATION FairSpec
CHECK_DEADLOCK FALSE
INVARIANTS
    TypeOK
    OneDaemon
    RepliesMatchRequests
    BatchReportsFailures
    OutcomesAreTrue
    NamedDaemonOnly

    
    
