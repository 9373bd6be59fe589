SPECIFICATION Spec
CONSTANTS
    Files = {f, g}
    Existing = {f}
    Writers = {w1}
    Conns = {c1, c2}
    Ops = {"UPDATE", "FLUSH", "FLUSHALL", "FORGET"}
    Batches <- Pairs
    Journaling = TRUE
    FlushAtShutdown = TRUE
    WriteInterval = 1
    WriteJitter = 0
    FlushInterval = 1
    NoFile = NoFile
    MaxCmds = 2
    MaxPipeline = 1
    MaxClock = 1
    MaxRotateDelay = 0
    MaxSignals = 1
    MaxRestarts = 1
    MaxWriteErrors = 1
    MaxJournalErrors = 0
INVARIANTS
    LedgerExact
    ReplayRestoresCache
SYMMETRY ConnsAlike
CHECK_DEADLOCK FALSE
