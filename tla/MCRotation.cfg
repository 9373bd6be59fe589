SPECIFICATION Spec
CONSTANTS
    Files = {f}
    Existing = {f}
    Writers = {w1}
    Conns = {c1}
    Ops = {"UPDATE", "FORGET"}
    Batches <- OneStamp
    Journaling = TRUE
    FlushAtShutdown = FALSE
    WriteInterval = 1
    WriteJitter = 2
    FlushInterval = 3
    NoFile = NoFile
    MaxCmds = 3
    MaxPipeline = 1
    MaxClock = 6
    MaxRotateDelay = 1
    MaxSignals = 0
    MaxRestarts = 0
    MaxWriteErrors = 0
    MaxJournalErrors = 1
INVARIANTS
    RotationSafe
CHECK_DEADLOCK FALSE
