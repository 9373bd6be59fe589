SPECIFICATION Spec
CONSTANTS
    Files = {f}
    Existing = {f}
    Writers = {w1}
    Conns = {c1}
    Ops = {"UPDATE"}
    Batches <- OneStamp
    Journaling = TRUE
    FlushAtShutdown = FALSE
    WriteInterval = 1
    WriteJitter = 0
    FlushInterval = 2
    NoFile = NoFile
    MaxCmds = 2
    MaxPipeline = 1
    MaxClock = 4
    MaxRotateDelay = 0
    MaxSignals = 1
    MaxRestarts = 0
    MaxWriteErrors = 0
    MaxJournalErrors = 0
PROPERTIES
    NoInformationLost
CHECK_DEADLOCK FALSE
