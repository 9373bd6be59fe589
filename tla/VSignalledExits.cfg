SPECIFICATION FairSpec
CONSTANTS
    Files = {f}
    Existing = {f}
    Writers = {w1, w2}
    Conns = {c1, c2}
    Ops = {"UPDATE", "FLUSH", "FORGET", "FLUSHALL"}
    Batches <- OneStamp
    Journaling = FALSE
    FlushAtShutdown = TRUE
    WriteInterval = 1
    WriteJitter = 0
    FlushInterval = 1
    NoFile = NoFile
    MaxCmds = 2
    MaxPipeline = 1
    MaxClock = 0
    MaxRotateDelay = 0
    MaxSignals = 1
    MaxRestarts = 0
    MaxWriteErrors = 0
    MaxJournalErrors = 0
PROPERTIES
    SignalledDaemonExits
CHECK_DEADLOCK FALSE
