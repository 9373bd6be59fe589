SPECIFICATION FairSpec
CONSTANTS
    Files = {f}
    Existing = {f}
    Writers = {w1, w2}
    Conns = {c1, c2}
    Ops = {"UPDATE", "FLUSH", "FORGET", "FLUSHALL"}
    Batches <- OneStamp
    Journaling = FALSE
    FlushAtShutdown = TRUE
    WriteInterval = 1
    WriteJitter = 0
    FlushInterval = 1
    NoFile = NoFile
    MaxCmds = 3
    MaxPipeline = 1
    MaxClock = 1
    MaxRotateDelay = 0
    MaxSignals = 0
    MaxRestarts = 0
    MaxWriteErrors = 0
    MaxJournalErrors = 0
INVARIANTS
    TypeOK
    QueueOK
    WaiterServed
    NoSleepingWriters
PROPERTIES
    FlushAnswered
CHECK_DEADLOCK FALSE
