SPECIFICATION FairSpec
CONSTANTS
    e1 = e1
    e2 = e2
    e3 = e3
    e4 = e4
    e5 = e5
    Entries = {e1, e2, e3, e4, e5}
    BufferSize = 2
    MaxBufferSize = 3
    HasDatabase = TRUE
    CallsShutdown = TRUE
INVARIANTS
    InOnePlace
    NothingDropped
    ShutdownRecords
PROPERTIES
    EntryRecorded
CHECK_DEADLOCK FALSE
