SPECIFICATION FairSpec
CONSTANTS
    MaxConns = 3
    Slots = {s1}
    FdLimit = 2
    MaxEvents = 1
    CanStop = TRUE
CHECK_DEADLOCK FALSE
INVARIANTS
    TypeOK
    OpenIsOwned
    StopLeavesOneConnection
    ClosedIsComplete
PROPERTY QueuedIsClosed
