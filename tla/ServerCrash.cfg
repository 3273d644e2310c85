SPECIFICATION Spec
CONSTANTS
    MaxConns = 2
    Slots = {s1}
    FdLimit = 2
    MaxEvents = 1
    CanStop = FALSE
CHECK_DEADLOCK FALSE
INVARIANT ServerSurvives
