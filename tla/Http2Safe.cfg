SPECIFICATION Spec
CONSTANTS
    Clients <- FiveClients
    BufferSize = 15
    LengthBase = 4
CHECK_DEADLOCK FALSE
INVARIANTS
    TypeOK
    TidyIsParsed
    ReturnedIsClosed
    AnswerIsOrdered
    SettingsAreReturned
PROPERTIES
    ConnectionEnds
