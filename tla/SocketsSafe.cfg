SPECIFICATION FairSpec
CONSTANTS
    Body <- FiveBytes
    BufferSize = 13
    MaxTimeouts = 1
    Handshake = 2
    Records = 5
    RecordSize = 4
    BufferBytes = 4
    ReaderSizes = {2, 4, 6}
    Pieces <- ThreePieces
CHECK_DEADLOCK FALSE
INVARIANTS
    TypeOK
    WholeResponseDelivered
    BodyHasItsLength
    ArrayHolds
PROPERTIES
    ImplementsPipe
    RequestEnds
