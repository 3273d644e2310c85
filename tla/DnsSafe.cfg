SPECIFICATION FairSpec
CONSTANTS
    Threads = {"t1", "t2"}
    Lines <- TwoLines
    Unusable = {"::1"}
    Answers <- SomeAnswers
    Ports = {"p1", "p2"}
    MaxFaults = 3
CHECK_DEADLOCK FALSE
INVARIANTS
    TypeOK
    WholeAddressIsRead
    AnswerIsOwn
PROPERTIES
    AddressIsConfigured
    LookupAdvances
