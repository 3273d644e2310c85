SPECIFICATION FairSpec
CONSTANTS
    w1 = w1
    w2 = w2
    main = main
    acceptor = acceptor
    NoThread = NoThread
    Owner = main
    Workers <- TwoWorkers
    Submitters <- OnlyAcceptor
    MaxJobs = 3
    MaxPhantoms = 2
    MaxWakes = 1
CHECK_DEADLOCK FALSE
PROPERTIES
    ImplementsExecutor
    AcceptedJobRuns
    CloseReturns
INVARIANTS
    TypeOK
    LockDiscipline
    WaitReturnsAfterLastWorker
