SPECIFICATION FairSpec
CONSTANTS
    w1 = w1
    w2 = w2
    main = main
    acceptor = acceptor
    NoThread = NoThread
    Owner = main
    Workers <- OneWorker
    Submitters <- OnlyMain
    MaxJobs = 1
    MaxPhantoms = 0
    MaxWakes = 0
CHECK_DEADLOCK FALSE
PROPERTY WaitReturns
