SPECIFICATION Spec
CONSTANTS
    w1 = w1
    w2 = w2
    main = main
    acceptor = acceptor
    NoThread = NoThread
    Owner = main
    Workers <- TwoWorkers
    Submitters <- OnlyMain
    MaxJobs = 2
    MaxPhantoms = 1
    MaxWakes = 0
CHECK_DEADLOCK FALSE
INVARIANT EveryAcceptedJobRan
