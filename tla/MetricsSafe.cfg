\* Five calls of the application around and during the pages of one reader.
CONSTANTS
    Threads = {t1, t2}
    Readers = {r1}
    Series <- SomeSeries
    Profile <- SomeProfile
    Metrics <- SomeMetrics
    Owner <- SomeOwner
    Values = {9, 10}
    BufferSize = 1024
    Low = 4
    High = 10
    NumBuckets = 3
    MaxCalls = 5
SPECIFICATION Spec
INVARIANTS
    TypeOK
    CarefulUseIsDefined
    PageIsComplete
    CountersAreCurrent
\* The program may go wrong for good, and the application's calls are bounded.
CHECK_DEADLOCK FALSE
