SPECIFICATION FairSpec
CONSTANTS
    t1 = t1
    t2 = t2
    t3 = t3
    Threads = {t1, t2}
    Width = 8
    MaxCalls = 3
INVARIANTS TypeOK WritersExclude DepthsExact CountersExact
PROPERTY Returns
CHECK_DEADLOCK FALSE
