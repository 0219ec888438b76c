\* One worker: RateLimit = 1.
CONSTANTS
    w1 = w1
    w2 = w2
    w3 = w3
    m1 = m1
    m2 = m2
    t1 = t1
    t2 = t2
    Workers = {w1}
    NumJobs = 1
    MemTasks = {m1}
    RtTasks = {t1}
    MaxTime = 1
SPECIFICATION FairSpec
PROPERTY KeepsReporting
CHECK_DEADLOCK FALSE
