\* Two workers on channels of capacity two, two gathering goroutines of each
\* kind, and two moments to read at.
CONSTANTS
    w1 = w1
    w2 = w2
    w3 = w3
    m1 = m1
    m2 = m2
    t1 = t1
    t2 = t2
    Workers = {w1, w2}
    NumJobs = 2
    MemTasks = {m1, m2}
    RtTasks = {t1, t2}
    MaxTime = 2
SPECIFICATION Spec
INVARIANTS TypeOK NoTornReport RoomForResults
PROPERTY MemoryReadingsInOrder
SYMMETRY Symmetry
CHECK_DEADLOCK FALSE
