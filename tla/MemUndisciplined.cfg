\* Clients that leave values out and use one name with both types; a panic in a
\* gRPC handler ends the process, and with it the behaviour.
CONSTANTS
    g = g
    h = h
    c = c
    IDs = {g, c}
    NoID = NoID
    Samples = {1, 2}
    Modulus = 2
    Nil = Nil
    Absent = Absent
    Reqs = {r1, r2}
    Free = Free
    Calls <- UndisciplinedCalls
SPECIFICATION FairSpec
PROPERTIES CellFixed Isolated IsRegistry EveryCallEnds
CHECK_DEADLOCK FALSE
