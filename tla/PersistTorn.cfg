\* Is every table the server serves one that was saved in full?
CONSTANTS
    http = http
    grpc = grpc
    r1 = r1
    r2 = r2
    Savers = {http, grpc}
    Reqs = {r1}
    Free = Free
    NoKey = NoKey
    Broken = Broken
    NoConfig = NoConfig
    Settings <- MemoryTimed
    MaxVer = 2
SPECIFICATION Spec
SYMMETRY Symmetry
INVARIANT ServesWhatWasSaved
CHECK_DEADLOCK FALSE
