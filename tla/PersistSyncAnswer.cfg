\* StoreInterval = 0: is an answered update in the file?
CONSTANTS
    http = http
    grpc = grpc
    r1 = r1
    r2 = r2
    Savers = {http, grpc}
    Reqs = {r1}
    Free = Free
    NoKey = NoKey
    Broken = Broken
    NoConfig = NoConfig
    Settings <- MemorySync
    MaxVer = 2
SPECIFICATION Spec
SYMMETRY Symmetry
INVARIANT SavedWhenAnswered
CHECK_DEADLOCK FALSE
