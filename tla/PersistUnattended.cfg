\* StoreInterval > 0, and the gRPC server may fail to listen.
CONSTANTS
    http = http
    grpc = grpc
    r1 = r1
    r2 = r2
    Savers = {http, grpc}
    Reqs = {r1}
    Free = Free
    NoKey = NoKey
    Broken = Broken
    NoConfig = NoConfig
    Settings <- MemoryTimed
    MaxVer = 1
SPECIFICATION FairSpec
PROPERTY KeepsSaving
CHECK_DEADLOCK FALSE
