\* The two save loops, or the goroutines that requests start, under every combination of
\* settings; crashes, failed writes, stops and starts.
CONSTANTS
    http = http
    grpc = grpc
    r1 = r1
    r2 = r2
    Savers = {http, grpc}
    Reqs = {r1}
    Free = Free
    NoKey = NoKey
    Broken = Broken
    NoConfig = NoConfig
    Settings <- AllSettings
    MaxVer = 2
SPECIFICATION FairSpec
INVARIANTS NothingSavedIsLost AckedIsKept SavesCurrent
PROPERTIES IsDurable FileMonotone SavedForGood
CHECK_DEADLOCK FALSE
