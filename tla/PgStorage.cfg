\* Two requests at a time whose batches lock rows in opposite orders; int64 has four
\* values, so that a counter overflows at the second step.
CONSTANTS
    g = g
    h = h
    c = c
    IDs = {g, h, c}
    NoID = NoID
    Samples = {1, 2}
    Modulus = 4
    Nil = Nil
    Absent = Absent
    Reqs = {r1, r2}
    Free = Free
    Calls <- ClientCalls
SPECIFICATION FairSpec
INVARIANTS TypeOK RowsReturned ListedTogether
PROPERTIES WholeBatches EveryCallEnds
