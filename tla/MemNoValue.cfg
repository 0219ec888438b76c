\* One client, and batches that leave a counter's value out.
CONSTANTS
    g = g
    h = h
    c = c
    IDs = {g, c}
    NoID = NoID
    Samples = {1, 2}
    Modulus = 3
    Nil = Nil
    Absent = Absent
    Reqs = {r1}
    Free = Free
    Calls <- UndisciplinedCalls
SPECIFICATION Spec
INVARIANT StoredCarriesValue
CHECK_DEADLOCK FALSE
