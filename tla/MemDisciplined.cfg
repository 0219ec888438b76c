\* Well-formed clients, two requests at a time; int64 has three values.
CONSTANTS
    g = g
    h = h
    c = c
    IDs = {g, h, c}
    NoID = NoID
    Samples = {1, 2}
    Modulus = 3
    Nil = Nil
    Absent = Absent
    Reqs = {r1, r2}
    Free = Free
    Calls <- DisciplinedCalls
SPECIFICATION Spec
INVARIANTS TypeOK LockHeld NoAbort ReadsBack ListedTogether
PROPERTY IsRegistry
