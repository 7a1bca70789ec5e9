CONSTANTS
    a = a
    b = b
    c = c
    d = d
    Names = {a, b, c, d}
    NoName = NoName
    Requests <- MCRequests
SPECIFICATION Spec
INVARIANTS TypeOK VerdictIsRight
CHECK_DEADLOCK FALSE
