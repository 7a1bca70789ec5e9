CONSTANTS
    k = k
    l = l
    Clients = {c1, c2, c3}
    Requests <- MCRequests
    Jobs = {j1, j2, j3, j4}
    Keys = {k, l}
    NoKey = NoKey
    Empty = Empty
    TooLong = TooLong
    NoJob = NoJob
    MaxTries = 2
    MaxFaults = 2
SPECIFICATION Spec
SYMMETRY Symmetry
INVARIANTS TypeOK SameKeySameJob NoDoubleEnqueue OnlyFaultsStrand
PROPERTIES OnlyFaultsBreakCalls
CHECK_DEADLOCK FALSE
