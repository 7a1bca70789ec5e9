CONSTANTS
    Jobs = {j1, j2, j3}
    BaseDelay = 1
    MaxDelay = 3
    MaxShift = 2
    IntBits = 4
    Interval = 2
    BatchSize = 1
    Skew = 1
    AttemptCap = 5
    Horizon = 14
SPECIFICATION Spec
SYMMETRY Symmetry
INVARIANTS TypeOK RetriesInTime
PROPERTIES BackoffHasItsWindow
CHECK_DEADLOCK FALSE
