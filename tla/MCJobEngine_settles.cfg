CONSTANTS
    w1 = w1
    w2 = w2
    s1 = s1
    s2 = s2
    s3 = s3
    j1 = j1
    j2 = j2
    Jobs = {j1, j2}
    Workers = {w1, w2}
    NoWorker = NoWorker
    NoJob = NoJob
    Slots = {s1, s2, s3}
    Owner <- MCOwner
    Reqs = {r1}
    Handled <- OnlyFirst
    Prio <- OnlyJ2High
    MaxAttempts <- TwoOrOne
    Budget <- OneOfEach
SPECIFICATION SettlingSpec
INVARIANTS NoJobIsLost ExecutionsArePaid
PROPERTIES EveryJobSettles
CHECK_DEADLOCK FALSE
