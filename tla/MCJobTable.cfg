CONSTANTS
    j1 = j1
    j2 = j2
    Jobs = {j1, j2}
    Workers = {w1, w2}
    NoWorker = NoWorker
    MaxAttempts <- MCMaxAttempts
    AttemptCap <- MCAttemptCap
SPECIFICATION Spec
INVARIANTS TypeOK RowConsistent
PROPERTIES DeadLetterNeedsOperator
