CONSTANTS
    Workflows = {f1, f2, f3, f4}
    Page = 2
    Rounds = 2
    MaxErrors = 1
SPECIFICATION Spec
INVARIANTS TypeOK
PROPERTIES PassedOverForNewer
CHECK_DEADLOCK FALSE
