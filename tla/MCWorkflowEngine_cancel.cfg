CONSTANTS
    t1 = t1
    t2 = t2
    t3 = t3
    Tasks = {t1, t2}
    NoTask = NoTask
    Deps <- Roots
    Budget <- OneCancel
SPECIFICATION Spec
PROPERTIES WorkflowCancelIsFinal
CHECK_DEADLOCK FALSE
