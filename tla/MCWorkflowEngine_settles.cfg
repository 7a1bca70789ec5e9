CONSTANTS
    t1 = t1
    t2 = t2
    t3 = t3
    Tasks = {t1, t2, t3}
    NoTask = NoTask
    Deps <- Fork
    Budget <- OneRetry
SPECIFICATION FairSpec
PROPERTIES WorkflowSettles
CHECK_DEADLOCK FALSE
