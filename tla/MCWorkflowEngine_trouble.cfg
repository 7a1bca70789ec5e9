CONSTANTS
    t1 = t1
    t2 = t2
    t3 = t3
    Tasks = {t1, t2, t3}
    NoTask = NoTask
    Deps <- Fork
    Budget <- Trouble
SPECIFICATION Spec
INVARIANTS TypeOK DependenciesFirst SuccessIsTotal
PROPERTIES OutcomeIsFinal ImplementsWorkflowLifecycle
CHECK_DEADLOCK FALSE
