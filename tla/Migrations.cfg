CONSTANTS
    Procs = {p1, p2, p3}
    Last = 4
    Repeatable = {2, 3}
    MaxFaults = 2
SPECIFICATION Spec
INVARIANTS TypeOK SchemaIsComplete OneUnrecorded OnlyFaultsWedge
PROPERTIES SomebodyServes
CHECK_DEADLOCK FALSE
