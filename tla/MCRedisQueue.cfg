CONSTANTS
    high = high
    medium = medium
    low = low
    Jobs = {high, medium, low}
    Prio <- MCPrio
    W1 = 3
    W2 = 2
    W3 = 1
    Visibility = 1
    MaxTime = 2
SPECIFICATION Spec
INVARIANTS TypeOK BoundedSkips
PROPERTIES LeaseKept ImplementsLeaseQueue
