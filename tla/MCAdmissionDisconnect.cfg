SPECIFICATION GateSpec
CONSTANTS
    Requests = {q1, q2}
    Limits = {1}
    Capacities = {1}
    MaxReloads = 0
    MaxDisconnects = 1
SYMMETRY Interchangeable
INVARIANT DepthCountsWaiters
CHECK_DEADLOCK FALSE
