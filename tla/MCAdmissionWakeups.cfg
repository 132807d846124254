SPECIFICATION GateSpec
CONSTANTS
    Requests = {q1, q2, q3, q4}
    Limits = {2}
    Capacities = {2}
    MaxReloads = 0
    MaxDisconnects = 0
SYMMETRY Interchangeable
INVARIANT NoWaiterLeftBehind
CHECK_DEADLOCK FALSE
