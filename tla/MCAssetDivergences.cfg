SPECIFICATION PartSpec
CONSTANTS
    Requests = {q1, q2, q3, q4}
    Limits = {1, 2}
    Capacities = {1, 2}
    MaxReloads = 1
    MaxDisconnects = 1
    s1 = s1
    s2 = s2
    c1 = c1
    c2 = c2
    Slots = {s1, s2}
    Contents = {c1, c2}
    Settings <- AssetSettings
SYMMETRY Interchangeable
INVARIANTS NothingIsOrphaned MismatchLeavesNothing HoldCoversUnverifiedBytes RacingHoldHasItsCompletion EveryChunkIsInPlace
PROPERTY AssetVerdictIsFinal
CHECK_DEADLOCK FALSE
