SPECIFICATION PartSpec
CONSTANTS
    s1 = s1
    s2 = s2
    all = all
    deletes = deletes
    elsewhere = elsewhere
    here = here
    there = there
    Features = {f}
    Contents = {c}
    Absent = Absent
    Recordings = {TRUE}
    MaxSeq = 2
    MaxBatch = 1
    MaxGap = 0
    Subs = {s1, s2}
    Declarations = {all, deletes, elsewhere}
    Undeclared = Undeclared
    Accepts <- AcceptedOperations
    Matching <- MatchingPlaces
    Places = {here, there}
    Nowhere = Nowhere
    Rest = {1, 2}
    Configs <- Moved
    NoCursor = NoCursor
    BatchSize = 2
    MaxAttempts = 2
    OtherCursors = {2}
    PruneBatch = 1
    MaxRebinds = 1
    MaxRestarts = 1
    Capacity = 3
    Limit = 1
    MaxOrdinal = 5
    MaxReplaced = 1
INVARIANT NothingOwedIsPruned
CHECK_DEADLOCK FALSE
