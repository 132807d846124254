SPECIFICATION FairSpec
CONSTANTS
    Features = {f1, f2}
    Contents = {a}
    Absent = Absent
    Recordings = {TRUE}
    MaxSeq = 2
    MaxBatch = 1
    MaxGap = 1
    Replicas = {r1, r2}
    Nobody = Nobody
    Leased = TRUE
    SearchRouted = TRUE
    BatchSize = 2
    FreshnessBound = 1
    MaxFaults = 2
INVARIANTS HighWaterIsSound SearchIsFreshEnough
PROPERTIES IndexNeverRegresses IndexConverges
CHECK_DEADLOCK FALSE
