SPECIFICATION Spec
CONSTANTS
    west = west
    east = east
    overview = overview
    Features = {f}
    Contents = {west, east}
    Absent = Absent
    Recordings = {TRUE}
    MaxSeq = 2
    MaxBatch = 1
    MaxGap = 0
    Replicas = {r1, r2}
    Clients = {c1}
    Buckets <- TwoBuckets
    BucketsOf <- InOneBucket
    Tiles = {west}
    Covers <- TileBuckets
    BatchSize = 2
    SharedL2 = TRUE
    Retention = FALSE
    PruneBatch = 2
    MaxRestarts = 1
SYMMETRY Interchangeable
INVARIANTS AnswersReflectDrainedCommits
CHECK_DEADLOCK FALSE
