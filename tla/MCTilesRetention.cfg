SPECIFICATION FairSpec
CONSTANTS
    west = west
    east = east
    overview = overview
    Features = {f}
    Contents = {west}
    Absent = Absent
    Recordings = {TRUE, FALSE}
    MaxSeq = 2
    MaxBatch = 1
    MaxGap = 0
    Replicas = {r1}
    Clients = {c1, c2}
    Buckets <- TwoBuckets
    BucketsOf <- InOneBucket
    Tiles = {overview}
    Covers <- TileBuckets
    BatchSize = 1
    SharedL2 = FALSE
    Retention = TRUE
    PruneBatch = 2
    MaxRestarts = 1
INVARIANT AnswersReflectDrainedCommits
PROPERTY StoresCatchUp
CHECK_DEADLOCK FALSE
