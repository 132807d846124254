SPECIFICATION FairSpec
CONSTANTS
    west = west
    east = east
    overview = overview
    Features = {f}
    Contents = {west, east}
    Absent = Absent
    Recordings = {TRUE}
    MaxSeq = 2
    MaxBatch = 1
    MaxGap = 0
    Replicas = {r1, r2}
    Clients = {}
    Buckets <- TwoBuckets
    BucketsOf <- InOneBucket
    Tiles = {west}
    Covers <- TileBuckets
    BatchSize = 2
    SharedL2 = FALSE
    Retention = TRUE
    PruneBatch = 2
    MaxRestarts = 0
PROPERTY PruningOrphansNobody
CHECK_DEADLOCK FALSE
