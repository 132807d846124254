SPECIFICATION Spec
CONSTANTS
    Features = {f1, f2}
    Contents = {a, b}
    Absent = Absent
    Recordings = {TRUE, FALSE}
    CrsExpressible = TRUE
    MaxSeq = 3
    MaxBatch = 2
    MaxGap = 0
INVARIANT LatestAgreesWithRows
PROPERTY LogSpec
CHECK_DEADLOCK FALSE
