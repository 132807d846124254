SPECIFICATION FairSpec
CONSTANTS
    Writers = {w1, w2}
    Features = {"f", "g"}
    Locs = {"here", "there"}
    Attrs = {"x"}
    Requests <- SingleRequests
    MaxRequests = 3
PROPERTY CommitsAppendAbove
CHECK_DEADLOCK FALSE
