SPECIFICATION FairSpec
CONSTANTS
    Writers = {w1, w2}
    Features = {"f", "g"}
    Locs = {"here", "there"}
    Attrs = {"x", "y"}
    Requests <- MixedRequests
    MaxRequests = 3
INVARIANT LatestWriteAgreesWithRows
PROPERTIES ContractSpec GuardedWriteReplacesWhatItChecked GuardedPatchKeepsTheRest GuardedPriorIsWhatWasReplaced EveryRequestEnds
CHECK_DEADLOCK FALSE
