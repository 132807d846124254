SPECIFICATION FairSpec
CONSTANTS
    j1 = j1
    j2 = j2
    j3 = j3
    key = key
    Jobs = {j1, j2, j3}
    KeyOf <- SharedKey
    NoKey = NoKey
    Runners = {r1, r2}
    Nothing = Nothing
    MaxOverruns = 1
    MaxFaults = 1
INVARIANTS OverlapOnlyByOverrun RerunOnlyByOverrunOrFault OneJobPerKey
PROPERTIES VerdictIsFinal EveryJobEnds
CHECK_DEADLOCK FALSE
