SPECIFICATION PartSpec
CONSTANTS
    Replicas = {r1, r2}
    Settings <- Swappable
    Seed <- First
    Missing = {3}
    PageSize = 2
    Down = Down
    MaxRevision = 4
    MaxBoots = 2
    MaxFaults = 1
    tenant = tenant
    alice = alice
    bob = bob
    k1 = k1
    k2 = k2
    old = old
    new = new
    other = other
    Servers = {p1, p2}
    Requests <- Workload
    Plans <- Planned
    SeedSnapshot <- Tombstoned
    MaxLost = 1
    Platform = platform
    Resources = {platform, tenant}
    Values = {old, new, other}
    Gone = Gone
    Actors = {alice, bob}
    Keys = {k1, k2}
    NoKey = NoKey
    AnyVersion = AnyVersion
    Bootstrapper = Bootstrapper
    Free = Free
INVARIANT AnswersAreOwn
PROPERTIES ServedSpec NewestIsServedOrRefused ContractSpec UntornEditReplacesWhatItSaw EveryRequestIsAnswered
CHECK_DEADLOCK FALSE
