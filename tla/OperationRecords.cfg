SPECIFICATION RecordsSpec
CONSTANTS
    c1 = c1
    c2 = c2
    p1 = p1
    Callers <- MCCallers
    Profiles <- MCProfiles
    ReadyProfiles <- MCReady
    ProxiedProfiles <- MCReady
    Latencies <- MCLatencies
    Capacity <- MCCapacity
    Retention = 1
    BucketCount = 1
    BucketDuration = 2
    Never = Never
    Free = Free
    MaxOps = 3
    MaxClock = 2
    MaxDamages = 1
SYMMETRY Symmetry
INVARIANTS
    NothingNotedIsLost
PROPERTIES
    LatestResultsAreShown
    OpeningsAreCountedOnce
