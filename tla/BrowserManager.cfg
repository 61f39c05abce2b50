CONSTANTS
    p1 = p1
    s1 = s1
    s2 = s2
    s3 = s3
    m1 = m1
    m2 = m2
    t1 = t1
    NoSession = NoSession
    Free = Free
    Profiles <- MCProfiles
    Sessions <- MCSessions
    Maintainers <- MCMaintainers
    Stoppers <- MCStoppers
SPECIFICATION FairSpec
INVARIANT OneBrowserPerProfile
INVARIANT BridgeOutlivesBrowser
INVARIANT NothingLeaks
PROPERTY LaunchSettles
PROPERTY EndedSessionsAreCleaned
PROPERTY ImplementsLease
