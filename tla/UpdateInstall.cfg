CONSTANTS
    a1 = a1
    a2 = a2
    p1 = p1
    NoApp = NoApp
    Apps <- MCApps
    Profiles <- MCProfiles
    MaxVersion = 3
SPECIFICATION FairSpec
INVARIANT RestorePointStands
INVARIANT FailedUpdateIsUndone
PROPERTY HelperSettles
CHECK_DEADLOCK FALSE
