CONSTANTS
    u1 = u1
    u2 = u2
    NoUrl = NoUrl
    Urls <- MCUrls
    QueueCap = 2
    MaxSessions = 1
    MaxPages = 4
SPECIFICATION FairSpec
INVARIANT QueuedPagesSurviveClose
PROPERTY LatestPageIsSaved
CHECK_DEADLOCK FALSE
