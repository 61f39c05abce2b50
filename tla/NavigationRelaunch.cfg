CONSTANTS
    u1 = u1
    u2 = u2
    NoUrl = NoUrl
    Urls <- MCUrls
    QueueCap = 1
    MaxSessions = 2
    MaxPages = 2
SPECIFICATION Spec
INVARIANT RelaunchRestoresLastPage
CHECK_DEADLOCK FALSE
