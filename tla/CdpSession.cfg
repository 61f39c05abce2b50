CONSTANTS
    t1 = t1
    t2 = t2
    Targets <- MCTwoTargets
    EventCap = 1
SPECIFICATION CdpFairSpec
INVARIANT NothingRunsBare
PROPERTY PausedTargetsSettle
PROPERTY CloseCompletes
CHECK_DEADLOCK FALSE
