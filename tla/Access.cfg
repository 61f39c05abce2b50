SPECIFICATION Spec
CONSTANTS
    u1 = u1
    u2 = u2
    bound = bound
    free = free
    c1 = c1
    c2 = c2
    l1 = l1
    l2 = l2
    Users <- MCUsers
    Keys <- MCKeys
    Bound <- MCBound
    Expiry <- MCExpiry
    Calls <- MCCalls
    Logins <- MCLogins
    None = None
    Damaged = Damaged
    MaxClock = 1
SYMMETRY Symmetry
INVARIANTS
    LoginsAreNotMixedUp
PROPERTIES
    ActivationIsNotLost
    AdmittedIsEntitled
    SpentKeysStaySpent
