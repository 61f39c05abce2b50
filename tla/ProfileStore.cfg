CONSTANTS
    p1 = p1
    p2 = p2
    s1 = s1
    NoProfile = NoProfile
    Profiles <- MCProfiles
    Savers <- MCSavers
    MaxVersion = 3
SPECIFICATION Spec
INVARIANT AcknowledgedSurvives
INVARIANT BareDirectoriesExcused
