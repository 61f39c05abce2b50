SPECIFICATION Spec
CONSTANTS
    o1 = o1
    o2 = o2
    x1 = x1
    Profiles <- MCProfiles
    Operations <- MCOperations
    Extensions <- MCExtensions
    None = None
    MaxRuns = 2
    MaxMoves = 2
SYMMETRY Symmetry
CHECK_DEADLOCK FALSE
INVARIANTS
    ExportsDoNotFailEachOther
    FailedRestoreLeavesNothing
    RestoredAsArchived
    RestoredProfilesOpen
PROPERTIES
    ArchivedTreeStandsStill
