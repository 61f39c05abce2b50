CONSTANTS
    p1 = p1
    p2 = p2
    x1 = x1
    e1 = e1
    NoExt = NoExt
    NoProfile = NoProfile
    Profiles <- MCProfiles
    Exts <- MCOneExt
    Bundled = x1
    Editors <- MCEditors
SPECIFICATION Spec
SYMMETRY MCSymmetry
INVARIANT BareDirectoriesExcused
PROPERTY RemovalIsUndone
INVARIANT AssignedAreInstalled
INVARIANT BundledStaysUninstalled
