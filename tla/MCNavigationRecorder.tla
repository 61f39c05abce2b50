------------------------ MODULE MCNavigationRecorder ------------------------
EXTENDS NavigationRecorder, TLC

CONSTANTS u1, u2

MCUrls == {u1, u2}

MCSymmetry == Permutations(MCUrls)
=============================================================================
