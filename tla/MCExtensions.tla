---------------------------- MODULE MCExtensions ----------------------------
EXTENDS Extensions, TLC

CONSTANTS p1, p2, x1, e1

MCProfiles == {p1, p2}
MCOneExt == {x1}
MCEditors == {e1}

MCSymmetry == Permutations(MCProfiles)
=============================================================================
