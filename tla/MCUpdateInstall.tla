--------------------------- MODULE MCUpdateInstall ---------------------------
EXTENDS UpdateInstall

CONSTANTS a1, a2, p1

MCApps == {a1, a2}
MCProfiles == {p1}
=============================================================================
