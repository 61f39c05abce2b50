--------------------------- MODULE MCProfileStore ---------------------------
EXTENDS ProfileStore

CONSTANTS p1, p2, s1

MCProfiles == {p1, p2}
MCSavers == {s1}
=============================================================================
