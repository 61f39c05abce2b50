-------------------------- MODULE MCBrowserManager --------------------------
EXTENDS BrowserManager

CONSTANTS p1, s1, s2, s3, m1, m2, t1

MCProfiles == {p1}
MCSessions == {s1, s2, s3}
MCMaintainers == {m1, m2}
MCStoppers == {t1}
=============================================================================
