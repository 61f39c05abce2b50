---------------------------- MODULE MCKeyedLock -----------------------------
EXTENDS KeyedLock

CONSTANTS c1, c2, c3, k1, k2, e1, e2, e3

MCCallers == {c1, c2, c3}
MCKeys == {k1, k2}
MCEntries == {e1, e2, e3}   \* never more live entries than callers
=============================================================================
