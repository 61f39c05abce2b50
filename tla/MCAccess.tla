------------------------------ MODULE MCAccess ------------------------------
(* One key is bound to the first user and expires, the other is for anybody *)
(* and for ever.                                                            *)
EXTENDS Access, TLC

CONSTANTS u1, u2, bound, free, c1, c2, l1, l2

MCUsers == {u1, u2}
MCKeys == {bound, free}
MCBound == bound :> u1 @@ free :> None
MCExpiry == bound :> 1 @@ free :> 0
MCCalls == {c1, c2}
MCLogins == {l1, l2}

Symmetry == Permutations(MCCalls) \cup Permutations(MCLogins)
=============================================================================
