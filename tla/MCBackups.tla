----------------------------- MODULE MCBackups -----------------------------
(* Two operations on two profiles, with one spare UUID. *)
EXTENDS Backups, TLC

CONSTANTS o1, o2, x1

MCOperations == {o1, o2}
MCExtensions == {x1}
MCProfiles == 1..3

Symmetry == Permutations(MCOperations)
=============================================================================
