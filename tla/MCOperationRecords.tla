------------------------- MODULE MCOperationRecords -------------------------
(* Two goroutines and one profile with a verified fingerprint and a proxy; *)
(* telemetry.json holds two entries, the failure log one.                  *)
EXTENDS OperationRecords

CONSTANTS c1, c2, p1

MCCallers == {c1, c2}
MCProfiles == {p1}
MCReady == {p1}
MCLatencies == {50}
MCCapacity == [b \in Books |-> IF b = "telemetry" THEN 2 ELSE 1]
Symmetry == Permutations(MCCallers)
=============================================================================
