---------------------------- MODULE ProfileLease ----------------------------
(***************************************************************************)
(* What the browser manager promises about a profile's data directory: it  *)
(* is in the hands of one browser session or one maintenance operation at  *)
(* a time (internal/browser/manager.go:75-86), until the program ends.     *)
(***************************************************************************)
CONSTANTS Profiles, Sessions, Maintainers, Free

VARIABLE lease      \* lease[p]: who may use the data directory of p

Holders == Sessions \cup Maintainers

TypeOK == lease \in [Profiles -> Holders \cup {Free}]

Init == lease = [p \in Profiles |-> Free]

Take(h, p) ==
    /\ lease[p] = Free
    /\ lease' = [lease EXCEPT ![p] = h]

Return(h, p) ==
    /\ lease[p] = h
    /\ lease' = [lease EXCEPT ![p] = Free]

\* The program ends: the leases, kept in memory, are gone.
Drop == lease' = [p \in Profiles |-> Free]

Next == Drop \/ \E h \in Holders, p \in Profiles : Take(h, p) \/ Return(h, p)

Spec == Init /\ [][Next]_lease
=============================================================================
