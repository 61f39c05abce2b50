------------------------------ MODULE KeyMutex ------------------------------
(***************************************************************************)
(* What internal/maintenance promises with `locks.lock(key)`: one mutex    *)
(* per key, whatever the table of entries behind it does.                  *)
(***************************************************************************)
CONSTANTS Callers, Keys, Nobody

VARIABLE holder     \* holder[k]: the caller inside the section of key k

TypeOK == holder \in [Keys -> Callers \cup {Nobody}]

Init == holder = [k \in Keys |-> Nobody]

Acquire(c, k) ==
    /\ holder[k] = Nobody
    /\ \A other \in Keys : holder[other] # c
    /\ holder' = [holder EXCEPT ![k] = c]

Release(c, k) ==
    /\ holder[k] = c
    /\ holder' = [holder EXCEPT ![k] = Nobody]

Next == \E c \in Callers, k \in Keys : Acquire(c, k) \/ Release(c, k)

Spec == Init /\ [][Next]_holder
=============================================================================
