----------------------------- MODULE KeyedLock ------------------------------
(***************************************************************************)
(* internal/maintenance/locks.go: a mutex per profile directory, whose     *)
(* entries are created on demand and dropped when their last user leaves.  *)
(*                                                                         *)
(* An entry is a heap object: a caller that read the table keeps its       *)
(* pointer even after the table forgot it, and a later caller of the same  *)
(* key may then be handed a different object.  Entries are the identities  *)
(* such objects can have; one that nobody refers to may be reused.         *)
(***************************************************************************)
EXTENDS Naturals, FiniteSets

CONSTANTS Callers,  \* goroutines of maintenance operations
          Keys,     \* profile root directories
          Entries,  \* identities of *lockEntry objects
          Nobody,   \* an unlocked sync.Mutex
          NoEntry   \* a nil *lockEntry

ASSUME CallersAssumption == IsFiniteSet(Callers) /\ Nobody \notin Callers
ASSUME EntriesAssumption == NoEntry \notin Entries

VARIABLES
    table,   \* locks.entries: the entry of each key, or NoEntry
    users,   \* entry.users
    owner,   \* who holds entry.mu
    pc,      \* where each caller is
    key,     \* the key it asked for last
    ref      \* the entry it points to, NoEntry outside lock ... unlock

vars == <<table, users, owner, pc, key, ref>>

Stages == {"outside", "waiting", "inside", "leaving"}

TypeOK ==
    /\ table \in [Keys -> Entries \cup {NoEntry}]
    /\ users \in [Entries -> Nat]
    /\ owner \in [Entries -> Callers \cup {Nobody}]
    /\ pc \in [Callers -> Stages]
    /\ key \in [Callers -> Keys]
    /\ ref \in [Callers -> Entries \cup {NoEntry}]

Init ==
    /\ table = [k \in Keys |-> NoEntry]
    /\ users = [e \in Entries |-> 0]
    /\ owner = [e \in Entries |-> Nobody]
    /\ pc = [c \in Callers |-> "outside"]
    /\ key \in [Callers -> Keys]
    /\ ref = [c \in Callers |-> NoEntry]

Referrers(e) == {c \in Callers : ref[c] = e}

\* A fresh &lockEntry{}: an object neither the table nor a caller points to.
Unreferenced(e) == Referrers(e) = {} /\ \A k \in Keys : table[k] # e

-----------------------------------------------------------------------------
(***************************************************************************)
(* lock(key), first critical section (under locks.mu): find or create the  *)
(* entry and count oneself among its users.                                *)
(***************************************************************************)
Find(c, k) ==
    /\ table[k] # NoEntry
    /\ ref' = [ref EXCEPT ![c] = table[k]]
    /\ users' = [users EXCEPT ![table[k]] = @ + 1]
    /\ UNCHANGED <<table, owner>>

Make(c, k) ==
    /\ table[k] = NoEntry
    /\ \E e \in Entries :
        /\ Unreferenced(e)
        /\ table' = [table EXCEPT ![k] = e]
        /\ ref' = [ref EXCEPT ![c] = e]
        /\ users' = [users EXCEPT ![e] = 1]
        /\ owner' = [owner EXCEPT ![e] = Nobody]

Register(c, k) ==
    /\ pc[c] = "outside"
    /\ pc' = [pc EXCEPT ![c] = "waiting"]
    /\ key' = [key EXCEPT ![c] = k]
    /\ Find(c, k) \/ Make(c, k)

\* entry.mu.Lock(), outside locks.mu: blocks while another caller holds it.
Enter(c) ==
    /\ pc[c] = "waiting"
    /\ owner[ref[c]] = Nobody
    /\ owner' = [owner EXCEPT ![ref[c]] = c]
    /\ pc' = [pc EXCEPT ![c] = "inside"]
    /\ UNCHANGED <<table, users, key, ref>>

\* Bug: a path that returns without unlocking the entry.
BugUnlockForgotten(c) ==
    /\ pc[c] = "inside"
    /\ pc' = [pc EXCEPT ![c] = "leaving"]
    /\ UNCHANGED <<table, users, owner, key, ref>>

\* The returned func: entry.mu.Unlock() comes before locks.mu is taken ...
Unlock(c) ==
    /\ pc[c] = "inside"
    /\ owner' = [owner EXCEPT ![ref[c]] = Nobody]
    /\ pc' = [pc EXCEPT ![c] = "leaving"]
    /\ UNCHANGED <<table, users, key, ref>>

\* Bug: the entry is dropped by whoever unlocks, without looking at users.
BugTableDropsAlways(c) == [table EXCEPT ![key[c]] = NoEntry]

\* Bug: entries are never dropped.
BugTableKeepsAll(c) == table

\* ... and the entry is dropped from the table by its last user only.
TableAfter(c) ==
    IF users[ref[c]] - 1 = 0 THEN [table EXCEPT ![key[c]] = NoEntry] ELSE table

Deregister(c) ==
    /\ pc[c] = "leaving"
    /\ users' = [users EXCEPT ![ref[c]] = @ - 1]
    /\ table' = TableAfter(c)
    /\ pc' = [pc EXCEPT ![c] = "outside"]
    /\ ref' = [ref EXCEPT ![c] = NoEntry]
    /\ UNCHANGED <<owner, key>>

Next ==
    \E c \in Callers :
        \/ \E k \in Keys : Register(c, k)
        \/ Enter(c)
        \/ Unlock(c)
        \/ Deregister(c)

Spec == Init /\ [][Next]_vars

(***************************************************************************)
(* sync.Mutex hands the lock to a waiter that has starved for 1 ms, so a   *)
(* waiter is served although the mutex is taken again and again (SF);      *)
(* a maintenance operation ends and its deferred unlock runs (WF).         *)
(***************************************************************************)
Fairness == \A c \in Callers : SF_vars(Enter(c)) /\ WF_vars(Unlock(c)) /\ WF_vars(Deregister(c))

FairSpec == Spec /\ Fairness

-----------------------------------------------------------------------------
(***************************************************************************)
(* Properties.                                                             *)
(***************************************************************************)

\* Two maintenance operations of one profile are never inside lock/unlock
\* together, although the entry behind the key is dropped and recreated.
MutualExclusion ==
    \A c, d \in Callers :
        c # d /\ pc[c] = "inside" /\ pc[d] = "inside" => key[c] # key[d]

\* The table keeps an entry exactly as long as some caller of its key is
\* between lock and the end of unlock: no user is orphaned from the table
\* and nothing stays behind once the callers are gone.
TableTracksUsers ==
    \A k \in Keys :
        (table[k] # NoEntry) <=> (\E c \in Callers : pc[c] # "outside" /\ key[c] = k)

\* Callers that wait for a key are all served: no wake-up is lost when the
\* entry they registered with is unlocked, dropped or found again.
EveryWaiterEnters ==
    \A c \in Callers : pc[c] = "waiting" ~> pc[c] = "inside"

\* The table of counted entries implements one mutex per key.
Holder == [k \in Keys |->
              IF \E c \in Callers : pc[c] = "inside" /\ key[c] = k
              THEN CHOOSE c \in Callers : pc[c] = "inside" /\ key[c] = k
              ELSE Nobody]

Mutex == INSTANCE KeyMutex WITH holder <- Holder

\* Refinement of the abstract mutex per key (locks.go as a whole).
ImplementsMutex == Mutex!Spec

-----------------------------------------------------------------------------
(***************************************************************************)
(* The invariant behind MutualExclusion: every caller between lock and the *)
(* end of unlock points to the entry its key has in the table, entries of  *)
(* different keys differ, and users counts exactly the pointers.           *)
(***************************************************************************)
PointsToTable ==
    \A c \in Callers :
        IF pc[c] = "outside" THEN ref[c] = NoEntry
                             ELSE ref[c] \in Entries /\ table[key[c]] = ref[c]

EntriesAreDistinct ==
    \A k, l \in Keys : table[k] = table[l] /\ table[k] # NoEntry => k = l

UsersCountPointers ==
    \A k \in Keys, e \in Entries : table[k] = e =>
        /\ users[e] = Cardinality(Referrers(e))
        /\ Referrers(e) # {}

OwnerIsInside ==
    \A c \in Callers : pc[c] = "inside" => owner[ref[c]] = c

IInv ==
    /\ TypeOK
    /\ PointsToTable
    /\ EntriesAreDistinct
    /\ UsersCountPointers
    /\ OwnerIsInside

=============================================================================
