-------------------------- MODULE KeyedLockProofs ---------------------------
(***************************************************************************)
(* For any finite set of goroutines, any keys and any entry identities:    *)
(* locks.go is a mutex per key, and its table holds an entry exactly while *)
(* somebody uses it.                                                       *)
(***************************************************************************)
EXTENDS KeyedLock, FiniteSetTheorems, TLAPS

\* Pointing at an entry is a property of finitely many callers.
LEMMA ReferrersFinite ==
    \A e : IsFiniteSet(Referrers(e)) /\ Cardinality(Referrers(e)) \in Nat
<1> SUFFICES ASSUME NEW e
             PROVE IsFiniteSet(Referrers(e)) /\ Cardinality(Referrers(e)) \in Nat
    OBVIOUS
<1>1. Referrers(e) \subseteq Callers
    BY DEF Referrers
<1>2. IsFiniteSet(Referrers(e))
    BY <1>1, CallersAssumption, FS_Subset
<1> QED
    BY <1>2, FS_CardinalityType

\* Nothing points anywhere before the first lock().
LEMMA InitIInv == Init => IInv
<1> SUFFICES ASSUME Init PROVE IInv
    OBVIOUS
<1>1. TypeOK
    BY DEF Init, TypeOK, Stages
<1> QED
    BY <1>1, EntriesAssumption DEF Init, IInv, PointsToTable, EntriesAreDistinct, UsersCountPointers, OwnerIsInside

\* The invariant that carries MutualExclusion survives each step of lock and unlock.
LEMMA NextIInv == IInv /\ [Next]_vars => IInv'
<1> SUFFICES ASSUME IInv, [Next]_vars PROVE IInv'
    OBVIOUS
<1> USE DEF IInv
<1>f. /\ \A e : IsFiniteSet(Referrers(e)) /\ Cardinality(Referrers(e)) \in Nat
    BY ReferrersFinite
<1>1. ASSUME NEW c \in Callers, NEW k \in Keys, Register(c, k), Find(c, k) PROVE IInv'
  <2> DEFINE e == table[k]
  <2>1. /\ pc[c] = "outside" /\ ref[c] = NoEntry /\ e \in Entries /\ e # NoEntry
        /\ pc' = [pc EXCEPT ![c] = "waiting"] /\ key' = [key EXCEPT ![c] = k]
        /\ ref' = [ref EXCEPT ![c] = e] /\ users' = [users EXCEPT ![e] = @ + 1]
        /\ table' = table /\ owner' = owner
    BY <1>1, EntriesAssumption DEF Register, Find, TypeOK, PointsToTable
  <2>2. TypeOK'
    BY <2>1 DEF TypeOK, Stages
  <2>3. PointsToTable'
    BY <2>1 DEF PointsToTable, TypeOK
  <2>4. EntriesAreDistinct'
    BY <2>1 DEF EntriesAreDistinct
  <2>5. Referrers(e)' = Referrers(e) \cup {c}
    BY <2>1 DEF Referrers, TypeOK
  <2>6. \A d \in Entries \ {e} : Referrers(d)' = Referrers(d)
    BY <2>1, EntriesAssumption DEF Referrers, TypeOK
  <2>7. Cardinality(Referrers(e)') = Cardinality(Referrers(e)) + 1
    <3>1. c \notin Referrers(e)
      BY <2>1 DEF Referrers
    <3> QED
      BY <3>1, <2>5, <1>f, FS_AddElement
  <2>8. UsersCountPointers'
    BY <2>1, <2>5, <2>6, <2>7 DEF UsersCountPointers, TypeOK
  <2>9. OwnerIsInside'
    BY <2>1 DEF OwnerIsInside, TypeOK
  <2> QED
    BY <2>2, <2>3, <2>4, <2>8, <2>9
<1>2. ASSUME NEW c \in Callers, NEW k \in Keys, Register(c, k), Make(c, k) PROVE IInv'
  <2>1. PICK e \in Entries :
           /\ Unreferenced(e)
           /\ table' = [table EXCEPT ![k] = e]
           /\ ref' = [ref EXCEPT ![c] = e]
           /\ users' = [users EXCEPT ![e] = 1]
           /\ owner' = [owner EXCEPT ![e] = Nobody]
    BY <1>2 DEF Make
  <2>2. /\ pc[c] = "outside" /\ ref[c] = NoEntry /\ table[k] = NoEntry /\ e # NoEntry
        /\ pc' = [pc EXCEPT ![c] = "waiting"] /\ key' = [key EXCEPT ![c] = k]
    BY <1>2, EntriesAssumption DEF Register, Make, PointsToTable
  <2>3. /\ Referrers(e) = {} /\ \A l \in Keys : table[l] # e
        /\ \A d \in Callers : ref[d] # e
    BY <2>1 DEF Unreferenced, Referrers
  <2>4. TypeOK'
    BY <2>1, <2>2 DEF TypeOK, Stages
  <2>5. \A d \in Callers \ {c} : pc[d] # "outside" => key[d] # k
    BY <2>2, EntriesAssumption DEF PointsToTable
  <2>6. PointsToTable'
    BY <2>1, <2>2, <2>5 DEF PointsToTable, TypeOK
  <2>7. EntriesAreDistinct'
    BY <2>1, <2>3 DEF EntriesAreDistinct, TypeOK
  <2>8. Referrers(e)' = {} \cup {c}
    BY <2>1, <2>3 DEF Referrers, TypeOK
  <2>9. \A d \in Entries \ {e} : Referrers(d)' = Referrers(d)
    BY <2>1, <2>2, EntriesAssumption DEF Referrers, TypeOK
  <2>10. Cardinality(Referrers(e)') = 1
    <3>1. IsFiniteSet({}) /\ Cardinality({}) = 0 /\ c \notin {}
      BY FS_EmptySet
    <3>2. Cardinality({} \cup {c}) = 0 + 1
      BY <3>1, FS_AddElement
    <3> QED
      BY <3>2, <2>8
  <2>11. UsersCountPointers'
    BY <2>1, <2>2, <2>3, <2>8, <2>9, <2>10 DEF UsersCountPointers, TypeOK
  <2>12. OwnerIsInside'
    BY <2>1, <2>2, <2>3 DEF OwnerIsInside, TypeOK
  <2> QED
    BY <2>4, <2>6, <2>7, <2>11, <2>12
<1>3. ASSUME NEW c \in Callers, Enter(c) PROVE IInv'
  <2>1. /\ pc[c] = "waiting" /\ ref[c] \in Entries /\ owner[ref[c]] = Nobody
        /\ owner' = [owner EXCEPT ![ref[c]] = c] /\ pc' = [pc EXCEPT ![c] = "inside"]
        /\ UNCHANGED <<table, users, key, ref>>
    BY <1>3 DEF Enter, PointsToTable
  <2>2. TypeOK'
    BY <2>1 DEF TypeOK, Stages
  <2>3. PointsToTable' /\ EntriesAreDistinct'
    BY <2>1 DEF PointsToTable, EntriesAreDistinct, TypeOK
  <2>4. UsersCountPointers'
    BY <2>1 DEF UsersCountPointers, Referrers
  <2>5. OwnerIsInside'
    <3> SUFFICES ASSUME NEW d \in Callers, pc'[d] = "inside" PROVE owner'[ref'[d]] = d
      BY DEF OwnerIsInside
    <3>1. CASE d = c
      BY <3>1, <2>1 DEF TypeOK
    <3>2. CASE d # c
      <4>1. pc[d] = "inside" /\ owner[ref[d]] = d
        BY <3>2, <2>1 DEF TypeOK, OwnerIsInside
      <4>2. ref[d] # ref[c]
        BY <4>1, <2>1, CallersAssumption
      <4> QED
        BY <4>1, <4>2, <2>1, <3>2 DEF TypeOK
    <3> QED
      BY <3>1, <3>2
  <2> QED
    BY <2>2, <2>3, <2>4, <2>5
<1>4. ASSUME NEW c \in Callers, Unlock(c) PROVE IInv'
  <2>1. /\ pc[c] = "inside" /\ ref[c] \in Entries /\ owner[ref[c]] = c
        /\ owner' = [owner EXCEPT ![ref[c]] = Nobody] /\ pc' = [pc EXCEPT ![c] = "leaving"]
        /\ UNCHANGED <<table, users, key, ref>>
    BY <1>4 DEF Unlock, PointsToTable, OwnerIsInside
  <2>2. TypeOK'
    BY <2>1 DEF TypeOK, Stages
  <2>3. PointsToTable' /\ EntriesAreDistinct'
    BY <2>1 DEF PointsToTable, EntriesAreDistinct, TypeOK
  <2>4. UsersCountPointers'
    BY <2>1 DEF UsersCountPointers, Referrers
  <2>5. OwnerIsInside'
    BY <2>1 DEF OwnerIsInside, TypeOK
  <2> QED
    BY <2>2, <2>3, <2>4, <2>5
<1>5. ASSUME NEW c \in Callers, Deregister(c) PROVE IInv'
  <2>0. PICK e \in Entries : e = ref[c]
    BY <1>5 DEF Deregister, PointsToTable
  <2>1. /\ pc[c] = "leaving" /\ e = ref[c] /\ e # NoEntry /\ table[key[c]] = e
        /\ key[c] \in Keys
        /\ users' = [users EXCEPT ![e] = @ - 1] /\ table' = TableAfter(c)
        /\ pc' = [pc EXCEPT ![c] = "outside"] /\ ref' = [ref EXCEPT ![c] = NoEntry]
        /\ owner' = owner /\ key' = key
    BY <1>5, <2>0, EntriesAssumption DEF Deregister, PointsToTable, TypeOK
  <2>2. users[e] = Cardinality(Referrers(e)) /\ c \in Referrers(e)
    BY <2>1 DEF UsersCountPointers, Referrers
  <2>3. Referrers(e)' = Referrers(e) \ {c}
    BY <2>1 DEF Referrers, TypeOK
  <2>4. Cardinality(Referrers(e)') = users[e] - 1 /\ users[e] - 1 \in Nat
    <3>1. IsFiniteSet(Referrers(e)')
      BY <2>3, <1>f, FS_RemoveElement
    <3>2. Cardinality(Referrers(e)') = users[e] - 1
      BY <2>2, <2>3, <1>f, FS_RemoveElement
    <3> QED
      BY <3>1, <3>2, FS_CardinalityType
  <2>5. \A d \in Entries \ {e} : Referrers(d)' = Referrers(d)
    BY <2>1, EntriesAssumption DEF Referrers, TypeOK
  <2>6. users[e] - 1 = 0 <=> Referrers(e)' = {}
    BY <2>3, <2>4, <1>f, FS_EmptySet, FS_RemoveElement
  <2>7. TypeOK'
    BY <2>1, <2>4 DEF TypeOK, Stages, TableAfter
  <2>8. \A l \in Keys : l # key[c] => table'[l] = table[l] /\ table[l] # e
    BY <2>1 DEF TableAfter, TypeOK, EntriesAreDistinct
  <2>9. /\ users[e] - 1 = 0 => table'[key[c]] = NoEntry
        /\ users[e] - 1 # 0 => table'[key[c]] = e
    BY <2>1 DEF TableAfter, TypeOK
  <2>10. PointsToTable'
    <3> SUFFICES ASSUME NEW d \in Callers
                 PROVE IF pc'[d] = "outside" THEN ref'[d] = NoEntry
                       ELSE ref'[d] \in Entries /\ table'[key'[d]] = ref'[d]
      BY DEF PointsToTable
    <3>1. CASE d = c
      BY <3>1, <2>1 DEF TypeOK
    <3>2. CASE d # c /\ ref[d] = e /\ pc[d] # "outside"
      <4>1. d \in Referrers(e)'
        BY <3>2, <2>1 DEF Referrers, TypeOK
      <4>2. key[d] = key[c]
        BY <3>2, <2>1 DEF PointsToTable, EntriesAreDistinct, TypeOK
      <4> QED
        BY <4>1, <4>2, <2>6, <2>9, <2>1, <3>2 DEF TypeOK
    <3>3. CASE d # c /\ (ref[d] # e \/ pc[d] = "outside")
      BY <3>3, <2>1, <2>8 DEF PointsToTable, TypeOK
    <3> QED
      BY <3>1, <3>2, <3>3
  <2>11. EntriesAreDistinct'
    BY <2>1, <2>8, <2>9 DEF EntriesAreDistinct, TypeOK
  <2>12. UsersCountPointers'
    <3> SUFFICES ASSUME NEW l \in Keys, NEW d \in Entries, table'[l] = d
                 PROVE users'[d] = Cardinality(Referrers(d)') /\ Referrers(d)' # {}
      BY DEF UsersCountPointers, Referrers
    <3>1. CASE l = key[c]
      BY <3>1, <2>1, <2>4, <2>6, <2>9, EntriesAssumption DEF TypeOK
    <3>2. CASE l # key[c]
      BY <3>2, <2>1, <2>5, <2>8 DEF UsersCountPointers, TypeOK
    <3> QED
      BY <3>1, <3>2
  <2>13. OwnerIsInside'
    BY <2>1 DEF OwnerIsInside, TypeOK
  <2> QED
    BY <2>7, <2>10, <2>11, <2>12, <2>13
<1>6. CASE UNCHANGED vars
  BY <1>6 DEF vars, TypeOK, PointsToTable, EntriesAreDistinct, UsersCountPointers, OwnerIsInside, Referrers
<1> QED
  BY <1>1, <1>2, <1>3, <1>4, <1>5, <1>6 DEF Next, Register

\* The inductive invariant holds of every behaviour of locks.go.
THEOREM InductiveInvariant == Spec => []IInv
<1> QED
  BY InitIInv, NextIInv, PTL DEF Spec

\* The variables keep their types: users never goes below zero.
THEOREM TypeCorrect == Spec => []TypeOK
<1>1. IInv => TypeOK
  BY DEF IInv
<1> QED
  BY <1>1, InductiveInvariant, PTL

\* Two callers inside with the same key would both own the entry that key has.
LEMMA IInvMutualExclusion == IInv => MutualExclusion
<1> SUFFICES ASSUME IInv, NEW c \in Callers, NEW d \in Callers, c # d,
                    pc[c] = "inside", pc[d] = "inside", key[c] = key[d]
             PROVE FALSE
  BY DEF MutualExclusion
<1>1. ref[c] = table[key[c]] /\ ref[d] = table[key[d]]
  BY DEF IInv, PointsToTable
<1>2. owner[ref[c]] = c /\ owner[ref[d]] = d
  BY DEF IInv, OwnerIsInside
<1> QED
  BY <1>1, <1>2

\* At most one maintenance operation per profile is between lock and unlock.
THEOREM Exclusion == Spec => []MutualExclusion
<1> QED
  BY IInvMutualExclusion, InductiveInvariant, PTL

\* The table has an entry for a key exactly while a caller of that key uses it.
THEOREM NoEntryLeaks == Spec => []TableTracksUsers
<1>1. IInv => TableTracksUsers
  <2> SUFFICES ASSUME IInv, NEW k \in Keys
               PROVE (table[k] # NoEntry)
                       <=> (\E c \in Callers : pc[c] # "outside" /\ key[c] = k)
    BY DEF TableTracksUsers
  <2>1. ASSUME table[k] # NoEntry PROVE \E c \in Callers : pc[c] # "outside" /\ key[c] = k
    <3>0. table[k] \in Entries
      BY <2>1 DEF IInv, TypeOK
    <3>1. PICK c \in Callers : ref[c] = table[k]
      BY <3>0 DEF IInv, UsersCountPointers, Referrers, TypeOK
    <3>2. pc[c] # "outside" /\ table[key[c]] = table[k] /\ key[c] \in Keys
      BY <3>1, <2>1 DEF IInv, PointsToTable, TypeOK
    <3> QED
      BY <3>2, <2>1 DEF IInv, EntriesAreDistinct
  <2>2. ASSUME NEW c \in Callers, pc[c] # "outside", key[c] = k PROVE table[k] # NoEntry
    BY <2>2, EntriesAssumption DEF IInv, PointsToTable
  <2> QED
    BY <2>1, <2>2
<1> QED
  BY <1>1, InductiveInvariant, PTL

-----------------------------------------------------------------------------
(***************************************************************************)
(* Refinement: the table of entries implements one mutex per key.          *)
(***************************************************************************)

\* What the refinement mapping says of a state.
HolderMap ==
    \A k \in Keys :
        /\ Holder[k] \in Callers \cup {Nobody}
        /\ \A c \in Callers : Holder[k] = c <=> pc[c] = "inside" /\ key[c] = k

\* Under the invariant the mapped holder is the one caller that is inside.
LEMMA HolderIsInside == IInv => HolderMap
<1> SUFFICES ASSUME IInv, NEW k \in Keys
             PROVE /\ Holder[k] \in Callers \cup {Nobody}
                   /\ \A c \in Callers : Holder[k] = c <=> pc[c] = "inside" /\ key[c] = k
  BY DEF HolderMap
<1> DEFINE Here(c) == pc[c] = "inside" /\ key[c] = k
<1>1. Holder[k] = IF \E c \in Callers : Here(c) THEN CHOOSE c \in Callers : Here(c) ELSE Nobody
  BY DEF Holder
<1>2. \A c, d \in Callers : Here(c) /\ Here(d) => c = d
  BY IInvMutualExclusion DEF MutualExclusion
<1> HIDE DEF Here
<1>3. CASE \E c \in Callers : Here(c)
  <2>1. Holder[k] \in Callers /\ Here(Holder[k])
    BY <1>1, <1>3
  <2> QED
    BY <2>1, <1>2 DEF Here
<1>4. CASE \A c \in Callers : ~Here(c)
  BY <1>1, <1>4, CallersAssumption DEF Here
<1> QED
  BY <1>3, <1>4

\* Entering and unlocking are Acquire and Release of the mutex; finding, making
\* and dropping entries are stutters.
THEOREM Implementation == Spec => ImplementsMutex
<1>1. Init => Mutex!Init
  <2> SUFFICES ASSUME Init PROVE Holder = [k \in Keys |-> Nobody]
    BY DEF Mutex!Init
  <2> QED
    BY DEF Init, Holder
<1>2. IInv /\ IInv' /\ [Next]_vars => [Mutex!Next]_Holder
  <2> SUFFICES ASSUME IInv, IInv', [Next]_vars PROVE Mutex!Next \/ Holder' = Holder
    OBVIOUS
  <2> DEFINE Inside(c, k) == pc[c] = "inside" /\ key[c] = k
  <2>1. /\ Holder = [k \in Keys |-> Holder[k]]
        /\ Holder' = [k \in Keys |-> Holder'[k]]
    BY DEF Holder
  <2>2. \A k \in Keys : /\ Holder[k] \in Callers \cup {Nobody}
                        /\ \A c \in Callers : Holder[k] = c <=> Inside(c, k)
    BY HolderIsInside DEF HolderMap
  <2>3. \A k \in Keys : /\ Holder'[k] \in Callers \cup {Nobody}
                        /\ \A c \in Callers : Holder'[k] = c <=> Inside(c, k)'
    <3>1. HolderMap'
      BY HolderIsInside, PTL
    <3> QED
      BY <3>1 DEF HolderMap
  <2>4. ASSUME \A c \in Callers, k \in Keys : Inside(c, k)' <=> Inside(c, k)
        PROVE Holder' = Holder
    <3>1. \A k \in Keys : Holder'[k] = Holder[k]
      <4> HIDE DEF Inside
      <4> QED
        BY <2>2, <2>3, <2>4
    <3> QED
      BY <3>1, <2>1
  <2>5. ASSUME NEW c \in Callers, NEW k \in Keys, Register(c, k) PROVE Holder' = Holder
    BY <2>4, <2>5 DEF Register, IInv, TypeOK
  <2>6. ASSUME NEW c \in Callers, Deregister(c) PROVE Holder' = Holder
    BY <2>4, <2>6 DEF Deregister, IInv, TypeOK
  <2>7. ASSUME NEW c \in Callers, Enter(c) PROVE Mutex!Next
    <3> DEFINE k == key[c]
    <3>1. /\ pc[c] = "waiting" /\ pc' = [pc EXCEPT ![c] = "inside"] /\ key' = key
          /\ k \in Keys /\ pc \in [Callers -> Stages]
      BY <2>7 DEF Enter, IInv, TypeOK
    <3>2. \A l \in Keys : Holder[l] # c
      BY <3>1, <2>2
    <3>3. Holder'[k] = c
      BY <3>1, <2>3
    <3>4. Holder[k] = Nobody
      <4>1. ASSUME NEW d \in Callers, Holder[k] = d PROVE FALSE
        <5>1. Inside(d, k)'
          BY <4>1, <3>1, <3>2, <2>2
        <5> QED
          BY <5>1, <3>1, <3>3, <3>2, <4>1, <2>3
      <4> QED
        BY <4>1, <2>2, <3>1
    <3>5. \A l \in Keys \ {k} : Holder'[l] = Holder[l]
      BY <3>1, <2>2, <2>3
    <3>6. Holder' = [Holder EXCEPT ![k] = c]
      BY <3>1, <3>3, <3>5, <2>1
    <3>7. Mutex!Acquire(c, k)
      BY <3>2, <3>4, <3>6 DEF Mutex!Acquire
    <3> QED
      BY <3>1, <3>7 DEF Mutex!Next
  <2>8. ASSUME NEW c \in Callers, Unlock(c) PROVE Mutex!Next
    <3> DEFINE k == key[c]
    <3>1. /\ pc[c] = "inside" /\ pc' = [pc EXCEPT ![c] = "leaving"] /\ key' = key
          /\ k \in Keys /\ pc \in [Callers -> Stages]
      BY <2>8 DEF Unlock, IInv, TypeOK
    <3>2. Holder[k] = c
      BY <3>1, <2>2
    <3>3. Holder'[k] = Nobody
      <4>1. ASSUME NEW d \in Callers, Holder'[k] = d PROVE FALSE
        <5>1. Inside(d, k)'
          BY <4>1, <3>1, <2>3
        <5>2. d # c /\ Inside(d, k)
          BY <5>1, <3>1
        <5> QED
          BY <5>2, <3>2, <3>1, <2>2
      <4> QED
        BY <4>1, <2>3, <3>1
    <3>4. \A l \in Keys \ {k} : Holder'[l] = Holder[l]
      BY <3>1, <2>2, <2>3
    <3>5. Holder' = [Holder EXCEPT ![k] = Nobody]
      BY <3>1, <3>3, <3>4, <2>1
    <3>6. Mutex!Release(c, k)
      BY <3>2, <3>5 DEF Mutex!Release
    <3> QED
      BY <3>1, <3>6 DEF Mutex!Next
  <2>9. CASE UNCHANGED vars
    BY <2>9, <2>4 DEF vars
  <2> QED
    BY <2>5, <2>6, <2>7, <2>8, <2>9 DEF Next
<1> QED
  BY <1>1, <1>2, InductiveInvariant, PTL DEF Spec, ImplementsMutex, Mutex!Spec
=============================================================================
