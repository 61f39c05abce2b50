---------------------------- MODULE BackupsProofs ----------------------------
(***************************************************************************)
(* For any profiles, operations and numbers of moves: exports do not       *)
(* disturb each other nor archive what the browsers they know of write,    *)
(* restores are complete or taken back, and what cannot be opened after    *)
(* one is known.                                                           *)
(***************************************************************************)
EXTENDS Backups, WellFoundedInduction, SequenceTheorems, TLAPS

USE ProfilesAssumption, NoneAssumption, BoundsAssumption
USE DEF Exporting, Importing

-----------------------------------------------------------------------------
(***************************************************************************)
(* UUIDs are ordered                                                       *)
(***************************************************************************)
LEMMA LeastElement ==
    ASSUME NEW S \in SUBSET Nat, S # {}
    PROVE  \E p \in S : \A q \in S : p <= q
<1> DEFINE less == OpToRel(<, Nat)
<1>1. IsWellFoundedOn(less, Nat)
  BY NatLessThanWellFounded
<1>2. PICK p \in S : \A q \in S : <<q, p>> \notin less
  BY <1>1, WFMin
<1>3. \A q \in S : <<q, p>> \in less \/ p <= q
  BY DEF OpToRel
<1> QED
  BY <1>2, <1>3

\* The greatest element of a bounded set is the least distance to its bound.
LEMMA GreatestElement ==
    ASSUME NEW n \in Nat, NEW S \in SUBSET Nat, S # {}, \A p \in S : p <= n
    PROVE  \E p \in S : \A q \in S : q <= p
<1> DEFINE D == {d \in Nat : n - d \in S}
<1>1. \A q \in S : n - q \in D
  OBVIOUS
<1>2. D \in SUBSET Nat /\ D # {}
  BY <1>1
<1>3. PICK d \in D : \A e \in D : d <= e
  <2> HIDE DEF D
  <2> QED
    BY <1>2, LeastElement
<1>4. n - d \in S /\ d \in Nat
  BY <1>3
<1>5. \A q \in S : d <= n - q
  BY <1>1, <1>3
<1>6. \A q \in S : q <= n - d
  BY <1>4, <1>5
<1> QED
  BY <1>4, <1>6

LEMMA FirstIsLeast ==
    ASSUME NEW S \in SUBSET Profiles, S # {}
    PROVE  First(S) \in S /\ First(S) \in Profiles /\ \A q \in S : First(S) <= q
<1>1. \E p \in S : \A q \in S : p <= q
  BY LeastElement
<1> QED
  BY <1>1 DEF First

LEMMA LastIsGreatest ==
    ASSUME NEW S \in SUBSET Profiles, S # {}
    PROVE  Last(S) \in S /\ Last(S) \in Profiles /\ \A q \in S : q <= Last(S)
<1>1. \E p \in S : \A q \in S : q <= p
  BY GreatestElement
<1> QED
  BY <1>1 DEF Last

-----------------------------------------------------------------------------
(***************************************************************************)
(* Records and manifests                                                   *)
(***************************************************************************)
\* What the operations change in a record.
LEMMA RecordFields ==
    ASSUME NEW r \in Record
    PROVE  /\ r # None
           /\ \A route \in Routes : [r EXCEPT !.route = route] \in Record
           /\ \A owner \in Profiles \cup {None} : [r EXCEPT !.owner = owner] \in Record
           /\ \A seed \in Profiles \cup {None}, owner \in Profiles \cup {None} :
                 [r EXCEPT !.seed = seed, !.owner = owner] \in Record
           /\ r.tree \in 0..MaxMoves /\ r.seed \in Profiles \cup {None}
           /\ r.owner \in Profiles \cup {None} /\ r.route \in Routes /\ r.ext \in SUBSET Extensions
BY DEF Record, Routes

LEMMA RecordTree ==
    ASSUME NEW r \in Record, NEW t \in 0..MaxMoves
    PROVE  [r EXCEPT !.tree = t] \in Record
BY DEF Record

LEMMA Manifests ==
    ASSUME NEW m \in Manifest
    PROVE  /\ \A p \in Profiles : m[p] \in Record \/ m[p] = None
           /\ In(m) \subseteq Profiles
           /\ \A p \in Profiles : p \in In(m) <=> m[p] # None
           /\ \A p \in In(m) : m[p] \in Record
BY DEF Manifest, In

LEMMA ManifestEntry ==
    ASSUME NEW m \in Manifest, NEW p \in Profiles, NEW r \in Record \cup {None}
    PROVE  /\ [m EXCEPT ![p] = r] \in Manifest
           /\ [m EXCEPT ![p] = r][p] = r
           /\ \A q \in Profiles \ {p} : [m EXCEPT ![p] = r][q] = m[q]
           /\ In([m EXCEPT ![p] = r]) = IF r = None THEN In(m) \ {p} ELSE In(m) \cup {p}
BY DEF Manifest, In

LEMMA EmptyManifest == Empty \in Manifest /\ In(Empty) = {} /\ \A p \in Profiles : Empty[p] = None
BY DEF Empty, Manifest, In

-----------------------------------------------------------------------------
(***************************************************************************)
(* What the helpers of the operations do                                   *)
(***************************************************************************)
Steps == {"idle", "record"} \cup Exporting \cup Importing

\* Operation x is where it was.
Same(x) ==
    /\ pc'[x] = pc[x] /\ ok'[x] = ok[x] /\ todo'[x] = todo[x]
    /\ held'[x] = held[x] /\ draft'[x] = draft[x] /\ made'[x] = made[x]

LEMMA GotoMoves ==
    ASSUME TypeOK, NEW o \in Operations, NEW step \in Steps, Goto(o, step)
    PROVE  /\ pc' \in [Operations -> Steps] /\ pc'[o] = step
           /\ \A x \in Operations \ {o} : pc'[x] = pc[x]
BY DEF TypeOK, Goto, Steps

LEMMA FailMoves ==
    ASSUME TypeOK, NEW o \in Operations, NEW step \in Steps, Fail(o, step)
    PROVE  /\ pc' \in [Operations -> Steps] /\ pc'[o] = step
           /\ ok' \in [Operations -> BOOLEAN] /\ ~ok'[o]
           /\ \A x \in Operations \ {o} : pc'[x] = pc[x] /\ ok'[x] = ok[x]
BY DEF TypeOK, Fail, Goto, Steps

LEMMA AdvanceMoves ==
    ASSUME TypeOK, NEW o \in Operations, NEW p \in todo[o], NEW step \in Steps,
           NEW S \in SUBSET Profiles, Advance(o, p, step, S)
    PROVE  /\ pc' \in [Operations -> Steps] /\ todo' \in [Operations -> SUBSET Profiles]
           /\ \A x \in Operations \ {o} : pc'[x] = pc[x] /\ todo'[x] = todo[x]
           /\ \/ todo[o] = {p} /\ pc'[o] = step /\ todo'[o] = S
              \/ todo[o] # {p} /\ pc'[o] = pc[o] /\ todo'[o] = todo[o] \ {p}
<1> todo[o] \in SUBSET Profiles
  BY DEF TypeOK
<1>1. CASE todo[o] = {p}
  <2>1. Goto(o, step) /\ todo' = [todo EXCEPT ![o] = S]
    BY <1>1 DEF Advance
  <2>2. /\ pc' \in [Operations -> Steps] /\ pc'[o] = step
        /\ \A x \in Operations \ {o} : pc'[x] = pc[x]
    BY <2>1, GotoMoves
  <2> QED
    BY <1>1, <2>1, <2>2 DEF TypeOK
<1>2. CASE todo[o] # {p}
  <2>1. pc' = pc /\ todo' = [todo EXCEPT ![o] = todo[o] \ {p}]
    BY <1>2 DEF Advance
  <2> QED
    BY <1>2, <2>1 DEF TypeOK, Steps
<1> QED
  BY <1>1, <1>2

LEMMA OverMoves ==
    ASSUME TypeOK, NEW o \in Operations, Over(o)
    PROVE  /\ pc' \in [Operations -> Steps] /\ pc'[o] = "idle"
           /\ ok' \in [Operations -> BOOLEAN] /\ ok'[o]
           /\ todo' \in [Operations -> SUBSET Profiles] /\ todo'[o] = {}
           /\ draft' \in [Operations -> Manifest] /\ draft'[o] = Empty
           /\ made' \in [Operations -> Seq(Profiles)] /\ made'[o] = <<>>
           /\ \A x \in Operations \ {o} : /\ pc'[x] = pc[x] /\ ok'[x] = ok[x] /\ todo'[x] = todo[x]
                                          /\ draft'[x] = draft[x] /\ made'[x] = made[x]
           /\ blame' \in [Operations -> Operations \cup {None}]
           /\ \A x \in Operations : blame'[x] = IF x = o \/ blame[x] = o THEN None ELSE blame[x]
           /\ maker' \in [Profiles -> Operations \cup {None}]
           /\ \A p \in Profiles : maker'[p] = IF maker[p] = o THEN None ELSE maker[p]
           /\ undeleted' = {p \in undeleted : maker[p] # o}
<1>1. Goto(o, "idle")
  BY DEF Over
<1>2. /\ pc' \in [Operations -> Steps] /\ pc'[o] = "idle"
      /\ \A x \in Operations \ {o} : pc'[x] = pc[x]
  BY <1>1, GotoMoves DEF Steps
<1>3. /\ draft' \in [Operations -> Manifest] /\ draft'[o] = Empty
      /\ \A x \in Operations \ {o} : draft'[x] = draft[x]
  BY EmptyManifest DEF Over, TypeOK
<1>4. /\ made' \in [Operations -> Seq(Profiles)] /\ made'[o] = <<>>
      /\ \A x \in Operations \ {o} : made'[x] = made[x]
  BY EmptySeq DEF Over, TypeOK
<1>5. /\ ok' \in [Operations -> BOOLEAN] /\ ok'[o] /\ \A x \in Operations \ {o} : ok'[x] = ok[x]
      /\ todo' \in [Operations -> SUBSET Profiles] /\ todo'[o] = {}
      /\ \A x \in Operations \ {o} : todo'[x] = todo[x]
  BY DEF Over, TypeOK
<1>6. /\ blame' \in [Operations -> Operations \cup {None}]
      /\ \A x \in Operations : blame'[x] = IF x = o \/ blame[x] = o THEN None ELSE blame[x]
  BY DEF Over, TypeOK
<1>7. /\ maker' \in [Profiles -> Operations \cup {None}]
      /\ \A p \in Profiles : maker'[p] = IF maker[p] = o THEN None ELSE maker[p]
      /\ undeleted' = {p \in undeleted : maker[p] # o}
  BY DEF Over, TypeOK
<1> QED
  BY <1>2, <1>3, <1>4, <1>5, <1>6, <1>7

LEMMA EndMaintenanceMoves ==
    ASSUME TypeOK, NEW o \in Operations, NEW p \in held[o], EndMaintenance(o, p)
    PROVE  /\ lease' \in [Profiles -> {"free", "launching", "running", "maintaining"}]
           /\ \A q \in Profiles \ {p} : lease'[q] = lease[q]
           /\ held' \in [Operations -> SUBSET Profiles] /\ held'[o] = held[o] \ {p}
           /\ \A x \in Operations \ {o} : held'[x] = held[x]
BY DEF TypeOK, EndMaintenance

-----------------------------------------------------------------------------
(***************************************************************************)
(* What a step leaves as it was                                            *)
(***************************************************************************)
LEMMA WorkStands ==
    ASSUME NEW x \in Operations, Work(x), Same(x), archive' = archive \/ In(archive') # {}
    PROVE  Work(x)'
BY DEF Work, Same, Looping, In

LEMMA HoldsStands ==
    ASSUME NEW x \in Operations, Holds(x), Same(x), \A p \in held[x] : lease'[p] = lease[p]
    PROVE  Holds(x)'
BY DEF Holds, Same, In

LEMMA CommitsStand ==
    ASSUME NEW x \in Operations, Commits(x), Same(x),
           \A p \in Profiles : maker'[p] = x => maker[p] = x /\ (p \in undeleted => p \in undeleted')
    PROVE  Commits(x)'
BY DEF Commits, Same, Committing, Has

\* A restore stands when its profile and what it is owed do.
LEMMA RestoredStands ==
    ASSUME NEW x \in Operations, NEW p \in Profiles, Restored(x, p), Same(x),
           \/ maker'[p] # x
           \/ owed'[p] = None
           \/ maker'[p] = maker[p] /\ owed'[p] = owed[p] /\ profile'[p] = profile[p]
    PROVE  Restored(x, p)'
BY DEF Restored, Same, Unfinished, Newest

\* The invariants about reservations and blame, for a step of an operation that
\* neither waits for a reservation nor gives one back.
LEMMA ReservationsStand ==
    ASSUME IInv, NEW o \in Operations,
           UNCHANGED <<lease, held, blame>>, \A x \in Operations \ {o} : Same(x),
           pc[o] # "refused", pc'[o] \notin {"idle", "read", "reserve"}
    PROVE  /\ HoldersExclude' /\ BlamedIsAhead' /\ ExportsDoNotFailEachOther'
           /\ \A x \in Operations \ {o} : Holds(x)'
<1>1. HoldersExclude' /\ ExportsDoNotFailEachOther'
  BY DEF IInv, HoldersExclude, ExportsDoNotFailEachOther
<1>2. BlamedIsAhead'
  BY DEF IInv, BlamedIsAhead, Same
<1>3. \A x \in Operations \ {o} : Holds(x)'
  BY HoldsStands DEF IInv, LeasesAreHeld
<1> QED
  BY <1>1, <1>2, <1>3

\* The invariants about restores, for a step of an operation that is not
\* restoring.
LEMMA RestoresStand ==
    ASSUME IInv, NEW o \in Operations,
           UNCHANGED <<profile, owed, maker, undeleted>>, \A x \in Operations \ {o} : Same(x),
           pc[o] \notin Committing \cup {"record"}, pc'[o] \notin {"rebind", "route", "rollback"},
           made'[o] = made[o], ok'[o] \/ pc'[o] = "record"
    PROVE  CommitsAreKnown' /\ RestoredSoFar'
<1>1. made[o] = <<>> /\ \A p \in Profiles : maker[p] # o
  BY DEF IInv, CommitsAreKnown, Commits
<1>2. Commits(o)'
  BY <1>1 DEF Commits
<1>3. \A x \in Operations \ {o} : Commits(x)'
  BY CommitsStand DEF IInv, CommitsAreKnown
<1>4. \A p \in Profiles : Restored(o, p)'
  BY <1>1 DEF Restored
<1>5. \A x \in Operations \ {o}, p \in Profiles : Restored(x, p)'
  BY RestoredStands DEF IInv, RestoredSoFar
<1> QED
  BY <1>2, <1>3, <1>4, <1>5 DEF CommitsAreKnown, RestoredSoFar

LEMMA TreesStand ==
    ASSUME TreesAreOfTheirTime, UNCHANGED <<profile, archive, moves>>, NEW o \in Operations,
           \A x \in Operations \ {o} : Same(x), Aged(draft[o])'
    PROVE  TreesAreOfTheirTime'
BY DEF TreesAreOfTheirTime, Aged, In, Same

LEMMA InitIInv == Init => IInv
<1> SUFFICES ASSUME Init PROVE IInv
  OBVIOUS
<1>1. ASSUME NEW S \in SUBSET Profiles, NEW X \in SUBSET Extensions
      PROVE  /\ Having(S, X) \in Manifest
             /\ \A p \in In(Having(S, X)) : p \in S /\ Having(S, X)[p].tree = 0
  BY DEF Having, Fresh, Manifest, Record, Routes, In
<1>2. /\ profile \in Manifest /\ archive \in Manifest /\ used \in SUBSET Profiles
      /\ \A p \in In(profile) : p \in used /\ profile[p].tree = 0
      /\ \A p \in In(archive) : archive[p].tree = 0
  <2>1. PICK S \in {{1}, {1, 2}} : profile = Having(S, {}) /\ used = S
    BY DEF Init
  <2>2. PICK T \in {{}, {1, 2}} : archive = Having(T, Extensions)
    BY DEF Init
  <2> QED
    BY <1>1, <2>1, <2>2
<1>3. TypeOK
  BY <1>2, EmptyManifest, EmptySeq DEF Init, TypeOK, Empty
<1>4. StoredWasUsed
  BY <1>2, Manifests DEF StoredWasUsed
<1>5. TreesAreOfTheirTime
  BY <1>2, EmptyManifest DEF TreesAreOfTheirTime, Aged, Init
<1>6. LoopsHaveWork
  BY DEF Init, LoopsHaveWork, Work, Looping
<1>7. LeasesAreHeld /\ HoldersExclude
  BY DEF Init, LeasesAreHeld, Holds, HoldersExclude
<1>8. BlamedIsAhead /\ ExportsDoNotFailEachOther
  BY DEF Init, BlamedIsAhead, ExportsDoNotFailEachOther
<1>9. CommitsAreKnown /\ RestoredSoFar
  BY DEF Init, Empty, CommitsAreKnown, Commits, Committing, RestoredSoFar, Restored
<1> QED
  BY <1>3, <1>4, <1>5, <1>6, <1>7, <1>8, <1>9 DEF IInv

-----------------------------------------------------------------------------
(***************************************************************************)
(* Export                                                                  *)
(***************************************************************************)
\* Export and Import are called.
LEMMA BeginKeepsIInv ==
    ASSUME IInv, NEW o \in Operations, NEW step \in {"read", "decrypt"}, NEW S \in SUBSET Profiles,
           Begin(o, step, S, Empty),
           step = "read" => S # {}, step = "decrypt" => In(archive) # {}
    PROVE  IInv'
<1> USE DEF IInv
<1>1. /\ pc[o] = "idle" /\ pc' \in [Operations -> Steps] /\ pc'[o] = step
      /\ \A x \in Operations \ {o} : pc'[x] = pc[x]
  BY GotoMoves DEF Begin, Steps
<1>2. /\ todo' \in [Operations -> SUBSET Profiles] /\ todo'[o] = S
      /\ draft' \in [Operations -> Manifest] /\ draft'[o] = Empty
      /\ \A x \in Operations \ {o} : todo'[x] = todo[x] /\ draft'[x] = draft[x]
      /\ runs' \in 0..MaxRuns
  BY EmptyManifest DEF Begin, TypeOK
<1>3. UNCHANGED <<disk, browsers, ok, held, made, observers, moves>>
  BY DEF Begin
<1> USE <1>3 DEF disk, browsers, observers
<1>4. \A x \in Operations \ {o} : Same(x)
  BY <1>1, <1>2 DEF Same
<1>5. held[o] = {}
  BY <1>1 DEF LeasesAreHeld, Holds
<1>6. TypeOK'
  BY <1>1, <1>2 DEF TypeOK, Steps
<1>7. StoredWasUsed' /\ TreesAreOfTheirTime'
  BY <1>2, <1>4, TreesStand, EmptyManifest DEF StoredWasUsed, Aged
<1>8. LoopsHaveWork'
  BY <1>1, <1>2, <1>4, WorkStands DEF LoopsHaveWork, Work, Looping, In
<1>9. Holds(o)'
  BY <1>1, <1>5 DEF Holds
<1>10. \A x \in Operations \ {o} : Holds(x)'
  BY <1>4, HoldsStands DEF LeasesAreHeld
<1>11. HoldersExclude' /\ ExportsDoNotFailEachOther'
  BY DEF HoldersExclude, ExportsDoNotFailEachOther
<1>12. BlamedIsAhead'
  BY <1>1, <1>4 DEF BlamedIsAhead, Same
<1>13. CommitsAreKnown' /\ RestoredSoFar'
  BY <1>1, <1>4, RestoresStand DEF Committing, CommitsAreKnown, Commits
<1> QED
  BY <1>6, <1>7, <1>8, <1>9, <1>10, <1>11, <1>12, <1>13 DEF LeasesAreHeld

\* An operation that has committed nothing and reserves nothing is over.
LEMMA OverKeepsIInv ==
    ASSUME IInv, NEW o \in Operations, Over(o), held[o] = {}, pc[o] \in {"read", "refused", "record"},
           UNCHANGED <<disk, browsers, held, runs, owed, stranded, moves>>
    PROVE  IInv'
<1> USE DEF IInv, disk, browsers
<1>1. /\ pc' \in [Operations -> Steps] /\ pc'[o] = "idle"
      /\ ok' \in [Operations -> BOOLEAN] /\ ok'[o]
      /\ todo' \in [Operations -> SUBSET Profiles] /\ todo'[o] = {}
      /\ draft' \in [Operations -> Manifest] /\ draft'[o] = Empty
      /\ made' \in [Operations -> Seq(Profiles)] /\ made'[o] = <<>>
  BY OverMoves
<1>2. \A x \in Operations \ {o} : Same(x)
  BY OverMoves DEF Same
<1>3. /\ blame' \in [Operations -> Operations \cup {None}]
      /\ \A x \in Operations : blame'[x] = IF x = o \/ blame[x] = o THEN None ELSE blame[x]
      /\ maker' \in [Profiles -> Operations \cup {None}]
      /\ \A p \in Profiles : maker'[p] = IF maker[p] = o THEN None ELSE maker[p]
      /\ undeleted' = {p \in undeleted : maker[p] # o}
  BY OverMoves
<1>4. TypeOK'
  BY <1>1, <1>3 DEF TypeOK, Steps
<1>5. StoredWasUsed' /\ TreesAreOfTheirTime'
  BY <1>1, <1>2, TreesStand, EmptyManifest DEF StoredWasUsed, Aged
<1>6. LoopsHaveWork'
  BY <1>1, <1>2, WorkStands DEF LoopsHaveWork, Work, Looping
<1>7. LeasesAreHeld'
  BY <1>1, <1>2, HoldsStands DEF LeasesAreHeld, Holds
<1>8. HoldersExclude'
  BY DEF HoldersExclude
<1>9. BlamedIsAhead'
  BY <1>2, <1>3 DEF BlamedIsAhead, Same
<1>10. ExportsDoNotFailEachOther'
  BY <1>3 DEF ExportsDoNotFailEachOther
<1>11. CommitsAreKnown'
  <2>1. Commits(o)'
    BY <1>1, <1>3 DEF Commits
  <2>2. \A x \in Operations \ {o} : Commits(x)'
    BY <1>2, <1>3, CommitsStand DEF CommitsAreKnown
  <2> QED
    BY <2>1, <2>2 DEF CommitsAreKnown
<1>12. RestoredSoFar'
  <2>1. \A p \in Profiles : Restored(o, p)'
    BY <1>3 DEF Restored
  <2>2. ASSUME NEW x \in Operations \ {o}, NEW p \in Profiles PROVE Restored(x, p)'
    <3>1. maker'[p] # x \/ maker'[p] = maker[p]
      BY <1>3
    <3> QED
      BY <1>2, <3>1, RestoredStands DEF RestoredSoFar
  <2> QED
    BY <2>1, <2>2 DEF RestoredSoFar
<1> QED
  BY <1>4, <1>5, <1>6, <1>7, <1>8, <1>9, <1>10, <1>11, <1>12

LEMMA ReadMetadataKeepsIInv ==
    ASSUME IInv, NEW o \in Operations, NEW p \in Profiles, ReadMetadata(o, p)
    PROVE  IInv'
<1> USE DEF IInv
<1>1. /\ pc[o] = "read" /\ p \in todo[o] /\ held[o] = {} /\ draft[o] \in Manifest
      /\ UNCHANGED <<disk, browsers, held, runs, owed, stranded, moves>>
  BY DEF ReadMetadata, LeasesAreHeld, Holds, TypeOK
<1>2. CASE profile[p] = None
  BY <1>1, <1>2, OverKeepsIInv DEF ReadMetadata
<1>3. CASE profile[p] # None
  <2>1. /\ draft' = [draft EXCEPT ![o][p] = profile[p]]
        /\ Advance(o, p, "reserve", In(draft'[o]))
        /\ UNCHANGED <<ok, made, blame, maker, undeleted>>
    BY <1>3 DEF ReadMetadata
  <2>2. PICK r \in Record : r = profile[p]
    BY <1>3, Manifests DEF TypeOK
  <2> DEFINE m == [draft[o] EXCEPT ![p] = r]
  <2>3. /\ m \in Manifest /\ In(m) = In(draft[o]) \cup {p} /\ In(m) \in SUBSET Profiles
        /\ m[p] = profile[p] /\ \A q \in Profiles \ {p} : m[q] = draft[o][q]
    <3>1. r # None
      BY <1>3, <2>2
    <3>2. /\ m \in Manifest /\ In(m) = In(draft[o]) \cup {p} /\ m[p] = r
          /\ \A q \in Profiles \ {p} : m[q] = draft[o][q]
      BY <1>1, <3>1 DEF Manifest, In
    <3> HIDE DEF m
    <3> QED
      BY <2>2, <3>2, Manifests
  <2>4. draft' = [draft EXCEPT ![o] = m]
    BY <2>1, <2>2
  <2> HIDE DEF m
  <2>5. /\ draft' \in [Operations -> Manifest] /\ draft'[o] = m
         /\ \A x \in Operations \ {o} : draft'[x] = draft[x]
    BY <2>3, <2>4 DEF TypeOK
  <2>6. /\ pc' \in [Operations -> Steps] /\ todo' \in [Operations -> SUBSET Profiles]
        /\ \A x \in Operations \ {o} : pc'[x] = pc[x] /\ todo'[x] = todo[x]
        /\ \/ pc'[o] = "reserve" /\ todo'[o] = In(m)
           \/ pc'[o] = "read" /\ todo'[o] # {}
    <3>1. Advance(o, p, "reserve", In(m)) /\ "reserve" \in Steps
      BY <2>1, <2>5 DEF Steps
    <3>2. /\ pc' \in [Operations -> Steps] /\ todo' \in [Operations -> SUBSET Profiles]
          /\ \A x \in Operations \ {o} : pc'[x] = pc[x] /\ todo'[x] = todo[x]
          /\ \/ todo[o] = {p} /\ pc'[o] = "reserve" /\ todo'[o] = In(m)
             \/ todo[o] # {p} /\ pc'[o] = pc[o] /\ todo'[o] = todo[o] \ {p}
      BY <1>1, <2>3, <3>1, AdvanceMoves
    <3> QED
      BY <1>1, <3>2
  <2> USE <1>1, <2>1 DEF disk, browsers
  <2>7. \A x \in Operations \ {o} : Same(x)
    BY <2>5, <2>6 DEF Same
  <2>8. TypeOK'
    BY <2>5, <2>6 DEF TypeOK, Steps
  <2>9. StoredWasUsed' /\ TreesAreOfTheirTime'
    <3>1. Aged(draft[o])'
      <4>1. \A q \in In(m) : m[q].tree <= moves
        BY <1>1, <1>3, <2>3, Manifests DEF TreesAreOfTheirTime, Aged, TypeOK
      <4> QED
        BY <2>5, <4>1 DEF Aged, In
    <3> QED
      BY <2>7, <3>1, TreesStand DEF StoredWasUsed
  <2>10. LoopsHaveWork'
    <3>1. Work(o)'
      BY <2>3, <2>5, <2>6 DEF Work, Looping, In
    <3> QED
      BY <2>7, <3>1, WorkStands DEF LoopsHaveWork
  <2>11. LeasesAreHeld'
    <3>1. Holds(o)'
      BY <2>5, <2>6 DEF Holds, In
    <3> QED
      BY <2>7, <3>1, HoldsStands DEF LeasesAreHeld
  <2>12. HoldersExclude' /\ ExportsDoNotFailEachOther'
    BY DEF HoldersExclude, ExportsDoNotFailEachOther
  <2>13. BlamedIsAhead'
    BY <2>7 DEF BlamedIsAhead, Same
  <2>14. CommitsAreKnown' /\ RestoredSoFar'
    BY <2>6, <2>7, RestoresStand DEF Committing, CommitsAreKnown, Commits
  <2> QED
    BY <2>8, <2>9, <2>10, <2>11, <2>12, <2>13, <2>14
<1> QED
  BY <1>2, <1>3

\* The next UUID is free: it comes after all that are held, and nobody else
\* holds it.
LEMMA ReservedKeepsIInv ==
    ASSUME IInv, NEW o \in Operations, Reserve(o), Reserved(o, First(todo[o]))
    PROVE  IInv'
<1> DEFINE p == First(todo[o])
<1> USE DEF IInv
<1>1. pc[o] = "reserve" /\ UNCHANGED <<disk, surviving, ok, draft, made, runs, owed, maker, undeleted, stranded, moves>>
  BY DEF Reserve
<1>2. /\ p \in todo[o] /\ p \in Profiles /\ (\A q \in todo[o] : p <= q)
      /\ todo[o] \in SUBSET Profiles /\ todo[o] \subseteq In(draft[o])
      /\ In(draft[o]) \in SUBSET Profiles
  BY <1>1, FirstIsLeast, Manifests DEF LoopsHaveWork, Work, Looping, TypeOK
<1> HIDE DEF p
<1>3. lease[p] = "free" /\ lease' = [lease EXCEPT ![p] = "maintaining"]
      /\ held' = [held EXCEPT ![o] = held[o] \cup {p}]
      /\ Advance(o, p, "settings", In(draft[o])) /\ UNCHANGED blame
  BY DEF Reserved, p
<1>4. /\ pc' \in [Operations -> Steps] /\ todo' \in [Operations -> SUBSET Profiles]
      /\ \A x \in Operations \ {o} : pc'[x] = pc[x] /\ todo'[x] = todo[x]
      /\ \/ todo[o] = {p} /\ pc'[o] = "settings" /\ todo'[o] = In(draft[o])
         \/ todo[o] # {p} /\ pc'[o] = "reserve" /\ todo'[o] = todo[o] \ {p}
  BY <1>1, <1>2, <1>3, AdvanceMoves DEF Steps
<1>5. /\ held' \in [Operations -> SUBSET Profiles] /\ held'[o] = held[o] \cup {p}
      /\ \A x \in Operations \ {o} : held'[x] = held[x]
  BY <1>2, <1>3 DEF TypeOK
<1>6. /\ lease' \in [Profiles -> {"free", "launching", "running", "maintaining"}]
      /\ lease'[p] = "maintaining" /\ \A q \in Profiles \ {p} : lease'[q] = lease[q]
  BY <1>2, <1>3 DEF TypeOK
<1>7. \A x \in Operations : p \notin held[x]
  BY <1>3 DEF LeasesAreHeld, Holds
<1> USE <1>1 DEF disk
<1>8. \A x \in Operations \ {o} : Same(x)
  BY <1>4, <1>5 DEF Same
<1>9. TypeOK'
  BY <1>3, <1>4, <1>5, <1>6 DEF TypeOK, Steps
<1>10. StoredWasUsed' /\ TreesAreOfTheirTime'
  BY <1>8, TreesStand DEF StoredWasUsed, TreesAreOfTheirTime, Aged, In
<1>11. LoopsHaveWork'
  <2>1. Work(o)'
    BY <1>2, <1>4 DEF Work, Looping, In
  <2> QED
    BY <1>8, <2>1, WorkStands DEF LoopsHaveWork
<1>12. LeasesAreHeld'
  <2>1. /\ \A q \in held'[o] : lease'[q] = "maintaining"
        /\ In(draft[o]) \subseteq held'[o] \cup todo'[o]
        /\ pc'[o] = "settings" => In(draft[o]) \subseteq held'[o]
    BY <1>2, <1>4, <1>5, <1>6 DEF LeasesAreHeld, Holds, TypeOK
  <2>2. pc'[o] = "reserve" => \A q \in held'[o], r \in todo'[o] : q < r
    <3> SUFFICES ASSUME pc'[o] = "reserve", NEW q \in held'[o], NEW r \in todo'[o] PROVE q < r
      OBVIOUS
    <3>1. r \in todo[o] /\ r # p
      BY <1>4
    <3>2. CASE q \in held[o]
      BY <3>1, <3>2 DEF LeasesAreHeld, Holds
    <3>3. CASE q = p
      <4>1. p \in Nat /\ r \in Nat /\ p <= r
        BY <1>2, <3>1
      <4> QED
        BY <3>1, <3>3, <4>1
    <3> QED
      BY <1>5, <3>2, <3>3
  <2>3. Holds(o)'
    BY <1>4, <2>1, <2>2 DEF Holds, In
  <2>4. \A x \in Operations \ {o} : Holds(x)'
    BY <1>6, <1>7, <1>8, HoldsStands DEF LeasesAreHeld, TypeOK
  <2> QED
    BY <2>3, <2>4 DEF LeasesAreHeld
<1>13. HoldersExclude'
  BY <1>5, <1>7 DEF HoldersExclude
<1>14. BlamedIsAhead'
  BY <1>3, <1>4, <1>5, <1>8 DEF BlamedIsAhead, Same
<1>15. ExportsDoNotFailEachOther'
  BY <1>3 DEF ExportsDoNotFailEachOther
<1>16. CommitsAreKnown' /\ RestoredSoFar'
  BY <1>4, <1>8, RestoresStand DEF Committing, CommitsAreKnown, Commits
<1> QED
  BY <1>9, <1>10, <1>11, <1>12, <1>13, <1>14, <1>15, <1>16

\* The next UUID is taken.  If an export holds it, that one is ahead: it is
\* blamed, and cannot blame this one, which would be ahead of it as well.
LEMMA RefusedKeepsIInv ==
    ASSUME IInv, NEW o \in Operations, Reserve(o), Refused(o, First(todo[o]))
    PROVE  IInv'
<1> DEFINE p == First(todo[o])
<1> USE DEF IInv
<1>1. /\ pc[o] = "reserve"
      /\ UNCHANGED <<disk, surviving, ok, draft, made, runs, owed, maker, undeleted, stranded, moves, lease, held,
                     todo>>
  BY DEF Reserve, Refused
<1>2. p \in todo[o] /\ p \in Profiles
  BY <1>1, FirstIsLeast DEF LoopsHaveWork, Work, Looping, TypeOK
<1> HIDE DEF p
<1>3. /\ pc' \in [Operations -> Steps] /\ pc'[o] = "refused"
      /\ \A x \in Operations \ {o} : pc'[x] = pc[x]
  BY GotoMoves DEF Refused, Steps
<1>4. /\ blame' \in [Operations -> Operations \cup {None}]
      /\ \A x \in Operations \ {o} : blame'[x] = blame[x]
      /\ \/ blame'[o] = None
         \/ blame'[o] \in Operations /\ p \in held[blame'[o]]
  BY <1>2 DEF Refused, TypeOK, p
<1> USE <1>1 DEF disk
<1>5. \A x \in Operations \ {o} : Same(x)
  BY <1>3 DEF Same
<1>6. TypeOK'
  BY <1>3, <1>4 DEF TypeOK, Steps
<1>7. StoredWasUsed' /\ TreesAreOfTheirTime'
  BY <1>5, TreesStand DEF StoredWasUsed, TreesAreOfTheirTime, Aged, In
<1>8. LoopsHaveWork'
  BY <1>3, <1>5, WorkStands DEF LoopsHaveWork, Work, Looping
<1>9. LeasesAreHeld' /\ HoldersExclude'
  <2>1. Holds(o)'
    BY <1>3 DEF LeasesAreHeld, Holds
  <2> QED
    BY <1>5, <2>1, HoldsStands DEF LeasesAreHeld, HoldersExclude
<1>10. \A q \in held[o] : q < p
  BY <1>1, <1>2 DEF LeasesAreHeld, Holds
<1>11. p \in Nat /\ p \notin held[o] /\ \A x \in Operations : held[x] \subseteq Nat
  <2>1. p \in Nat /\ \A x \in Operations : held[x] \subseteq Nat
    BY <1>2 DEF TypeOK
  <2>2. ~ (p < p)
    BY <2>1
  <2> QED
    BY <1>10, <2>1, <2>2
<1>12. BlamedIsAhead'
  <2> SUFFICES ASSUME NEW x \in Operations, NEW y \in Operations, blame'[x] = y
               PROVE  /\ pc'[x] = "refused" /\ pc'[y] \notin {"idle", "read"}
                      /\ pc'[y] = "reserve" => \E q \in held[y] : \A r \in held[x] : r < q
    BY DEF BlamedIsAhead
  <2>1. CASE x = o
    <3>1. p \in held[y] /\ y # o
      BY <1>4, <1>11, <2>1
    <3>2. pc[y] \notin {"idle", "read"}
      BY <3>1 DEF LeasesAreHeld, Holds
    <3> QED
      BY <1>3, <1>10, <2>1, <3>1, <3>2
  <2>2. CASE x # o
    BY <1>3, <1>4, <2>2 DEF BlamedIsAhead
  <2> QED
    BY <2>1, <2>2
<1>13. ExportsDoNotFailEachOther'
  <2>1. ASSUME NEW y \in Operations, blame'[o] = y PROVE y # o /\ blame[y] # o
    <3>1. p \in held[y]
      BY <1>4, <2>1
    <3>2. ASSUME blame[y] = o PROVE FALSE
      <4>1. PICK q \in held[o] : \A r \in held[y] : r < q
        BY <1>1, <3>2 DEF BlamedIsAhead
      <4>2. p < q /\ q < p
        BY <1>10, <3>1, <4>1
      <4> QED
        BY <1>11, <4>2
    <3> QED
      BY <1>11, <3>1, <3>2
  <2> QED
    BY <1>4, <2>1 DEF ExportsDoNotFailEachOther
<1>14. CommitsAreKnown' /\ RestoredSoFar'
  BY <1>3, <1>5, RestoresStand DEF Committing, CommitsAreKnown, Commits
<1> QED
  BY <1>6, <1>7, <1>8, <1>9, <1>12, <1>13, <1>14

LEMMA ReserveKeepsIInv ==
    ASSUME IInv, NEW o \in Operations, Reserve(o)
    PROVE  IInv'
BY ReservedKeepsIInv, RefusedKeepsIInv DEF Reserve

\* A reservation is given back.
LEMMA ReleaseKeepsIInv ==
    ASSUME IInv, NEW o \in Operations, pc[o] \in {"refused", "record"}, held[o] # {},
           EndMaintenance(o, Last(held[o])),
           UNCHANGED <<pc, ok, todo, draft, made, blame, maker, undeleted, disk, surviving, runs, owed, stranded,
                       moves>>
    PROVE  IInv'
<1> DEFINE p == Last(held[o])
<1> USE DEF IInv, disk
<1>1. p \in held[o] /\ p \in Profiles
  BY LastIsGreatest DEF TypeOK
<1> HIDE DEF p
<1>2. EndMaintenance(o, p)
  BY DEF p
<1>3. /\ lease' \in [Profiles -> {"free", "launching", "running", "maintaining"}]
      /\ \A q \in Profiles \ {p} : lease'[q] = lease[q]
      /\ held' \in [Operations -> SUBSET Profiles] /\ held'[o] = held[o] \ {p}
      /\ \A x \in Operations \ {o} : held'[x] = held[x]
  BY <1>1, <1>2, EndMaintenanceMoves
<1>4. \A x \in Operations \ {o} : Same(x) /\ p \notin held[x]
  BY <1>1, <1>3 DEF Same, HoldersExclude
<1>5. TypeOK'
  BY <1>3 DEF TypeOK
<1>6. StoredWasUsed' /\ TreesAreOfTheirTime' /\ LoopsHaveWork'
  BY DEF StoredWasUsed, TreesAreOfTheirTime, Aged, LoopsHaveWork, Work, In
<1>7. LeasesAreHeld'
  <2>1. Holds(o)'
    BY <1>3 DEF LeasesAreHeld, Holds, TypeOK
  <2>2. \A x \in Operations \ {o} : Holds(x)'
    BY <1>3, <1>4, HoldsStands DEF LeasesAreHeld, TypeOK
  <2> QED
    BY <2>1, <2>2 DEF LeasesAreHeld
<1>8. HoldersExclude'
  BY <1>3 DEF HoldersExclude
<1>9. BlamedIsAhead' /\ ExportsDoNotFailEachOther'
  BY <1>3 DEF BlamedIsAhead, ExportsDoNotFailEachOther
<1>10. CommitsAreKnown'
  BY DEF CommitsAreKnown, Commits, Has
<1>11. RestoredSoFar'
  <2> SUFFICES ASSUME NEW x \in Operations, NEW y \in Profiles PROVE Restored(x, y)'
    BY DEF RestoredSoFar
  <2>1. Restored(x, y) /\ (Unfinished(x, y) => Unfinished(x, y)')
    BY DEF RestoredSoFar, Unfinished
  <2> QED
    BY <2>1 DEF Restored, Newest
<1> QED
  BY <1>5, <1>6, <1>7, <1>8, <1>9, <1>10, <1>11

LEMMA UnwindKeepsIInv ==
    ASSUME IInv, NEW o \in Operations, Unwind(o)
    PROVE  IInv'
BY OverKeepsIInv, ReleaseKeepsIInv DEF Unwind, browsers

LEMMA FinishKeepsIInv ==
    ASSUME IInv, NEW o \in Operations, Finish(o)
    PROVE  IInv'
BY OverKeepsIInv, ReleaseKeepsIInv DEF Finish, browsers

\* What a step that only reads profiles has to show: an export that has its
\* reservations, an import that has committed nothing yet.
LEMMA StepKeepsIInv ==
    ASSUME IInv, NEW o \in Operations,
           UNCHANGED <<profile, bare, used, browsers, held, made, runs, observers, moves>>,
           pc' \in [Operations -> Steps], ok' \in [Operations -> BOOLEAN],
           todo' \in [Operations -> SUBSET Profiles], draft' \in [Operations -> Manifest],
           archive' \in Manifest, installed' \in SUBSET Extensions,
           \A x \in Operations \ {o} : Same(x),
           archive' = archive \/ In(archive') # {}, Aged(archive)', Aged(draft[o])',
           pc[o] \in {"settings", "trees", "encrypt", "decrypt", "extract", "extensions"},
           pc'[o] \in {"settings", "trees", "encrypt", "extract", "extensions", "commit", "record"},
           ok'[o] \/ pc'[o] = "record", Work(o)', Holds(o)'
    PROVE  IInv'
<1> USE DEF IInv, browsers, observers
<1>1. TypeOK'
  BY DEF TypeOK, Steps
<1>2. StoredWasUsed' /\ TreesAreOfTheirTime'
  BY DEF StoredWasUsed, TreesAreOfTheirTime, Aged, In, Same
<1>3. LoopsHaveWork'
  BY WorkStands DEF LoopsHaveWork
<1>4. HoldersExclude' /\ BlamedIsAhead' /\ ExportsDoNotFailEachOther' /\ LeasesAreHeld'
  BY ReservationsStand DEF LeasesAreHeld
<1>5. CommitsAreKnown' /\ RestoredSoFar'
  BY RestoresStand DEF Committing
<1> QED
  BY <1>1, <1>2, <1>3, <1>4, <1>5

\* The operation fails before it has committed anything.
LEMMA FailKeepsIInv ==
    ASSUME IInv, NEW o \in Operations, Fail(o, "record"),
           UNCHANGED <<profile, bare, used, browsers, todo, held, draft, made, runs, observers, moves>>,
           archive' \in Manifest, installed' \in SUBSET Extensions,
           archive' = archive \/ In(archive') # {}, Aged(archive)',
           pc[o] \in {"settings", "trees", "encrypt", "decrypt", "extract", "extensions"}
    PROVE  IInv'
<1>1. /\ pc' \in [Operations -> Steps] /\ pc'[o] = "record"
      /\ ok' \in [Operations -> BOOLEAN] /\ ~ok'[o]
      /\ \A x \in Operations \ {o} : pc'[x] = pc[x] /\ ok'[x] = ok[x]
  BY FailMoves DEF IInv, Steps
<1>2. \A x \in Operations \ {o} : Same(x)
  BY <1>1 DEF Same
<1>3. Work(o)' /\ Aged(draft[o])'
  BY <1>1 DEF Work, Looping, IInv, TreesAreOfTheirTime, Aged, In
<1>4. Holds(o)'
  BY <1>1 DEF Holds, IInv, LeasesAreHeld, browsers
<1> QED
  BY <1>1, <1>2, <1>3, <1>4, StepKeepsIInv DEF IInv, TypeOK

\* An export writes the entry of profile p.
LEMMA ArchiveKeepsIInv ==
    ASSUME IInv, NEW o \in Operations, NEW p \in todo[o], NEW r \in Record,
           NEW m, m = [draft[o] EXCEPT ![p] = r], draft' = [draft EXCEPT ![o] = m], r.tree <= moves,
           NEW step \in {"trees", "encrypt"}, NEW S \in SUBSET Profiles, Advance(o, p, step, S),
           \/ pc[o] = "settings" /\ step = "trees" /\ S = In(draft[o])
           \/ pc[o] = "trees" /\ step = "encrypt",
           UNCHANGED <<disk, browsers, ok, held, made, runs, observers, moves>>
    PROVE  IInv'
<1> USE DEF IInv, disk, browsers, observers
<1>1. /\ todo[o] \in SUBSET Profiles /\ todo[o] \subseteq In(draft[o]) /\ draft[o] \in Manifest
      /\ p \in Profiles /\ p \in In(draft[o]) /\ r # None
  BY Manifests, RecordFields DEF TypeOK, LoopsHaveWork, Work, Looping
<1>2. m \in Manifest /\ m[p] = r /\ \A q \in Profiles \ {p} : m[q] = draft[o][q]
  BY <1>1 DEF Manifest
<1>3. In(m) = In(draft[o])
  BY <1>1, <1>2 DEF In
<1>4. /\ draft' \in [Operations -> Manifest] /\ draft'[o] = m
      /\ \A x \in Operations \ {o} : draft'[x] = draft[x]
  <2>1. \A M \in Manifest : [draft EXCEPT ![o] = M] \in [Operations -> Manifest]
    BY DEF TypeOK
  <2> QED
    BY <1>2, <2>1 DEF TypeOK
<1>5. /\ pc' \in [Operations -> Steps] /\ todo' \in [Operations -> SUBSET Profiles]
      /\ \A x \in Operations \ {o} : pc'[x] = pc[x] /\ todo'[x] = todo[x]
      /\ \/ todo[o] = {p} /\ pc'[o] = step /\ todo'[o] = S
         \/ todo[o] # {p} /\ pc'[o] = pc[o] /\ todo'[o] = todo[o] \ {p}
  BY AdvanceMoves DEF Steps
<1>6. \A x \in Operations \ {o} : Same(x)
  BY <1>4, <1>5 DEF Same
<1>7. Aged(draft[o])'
  <2>1. \A q \in In(m) : m[q].tree <= moves
    BY <1>1, <1>2, <1>3, Manifests DEF TreesAreOfTheirTime, Aged, TypeOK
  <2> QED
    BY <1>4, <2>1 DEF Aged, In
<1>8. Work(o)'
  <2>1. In(draft'[o]) = In(draft[o])
    BY <1>3, <1>4
  <2>2. pc'[o] = pc[o] => todo'[o] # {} /\ todo'[o] \subseteq In(draft[o])
    BY <1>1, <1>5
  <2> QED
    BY <1>1, <1>5, <2>1, <2>2 DEF Work, Looping, In
<1>9. Holds(o)'
  BY <1>3, <1>4, <1>5 DEF LeasesAreHeld, Holds, In
<1>10. /\ Aged(archive)' /\ archive' \in Manifest /\ installed' \in SUBSET Extensions
       /\ ok'[o] /\ ok' \in [Operations -> BOOLEAN]
  BY DEF TreesAreOfTheirTime, Aged, In, TypeOK, CommitsAreKnown, Commits
<1>11. /\ pc[o] \in {"settings", "trees", "encrypt", "decrypt", "extract", "extensions"}
       /\ pc'[o] \in {"settings", "trees", "encrypt", "extract", "extensions", "commit", "record"}
  BY <1>5
<1> QED
  BY <1>4, <1>5, <1>6, <1>7, <1>8, <1>9, <1>10, <1>11, StepKeepsIInv

LEMMA ArchiveSettingsKeepsIInv ==
    ASSUME IInv, NEW o \in Operations, ArchiveSettings(o)
    PROVE  IInv'
<1> DEFINE p == First(todo[o])
           r == [draft[o][p] EXCEPT !.route = profile[p].route]
           m == [draft[o] EXCEPT ![p] = r]
<1> USE DEF IInv
<1>1. /\ pc[o] = "settings" /\ p \in todo[o] /\ p \in Profiles /\ p \in In(draft[o]) /\ draft[o] \in Manifest
      /\ In(draft[o]) \in SUBSET Profiles
  <2>1. In(draft[o]) \in SUBSET Profiles
    BY DEF In
  <2> QED
    BY <2>1, FirstIsLeast, Manifests DEF ArchiveSettings, LoopsHaveWork, Work, Looping, TypeOK
<1>2. UNCHANGED <<disk, browsers, held, made, runs, observers, moves>>
  BY DEF ArchiveSettings
<1>3. CASE Fail(o, "record") /\ UNCHANGED <<todo, draft>>
  BY <1>1, <1>3, FailKeepsIInv DEF ArchiveSettings, disk, TypeOK, TreesAreOfTheirTime, Aged, In
<1>4. CASE /\ profile[p] # None
           /\ draft' = [draft EXCEPT ![o][p].route = profile[p].route]
           /\ Advance(o, p, "trees", In(draft[o]))
           /\ UNCHANGED ok
  <2>1. draft[o][p] \in Record /\ draft[o][p].tree <= moves
    BY <1>1, Manifests DEF TreesAreOfTheirTime, Aged
  <2>2. profile[p] \in Record
    BY <1>1, <1>4, Manifests DEF TypeOK
  <2>3. r \in Record /\ r.tree <= moves
    BY <2>1, <2>2, RecordFields DEF Record, Routes
  <2>4. draft' = [draft EXCEPT ![o] = m]
    BY <1>4
  <2> HIDE DEF p, r
  <2>5. m = [draft[o] EXCEPT ![p] = r]
    OBVIOUS
  <2> HIDE DEF m
  <2> QED
    BY <1>1, <1>4, <1>2, <2>3, <2>4, <2>5, ArchiveKeepsIInv
<1> QED
  BY <1>3, <1>4 DEF ArchiveSettings

LEMMA ArchiveTreeKeepsIInv ==
    ASSUME IInv, NEW o \in Operations, ArchiveTree(o)
    PROVE  IInv'
<1> DEFINE p == First(todo[o])
           r == [draft[o][p] EXCEPT !.tree = profile[p].tree, !.seed = profile[p].seed, !.owner = profile[p].owner]
           m == [draft[o] EXCEPT ![p] = r]
<1> USE DEF IInv
<1>1. pc[o] = "trees" /\ p \in todo[o] /\ p \in Profiles /\ p \in In(draft[o]) /\ draft[o] \in Manifest
  BY FirstIsLeast, Manifests DEF ArchiveTree, LoopsHaveWork, Work, Looping, TypeOK
<1>2. UNCHANGED <<disk, browsers, held, made, runs, observers, moves>>
  BY DEF ArchiveTree
<1>3. CASE Fail(o, "record") /\ UNCHANGED <<todo, draft>>
  BY <1>1, <1>3, FailKeepsIInv DEF ArchiveTree, disk, TypeOK, TreesAreOfTheirTime, Aged, In
<1>4. CASE /\ profile[p] # None
           /\ draft' = [draft EXCEPT ![o][p].tree = profile[p].tree,
                                     ![o][p].seed = profile[p].seed,
                                     ![o][p].owner = profile[p].owner]
           /\ Advance(o, p, "encrypt", {})
           /\ UNCHANGED ok
  <2>1. draft[o][p] \in Record
    BY <1>1, Manifests
  <2>2. profile[p] \in Record /\ profile[p].tree <= moves
    BY <1>1, <1>4, Manifests DEF TypeOK, TreesAreOfTheirTime, Aged
  <2>3. r \in Record /\ r.tree <= moves
    BY <2>1, <2>2 DEF Record
  <2>4. draft' = [draft EXCEPT ![o] = m]
    BY <1>4, Zenon
  <2> HIDE DEF p, r
  <2>5. m = [draft[o] EXCEPT ![p] = r]
    OBVIOUS
  <2> HIDE DEF m
  <2>6. PICK S \in SUBSET Profiles : Advance(o, p, "encrypt", S)
    BY <1>4
  <2> QED
    BY <1>1, <1>4, <1>2, <2>3, <2>4, <2>5, <2>6, ArchiveKeepsIInv
<1> QED
  BY <1>3, <1>4 DEF ArchiveTree

LEMMA EncryptKeepsIInv ==
    ASSUME IInv, NEW o \in Operations, Encrypt(o)
    PROVE  IInv'
<1> USE DEF IInv
<1>1. /\ pc[o] = "encrypt" /\ In(draft[o]) # {} /\ draft[o] \in Manifest /\ archive \in Manifest
      /\ UNCHANGED <<profile, bare, used, installed, browsers, todo, held, draft, made, runs, observers, moves>>
  BY DEF Encrypt, LoopsHaveWork, Work, TypeOK
<1>2. /\ archive' = archive \/ archive' = draft[o]
      /\ archive' \in Manifest /\ installed' \in SUBSET Extensions
      /\ archive' = archive \/ In(archive') # {}
      /\ Aged(archive)' /\ Aged(draft[o])'
  BY <1>1 DEF Encrypt, TypeOK, TreesAreOfTheirTime, Aged, In
<1>3. CASE Goto(o, "record") /\ UNCHANGED ok
  <2>1. /\ pc' \in [Operations -> Steps] /\ pc'[o] = "record"
        /\ \A x \in Operations \ {o} : pc'[x] = pc[x]
    BY <1>3, GotoMoves DEF Steps
  <2>2. \A x \in Operations \ {o} : Same(x)
    BY <1>1, <1>3, <2>1 DEF Same
  <2>3. Work(o)' /\ Holds(o)'
    BY <1>1, <2>1 DEF Work, Looping, LeasesAreHeld, Holds, browsers
  <2> QED
    BY <1>1, <1>2, <1>3, <2>1, <2>2, <2>3, StepKeepsIInv DEF TypeOK
<1>4. CASE Fail(o, "record")
  BY <1>1, <1>2, <1>4, FailKeepsIInv
<1> QED
  BY <1>3, <1>4 DEF Encrypt

-----------------------------------------------------------------------------
(***************************************************************************)
(* Import                                                                  *)
(***************************************************************************)
LEMMA DecryptKeepsIInv ==
    ASSUME IInv, NEW o \in Operations, Decrypt(o)
    PROVE  IInv'
<1> USE DEF IInv
<1>1. /\ pc[o] = "decrypt" /\ In(archive) # {} /\ archive \in Manifest /\ ok[o]
      /\ UNCHANGED <<disk, browsers, todo, held, made, runs, observers, moves>>
  BY DEF Decrypt, LoopsHaveWork, Work, TypeOK, CommitsAreKnown, Commits
<1>2. archive' \in Manifest /\ installed' \in SUBSET Extensions /\ Aged(archive)'
  BY <1>1 DEF TypeOK, TreesAreOfTheirTime, Aged, In, disk
<1>3. CASE draft' = [draft EXCEPT ![o] = archive] /\ Goto(o, "extract") /\ UNCHANGED ok
  <2>1. /\ pc' \in [Operations -> Steps] /\ pc'[o] = "extract"
        /\ \A x \in Operations \ {o} : pc'[x] = pc[x]
    BY <1>3, GotoMoves DEF Steps
  <2>2. /\ draft' \in [Operations -> Manifest] /\ draft'[o] = archive
        /\ \A x \in Operations \ {o} : draft'[x] = draft[x]
    BY <1>1, <1>3 DEF TypeOK
  <2>3. \A x \in Operations \ {o} : Same(x)
    BY <1>1, <1>3, <2>1, <2>2 DEF Same
  <2>4. Work(o)' /\ Holds(o)' /\ Aged(draft[o])'
    BY <1>1, <2>1, <2>2 DEF Work, Looping, LeasesAreHeld, Holds, browsers, TreesAreOfTheirTime, Aged, In
  <2> QED
    BY <1>1, <1>2, <1>3, <2>1, <2>2, <2>3, <2>4, StepKeepsIInv DEF TypeOK, disk
<1>4. CASE Fail(o, "record") /\ UNCHANGED draft
  BY <1>1, <1>2, <1>4, FailKeepsIInv DEF disk
<1> QED
  BY <1>3, <1>4 DEF Decrypt

LEMMA ExtractKeepsIInv ==
    ASSUME IInv, NEW o \in Operations, Extract(o)
    PROVE  IInv'
<1> USE DEF IInv
<1>1. /\ pc[o] = "extract" /\ In(draft[o]) # {} /\ In(draft[o]) \in SUBSET Profiles /\ ok[o]
      /\ UNCHANGED <<disk, browsers, held, draft, made, runs, observers, moves>>
  BY Manifests DEF Extract, LoopsHaveWork, Work, TypeOK, CommitsAreKnown, Commits
<1>2. /\ archive' \in Manifest /\ installed' \in SUBSET Extensions /\ Aged(archive)' /\ Aged(draft[o])'
  BY <1>1 DEF TypeOK, TreesAreOfTheirTime, Aged, In, disk
<1>3. CASE todo' = [todo EXCEPT ![o] = In(draft[o])] /\ Goto(o, "extensions") /\ UNCHANGED ok
  <2>1. /\ pc' \in [Operations -> Steps] /\ pc'[o] = "extensions"
        /\ \A x \in Operations \ {o} : pc'[x] = pc[x]
    BY <1>3, GotoMoves DEF Steps
  <2>2. /\ todo' \in [Operations -> SUBSET Profiles] /\ todo'[o] = In(draft[o])
        /\ \A x \in Operations \ {o} : todo'[x] = todo[x]
    BY <1>1, <1>3 DEF TypeOK
  <2>3. \A x \in Operations \ {o} : Same(x)
    BY <1>1, <1>3, <2>1, <2>2 DEF Same
  <2>4. Work(o)' /\ Holds(o)'
    BY <1>1, <2>1, <2>2 DEF Work, Looping, LeasesAreHeld, Holds, browsers, In
  <2> QED
    BY <1>1, <1>2, <1>3, <2>1, <2>2, <2>3, <2>4, StepKeepsIInv DEF TypeOK, disk
<1>4. CASE Fail(o, "record") /\ UNCHANGED todo
  BY <1>1, <1>2, <1>4, FailKeepsIInv DEF disk
<1> QED
  BY <1>3, <1>4 DEF Extract

LEMMA RestoreExtensionsKeepsIInv ==
    ASSUME IInv, NEW o \in Operations, RestoreExtensions(o)
    PROVE  IInv'
<1> DEFINE needed == UNION {draft[o][p].ext : p \in In(draft[o])}
<1> USE DEF IInv
<1>1. /\ pc[o] = "extensions" /\ ok[o]
      /\ UNCHANGED <<profile, bare, used, archive, browsers, todo, held, draft, made, runs, observers, moves>>
  BY DEF RestoreExtensions, CommitsAreKnown, Commits
<1>2. installed' \in SUBSET Extensions
  <2>1. \A p \in In(draft[o]) : draft[o][p].ext \subseteq Extensions
    BY Manifests, RecordFields DEF TypeOK
  <2>2. needed \subseteq Extensions
    BY <2>1
  <2>3. PICK some \in SUBSET needed : installed' = installed \cup some
    BY DEF RestoreExtensions
  <2> QED
    BY <2>2, <2>3 DEF TypeOK
<1>3. archive' \in Manifest /\ Aged(archive)' /\ Aged(draft[o])'
  BY <1>1 DEF TypeOK, TreesAreOfTheirTime, Aged, In
<1>4. CASE Goto(o, "commit") /\ UNCHANGED ok
  <2>1. /\ pc' \in [Operations -> Steps] /\ pc'[o] = "commit"
        /\ \A x \in Operations \ {o} : pc'[x] = pc[x]
    BY <1>4, GotoMoves DEF Steps
  <2>2. \A x \in Operations \ {o} : Same(x)
    BY <1>1, <1>4, <2>1 DEF Same
  <2>3. Work(o)' /\ Holds(o)'
    BY <1>1, <2>1 DEF Work, Looping, LoopsHaveWork, LeasesAreHeld, Holds, browsers, In
  <2> QED
    BY <1>1, <1>2, <1>3, <1>4, <2>1, <2>2, <2>3, StepKeepsIInv DEF TypeOK
<1>5. CASE Fail(o, "record")
  BY <1>1, <1>2, <1>3, <1>5, FailKeepsIInv
<1> QED
  BY <1>4, <1>5 DEF RestoreExtensions

\* What a step of a restore that commits, or takes back, has to show.
LEMMA RestoreKeepsIInv ==
    ASSUME IInv, NEW o \in Operations,
           UNCHANGED <<installed, archive, browsers, held, draft, runs, blame, moves>>,
           profile' \in Manifest, bare' \in SUBSET Profiles, used' \in SUBSET Profiles,
           pc' \in [Operations -> Steps], ok' \in [Operations -> BOOLEAN],
           todo' \in [Operations -> SUBSET Profiles], made' \in [Operations -> Seq(Profiles)],
           owed' \in Manifest, maker' \in [Profiles -> Operations \cup {None}],
           undeleted' \in SUBSET Profiles, stranded' \in SUBSET Profiles,
           \A x \in Operations \ {o} : Same(x),
           StoredWasUsed', Aged(profile)',
           pc[o] \in Committing, pc'[o] \in Committing \cup {"record"},
           Work(o)', CommitsAreKnown', RestoredSoFar'
    PROVE  IInv'
<1> USE DEF IInv, browsers
<1>1. TypeOK'
  BY DEF TypeOK, Steps
<1>2. TreesAreOfTheirTime'
  BY DEF TreesAreOfTheirTime, Aged, In
<1>3. LoopsHaveWork'
  BY WorkStands DEF LoopsHaveWork
<1>4. /\ HoldersExclude' /\ BlamedIsAhead' /\ ExportsDoNotFailEachOther'
      /\ \A x \in Operations \ {o} : Holds(x)'
  BY ReservationsStand DEF Committing
<1>5. Holds(o)'
  BY DEF LeasesAreHeld, Holds, Committing
<1> QED
  BY <1>1, <1>2, <1>3, <1>4, <1>5 DEF LeasesAreHeld

\* A restore that fails goes to its rollback.
LEMMA FailsIntoRollback ==
    ASSUME IInv, NEW o \in Operations, pc[o] \in {"commit", "rebind", "route"}, Fail(o, "rollback"),
           UNCHANGED <<disk, browsers, todo, held, draft, made, runs, observers, moves>>
    PROVE  IInv'
<1> USE DEF IInv, disk, observers
<1>1. /\ pc' \in [Operations -> Steps] /\ pc'[o] = "rollback"
      /\ ok' \in [Operations -> BOOLEAN] /\ ~ok'[o]
      /\ \A x \in Operations \ {o} : pc'[x] = pc[x] /\ ok'[x] = ok[x]
  BY FailMoves DEF Steps
<1>2. \A x \in Operations \ {o} : Same(x)
  BY <1>1 DEF Same
<1>3. StoredWasUsed' /\ Aged(profile)'
  BY DEF StoredWasUsed, TreesAreOfTheirTime, Aged, In
<1>4. Work(o)'
  BY <1>1 DEF Work, Looping
<1>5. CommitsAreKnown'
  <2>1. Commits(o)'
    BY <1>1 DEF CommitsAreKnown, Commits, Committing, Has
  <2> QED
    BY <1>2, <2>1, CommitsStand DEF CommitsAreKnown
<1>6. RestoredSoFar'
  <2>1. \A p \in Profiles : Restored(o, p)'
    BY <1>1 DEF Restored
  <2> QED
    BY <1>2, <2>1, RestoredStands DEF RestoredSoFar
<1> QED
  BY <1>1, <1>2, <1>3, <1>4, <1>5, <1>6, RestoreKeepsIInv DEF TypeOK, Committing

\* CommitImport: the new profile is owed what the archive has of it, and lacks
\* its owner and its route.
LEMMA CommitKeepsIInv ==
    ASSUME IInv, NEW o \in Operations, pc[o] = "commit", NEW q \in Profiles,
           NEW d \in Record, d = draft[o][First(todo[o])],
           NEW r, r = [d EXCEPT !.route = "direct"], profile' = [profile EXCEPT ![q] = r],
           NEW w, w = [d EXCEPT !.owner = IF d.owner = None THEN None ELSE q], owed' = [owed EXCEPT ![q] = w],
           used' = used \cup {q}, made' = [made EXCEPT ![o] = Append(made[o], q)],
           maker' = [maker EXCEPT ![q] = o], undeleted' = undeleted \ {q},
           stranded' = stranded \ {q}, Goto(o, "rebind"), d.tree <= moves,
           UNCHANGED <<ok, bare, installed, archive, browsers, todo, held, draft, runs, blame, moves>>
    PROVE  IInv'
<1> USE DEF IInv
<1>1. /\ pc' \in [Operations -> Steps] /\ pc'[o] = "rebind"
      /\ \A x \in Operations \ {o} : pc'[x] = pc[x]
  BY GotoMoves DEF Steps
<1>2. /\ r \in Record /\ r.route = "direct" /\ r.tree = d.tree /\ r.owner = d.owner
      /\ w \in Record /\ w.route = d.route /\ w.owner = IF d.owner = None THEN None ELSE q
      /\ r = [w EXCEPT !.route = "direct", !.owner = r.owner]
      /\ r # None /\ w # None
  <2>1. r \in Record /\ r.route = "direct" /\ r.tree = d.tree /\ r.owner = d.owner
    BY DEF Record, Routes
  <2>2. w \in Record /\ w.route = d.route /\ w.owner = IF d.owner = None THEN None ELSE q
    BY DEF Record
  <2>3. r = [w EXCEPT !.route = "direct", !.owner = r.owner]
    BY DEF Record
  <2> QED
    BY <2>1, <2>2, <2>3, RecordFields
<1>3. /\ profile' \in Manifest /\ profile'[q] = r /\ \A p \in Profiles \ {q} : profile'[p] = profile[p]
      /\ owed' \in Manifest /\ owed'[q] = w /\ \A p \in Profiles \ {q} : owed'[p] = owed[p]
  BY <1>2 DEF TypeOK, Manifest
<1>4. /\ maker' \in [Profiles -> Operations \cup {None}] /\ maker'[q] = o
      /\ \A p \in Profiles \ {q} : maker'[p] = maker[p]
      /\ used' \in SUBSET Profiles /\ undeleted' \in SUBSET Profiles /\ stranded' \in SUBSET Profiles
  BY DEF TypeOK
<1>5. /\ made' \in [Operations -> Seq(Profiles)] /\ \A x \in Operations \ {o} : made'[x] = made[x]
      /\ Len(made'[o]) = Len(made[o]) + 1 /\ made'[o][Len(made'[o])] = q /\ made'[o] # <<>>
      /\ \A i \in DOMAIN made[o] : i \in DOMAIN made'[o] /\ made'[o][i] = made[o][i]
      /\ Len(made'[o]) \in DOMAIN made'[o]
  <2>1. made[o] \in Seq(Profiles) /\ made'[o] = Append(made[o], q)
    BY DEF TypeOK
  <2>2. Append(made[o], q) \in Seq(Profiles)
    BY <2>1
  <2> QED
    BY <2>1, <2>2 DEF TypeOK
<1>6. \A x \in Operations \ {o} : Same(x)
  BY <1>1, <1>5 DEF Same
<1>7. StoredWasUsed' /\ Aged(profile)'
  BY <1>2, <1>3 DEF StoredWasUsed, TreesAreOfTheirTime, Aged, In, TypeOK
<1>8. Work(o)'
  BY <1>1 DEF Work, Looping, LoopsHaveWork, In
<1>9. CommitsAreKnown'
  <2>1. ASSUME NEW p \in Profiles, maker'[p] = o PROVE Has(o, p)' \/ p \in undeleted'
    <3>1. CASE p = q
      BY <1>5, <3>1 DEF Has
    <3>2. CASE p # q
      <4>1. Has(o, p) \/ p \in undeleted
        BY <1>4, <2>1, <3>2 DEF CommitsAreKnown, Commits
      <4> QED
        BY <1>5, <3>2, <4>1 DEF Has
    <3> QED
      BY <3>1, <3>2
  <2>2. Commits(o)'
    BY <1>1, <1>5, <2>1 DEF CommitsAreKnown, Commits, Committing
  <2>3. \A x \in Operations \ {o} : Commits(x)'
    BY <1>4, <1>6, CommitsStand DEF CommitsAreKnown
  <2> QED
    BY <2>2, <2>3 DEF CommitsAreKnown
<1>10. RestoredSoFar'
  <2>1. Restored(o, q)'
    <3>1. Newest(o)' = q
      BY <1>5 DEF Newest
    <3>2. draft'[o][First(todo'[o])] = d
      OBVIOUS
    <3>3. Unfinished(o, q)'
      <4>1. owed'[q].route = draft'[o][First(todo'[o])].route
        BY <1>2, <1>3, <3>2
      <4>2. profile'[q] = [owed'[q] EXCEPT !.route = "direct", !.owner = profile'[q].owner]
        BY <1>2, <1>3
      <4>3. owed'[q].owner = IF profile'[q].owner = None THEN None ELSE q
        <5>1. owed'[q].owner = w.owner /\ profile'[q].owner = d.owner
          BY <1>2, <1>3
        <5> QED
          BY <1>2, <5>1
      <4> QED
        BY <1>1, <4>1, <4>2, <4>3 DEF Unfinished
    <3> QED
      BY <1>1, <1>2, <1>3, <3>1, <3>3 DEF Restored
  <2>2. \A p \in Profiles \ {q} : Restored(o, p)'
    <3>1. Newest(o)' = q
      BY <1>5 DEF Newest
    <3> QED
      BY <1>1, <1>3, <1>4, <3>1 DEF RestoredSoFar, Restored
  <2>3. \A x \in Operations \ {o}, p \in Profiles : Restored(x, p)'
    BY <1>3, <1>4, <1>6, RestoredStands DEF RestoredSoFar
  <2> QED
    BY <2>1, <2>2, <2>3 DEF RestoredSoFar
<1> QED
  BY <1>1, <1>3, <1>4, <1>5, <1>6, <1>7, <1>8, <1>9, <1>10, RestoreKeepsIInv DEF TypeOK, Committing

LEMMA CommitImportKeepsIInv ==
    ASSUME IInv, NEW o \in Operations, CommitImport(o)
    PROVE  IInv'
<1> DEFINE p == First(todo[o])
<1> USE DEF IInv
<1>1. /\ pc[o] = "commit" /\ p \in In(draft[o]) /\ draft[o] \in Manifest
      /\ UNCHANGED <<bare, installed, archive, browsers, todo, held, draft, runs, blame, moves>>
  BY FirstIsLeast DEF CommitImport, LoopsHaveWork, Work, Looping, TypeOK
<1>2. CASE Fail(o, "rollback") /\ UNCHANGED <<profile, used, made, owed, maker, undeleted, stranded>>
  BY <1>1, <1>2, FailsIntoRollback DEF disk, observers
<1>3. ASSUME NEW q \in Profiles,
             profile' = [profile EXCEPT ![q] = [draft[o][p] EXCEPT !.route = "direct"]],
             used' = used \cup {q},
             made' = [made EXCEPT ![o] = Append(@, q)],
             owed' = [owed EXCEPT ![q] = [draft[o][p] EXCEPT !.owner = IF @ = None THEN None ELSE q]],
             maker' = [maker EXCEPT ![q] = o],
             undeleted' = undeleted \ {q}, stranded' = stranded \ {q},
             Goto(o, "rebind"), UNCHANGED ok
      PROVE  IInv'
  <2> DEFINE d == draft[o][p]
             r == [d EXCEPT !.route = "direct"]
             w == [d EXCEPT !.owner = IF d.owner = None THEN None ELSE q]
  <2>1. d \in Record /\ d.tree <= moves
    BY <1>1, Manifests DEF TreesAreOfTheirTime, Aged
  <2>2. profile' = [profile EXCEPT ![q] = r] /\ owed' = [owed EXCEPT ![q] = w]
    BY <1>3
  <2>3. made' = [made EXCEPT ![o] = Append(made[o], q)]
    BY <1>3
  <2> HIDE DEF r, w
  <2>4. d = draft[o][First(todo[o])] /\ r = [d EXCEPT !.route = "direct"]
        /\ w = [d EXCEPT !.owner = IF d.owner = None THEN None ELSE q]
    BY DEF r, w
  <2> HIDE DEF d, p
  <2> QED
    BY <1>1, <1>3, <2>1, <2>2, <2>3, <2>4, CommitKeepsIInv
<1> QED
  BY <1>2, <1>3 DEF CommitImport

\* What the import writes into its newest profile.  A profile another import
\* has committed since is not as archived any more.
LEMMA WriteKeepsIInv ==
    ASSUME IInv, NEW o \in Operations, pc[o] \in {"rebind", "route"},
           NEW q, q = Newest(o), profile' \in Manifest,
           \A p \in Profiles \ {q} : profile'[p] = profile[p],
           profile[q] = None => profile'[q] = None,
           profile'[q] # None => profile'[q].tree = profile[q].tree,
           WritesInto(o, q), Restored(o, q)',
           todo' \in [Operations -> SUBSET Profiles],
           \A x \in Operations \ {o} : todo'[x] = todo[x], Work(o)',
           NEW step \in {"route", "commit", "record"}, Goto(o, step),
           pc[o] = "route" <=> step # "route", stranded' \in SUBSET Profiles,
           UNCHANGED <<ok, bare, used, installed, archive, browsers, held, draft, made, runs, blame, maker,
                       undeleted, moves>>
    PROVE  IInv'
<1> USE DEF IInv
<1>1. made[o] \in Seq(Profiles) /\ made[o] # <<>> /\ q \in Profiles
  BY DEF TypeOK, CommitsAreKnown, Commits, Newest
<1>2. /\ pc' \in [Operations -> Steps] /\ pc'[o] = step
      /\ \A x \in Operations \ {o} : pc'[x] = pc[x]
  BY GotoMoves DEF Steps
<1>3. /\ owed' \in Manifest /\ \A p \in Profiles \ {q} : owed'[p] = owed[p]
      /\ maker[q] = o \/ owed'[q] = None
  BY <1>1 DEF WritesInto, TypeOK, Manifest
<1>4. \A x \in Operations \ {o} : Same(x)
  BY <1>2 DEF Same
<1>5. StoredWasUsed' /\ Aged(profile)'
  BY <1>1 DEF StoredWasUsed, TreesAreOfTheirTime, Aged, In
<1>6. CommitsAreKnown'
  <2>1. Commits(o)'
    BY <1>1, <1>2 DEF CommitsAreKnown, Commits, Committing, Has
  <2> QED
    BY <1>4, <2>1, CommitsStand DEF CommitsAreKnown
<1>7. RestoredSoFar'
  <2>1. ASSUME NEW p \in Profiles \ {q} PROVE Restored(o, p)'
    <3>1. Newest(o)' = q
      BY DEF Newest
    <3>2. /\ profile'[p] = profile[p] /\ owed'[p] = owed[p] /\ maker' = maker /\ ok' = ok
          /\ pc[o] \in {"rebind", "route"} /\ p # Newest(o) /\ p # Newest(o)'
      BY <1>3, <3>1
    <3>3. ok[o] /\ maker[p] = o /\ owed[p] # None => profile[p] # None /\ profile[p] = owed[p]
      BY <3>2 DEF RestoredSoFar, Restored
    <3> QED
      BY <3>2, <3>3 DEF Restored
  <2>2. \A x \in Operations \ {o}, p \in Profiles : Restored(x, p)'
    BY <1>3, <1>4, RestoredStands DEF RestoredSoFar
  <2>3. Restored(o, q)'
    OBVIOUS
  <2>4. ASSUME NEW x \in Operations, NEW p \in Profiles PROVE Restored(x, p)'
    <3>1. CASE x # o
      BY <2>2, <3>1
    <3>2. CASE x = o /\ p # q
      BY <2>1, <3>2
    <3>3. CASE x = o /\ p = q
      BY <2>3, <3>3
    <3> QED
      BY <3>1, <3>2, <3>3
  <2> QED
    BY <2>4 DEF RestoredSoFar
<1>8. /\ bare' \in SUBSET Profiles /\ used' \in SUBSET Profiles /\ undeleted' \in SUBSET Profiles
      /\ ok' \in [Operations -> BOOLEAN] /\ made' \in [Operations -> Seq(Profiles)]
      /\ maker' \in [Profiles -> Operations \cup {None}]
  BY DEF TypeOK
<1>9. pc[o] \in Committing /\ pc'[o] \in Committing \cup {"record"}
  BY <1>2 DEF Committing
<1>10. /\ IInv /\ UNCHANGED <<installed, archive, browsers, held, draft, runs, blame, moves>>
       /\ profile' \in Manifest /\ owed' \in Manifest /\ pc' \in [Operations -> Steps]
       /\ todo' \in [Operations -> SUBSET Profiles] /\ stranded' \in SUBSET Profiles /\ Work(o)'
  BY <1>2, <1>3
<1> HIDE DEF IInv
<1> QED
  BY <1>4, <1>5, <1>6, <1>7, <1>8, <1>9, <1>10, RestoreKeepsIInv

LEMMA RebindKeepsIInv ==
    ASSUME IInv, NEW o \in Operations, Rebind(o)
    PROVE  IInv'
<1> USE DEF IInv
<1>1. Newest(o) \in Profiles
  BY DEF Rebind, TypeOK, CommitsAreKnown, Commits, Newest
<1>2. PICK q \in Profiles : q = Newest(o)
  BY <1>1
<1>3. /\ pc[o] = "rebind"
      /\ UNCHANGED <<bare, used, installed, archive, browsers, todo, held, draft, made, runs, blame, maker,
                     undeleted, moves>>
  BY DEF Rebind
<1>4. CASE Fail(o, "rollback") /\ UNCHANGED <<profile, owed, stranded>>
  BY <1>3, <1>4, FailsIntoRollback DEF disk, observers
<1>5. CASE /\ profile' = IF profile[q] # None /\ profile[q].owner # None
                          THEN [profile EXCEPT ![q].owner = q] ELSE profile
           /\ WritesInto(o, q) /\ stranded' = stranded \ {q}
           /\ Goto(o, "route") /\ UNCHANGED ok
  <2>1. pc'[o] = "route"
    BY <1>5, GotoMoves DEF Steps
  <2>2. /\ profile' \in Manifest /\ \A p \in Profiles \ {q} : profile'[p] = profile[p]
        /\ profile[q] = None => profile'[q] = None
        /\ profile'[q] # None => profile'[q].tree = profile[q].tree
        /\ profile[q] # None =>
              /\ profile[q].owner # None => profile'[q] = [profile[q] EXCEPT !.owner = q]
              /\ profile[q].owner = None => profile'[q] = profile[q]
              /\ profile[q] \in Record /\ profile'[q] # None
    <3>1. CASE profile[q] # None /\ profile[q].owner # None
      <4>1. PICK r \in Record : r = profile[q]
        BY <1>3, <3>1, Manifests DEF TypeOK
      <4>2. [r EXCEPT !.owner = q] \in Record /\ [r EXCEPT !.owner = q].tree = r.tree
        BY <1>3 DEF Record
      <4>3. profile' = [profile EXCEPT ![q] = [r EXCEPT !.owner = q]]
        BY <1>5, <3>1, <4>1
      <4> QED
        BY <1>3, <3>1, <4>1, <4>2, <4>3 DEF TypeOK, Manifest
    <3>2. CASE profile[q] = None \/ profile[q].owner = None
      BY <1>3, <1>5, <3>2, Manifests DEF TypeOK
    <3> QED
      BY <3>1, <3>2
  <2>3. Restored(o, q)'
    <3> SUFFICES ASSUME maker[q] = o, owed'[q] # None
                 PROVE  /\ profile'[q] # None
                        /\ owed'[q].route = draft'[o][First(todo'[o])].route
                        /\ profile'[q] = [owed'[q] EXCEPT !.route = "direct"]
      <4>1. q = Newest(o)'
        BY <1>3, <1>2 DEF Newest
      <4> QED
        BY <1>3, <2>1, <4>1 DEF Restored, Unfinished
    <3>1. owed' = owed /\ owed[q] # None /\ owed[q] \in Record
      BY <1>3, <1>5, Manifests DEF WritesInto, TypeOK
    <3>2. ok[o] /\ q = Newest(o)
      BY <1>3, <1>2 DEF CommitsAreKnown, Commits
    <3>3. profile[q] # None /\ Unfinished(o, q)
      BY <1>3, <3>1, <3>2 DEF RestoredSoFar, Restored
    <3>4. owed[q].route = draft'[o][First(todo'[o])].route
      BY <1>3, <3>3 DEF Unfinished
    <3>5. /\ owed[q].owner = IF profile[q].owner = None THEN None ELSE q
          /\ profile[q] = [owed[q] EXCEPT !.route = "direct", !.owner = profile[q].owner]
      BY <1>3, <3>3 DEF Unfinished
    <3>6. profile'[q] = [owed[q] EXCEPT !.route = "direct"]
      BY <2>2, <3>1, <3>3, <3>5 DEF Record
    <3> QED
      BY <2>2, <3>1, <3>3, <3>4, <3>6
  <2>4. /\ Work(o)' /\ todo' \in [Operations -> SUBSET Profiles]
        /\ \A x \in Operations \ {o} : todo'[x] = todo[x]
    BY <1>3, <2>1 DEF Work, Looping, LoopsHaveWork, In, TypeOK
  <2>5. stranded' \in SUBSET Profiles
    BY <1>5 DEF TypeOK
  <2> QED
    BY <1>3, <1>5, <2>2, <2>3, <2>4, <2>5, <1>2, WriteKeepsIInv
<1> QED
  BY <1>4, <1>5, <1>2 DEF Rebind

LEMMA RestoreRouteKeepsIInv ==
    ASSUME IInv, NEW o \in Operations, RestoreRoute(o)
    PROVE  IInv'
<1> USE DEF IInv
<1>1. /\ pc[o] = "route"
      /\ UNCHANGED <<bare, used, installed, archive, browsers, held, draft, made, runs, blame, maker, undeleted,
                     stranded, moves>>
  BY DEF RestoreRoute
<1>2. todo[o] \in SUBSET Profiles /\ todo[o] # {} /\ todo[o] \subseteq In(draft[o])
  BY <1>1 DEF TypeOK, LoopsHaveWork, Work, Looping
<1>3. PICK p \in Profiles : p = First(todo[o]) /\ p \in todo[o]
  BY <1>2, FirstIsLeast
<1>4. Newest(o) \in Profiles
  BY <1>1 DEF TypeOK, CommitsAreKnown, Commits, Newest
<1>5. PICK q \in Profiles : q = Newest(o)
  BY <1>4
<1> DEFINE step == IF todo[o] = {p} THEN "record" ELSE "commit"
<1>6. /\ pc[o] = "route" /\ q \in Profiles /\ p \in todo[o] /\ p \in In(draft[o]) /\ todo[o] \subseteq In(draft[o])
      /\ UNCHANGED <<bare, used, installed, archive, browsers, held, draft, made, runs, blame, maker, undeleted,
                     stranded, moves>>
  BY <1>1, <1>2, <1>3
<1>7. CASE Fail(o, "rollback") /\ UNCHANGED <<profile, owed, todo>>
  BY <1>6, <1>7, FailsIntoRollback DEF disk, observers
<1>8. CASE /\ profile[q] # None
           /\ profile' = [profile EXCEPT ![q].route = draft[o][p].route]
           /\ WritesInto(o, q)
           /\ todo' = [todo EXCEPT ![o] = @ \ {p}]
           /\ Goto(o, step) /\ UNCHANGED ok
  <2>1. step \in {"commit", "record"} /\ (todo[o] = {p} <=> step = "record")
    OBVIOUS
  <2>2. PICK next \in {"commit", "record"} : next = step
    BY <2>1
  <2> HIDE DEF step
  <2>3. pc'[o] = step
    BY <1>8, <2>1, GotoMoves DEF Steps
  <2>4. draft[o][p] \in Record
    BY <1>6, Manifests DEF TypeOK
  <2>5. PICK r \in Record : r = profile[q]
    BY <1>6, <1>8, Manifests DEF TypeOK
  <2> DEFINE s == [r EXCEPT !.route = draft[o][p].route]
  <2>6. s \in Record /\ s # None /\ s.tree = r.tree
    BY <2>4, RecordFields DEF Record
  <2>7. profile' = [profile EXCEPT ![q] = s]
    BY <1>8, <2>5
  <2>8. /\ profile' \in Manifest /\ \A x \in Profiles \ {q} : profile'[x] = profile[x]
        /\ profile'[q] = s /\ profile'[q].tree = profile[q].tree
    BY <1>6, <2>5, <2>6, <2>7 DEF TypeOK, Manifest
  <2>9. Restored(o, q)'
    <3> SUFFICES ASSUME maker[q] = o, owed'[q] # None PROVE profile'[q] = owed'[q]
      <4>1. pc'[o] \notin {"rebind", "route"} /\ profile'[q] # None /\ maker' = maker
        BY <1>6, <2>1, <2>3, <2>6, <2>8
      <4> QED
        BY <4>1 DEF Restored
    <3>1. owed' = owed /\ owed[q] # None /\ owed[q] \in Record
      BY <1>6, <1>8, Manifests DEF WritesInto, TypeOK
    <3>2. ok[o]
      BY <1>6 DEF CommitsAreKnown, Commits
    <3>3. owed[q].route = draft[o][p].route /\ profile[q] = [owed[q] EXCEPT !.route = "direct"]
      BY <1>6, <1>3, <1>5, <3>1, <3>2 DEF RestoredSoFar, Restored, Unfinished
    <3>4. s = owed[q]
      BY <2>5, <3>1, <3>3 DEF Record
    <3> QED
      BY <2>8, <3>1, <3>4
  <2>10. /\ todo' \in [Operations -> SUBSET Profiles] /\ todo'[o] = todo[o] \ {p}
         /\ \A x \in Operations \ {o} : todo'[x] = todo[x]
    BY <1>8 DEF TypeOK
  <2>11. Work(o)'
    BY <1>6, <2>1, <2>3, <2>10 DEF Work, Looping, In
  <2>12. stranded' \in SUBSET Profiles
    BY <1>6 DEF TypeOK
  <2> HIDE DEF s
  <2> QED
    BY <1>6, <1>8, <1>5, <2>8, <2>9, <2>10, <2>11, <2>12, <2>2, WriteKeepsIInv
<1> QED
  BY <1>7, <1>8, <1>3, <1>5 DEF RestoreRoute

LEMMA DeletedManifests ==
    ASSUME TypeOK, NEW p \in Profiles, Deleted(p)
    PROVE  /\ profile' \in Manifest /\ profile'[p] = None /\ \A q \in Profiles \ {p} : profile'[q] = profile[q]
           /\ owed' \in Manifest /\ owed'[p] = None /\ \A q \in Profiles \ {p} : owed'[q] = owed[q]
           /\ maker' \in [Profiles -> Operations \cup {None}] /\ maker'[p] = None
           /\ \A q \in Profiles \ {p} : maker'[q] = maker[q]
           /\ bare' \in SUBSET Profiles /\ stranded' \in SUBSET Profiles
BY DEF TypeOK, Manifest, Deleted

\* What is not deleted is in undeleted, so nothing is forgotten.
LEMMA RollbackKeepsIInv ==
    ASSUME IInv, NEW o \in Operations, Rollback(o)
    PROVE  IInv'
<1> DEFINE q == Newest(o)
<1> USE DEF IInv
<1>1. /\ pc[o] = "rollback" /\ made[o] \in Seq(Profiles)
      /\ UNCHANGED <<used, installed, archive, browsers, ok, todo, held, draft, runs, blame, moves>>
  BY DEF Rollback, TypeOK
<1>2. CASE made[o] = <<>>
  <2>1. Goto(o, "record") /\ UNCHANGED <<profile, bare, owed, maker, made, undeleted, stranded>>
    BY <1>2 DEF Rollback
  <2>2. /\ pc' \in [Operations -> Steps] /\ pc'[o] = "record"
        /\ \A x \in Operations \ {o} : pc'[x] = pc[x]
    BY <2>1, GotoMoves DEF Steps
  <2>3. \A x \in Operations \ {o} : Same(x)
    BY <1>1, <2>1, <2>2 DEF Same
  <2>4. StoredWasUsed' /\ Aged(profile)' /\ Work(o)'
    BY <1>1, <2>1, <2>2 DEF StoredWasUsed, TreesAreOfTheirTime, Aged, In, Work, Looping
  <2>5. CommitsAreKnown'
    <3>1. Commits(o)'
      BY <1>1, <1>2, <2>1, <2>2 DEF CommitsAreKnown, Commits, Has, Committing
    <3> QED
      BY <2>1, <2>3, <3>1, CommitsStand DEF CommitsAreKnown
  <2>6. RestoredSoFar'
    <3>1. \A p \in Profiles : Restored(o, p)'
      BY <1>1, <2>1, <2>2 DEF RestoredSoFar, Restored
    <3> QED
      BY <2>1, <2>3, <3>1, RestoredStands DEF RestoredSoFar
  <2> QED
    BY <1>1, <2>1, <2>2, <2>3, <2>4, <2>5, <2>6, RestoreKeepsIInv DEF TypeOK, Committing
<1>3. CASE made[o] # <<>>
  <2>1. /\ made' = [made EXCEPT ![o] = SubSeq(made[o], 1, Len(made[o]) - 1)]
        /\ \/ Deleted(q) /\ UNCHANGED undeleted
           \/ /\ undeleted' = undeleted \cup {q} /\ stranded' = stranded \cup {q}
              /\ UNCHANGED <<profile, bare, owed, maker>>
        /\ UNCHANGED pc
    BY <1>3 DEF Rollback
  <2>2. q \in Profiles /\ q = made[o][Len(made[o])]
    BY <1>1, <1>3 DEF Newest
  <2> HIDE DEF q
  <2>3. /\ made' \in [Operations -> Seq(Profiles)] /\ \A x \in Operations \ {o} : made'[x] = made[x]
        /\ \A i \in DOMAIN made[o] : i # Len(made[o]) => i \in DOMAIN made'[o] /\ made'[o][i] = made[o][i]
    <3>1. /\ SubSeq(made[o], 1, Len(made[o]) - 1) \in Seq(Profiles)
          /\ made'[o] = SubSeq(made[o], 1, Len(made[o]) - 1)
      BY <1>1, <1>3, <2>1, SubSeqProperties DEF TypeOK
    <3>2. \A i \in DOMAIN made[o] : i # Len(made[o]) => i \in DOMAIN made'[o] /\ made'[o][i] = made[o][i]
      BY <1>1, <1>3, <3>1
    <3> QED
      BY <2>1, <3>1, <3>2 DEF TypeOK
  <2>4. \A x \in Operations \ {o} : Same(x)
    BY <1>1, <2>1, <2>3 DEF Same
  <2>5. /\ profile' \in Manifest /\ owed' \in Manifest /\ maker' \in [Profiles -> Operations \cup {None}]
        /\ bare' \in SUBSET Profiles /\ stranded' \in SUBSET Profiles
        /\ undeleted' \in SUBSET Profiles /\ undeleted \subseteq undeleted'
        /\ \A p \in Profiles \ {q} : profile'[p] = profile[p] /\ owed'[p] = owed[p] /\ maker'[p] = maker[p]
        /\ \/ profile'[q] = None /\ maker'[q] = None
           \/ profile'[q] = profile[q] /\ owed'[q] = owed[q] /\ maker'[q] = maker[q] /\ q \in undeleted'
    <3>1. CASE Deleted(q) /\ UNCHANGED undeleted
      BY <2>2, <3>1, DeletedManifests DEF TypeOK
    <3>2. CASE /\ undeleted' = undeleted \cup {q} /\ stranded' = stranded \cup {q}
               /\ UNCHANGED <<profile, bare, owed, maker>>
      BY <2>2, <3>2 DEF TypeOK
    <3> QED
      BY <2>1, <3>1, <3>2
  <2>6. StoredWasUsed' /\ Aged(profile)' /\ Work(o)'
    BY <1>1, <2>1, <2>2, <2>5 DEF StoredWasUsed, TreesAreOfTheirTime, Aged, In, Work, Looping
  <2>7. \A p \in Profiles : maker'[p] = maker[p] \/ maker'[p] = None
    BY <2>2, <2>5
  <2>8. CommitsAreKnown'
    <3>1. ASSUME NEW p \in Profiles, maker'[p] = o PROVE Has(o, p)' \/ p \in undeleted'
      <4>1. maker[p] = o
        BY <2>7, <3>1
      <4>2. p # q => Has(o, p)' \/ p \in undeleted'
        BY <2>2, <2>3, <2>5, <4>1 DEF CommitsAreKnown, Commits, Has
      <4> QED
        BY <2>5, <3>1, <4>2
    <3>2. Commits(o)'
      BY <1>1, <2>1, <3>1 DEF CommitsAreKnown, Commits, Committing
    <3>3. \A x \in Operations \ {o} : Commits(x)'
      BY <2>4, <2>5, <2>7, CommitsStand DEF CommitsAreKnown
    <3> QED
      BY <3>2, <3>3 DEF CommitsAreKnown
  <2>9. RestoredSoFar'
    <3>1. \A p \in Profiles : \/ maker'[p] = None
                              \/ maker'[p] = maker[p] /\ owed'[p] = owed[p] /\ profile'[p] = profile[p]
      BY <2>2, <2>5
    <3>2. ASSUME NEW p \in Profiles PROVE Restored(o, p)'
      <4> SUFFICES ASSUME maker'[p] = o
                   PROVE  ok'[o] /\ owed'[p] # None => profile'[p] # None /\ profile'[p] = owed'[p]
        BY <1>1, <2>1 DEF Restored
      <4>1. maker'[p] = maker[p] /\ owed'[p] = owed[p] /\ profile'[p] = profile[p]
        BY <3>1
      <4> QED
        BY <1>1, <4>1 DEF RestoredSoFar, Restored
    <3>3. \A x \in Operations \ {o}, p \in Profiles : Restored(x, p)'
      BY <2>4, <3>1, RestoredStands DEF RestoredSoFar
    <3> QED
      BY <3>2, <3>3 DEF RestoredSoFar
  <2>10. pc' \in [Operations -> Steps]
    BY <2>1 DEF TypeOK, Steps
  <2> QED
    BY <1>1, <2>1, <2>3, <2>4, <2>5, <2>6, <2>8, <2>9, <2>10, RestoreKeepsIInv DEF TypeOK, Committing
<1> QED
  BY <1>2, <1>3

-----------------------------------------------------------------------------
(***************************************************************************)
(* The user                                                                *)
(***************************************************************************)
\* What an act of the user on profile p has to show: no reservation is touched,
\* and the profile is not as archived any more if it changes.
LEMMA UserKeepsIInv ==
    ASSUME IInv, NEW p \in Profiles,
           UNCHANGED <<used, installed, archive, operation, blame, undeleted>>,
           lease' \in [Profiles -> {"free", "launching", "running", "maintaining"}],
           surviving' \in SUBSET Profiles, stranded' \in SUBSET Profiles,
           lease[p] # "maintaining" \/ lease'[p] = lease[p],
           bare' \in SUBSET Profiles, moves' \in 0..MaxMoves, moves <= moves',
           profile' \in Manifest, owed' \in Manifest, maker' \in [Profiles -> Operations \cup {None}],
           \A q \in Profiles \ {p} : /\ profile'[q] = profile[q] /\ owed'[q] = owed[q]
                                     /\ maker'[q] = maker[q] /\ lease'[q] = lease[q],
           maker'[p] \in {None, maker[p]},
           owed'[p] = None \/ (profile'[p] = profile[p] /\ owed'[p] = owed[p] /\ maker'[p] = maker[p]),
           profile'[p] # None => profile[p] # None /\ profile'[p].tree <= moves'
    PROVE  IInv'
<1> USE DEF IInv, operation
<1>1. \A x \in Operations : Same(x)
  BY DEF Same
<1>2. TypeOK'
  BY DEF TypeOK
<1>3. StoredWasUsed'
  BY DEF StoredWasUsed
<1>4. TreesAreOfTheirTime'
  <2>1. ASSUME NEW m \in Manifest, \A q \in In(m) : m[q].tree <= moves
        PROVE  \A q \in In(m) : m[q].tree <= moves'
    <3> SUFFICES ASSUME NEW q \in In(m) PROVE m[q].tree <= moves'
      OBVIOUS
    <3>1. m[q].tree \in 0..MaxMoves /\ m[q].tree <= moves
      BY <2>1, Manifests, RecordFields
    <3>2. moves \in 0..MaxMoves
      BY DEF TypeOK
    <3> QED
      BY <3>1, <3>2
  <2>2. Aged(archive)' /\ \A o \in Operations : Aged(draft[o])'
    BY <2>1 DEF TreesAreOfTheirTime, Aged, TypeOK, In
  <2>3. \A q \in In(profile) : profile[q].tree <= moves'
    BY <2>1 DEF TreesAreOfTheirTime, Aged, TypeOK
  <2>4. Aged(profile)'
    BY <2>3 DEF Aged, In
  <2> QED
    BY <2>2, <2>4 DEF TreesAreOfTheirTime
<1>5. LoopsHaveWork'
  BY <1>1, WorkStands DEF LoopsHaveWork
<1>6. \A o \in Operations : \A q \in held[o] : lease'[q] = lease[q]
  BY DEF LeasesAreHeld, Holds, TypeOK
<1>7. LeasesAreHeld'
  BY <1>1, <1>6, HoldsStands DEF LeasesAreHeld
<1>8. HoldersExclude' /\ BlamedIsAhead' /\ ExportsDoNotFailEachOther'
  BY DEF HoldersExclude, BlamedIsAhead, ExportsDoNotFailEachOther
<1>9. \A q \in Profiles : maker'[q] \in {None, maker[q]}
  OBVIOUS
<1>10. CommitsAreKnown'
  BY <1>1, <1>9, CommitsStand DEF CommitsAreKnown
<1>11. RestoredSoFar'
  <2>1. \A q \in Profiles : \/ owed'[q] = None
                            \/ profile'[q] = profile[q] /\ owed'[q] = owed[q] /\ maker'[q] = maker[q]
    OBVIOUS
  <2> QED
    BY <1>1, <2>1, RestoredStands DEF RestoredSoFar
<1> QED
  BY <1>2, <1>3, <1>4, <1>5, <1>7, <1>8, <1>10, <1>11

LEMMA MoveCounts ==
    ASSUME TypeOK, Move
    PROVE  moves' \in 0..MaxMoves /\ moves <= moves'
BY DEF TypeOK, Move

\* An act that changes no profile.
LEMMA LeaseKeepsIInv ==
    ASSUME IInv, NEW p \in Profiles, UNCHANGED <<disk, operation, observers>>,
           surviving' \in SUBSET Profiles, NEW l \in {"free", "launching", "running"},
           lease' = lease \/ (lease[p] # "maintaining" /\ lease' = [lease EXCEPT ![p] = l]),
           moves' \in 0..MaxMoves, moves <= moves'
    PROVE  IInv'
<1> USE DEF IInv, disk, observers
<1>1. /\ lease' \in [Profiles -> {"free", "launching", "running", "maintaining"}]
      /\ \A q \in Profiles \ {p} : lease'[q] = lease[q]
      /\ lease[p] # "maintaining" \/ lease'[p] = lease[p]
  BY DEF TypeOK
<1>2. profile'[p] # None => profile[p] # None /\ profile'[p].tree <= moves'
  <2> SUFFICES ASSUME profile[p] # None PROVE profile[p].tree <= moves'
    OBVIOUS
  <2>1. PICK r \in Record : r = profile[p] /\ r.tree <= moves
    BY Manifests DEF TypeOK, TreesAreOfTheirTime, Aged
  <2>2. r.tree \in 0..MaxMoves /\ moves \in 0..MaxMoves
    BY RecordFields DEF TypeOK
  <2> QED
    BY <2>1, <2>2
<1> QED
  BY <1>1, <1>2, UserKeepsIInv DEF TypeOK

LEMMA LaunchKeepsIInv ==
    ASSUME IInv, NEW p \in Profiles, Launch(p)
    PROVE  IInv'
<1>1. surviving' \in SUBSET Profiles
  BY DEF Launch, IInv, TypeOK
<1> QED
  BY <1>1, MoveCounts, LeaseKeepsIInv DEF Launch, IInv

LEMMA CloseKeepsIInv ==
    ASSUME IInv, NEW p \in Profiles, Close(p)
    PROVE  IInv'
<1>1. moves \in 0..MaxMoves /\ surviving \in SUBSET Profiles
  BY DEF IInv, TypeOK
<1>2. moves' = moves /\ moves' \in 0..MaxMoves /\ moves <= moves'
  BY <1>1 DEF Close
<1>3. surviving' \in SUBSET Profiles
  BY <1>1 DEF Close
<1> QED
  BY <1>2, <1>3, LeaseKeepsIInv DEF Close

\* The browser of p is running.
Connected(p) == lease' = [lease EXCEPT ![p] = "running"] /\ UNCHANGED surviving

\* An act that writes record r into an existing profile.
LEMMA WriteRecordKeepsIInv ==
    ASSUME IInv, NEW p \in Profiles, profile[p] # None, NEW r \in Record,
           profile' = [profile EXCEPT ![p] = r], r.tree <= moves',
           owed' = [owed EXCEPT ![p] = None],
           UNCHANGED <<bare, used, installed, archive, operation, blame, maker, undeleted, stranded>>,
           UNCHANGED browsers \/ (lease[p] = "launching" /\ Connected(p)),
           moves' \in 0..MaxMoves, moves <= moves'
    PROVE  IInv'
<1> USE DEF IInv
<1>1. /\ profile' \in Manifest /\ \A q \in Profiles \ {p} : profile'[q] = profile[q]
      /\ owed' \in Manifest /\ owed'[p] = None /\ \A q \in Profiles \ {p} : owed'[q] = owed[q]
      /\ profile'[p] = r
  BY DEF TypeOK, Manifest
<1>2. /\ lease' \in [Profiles -> {"free", "launching", "running", "maintaining"}]
      /\ surviving' \in SUBSET Profiles
      /\ \A q \in Profiles \ {p} : lease'[q] = lease[q]
      /\ lease[p] # "maintaining" \/ lease'[p] = lease[p]
  <2>1. CASE UNCHANGED browsers
    BY <2>1 DEF TypeOK, browsers
  <2>2. CASE lease[p] = "launching" /\ Connected(p)
    BY <2>2 DEF TypeOK, Connected
  <2> QED
    BY <2>1, <2>2
<1> QED
  BY <1>1, <1>2, UserKeepsIInv DEF TypeOK

LEMMA BrowseKeepsIInv ==
    ASSUME IInv, NEW p \in Profiles, Browse(p)
    PROVE  IInv'
<1> USE DEF IInv
<1>1. PICK r \in Record : r = profile[p] /\ r.tree <= moves
  BY Manifests DEF Browse, TypeOK, TreesAreOfTheirTime, Aged
<1>2. moves < MaxMoves /\ moves' = moves + 1 /\ r.tree \in 0..MaxMoves
  BY RecordFields DEF Browse, Move
<1>3. r.tree + 1 \in 0..MaxMoves /\ r.tree + 1 <= moves'
  BY <1>1, <1>2 DEF TypeOK
<1>4. PICK s \in Record : s = [r EXCEPT !.tree = r.tree + 1] /\ s.tree <= moves'
  <2>1. [r EXCEPT !.tree = r.tree + 1] \in Record /\ [r EXCEPT !.tree = r.tree + 1].tree = r.tree + 1
    BY <1>3 DEF Record
  <2> QED
    BY <1>3, <2>1
<1>5. profile' = [profile EXCEPT ![p] = s]
  BY <1>1, <1>4 DEF Browse
<1> QED
  BY <1>4, <1>5, MoveCounts, WriteRecordKeepsIInv DEF Browse

LEMMA SaveNetworkKeepsIInv ==
    ASSUME IInv, NEW p \in Profiles, SaveNetwork(p)
    PROVE  IInv'
<1> USE DEF IInv
<1>1. PICK r \in Record : r = profile[p] /\ r.tree <= moves
  BY Manifests DEF SaveNetwork, TypeOK, TreesAreOfTheirTime, Aged
<1>2. PICK route \in Routes : profile' = [profile EXCEPT ![p].route = route]
  BY DEF SaveNetwork
<1>3. PICK s \in Record : s = [r EXCEPT !.route = route] /\ s.tree = r.tree
  <2>1. [r EXCEPT !.route = route] \in Record /\ [r EXCEPT !.route = route].tree = r.tree
    BY DEF Record
  <2> QED
    BY <2>1
<1>4. profile' = [profile EXCEPT ![p] = s]
  BY <1>1, <1>2, <1>3
<1>5. moves' \in 0..MaxMoves /\ s.tree <= moves' /\ moves <= moves'
  <2>1. r.tree \in 0..MaxMoves /\ moves \in 0..MaxMoves /\ moves' \in 0..MaxMoves /\ moves <= moves'
    BY MoveCounts, RecordFields DEF SaveNetwork, TypeOK
  <2> QED
    BY <1>1, <1>3, <2>1
<1> QED
  BY <1>4, <1>5, WriteRecordKeepsIInv DEF SaveNetwork

LEMMA DeleteProfileKeepsIInv ==
    ASSUME IInv, NEW p \in Profiles, DeleteProfile(p)
    PROVE  IInv'
<1> USE DEF IInv
<1>1. /\ profile' \in Manifest /\ profile'[p] = None /\ \A q \in Profiles \ {p} : profile'[q] = profile[q]
      /\ owed' \in Manifest /\ owed'[p] = None /\ \A q \in Profiles \ {p} : owed'[q] = owed[q]
      /\ maker' \in [Profiles -> Operations \cup {None}] /\ maker'[p] = None
      /\ \A q \in Profiles \ {p} : maker'[q] = maker[q]
      /\ bare' \in SUBSET Profiles /\ stranded' \in SUBSET Profiles
  BY DeletedManifests DEF DeleteProfile
<1> QED
  BY <1>1, MoveCounts, UserKeepsIInv DEF DeleteProfile, browsers, TypeOK

LEMMA AttachKeepsIInv ==
    ASSUME IInv, NEW p \in Profiles, Attach(p)
    PROVE  IInv'
<1> USE DEF IInv
<1>1. /\ lease[p] = "launching" /\ moves' \in 0..MaxMoves /\ moves <= moves'
      /\ surviving' \in SUBSET Profiles /\ UNCHANGED surviving
      /\ UNCHANGED <<used, installed, archive, operation, blame, maker, undeleted, stranded, moves>>
  BY DEF Attach, TypeOK
<1>2. CASE LoadFingerprint(p) /\ Connected(p)
  BY <1>1, <1>2, LeaseKeepsIInv DEF LoadFingerprint, Connected, disk, observers
<1>3. CASE CreateFingerprint(p) /\ Connected(p)
  <2>1. CASE profile[p] = None
    <3>1. /\ bare' \in SUBSET Profiles /\ profile' = profile
          /\ owed' \in Manifest /\ owed'[p] = None /\ \A q \in Profiles \ {p} : owed'[q] = owed[q]
      BY <1>3, <2>1 DEF CreateFingerprint, TypeOK, Manifest
    <3>2. /\ lease' \in [Profiles -> {"free", "launching", "running", "maintaining"}]
          /\ \A q \in Profiles \ {p} : lease'[q] = lease[q]
      BY <1>3 DEF Connected, TypeOK
    <3> QED
      BY <1>1, <2>1, <3>1, <3>2, UserKeepsIInv DEF TypeOK
  <2>2. CASE profile[p] # None
    <3>1. PICK r \in Record : r = profile[p] /\ r.tree <= moves
      BY <2>2, Manifests DEF TypeOK, TreesAreOfTheirTime, Aged
    <3>2. PICK s \in Record : s = [r EXCEPT !.seed = p, !.owner = p] /\ s.tree = r.tree
      <4>1. [r EXCEPT !.seed = p, !.owner = p] \in Record /\ [r EXCEPT !.seed = p, !.owner = p].tree = r.tree
        BY DEF Record
      <4> QED
        BY <4>1
    <3>3. profile' = [profile EXCEPT ![p] = s]
      BY <1>3, <2>2, <3>1, <3>2 DEF CreateFingerprint, TypeOK, Manifest
    <3> QED
      BY <1>1, <1>3, <2>2, <3>1, <3>2, <3>3, WriteRecordKeepsIInv DEF CreateFingerprint
  <2> QED
    BY <2>1, <2>2
<1>4. CASE lease' = [lease EXCEPT ![p] = "free"] /\ UNCHANGED <<profile, bare, owed>>
  BY <1>1, <1>4, LeaseKeepsIInv DEF disk, observers
<1> QED
  BY <1>1, <1>2, <1>3, <1>4 DEF Attach, Connected

LEMMA CrashKeepsIInv == ASSUME IInv, Crash PROVE IInv'
<1> USE DEF IInv, disk
<1>1. UNCHANGED <<profile, bare, used, installed, archive, runs, owed, moves>>
  BY DEF Crash
<1>2. \A o \in Operations : /\ pc'[o] = "idle" /\ ok'[o] /\ todo'[o] = {} /\ held'[o] = {}
                            /\ draft'[o] = Empty /\ made'[o] = <<>> /\ blame'[o] = None
  BY DEF Crash
<1>3. \A p \in Profiles : maker'[p] = None
  BY DEF Crash, Empty
<1>4. TypeOK'
  <2>1. /\ surviving' \in SUBSET Profiles /\ stranded' \in SUBSET Profiles
        /\ lease' \in [Profiles -> {"free", "launching", "running", "maintaining"}]
    BY DEF Crash, TypeOK
  <2>2. /\ pc' \in [Operations -> {"idle", "record"} \cup Exporting \cup Importing]
        /\ ok' \in [Operations -> BOOLEAN] /\ draft' \in [Operations -> Manifest]
        /\ todo' \in [Operations -> SUBSET Profiles] /\ held' \in [Operations -> SUBSET Profiles]
        /\ made' \in [Operations -> Seq(Profiles)] /\ blame' \in [Operations -> Operations \cup {None}]
        /\ maker' \in [Profiles -> Operations \cup {None}] /\ undeleted' \in SUBSET Profiles
    BY EmptyManifest, EmptySeq DEF Crash, Empty
  <2> QED
    BY <1>1, <2>1, <2>2 DEF TypeOK
<1>5. StoredWasUsed' /\ TreesAreOfTheirTime'
  BY <1>1, <1>2, EmptyManifest DEF StoredWasUsed, TreesAreOfTheirTime, Aged, In
<1>6. LoopsHaveWork' /\ LeasesAreHeld' /\ HoldersExclude'
  BY <1>2 DEF LoopsHaveWork, Work, Looping, LeasesAreHeld, Holds, HoldersExclude
<1>7. BlamedIsAhead' /\ ExportsDoNotFailEachOther'
  BY <1>2 DEF BlamedIsAhead, ExportsDoNotFailEachOther
<1>8. CommitsAreKnown' /\ RestoredSoFar'
  BY <1>2, <1>3 DEF CommitsAreKnown, Commits, Committing, RestoredSoFar, Restored
<1> QED
  BY <1>4, <1>5, <1>6, <1>7, <1>8

LEMMA StutterKeepsIInv == ASSUME IInv, UNCHANGED vars PROVE IInv'
<1> USE DEF IInv, vars, disk, browsers, operation, observers
<1>1. TypeOK' /\ StoredWasUsed' /\ TreesAreOfTheirTime'
  BY DEF TypeOK, StoredWasUsed, TreesAreOfTheirTime, Aged, In
<1>2. LoopsHaveWork' /\ LeasesAreHeld' /\ HoldersExclude'
  BY DEF LoopsHaveWork, Work, LeasesAreHeld, Holds, HoldersExclude, In
<1>3. BlamedIsAhead' /\ ExportsDoNotFailEachOther'
  BY DEF BlamedIsAhead, ExportsDoNotFailEachOther
<1>4. \A x \in Operations : Same(x)
  BY DEF Same
<1>5. CommitsAreKnown' /\ RestoredSoFar'
  BY <1>4, CommitsStand, RestoredStands DEF CommitsAreKnown, RestoredSoFar
<1> QED
  BY <1>1, <1>2, <1>3, <1>5

LEMMA NextKeepsIInv == IInv /\ [Next]_vars => IInv'
<1> SUFFICES ASSUME IInv, [Next]_vars PROVE IInv'
  OBVIOUS
<1>1. ASSUME NEW o \in Operations, NEW S \in SUBSET In(profile), Export(o, S) PROVE IInv'
  <2>1. S \in SUBSET Profiles /\ S # {}
    BY <1>1, Manifests DEF IInv, TypeOK, Export
  <2> QED
    BY <1>1, <2>1, BeginKeepsIInv DEF Export
<1>2. ASSUME NEW o \in Operations, Import(o) PROVE IInv'
  <2>1. PICK S \in SUBSET Profiles : Begin(o, "decrypt", S, Empty)
    BY <1>2 DEF Import
  <2> QED
    BY <1>2, <2>1, BeginKeepsIInv DEF Import
<1>3. ASSUME NEW o \in Operations, Step(o) PROVE IInv'
  BY <1>3, ReadMetadataKeepsIInv, ReserveKeepsIInv, UnwindKeepsIInv, ArchiveSettingsKeepsIInv,
     ArchiveTreeKeepsIInv, EncryptKeepsIInv, FinishKeepsIInv, DecryptKeepsIInv, ExtractKeepsIInv,
     RestoreExtensionsKeepsIInv, CommitImportKeepsIInv, RebindKeepsIInv, RestoreRouteKeepsIInv,
     RollbackKeepsIInv DEF Step
<1>4. ASSUME NEW p \in Profiles, User(p) PROVE IInv'
  BY <1>4, LaunchKeepsIInv, AttachKeepsIInv, BrowseKeepsIInv, CloseKeepsIInv, SaveNetworkKeepsIInv,
     DeleteProfileKeepsIInv DEF User
<1> QED
  BY <1>1, <1>2, <1>3, <1>4, CrashKeepsIInv, StutterKeepsIInv DEF Next

-----------------------------------------------------------------------------
(***************************************************************************)
(* Theorems                                                                *)
(***************************************************************************)
\* The invariant that carries the rest holds in every reachable state.
THEOREM InductiveInvariant == Spec => []IInv
<1> QED
  BY InitIInv, NextKeepsIInv, PTL DEF Spec

\* Every variable keeps its type.
THEOREM TypeCorrect == Spec => []TypeOK
<1>1. IInv => TypeOK
  BY DEF IInv
<1> QED
  BY <1>1, InductiveInvariant, PTL

\* Sorting the UUIDs before the first is reserved (reserveProfiles) is enough
\* for two exports never to make each other fail.
THEOREM ExportsAreServed == Spec => []ExportsDoNotFailEachOther
<1>1. IInv => ExportsDoNotFailEachOther
  BY DEF IInv
<1> QED
  BY <1>1, InductiveInvariant, PTL

\* A restore that failed leaves no profile it committed, but for those Delete
\* failed on, whatever else happened to them in the meantime.
THEOREM RestoresAreTakenBack == Spec => []FailedRestoreLeavesNothing
<1>1. IInv => FailedRestoreLeavesNothing
  <2> SUFFICES ASSUME IInv, NEW o \in Operations, NEW p \in Profiles,
                      pc[o] = "record", ~ok[o], maker[p] = o
               PROVE  p \in undeleted
    BY DEF FailedRestoreLeavesNothing
  <2>1. made[o] = <<>> /\ (Has(o, p) \/ p \in undeleted)
    BY DEF IInv, CommitsAreKnown, Commits
  <2> QED
    BY <2>1 DEF Has
<1> QED
  BY <1>1, InductiveInvariant, PTL

\* A restore that succeeded left every profile as the archive has it, unless
\* the user or another restore of the same UUID has changed it since.
THEOREM RestoresAreComplete == Spec => []RestoredAsArchived
<1>1. IInv => RestoredAsArchived
  BY DEF IInv, RestoredSoFar, Restored, RestoredAsArchived
<1> QED
  BY <1>1, InductiveInvariant, PTL

\* Only a browser that runs writes into the data of an existing profile, and a
\* profile that is reserved for maintenance has none.
LEMMA ReservedTreeStandsStill ==
    ASSUME IInv, [Next]_vars, NEW p \in Profiles, lease[p] = "maintaining", p \notin surviving,
           profile[p] # None, profile'[p] # None
    PROVE  profile'[p].tree = profile[p].tree
<1>1. PICK r \in Record : r = profile[p]
  BY Manifests DEF IInv, TypeOK
<1>2. profile \in Manifest
  BY DEF IInv, TypeOK
<1>3. ASSUME profile' = profile PROVE profile'[p].tree = profile[p].tree
  BY <1>3
<1>4. ASSUME NEW q \in Profiles, Deleted(q) PROVE profile'[p].tree = profile[p].tree
  BY <1>2, <1>4 DEF Deleted, Manifest
<1>5. ASSUME NEW o \in Operations, Step(o) PROVE profile'[p].tree = profile[p].tree
  <2>1. CASE CommitImport(o)
    <3>1. ASSUME NEW q \in Profiles, Target(First(todo[o]), q),
                 NEW s, profile' = [profile EXCEPT ![q] = s]
          PROVE  profile'[p].tree = profile[p].tree
      <4>1. p # q
        BY <3>1 DEF Target, IInv, StoredWasUsed
      <4> QED
        BY <1>2, <3>1, <4>1 DEF Manifest
    <3> QED
      BY <2>1, <3>1 DEF CommitImport
  <2>2. CASE Rebind(o)
    BY <1>1, <1>2, <2>2 DEF Rebind, Manifest, Record
  <2>3. CASE RestoreRoute(o)
    BY <1>1, <1>2, <2>3 DEF RestoreRoute, Manifest, Record
  <2>4. CASE Rollback(o)
    <3>1. CASE UNCHANGED profile
      BY <3>1
    <3>2. CASE Deleted(Newest(o))
      BY <1>2, <3>2 DEF Deleted, Manifest
    <3> QED
      BY <2>4, <3>1, <3>2 DEF Rollback
  <2>5. CASE \/ \E x \in Profiles : ReadMetadata(o, x)
             \/ Reserve(o) \/ Unwind(o) \/ ArchiveSettings(o) \/ ArchiveTree(o) \/ Encrypt(o)
             \/ Decrypt(o) \/ Extract(o) \/ RestoreExtensions(o) \/ Finish(o)
    BY <2>5 DEF ReadMetadata, Reserve, Unwind, ArchiveSettings, ArchiveTree, Encrypt, Decrypt, Extract,
       RestoreExtensions, Finish, disk
  <2> QED
    BY <1>5, <2>1, <2>2, <2>3, <2>4, <2>5 DEF Step
<1>6. ASSUME NEW q \in Profiles, User(q) PROVE profile'[p].tree = profile[p].tree
  <2>1. CASE Launch(q) \/ Close(q)
    BY <2>1 DEF Launch, Close, disk
  <2>2. CASE Attach(q)
    BY <1>1, <1>2, <2>2 DEF Attach, LoadFingerprint, CreateFingerprint, Manifest, Record
  <2>3. CASE Browse(q)
    BY <1>1, <1>2, <2>3 DEF Browse, Manifest, Record
  <2>4. CASE SaveNetwork(q)
    BY <1>1, <1>2, <2>4 DEF SaveNetwork, Manifest, Record
  <2>5. CASE DeleteProfile(q)
    BY <1>4, <2>5 DEF DeleteProfile
  <2> QED
    BY <1>6, <2>1, <2>2, <2>3, <2>4, <2>5 DEF User
<1>7. CASE \/ \E o \in Operations : (\E S \in SUBSET In(profile) : Export(o, S)) \/ Import(o)
           \/ Crash \/ UNCHANGED vars
  BY <1>7 DEF Export, Import, Begin, Crash, vars, disk
<1> QED
  BY <1>5, <1>6, <1>7 DEF Next

\* The Chromium directory of a profile stands still while it is archived, but
\* for a browser that has outlived an earlier run of the program: the export
\* has reserved the profile, and the reservation keeps all other browsers out.
THEOREM ArchivesAreConsistent == Spec => ArchivedTreeStandsStill
<1> DEFINE StandsStill == \A o \in Operations, p \in Profiles \ surviving :
          pc[o] = "trees" /\ p \in todo[o] /\ profile[p] # None /\ profile'[p] # None
              => profile'[p].tree = profile[p].tree
<1>1. IInv /\ [Next]_vars => StandsStill
  <2>1. ASSUME IInv, NEW o \in Operations, NEW p \in Profiles, pc[o] = "trees", p \in todo[o]
        PROVE  lease[p] = "maintaining"
    BY <2>1 DEF IInv, LoopsHaveWork, Work, Looping, LeasesAreHeld, Holds
  <2> QED
    BY <2>1, ReservedTreeStandsStill
<1>2. IInv /\ [Next]_vars => [StandsStill]_vars
  BY <1>1
<1> QED
  BY <1>2, InductiveInvariant, PTL DEF Spec, ArchivedTreeStandsStill

-----------------------------------------------------------------------------
(***************************************************************************)
(* Profiles that cannot be opened.  RestoredProfilesOpen is inductive once *)
(* the types are known.                                                    *)
(***************************************************************************)
\* A step of o does not leave p shut without a reason.
Kept(o, p) == Foreign(p)' => \/ p \in stranded' \/ Binding(o, p)'
                             \/ Foreign(p) /\ p \notin stranded /\ ~Binding(o, p)

LEMMA OperationKeepsOpen ==
    ASSUME RestoredProfilesOpen, NEW o \in Operations,
           \A x \in Operations \ {o} : pc'[x] = pc[x] /\ made'[x] = made[x],
           \A p \in Profiles : Kept(o, p)
    PROVE  RestoredProfilesOpen'
<1> SUFFICES ASSUME NEW p \in Profiles, Foreign(p), p \notin stranded, ~Binding(o, p)
             PROVE  \E x \in Operations : Binding(x, p)'
  BY DEF RestoredProfilesOpen, Kept
<1>1. PICK x \in Operations : Binding(x, p)
  BY DEF RestoredProfilesOpen
<1>2. x \in Operations \ {o}
  BY <1>1
<1> QED
  BY <1>1, <1>2 DEF Binding, Newest

LEMMA UserKeepsOpen ==
    ASSUME RestoredProfilesOpen, UNCHANGED <<pc, made>>,
           \A p \in Profiles : Foreign(p)' => Foreign(p) /\ (p \in stranded => p \in stranded')
    PROVE  RestoredProfilesOpen'
BY DEF RestoredProfilesOpen, Binding, Newest

LEMMA CommitImportKeepsOpen ==
    ASSUME IInv, NEW o \in Operations, CommitImport(o), NEW p \in Profiles
    PROVE  Kept(o, p)
<1>1. profile \in Manifest /\ pc \in [Operations -> Steps] /\ made \in [Operations -> Seq(Profiles)]
  BY DEF IInv, TypeOK, Steps
<1>2. ~Binding(o, p)
  BY DEF CommitImport, Binding
<1>3. CASE UNCHANGED <<profile, stranded>>
  BY <1>2, <1>3 DEF Kept, Foreign
<1>4. ASSUME NEW q \in Profiles, NEW s, profile' = [profile EXCEPT ![q] = s],
             made' = [made EXCEPT ![o] = Append(@, q)], stranded' = stranded \ {q}, Goto(o, "rebind")
      PROVE  Kept(o, p)
  <2>1. CASE p = q
    <3>1. pc'[o] = "rebind" /\ made'[o] = Append(made[o], q) /\ made[o] \in Seq(Profiles)
      BY <1>1, <1>4 DEF Goto
    <3>2. Append(made[o], q) \in Seq(Profiles) /\ Len(made'[o]) = Len(made[o]) + 1
      BY <3>1
    <3>3. made'[o] # <<>> /\ made'[o][Len(made'[o])] = q
      BY <3>1, <3>2
    <3> QED
      BY <2>1, <3>1, <3>3 DEF Kept, Binding, Newest
  <2>2. CASE p # q
    BY <1>1, <1>2, <1>4, <2>2 DEF Kept, Foreign, Manifest
  <2> QED
    BY <2>1, <2>2
<1> QED
  BY <1>3, <1>4 DEF CommitImport

LEMMA RebindKeepsOpen ==
    ASSUME IInv, NEW o \in Operations, Rebind(o), NEW p \in Profiles
    PROVE  Kept(o, p)
<1>1. profile \in Manifest /\ pc \in [Operations -> Steps] /\ pc[o] = "rebind" /\ UNCHANGED made
  BY DEF IInv, TypeOK, Steps, Rebind
<1>2. CASE Fail(o, "rollback") /\ UNCHANGED <<profile, stranded>>
  <2>1. pc'[o] = "rollback"
    BY <1>1, <1>2 DEF Fail, Goto
  <2> QED
    BY <1>1, <1>2, <2>1 DEF Kept, Foreign, Binding, Newest
<1>3. CASE /\ profile' = IF profile[Newest(o)] # None /\ profile[Newest(o)].owner # None
                          THEN [profile EXCEPT ![Newest(o)].owner = Newest(o)] ELSE profile
           /\ stranded' = stranded \ {Newest(o)}
  <2>1. CASE p = Newest(o)
    <3>1. /\ profile' = IF profile[p] # None /\ profile[p].owner # None
                        THEN [profile EXCEPT ![p].owner = p] ELSE profile
          /\ profile[p] # None => profile[p] \in Record
      BY <1>1, <1>3, <2>1 DEF Manifest
    <3>2. ~Foreign(p)'
      BY <1>1, <3>1 DEF Foreign, Manifest, Record
    <3> QED
      BY <3>2 DEF Kept
  <2>2. CASE p # Newest(o)
    <3>1. profile'[p] = profile[p] /\ (p \in stranded => p \in stranded') /\ ~Binding(o, p)
      BY <1>1, <1>3, <2>2 DEF Manifest, Binding
    <3> QED
      BY <3>1 DEF Kept, Foreign
  <2> QED
    BY <2>1, <2>2
<1> QED
  BY <1>2, <1>3 DEF Rebind

LEMMA RestoreRouteKeepsOpen ==
    ASSUME IInv, NEW o \in Operations, RestoreRoute(o), NEW p \in Profiles
    PROVE  Kept(o, p)
<1>1. profile \in Manifest /\ UNCHANGED stranded /\ ~Binding(o, p)
  BY DEF IInv, TypeOK, RestoreRoute, Binding
<1>2. CASE UNCHANGED profile
  BY <1>1, <1>2 DEF Kept, Foreign
<1>3. ASSUME NEW q, NEW route, profile[q] # None, profile' = [profile EXCEPT ![q].route = route]
      PROVE  Kept(o, p)
  <2>1. profile[p] = None \/ profile[p] \in Record
    BY <1>1 DEF Manifest
  <2>2. CASE p = q
    <3>1. profile'[p] = [profile[p] EXCEPT !.route = route] /\ profile[p] \in Record /\ profile[p] # None
      BY <1>1, <1>3, <2>1, <2>2 DEF Manifest
    <3>2. profile'[p].owner = profile[p].owner
      BY <3>1 DEF Record
    <3> QED
      BY <1>1, <3>1, <3>2 DEF Kept, Foreign
  <2>3. CASE p # q
    BY <1>1, <1>3, <2>3 DEF Kept, Foreign, Manifest
  <2> QED
    BY <2>2, <2>3
<1> QED
  BY <1>2, <1>3 DEF RestoreRoute

LEMMA RollbackKeepsOpen ==
    ASSUME IInv, NEW o \in Operations, Rollback(o), NEW p \in Profiles
    PROVE  Kept(o, p)
<1>1. profile \in Manifest /\ made[o] \in Seq(Profiles)
  BY DEF IInv, TypeOK
<1>2. CASE made[o] = <<>>
  <2>1. UNCHANGED <<profile, stranded>>
    BY <1>2 DEF Rollback
  <2> QED
    BY <1>2, <2>1 DEF Kept, Foreign, Binding
<1>3. CASE made[o] # <<>>
  <2>1. PICK q \in Profiles : q = Newest(o)
    <3>1. Len(made[o]) \in 1..Len(made[o])
      BY <1>1, <1>3
    <3>2. made[o][Len(made[o])] \in Profiles
      BY <1>1, <3>1, ElementOfSeq
    <3> QED
      BY <3>2 DEF Newest
  <2>2. Deleted(q) \/ (stranded' = stranded \cup {q} /\ UNCHANGED profile)
    BY <1>3, <2>1 DEF Rollback
  <2>3. p = q => (Foreign(p)' => p \in stranded')
    BY <1>1, <2>2 DEF Deleted, Foreign, Manifest
  <2>4. p # q => (Foreign(p)' => Foreign(p)) /\ (p \in stranded => p \in stranded') /\ ~Binding(o, p)
    BY <1>1, <2>1, <2>2 DEF Deleted, Foreign, Manifest, Binding
  <2> QED
    BY <2>3, <2>4 DEF Kept
<1> QED
  BY <1>2, <1>3

LEMMA RestoreKeepsOpen ==
    ASSUME IInv, RestoredProfilesOpen, NEW o \in Operations,
           CommitImport(o) \/ Rebind(o) \/ RestoreRoute(o) \/ Rollback(o)
    PROVE  RestoredProfilesOpen'
<1>1. pc \in [Operations -> Steps] /\ made \in [Operations -> Seq(Profiles)]
  BY DEF IInv, TypeOK, Steps
<1>2. \A x \in Operations \ {o} : pc'[x] = pc[x] /\ made'[x] = made[x]
  BY <1>1 DEF CommitImport, Rebind, RestoreRoute, Rollback, Goto, Fail
<1>3. \A p \in Profiles : Kept(o, p)
  BY CommitImportKeepsOpen, RebindKeepsOpen, RestoreRouteKeepsOpen, RollbackKeepsOpen
<1> QED
  BY <1>2, <1>3, OperationKeepsOpen

\* The steps of operations that touch no profile.
LEMMA QuietKeepsOpen ==
    ASSUME IInv, RestoredProfilesOpen, NEW o \in Operations,
           \/ (\E S \in SUBSET In(profile) : Export(o, S)) \/ Import(o)
           \/ \E x \in Profiles : ReadMetadata(o, x)
           \/ Reserve(o) \/ Unwind(o) \/ ArchiveSettings(o) \/ ArchiveTree(o) \/ Encrypt(o)
           \/ Decrypt(o) \/ Extract(o) \/ RestoreExtensions(o) \/ Finish(o)
    PROVE  RestoredProfilesOpen'
<1>1. /\ pc \in [Operations -> Steps] /\ made \in [Operations -> Seq(Profiles)] /\ UNCHANGED <<profile, stranded>>
      /\ pc[o] \notin {"rebind", "rollback"}
  BY DEF IInv, TypeOK, Steps, Export, Import, Begin, ReadMetadata, Reserve, Unwind, ArchiveSettings, ArchiveTree,
     Encrypt, Decrypt, Extract, RestoreExtensions, Finish, disk, observers
<1>2. \A x \in Operations \ {o} : pc'[x] = pc[x] /\ made'[x] = made[x]
  BY <1>1 DEF Export, Import, Begin, ReadMetadata, Reserve, Reserved, Refused, Unwind, ArchiveSettings, ArchiveTree,
     Encrypt, Decrypt, Extract, RestoreExtensions, Finish, Over, Advance, Goto, Fail
<1>3. \A p \in Profiles : Kept(o, p)
  BY <1>1 DEF Kept, Foreign, Binding
<1> QED
  BY <1>2, <1>3, OperationKeepsOpen

LEMMA MovesKeepOpen ==
    ASSUME IInv, RestoredProfilesOpen, NEW q \in Profiles, User(q)
    PROVE  RestoredProfilesOpen'
<1>1. profile \in Manifest
  BY DEF IInv, TypeOK
<1>2. UNCHANGED <<pc, made>>
  BY DEF User, Launch, Attach, Browse, Close, SaveNetwork, DeleteProfile, operation
<1>3. ASSUME NEW p \in Profiles, Foreign(p)'
      PROVE  Foreign(p) /\ (p \in stranded => p \in stranded')
  <2>1. CASE Launch(q) \/ Close(q)
    BY <1>3, <2>1 DEF Launch, Close, Foreign, disk, observers
  <2>2. CASE Attach(q)
    BY <1>1, <1>3, <2>2 DEF Attach, LoadFingerprint, CreateFingerprint, Foreign, Manifest, Record
  <2>3. CASE Browse(q)
    BY <1>1, <1>3, <2>3 DEF Browse, Foreign, Manifest, Record
  <2>4. CASE SaveNetwork(q)
    BY <1>1, <1>3, <2>4 DEF SaveNetwork, Foreign, Manifest, Record
  <2>5. CASE DeleteProfile(q)
    BY <1>1, <1>3, <2>5 DEF DeleteProfile, Deleted, Foreign, Manifest
  <2> QED
    BY <2>1, <2>2, <2>3, <2>4, <2>5 DEF User
<1> QED
  BY <1>2, <1>3, UserKeepsOpen

\* Whatever cannot be opened because of the fingerprint it was restored with is
\* still in the hands of its restore, or was left behind by a crash or a Delete
\* that failed.
THEOREM NothingElseStaysShut == Spec => []RestoredProfilesOpen
<1>1. Init => RestoredProfilesOpen
  <2> SUFFICES ASSUME Init, NEW p \in Profiles PROVE ~Foreign(p)
    BY DEF RestoredProfilesOpen
  <2>1. PICK S \in {{1}, {1, 2}} : profile = Having(S, {})
    BY DEF Init
  <2> QED
    BY <2>1 DEF Having, Fresh, Foreign
<1>2. IInv /\ RestoredProfilesOpen /\ [Next]_vars => RestoredProfilesOpen'
  <2> SUFFICES ASSUME IInv, RestoredProfilesOpen, [Next]_vars PROVE RestoredProfilesOpen'
    OBVIOUS
  <2>1. CASE UNCHANGED vars
    BY <2>1, UserKeepsOpen DEF vars, disk, operation, observers, Foreign
  <2>2. CASE Crash
    BY <2>2 DEF Crash, disk, RestoredProfilesOpen, Foreign
  <2>3. ASSUME NEW o \in Operations, (\E S \in SUBSET In(profile) : Export(o, S)) \/ Import(o) \/ Step(o)
        PROVE  RestoredProfilesOpen'
    BY <2>3, RestoreKeepsOpen, QuietKeepsOpen DEF Step
  <2>4. ASSUME NEW q \in Profiles, User(q) PROVE RestoredProfilesOpen'
    BY <2>4, MovesKeepOpen
  <2> QED
    BY <2>1, <2>2, <2>3, <2>4 DEF Next
<1> QED
  BY <1>1, <1>2, InductiveInvariant, PTL DEF Spec
=============================================================================
