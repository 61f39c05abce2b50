------------------------------ MODULE Backups ------------------------------
(***************************************************************************)
(* internal/backups: exporting profiles to an encrypted archive and        *)
(* restoring them from one, composed with what a restore calls into        *)
(* (profile.Store.CommitImport and Delete, extensions.InstallCRX,          *)
(* fingerprint.RebindFile, network.Store.Save), with the reservations of   *)
(* internal/browser/manager.go, and with internal/fingerprint/store.go,    *)
(* which a launch asks for the identity of its profile.                     *)
(*                                                                         *)
(* A profile is abstracted to what a backup carries: its assigned          *)
(* extensions, a version of its Chromium data, the seed and the owner      *)
(* written in fingerprint.json, and its route.  Whatever an operation      *)
(* keeps in a directory of its own is invisible to the others until it is  *)
(* renamed, and is not modelled.                                           *)
(***************************************************************************)
EXTENDS Integers, FiniteSets, Sequences

CONSTANTS Profiles,     \* UUIDs, as numbers: they are sorted as strings
          Extensions,
          Operations,   \* goroutines inside Export or Import
          None,         \* no profile, no record, no operation
          MaxRuns,      \* bound: operations begun
          MaxMoves      \* bound: launches, visits, saves and deletions by the user

\* There are finitely many UUIDs, so one comes last; those of Init are among them.
ASSUME ProfilesAssumption ==
    /\ Profiles \subseteq Nat /\ {1, 2} \subseteq Profiles
    /\ \E p \in Profiles : \A q \in Profiles : q <= p
ASSUME BoundsAssumption == MaxRuns \in Nat /\ MaxMoves \in Nat

VARIABLES
    profile,    \* the profiles on disk: a record, or None
    bare,       \* directories that hold a fingerprint.json and no metadata
    used,       \* UUIDs handed out so far
    installed,  \* the extension vault
    archive,    \* the .bruno-profile file: a record for each profile in it
    lease,      \* browser.Manager: what each profile is reserved for
    surviving,  \* profiles whose Chromium has outlived the program that started it
    pc,         \* where each operation is; "idle": it is over
    ok,         \* its operationErr is nil
    todo,       \* profiles left in the loop it is in
    held,       \* profiles it has reserved
    draft,      \* the manifest it writes (Export) or has read (Import)
    made,       \* profiles it has committed, in order
    runs,       \* operations begun
    moves,      \* what the user did so far
    blame,      \* observer: the operation that made this one's export fail
    owed,       \* observer: what a restored profile has to be like
    maker,      \* observer: the import that committed the profile
    undeleted,  \* observer: profiles whose Delete failed in a rollback
    stranded    \* observer: profiles a crash or such a Delete left half restored

disk == <<profile, bare, used, installed, archive>>
browsers == <<lease, surviving>>
operation == <<pc, ok, todo, held, draft, made, runs>>
observers == <<blame, owed, maker, undeleted, stranded>>
vars == <<disk, browsers, operation, observers, moves>>

Routes == {"direct", "proxy"}
Record == [ext: SUBSET Extensions, tree: 0..MaxMoves,
           seed: Profiles \cup {None}, owner: Profiles \cup {None}, route: Routes]
Manifest == [Profiles -> Record \cup {None}]
ASSUME NoneAssumption == None \notin Profiles \cup Operations \cup Record

Empty == [p \in Profiles |-> None]
In(manifest) == {p \in Profiles : manifest[p] # None}

Exporting == {"read", "reserve", "refused", "settings", "trees", "encrypt"}
Importing == {"decrypt", "extract", "extensions", "commit", "rebind", "route", "rollback"}

TypeOK ==
    /\ profile \in Manifest /\ archive \in Manifest
    /\ bare \subseteq Profiles /\ used \subseteq Profiles /\ installed \subseteq Extensions
    /\ lease \in [Profiles -> {"free", "launching", "running", "maintaining"}]
    /\ surviving \subseteq Profiles
    /\ pc \in [Operations -> {"idle", "record"} \cup Exporting \cup Importing]
    /\ ok \in [Operations -> BOOLEAN]
    /\ todo \in [Operations -> SUBSET Profiles] /\ held \in [Operations -> SUBSET Profiles]
    /\ draft \in [Operations -> Manifest]
    /\ made \in [Operations -> Seq(Profiles)]
    /\ runs \in 0..MaxRuns /\ moves \in 0..MaxMoves
    /\ blame \in [Operations -> Operations \cup {None}]
    /\ owed \in Manifest /\ maker \in [Profiles -> Operations \cup {None}] /\ undeleted \subseteq Profiles
    /\ stranded \subseteq Profiles

\* Profile 1 has a fingerprint, the others were never launched.
Fresh(p, extensions) ==
    [ext |-> IF p = 1 THEN extensions ELSE {}, tree |-> 0,
     seed |-> IF p = 1 THEN p ELSE None, owner |-> IF p = 1 THEN p ELSE None, route |-> "proxy"]
Having(S, extensions) == [p \in Profiles |-> IF p \in S THEN Fresh(p, extensions) ELSE None]

Init ==
    \* There may be an archive, made of the same profiles on another computer.
    /\ \E S \in {{1}, {1, 2}} : profile = Having(S, {}) /\ used = S
    /\ archive \in {Having(S, Extensions) : S \in {{}, {1, 2}}}
    /\ installed = {}
    /\ bare = {}
    /\ lease = [p \in Profiles |-> "free"]
    /\ surviving = {}
    /\ pc = [o \in Operations |-> "idle"] /\ ok = [o \in Operations |-> TRUE]
    /\ todo = [o \in Operations |-> {}] /\ held = [o \in Operations |-> {}]
    /\ draft = [o \in Operations |-> Empty]
    /\ made = [o \in Operations |-> <<>>]
    /\ blame = [o \in Operations |-> None] /\ maker = Empty /\ undeleted = {}
    /\ stranded = {}
    /\ runs = 0 /\ moves = 0
    /\ owed = Empty

-----------------------------------------------------------------------------
First(S) == CHOOSE p \in S : \A q \in S : p <= q
Last(S) == CHOOSE p \in S : \A q \in S : q <= p

Goto(o, step) == pc' = [pc EXCEPT ![o] = step]
Fail(o, step) == Goto(o, step) /\ ok' = [ok EXCEPT ![o] = FALSE]

\* The loop of o goes on, or step follows it, over the profiles in S.
Advance(o, p, step, S) ==
    IF todo[o] = {p} THEN Goto(o, step) /\ todo' = [todo EXCEPT ![o] = S]
                     ELSE todo' = [todo EXCEPT ![o] = @ \ {p}] /\ UNCHANGED pc

Begin(o, step, S, manifest) ==
    /\ pc[o] = "idle" /\ runs < MaxRuns
    /\ runs' = runs + 1
    /\ Goto(o, step)
    /\ todo' = [todo EXCEPT ![o] = S]
    /\ draft' = [draft EXCEPT ![o] = manifest]
    /\ UNCHANGED <<disk, browsers, ok, held, made, observers, moves>>

\* The operation returns.
Over(o) ==
    /\ Goto(o, "idle")
    /\ ok' = [ok EXCEPT ![o] = TRUE]
    /\ todo' = [todo EXCEPT ![o] = {}]
    /\ draft' = [draft EXCEPT ![o] = Empty]
    /\ made' = [made EXCEPT ![o] = <<>>]
    /\ blame' = [x \in Operations |-> IF x = o \/ blame[x] = o THEN None ELSE blame[x]]
    /\ maker' = [p \in Profiles |-> IF maker[p] = o THEN None ELSE maker[p]]
    /\ undeleted' = {p \in undeleted : maker[p] # o}

-----------------------------------------------------------------------------
(***************************************************************************)
(* Export                                                                  *)
(***************************************************************************)
Export(o, S) ==
    /\ S # {}
    /\ Begin(o, "read", S, Empty)

\* reserveProfiles, first loop: Get, before anything is reserved.
ReadMetadata(o, p) ==
    /\ pc[o] = "read" /\ p \in todo[o]
    /\ IF profile[p] = None
       THEN Over(o)
       ELSE /\ draft' = [draft EXCEPT ![o][p] = profile[p]]
            /\ Advance(o, p, "reserve", In(draft'[o]))
            /\ UNCHANGED <<ok, made, blame, maker, undeleted>>
    /\ UNCHANGED <<disk, browsers, held, runs, owed, stranded, moves>>

Reserved(o, p) ==
    /\ lease[p] = "free"
    /\ lease' = [lease EXCEPT ![p] = "maintaining"]
    /\ held' = [held EXCEPT ![o] = @ \cup {p}]
    /\ Advance(o, p, "settings", In(draft[o]))
    /\ UNCHANGED blame

Refused(o, p) ==
    /\ lease[p] # "free"
    /\ blame' = [blame EXCEPT ![o] = IF \E x \in Operations : p \in held[x]
                                     THEN CHOOSE x \in Operations : p \in held[x] ELSE None]
    /\ Goto(o, "refused")
    /\ UNCHANGED <<lease, held, todo>>

\* Bug: profiles are reserved in the order a map returns them.
BugReserve(o) ==
    /\ pc[o] = "reserve"
    /\ \E p \in todo[o] : Reserved(o, p) \/ Refused(o, p)
    /\ UNCHANGED <<disk, surviving, ok, draft, made, runs, owed, maker, undeleted, stranded, moves>>

\* Bug: a profile that is in use is exported nevertheless.
BugReserveAnyway(o) ==
    /\ pc[o] = "reserve"
    /\ Advance(o, First(todo[o]), "settings", In(draft[o]))
    /\ UNCHANGED <<disk, browsers, ok, held, draft, made, runs, observers, moves>>

\* reserveProfiles, second loop: BeginMaintenance in the order of the UUIDs.
Reserve(o) ==
    /\ pc[o] = "reserve"
    /\ Reserved(o, First(todo[o])) \/ Refused(o, First(todo[o]))
    /\ UNCHANGED <<disk, surviving, ok, draft, made, runs, owed, maker, undeleted, stranded, moves>>

EndMaintenance(o, p) ==
    /\ lease' = [lease EXCEPT ![p] = "free"]
    /\ held' = [held EXCEPT ![o] = @ \ {p}]

\* ErrProfileRunning: releases in reverse order, and no entry in the history.
Unwind(o) ==
    /\ pc[o] = "refused"
    /\ IF held[o] = {}
       THEN Over(o) /\ UNCHANGED <<lease, held>>
       ELSE /\ EndMaintenance(o, Last(held[o]))
            /\ UNCHANGED <<pc, ok, todo, draft, made, blame, maker, undeleted>>
    /\ UNCHANGED <<disk, surviving, runs, owed, stranded, moves>>

\* writeArchive, first loop: the route, and the extensions, which must be in
\* the vault.
ArchiveSettings(o) ==
    LET p == First(todo[o]) IN
    /\ pc[o] = "settings"
    /\ \/ /\ profile[p] # None
          /\ draft[o][p].ext \subseteq installed
          /\ draft' = [draft EXCEPT ![o][p].route = profile[p].route]
          /\ Advance(o, p, "trees", In(draft[o]))
          /\ UNCHANGED ok
       \/ Fail(o, "record") /\ UNCHANGED <<todo, draft>>
    /\ UNCHANGED <<disk, browsers, held, made, runs, observers, moves>>

\* writeArchive, second loop: the Chromium directory and fingerprint.json.
ArchiveTree(o) ==
    LET p == First(todo[o]) IN
    /\ pc[o] = "trees"
    /\ \/ /\ profile[p] # None
          /\ draft' = [draft EXCEPT ![o][p].tree = profile[p].tree,
                                    ![o][p].seed = profile[p].seed,
                                    ![o][p].owner = profile[p].owner]
          /\ Advance(o, p, "encrypt", {})
          /\ UNCHANGED ok
       \/ Fail(o, "record") /\ UNCHANGED <<todo, draft>>
    /\ UNCHANGED <<disk, browsers, held, made, runs, observers, moves>>

\* encryptFile: a temporary file, renamed over the destination when it is
\* complete.  Flushing the directory afterwards may still fail.
Encrypt(o) ==
    /\ pc[o] = "encrypt"
    /\ \/ archive' = draft[o] /\ Goto(o, "record") /\ UNCHANGED ok
       \/ archive' \in {archive, draft[o]} /\ Fail(o, "record")
    /\ UNCHANGED <<profile, bare, used, installed, browsers, todo, held, draft, made, runs, observers, moves>>

\* The deferred functions: recordHistory, then the releases in reverse order.
Finish(o) ==
    /\ pc[o] = "record"
    /\ IF held[o] = {}
       THEN Over(o) /\ UNCHANGED <<lease, held>>
       ELSE /\ EndMaintenance(o, Last(held[o]))
            /\ UNCHANGED <<pc, ok, todo, draft, made, blame, maker, undeleted>>
    /\ UNCHANGED <<disk, surviving, runs, owed, stranded, moves>>

-----------------------------------------------------------------------------
(***************************************************************************)
(* Import                                                                  *)
(***************************************************************************)
Import(o) ==
    /\ In(archive) # {}
    /\ Begin(o, "decrypt", {}, Empty)

\* decryptFile, into a directory of this operation: wrong password, damage.
Decrypt(o) ==
    /\ pc[o] = "decrypt"
    /\ \/ draft' = [draft EXCEPT ![o] = archive] /\ Goto(o, "extract") /\ UNCHANGED ok
       \/ Fail(o, "record") /\ UNCHANGED draft
    /\ UNCHANGED <<disk, browsers, todo, held, made, runs, observers, moves>>

\* extractArchive, into staging directories of this operation: the manifest
\* and every entry are what an export writes.
Extract(o) ==
    /\ pc[o] = "extract"
    /\ \/ todo' = [todo EXCEPT ![o] = In(draft[o])] /\ Goto(o, "extensions") /\ UNCHANGED ok
       \/ Fail(o, "record") /\ UNCHANGED todo
    /\ UNCHANGED <<disk, browsers, held, draft, made, runs, observers, moves>>

\* InstallCRX for each extension of the manifest: those before a failure stay.
RestoreExtensions(o) ==
    LET needed == UNION {draft[o][p].ext : p \in In(draft[o])} IN
    /\ pc[o] = "extensions"
    /\ \/ installed' = installed \cup needed /\ Goto(o, "commit") /\ UNCHANGED ok
       \/ \E some \in SUBSET needed : installed' = installed \cup some /\ Fail(o, "record")
    /\ UNCHANGED <<profile, bare, used, archive, browsers, todo, held, draft, made, runs, observers, moves>>

\* The UUID of the archive when its directory does not exist, else a new one.
Target(p, q) == IF profile[p] = None /\ p \notin bare THEN q = p ELSE q \notin used

\* CommitImport: the profile is there, still with the owner of the archive in
\* its fingerprint.json, and without network.json, which means direct.
CommitImport(o) ==
    LET p == First(todo[o]) IN
    /\ pc[o] = "commit"
    /\ \/ \E q \in Profiles :
             /\ Target(p, q)
             /\ profile' = [profile EXCEPT ![q] = [draft[o][p] EXCEPT !.route = "direct"]]
             /\ used' = used \cup {q}
             /\ made' = [made EXCEPT ![o] = Append(@, q)]
             /\ owed' = [owed EXCEPT ![q] = [draft[o][p] EXCEPT !.owner = IF @ = None THEN None ELSE q]]
             /\ maker' = [maker EXCEPT ![q] = o]
             /\ undeleted' = undeleted \ {q} /\ stranded' = stranded \ {q}
             /\ Goto(o, "rebind") /\ UNCHANGED ok
       \/ Fail(o, "rollback") /\ UNCHANGED <<profile, used, made, owed, maker, undeleted, stranded>>
    /\ UNCHANGED <<bare, installed, archive, browsers, todo, held, draft, runs, blame, moves>>

Newest(o) == made[o][Len(made[o])]

\* o writes into q by its UUID.  Nothing tells it whether q was deleted since
\* and restored by another operation, whose profile is not as archived then.
WritesInto(o, q) == owed' = IF maker[q] = o THEN owed ELSE [owed EXCEPT ![q] = None]

\* Bug: the fingerprint keeps the profile it was made for.
BugRebind(o) ==
    /\ pc[o] = "rebind"
    /\ Goto(o, "route")
    /\ UNCHANGED <<disk, browsers, ok, todo, held, draft, made, runs, observers, moves>>

\* Bug: the error of RebindFile is returned without the rollback.
BugRebindFails(o) ==
    LET q == Newest(o) IN
    /\ pc[o] = "rebind"
    /\ \/ /\ profile' = IF profile[q] # None /\ profile[q].owner # None
                         THEN [profile EXCEPT ![q].owner = q] ELSE profile
          /\ Goto(o, "route") /\ UNCHANGED ok
       \/ Fail(o, "record") /\ UNCHANGED profile
    /\ UNCHANGED <<bare, used, installed, archive, browsers, todo, held, draft, made, runs, observers, moves>>

\* fingerprint.RebindFile, if there is a fingerprint.json.
Rebind(o) ==
    LET q == Newest(o) IN
    /\ pc[o] = "rebind"
    /\ \/ /\ profile' = IF profile[q] # None /\ profile[q].owner # None
                         THEN [profile EXCEPT ![q].owner = q] ELSE profile
          /\ WritesInto(o, q) /\ stranded' = stranded \ {q}
          /\ Goto(o, "route") /\ UNCHANGED ok
       \/ Fail(o, "rollback") /\ UNCHANGED <<profile, owed, stranded>>
    /\ UNCHANGED <<bare, used, installed, archive, browsers, todo, held, draft, made, runs, blame, maker,
                   undeleted, moves>>

\* network.Store.Save of the route in the manifest, then the next profile.
RestoreRoute(o) ==
    LET p == First(todo[o])
        q == Newest(o)
    IN
    /\ pc[o] = "route"
    /\ \/ /\ profile[q] # None
          /\ profile' = [profile EXCEPT ![q].route = draft[o][p].route]
          /\ WritesInto(o, q)
          /\ todo' = [todo EXCEPT ![o] = @ \ {p}]
          /\ Goto(o, IF todo[o] = {p} THEN "record" ELSE "commit")
          /\ UNCHANGED ok
       \/ Fail(o, "rollback") /\ UNCHANGED <<profile, owed, todo>>
    /\ UNCHANGED <<bare, used, installed, archive, browsers, held, draft, made, runs, blame, maker, undeleted,
                   stranded, moves>>

Deleted(p) ==
    /\ profile' = [profile EXCEPT ![p] = None]
    /\ bare' = bare \ {p}
    /\ owed' = [owed EXCEPT ![p] = None]
    /\ maker' = [maker EXCEPT ![p] = None]
    /\ stranded' = stranded \ {p}

\* Bug: only the profile that was committed last is taken back.
BugRollback(o) ==
    /\ pc[o] = "rollback"
    /\ IF made[o] # <<>> /\ profile[Newest(o)] # None
       THEN Deleted(Newest(o)) ELSE UNCHANGED <<profile, bare, owed, maker, stranded>>
    /\ Goto(o, "record")
    /\ UNCHANGED <<used, installed, archive, browsers, ok, todo, held, draft, made, runs, blame, undeleted, moves>>

\* rollback: Delete of what was committed, in reverse order and whether a
\* browser runs or not.  Its error is dropped: a profile that is gone is not
\* found, and files in use are not deleted.
Rollback(o) ==
    LET q == Newest(o) IN
    /\ pc[o] = "rollback"
    /\ IF made[o] = <<>>
       THEN Goto(o, "record") /\ UNCHANGED <<profile, bare, owed, maker, made, undeleted, stranded>>
       ELSE /\ made' = [made EXCEPT ![o] = SubSeq(@, 1, Len(@) - 1)]
            /\ \/ profile[q] # None /\ Deleted(q) /\ UNCHANGED undeleted
               \/ /\ undeleted' = undeleted \cup {q} /\ stranded' = stranded \cup {q}
                  /\ UNCHANGED <<profile, bare, owed, maker>>
            /\ UNCHANGED pc
    /\ UNCHANGED <<used, installed, archive, browsers, ok, todo, held, draft, runs, blame, moves>>

Step(o) ==
    \/ \E p \in Profiles : ReadMetadata(o, p)
    \/ Reserve(o) \/ Unwind(o) \/ ArchiveSettings(o) \/ ArchiveTree(o) \/ Encrypt(o)
    \/ Decrypt(o) \/ Extract(o) \/ RestoreExtensions(o) \/ CommitImport(o) \/ Rebind(o) \/ RestoreRoute(o)
    \/ Rollback(o) \/ Finish(o)

-----------------------------------------------------------------------------
(***************************************************************************)
(* The user: browsers, settings, deletions                                 *)
(***************************************************************************)
Move == moves < MaxMoves /\ moves' = moves + 1

\* browser.Manager.Launch: the reservation.
Launch(p) ==
    /\ Move /\ profile[p] # None /\ lease[p] = "free"
    /\ lease' = [lease EXCEPT ![p] = "launching"]
    /\ UNCHANGED <<disk, surviving, operation, observers>>

\* LoadOrCreate, fingerprint.json is there and names this profile.
LoadFingerprint(p) ==
    /\ profile[p] # None /\ profile[p].owner = p
    /\ UNCHANGED <<profile, bare, owed>>

\* LoadOrCreate, no fingerprint.json: generate and write it.  Nothing asks
\* whether the profile exists, and the write makes its directory.
CreateFingerprint(p) ==
    /\ IF profile[p] = None
       THEN bare' = bare \cup {p} /\ UNCHANGED profile
       ELSE /\ profile[p].owner = None
            /\ profile' = [profile EXCEPT ![p].seed = p, ![p].owner = p]
            /\ UNCHANGED bare
    /\ owed' = [owed EXCEPT ![p] = None]

\* Controller.Attach asks for the fingerprint; on an error the launch fails.
\* So it does beside a Chromium that has survived: the new process hands its
\* command line to that one and ends, and no DevTools endpoint appears.
Attach(p) ==
    /\ lease[p] = "launching"
    /\ \/ /\ p \notin surviving
          /\ LoadFingerprint(p) \/ CreateFingerprint(p)
          /\ lease' = [lease EXCEPT ![p] = "running"]
       \/ /\ lease' = [lease EXCEPT ![p] = "free"]
          /\ UNCHANGED <<profile, bare, owed>>
    /\ UNCHANGED <<used, installed, archive, surviving, operation, blame, maker, undeleted, stranded, moves>>

\* Chromium writes into its data directory.
Browse(p) ==
    /\ Move /\ (lease[p] = "running" \/ p \in surviving) /\ profile[p] # None
    /\ profile' = [profile EXCEPT ![p].tree = @ + 1]
    /\ owed' = [owed EXCEPT ![p] = None]
    /\ UNCHANGED <<bare, used, installed, archive, browsers, operation, blame, maker, undeleted, stranded>>

\* The process ends; a manager that knows it ends the lease.
Close(p) ==
    /\ \/ lease[p] = "running" /\ lease' = [lease EXCEPT ![p] = "free"] /\ UNCHANGED surviving
       \/ p \in surviving /\ surviving' = surviving \ {p} /\ UNCHANGED lease
    /\ UNCHANGED <<disk, operation, observers, moves>>

\* SaveProfileNetwork, which is allowed whatever the profile is doing.
SaveNetwork(p) ==
    /\ Move /\ profile[p] # None
    /\ \E r \in Routes \ {profile[p].route} : profile' = [profile EXCEPT ![p].route = r]
    /\ owed' = [owed EXCEPT ![p] = None]
    /\ UNCHANGED <<bare, used, installed, archive, browsers, operation, blame, maker, undeleted, stranded>>

\* maintenance.Service.DeleteProfile: reserves the profile, deletes, releases.
DeleteProfile(p) ==
    /\ Move /\ profile[p] # None /\ lease[p] = "free"
    /\ Deleted(p)
    /\ UNCHANGED <<used, installed, archive, browsers, operation, blame, undeleted>>

\* A profile whose fingerprint names another profile: LoadOrCreate refuses it.
Foreign(p) == profile[p] # None /\ profile[p].owner \notin {None, p}

\* The program ends, or dies, and is started again.  Nothing ends the browsers
\* with it (main.go has no OnShutdown), those it was still starting included,
\* and the maps of the new manager are empty.
Crash ==
    /\ \E started \in SUBSET {p \in Profiles : lease[p] = "launching"} :
          surviving' = surviving \cup started \cup {p \in Profiles : lease[p] = "running"}
    /\ lease' = [p \in Profiles |-> "free"]
    /\ pc' = [o \in Operations |-> "idle"] /\ ok' = [o \in Operations |-> TRUE]
    /\ todo' = [o \in Operations |-> {}] /\ held' = [o \in Operations |-> {}]
    /\ draft' = [o \in Operations |-> Empty]
    /\ made' = [o \in Operations |-> <<>>]
    /\ blame' = [o \in Operations |-> None] /\ maker' = Empty /\ undeleted' = {}
    /\ stranded' = stranded \cup {p \in Profiles : Foreign(p)}
    /\ UNCHANGED <<disk, runs, owed, moves>>

User(p) ==
    \/ Launch(p) \/ Attach(p) \/ Browse(p) \/ Close(p)
    \/ SaveNetwork(p) \/ DeleteProfile(p)

Next ==
    \/ \E o \in Operations :
        \/ \E S \in SUBSET In(profile) : Export(o, S)
        \/ Import(o)
        \/ Step(o)
    \/ \E p \in Profiles : User(p)
    \/ Crash

Spec == Init /\ [][Next]_vars

-----------------------------------------------------------------------------
(***************************************************************************)
(* Properties                                                              *)
(***************************************************************************)
\* While the Chromium directory of a profile is being archived no browser of this
\* run of the program writes into it.  One that has outlived an earlier run does:
\* BeginMaintenance looks at the maps of its own program, so that the promise of
\* docs/releases/v1.5.0.md:11 ("Bloqueio da exportacao enquanto qualquer perfil
\* selecionado estiver aberto") is kept for the others only.  The rollback of an
\* import may take the whole profile away, which fails the export.
ArchivedTreeStandsStill ==
    [][\A o \in Operations, p \in Profiles \ surviving :
          pc[o] = "trees" /\ p \in todo[o] /\ profile[p] # None /\ profile'[p] # None
              => profile'[p].tree = profile[p].tree]_vars

\* Two exports never make each other fail: of those that want the same
\* profiles at the same time one is served, because the UUIDs are sorted
\* before the first is reserved (reserveProfiles).
ExportsDoNotFailEachOther ==
    \A o, x \in Operations : blame[o] = x => blame[x] # o

\* A profile that cannot be launched, because its fingerprint still names the
\* profile it was archived from, is one a restore is about to bind or to take
\* back, or one that a crash or a Delete that failed in a rollback left behind:
\* however restores, deletions and exports of half-restored profiles overlap.
Binding(o, p) == pc[o] \in {"rebind", "rollback"} /\ made[o] # <<>> /\ Newest(o) = p
RestoredProfilesOpen ==
    \A p \in Profiles : Foreign(p) => p \in stranded \/ \E o \in Operations : Binding(o, p)

\* A restore that failed leaves none of the profiles it committed but those
\* Delete could not remove ("rollback integral", docs/releases/v1.5.0.md:12).
FailedRestoreLeavesNothing ==
    \A o \in Operations, p \in Profiles :
        pc[o] = "record" /\ ~ok[o] /\ maker[p] = o => p \in undeleted

\* A restore that succeeded made every profile as the archive has it, but for
\* what the user, or another restore of the same UUID, changed in the meantime.
RestoredAsArchived ==
    \A o \in Operations, p \in Profiles :
        pc[o] = "record" /\ ok[o] /\ maker[p] = o /\ owed[p] # None => profile[p] = owed[p]

-----------------------------------------------------------------------------
(***************************************************************************)
(* Why they hold: an inductive invariant                                   *)
(***************************************************************************)
\* UUIDs are handed out before anything is stored under them, and the data of a
\* profile has seen no more visits than there were.
StoredWasUsed == \A p \in Profiles : profile[p] # None => p \in used
Aged(manifest) == \A p \in In(manifest) : manifest[p].tree <= moves
TreesAreOfTheirTime == Aged(profile) /\ Aged(archive) /\ \A o \in Operations : Aged(draft[o])

\* A loop that is entered has something to do, and what it does is in the
\* manifest of its operation.
Looping == {"reserve", "settings", "trees", "extensions", "commit", "rebind", "route"}
Work(o) ==
    /\ pc[o] = "read" => todo[o] # {}
    /\ pc[o] \in Looping => todo[o] # {} /\ todo[o] \subseteq In(draft[o])
    /\ pc[o] \in {"encrypt", "extract"} => In(draft[o]) # {}
    /\ pc[o] = "decrypt" => In(archive) # {}
LoopsHaveWork == \A o \in Operations : Work(o)

\* What an operation holds is reserved, by nobody else.  An export reserves its
\* manifest in the order of the UUIDs, and holds it when it begins to write.
Holds(o) ==
    /\ \A p \in held[o] : lease[p] = "maintaining"
    /\ pc[o] \in {"idle", "read"} \cup Importing => held[o] = {}
    /\ pc[o] = "reserve" =>
        /\ In(draft[o]) \subseteq held[o] \cup todo[o]
        /\ \A p \in held[o], q \in todo[o] : p < q
    /\ pc[o] \in {"settings", "trees"} => In(draft[o]) \subseteq held[o]
LeasesAreHeld == \A o \in Operations : Holds(o)
HoldersExclude == \A o, x \in Operations : o # x => held[o] \cap held[x] = {}

\* Who made an export fail is past it in that order, or got all it wanted.
BlamedIsAhead ==
    \A o, x \in Operations : blame[o] = x =>
        /\ pc[o] = "refused"
        /\ pc[x] \notin {"idle", "read"}
        /\ pc[x] = "reserve" => \E p \in held[x] : \A q \in held[o] : q < p

\* An operation knows what it has committed until it is over or has taken it
\* back; it fails into the rollback.
Committing == {"commit", "rebind", "route", "rollback"}
Has(o, p) == \E i \in DOMAIN made[o] : made[o][i] = p
Commits(o) ==
    /\ pc[o] \notin {"rollback", "record"} => ok[o]
    /\ pc[o] \in {"rebind", "route"} => made[o] # <<>>
    /\ pc[o] \notin Committing \cup {"record"} => made[o] = <<>>
    /\ pc[o] = "record" /\ ~ok[o] => made[o] = <<>>
    /\ \A p \in Profiles : maker[p] = o =>
        /\ pc[o] \in Committing \cup {"record"}
        /\ Has(o, p) \/ p \in undeleted
CommitsAreKnown == \A o \in Operations : Commits(o)

\* What a restore still has to do to the profile it has committed last: the
\* owner, then the route.
Unfinished(o, p) ==
    /\ owed[p].route = draft[o][First(todo[o])].route
    /\ IF pc[o] = "rebind"
       THEN /\ owed[p].owner = IF profile[p].owner = None THEN None ELSE p
            /\ profile[p] = [owed[p] EXCEPT !.route = "direct", !.owner = profile[p].owner]
       ELSE profile[p] = [owed[p] EXCEPT !.route = "direct"]
Restored(o, p) ==
    ok[o] /\ maker[p] = o /\ owed[p] # None =>
        /\ profile[p] # None
        /\ IF pc[o] \in {"rebind", "route"} /\ p = Newest(o) THEN Unfinished(o, p) ELSE profile[p] = owed[p]
RestoredSoFar == \A o \in Operations, p \in Profiles : Restored(o, p)

IInv ==
    /\ TypeOK /\ StoredWasUsed /\ TreesAreOfTheirTime /\ LoopsHaveWork
    /\ LeasesAreHeld /\ HoldersExclude /\ BlamedIsAhead /\ ExportsDoNotFailEachOther
    /\ CommitsAreKnown /\ RestoredSoFar
=============================================================================
