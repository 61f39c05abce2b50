---------------------------- MODULE ProfileStore ----------------------------
(***************************************************************************)
(* internal/profile/store.go on top of internal/storage/atomicfile.go: the *)
(* directory of profiles, each with metadata.json and metadata.backup.json,*)
(* under one mutex (s.mu), on a disk that outlives crashes of the program. *)
(*                                                                         *)
(* A document is abstracted to its version: the n-th document some         *)
(* operation tried to write for the profile.  Unreadable stands for a file *)
(* that is absent, truncated or does not parse, which readMetadataFile     *)
(* treats alike (ErrNotFound, ErrMetadataCorrupt).                         *)
(*                                                                         *)
(* Savers are goroutines of network.Store.Save: they ask this store        *)
(* whether the profile exists and write beside the metadata afterwards,    *)
(* without s.mu (internal/network/store.go:96).                            *)
(***************************************************************************)
EXTENDS Integers, FiniteSets

CONSTANTS Profiles,    \* UUIDs
          Savers,      \* goroutines inside network.Store.Save
          NoProfile,   \* no UUID
          MaxVersion   \* bound: documents written per profile

ASSUME NoProfileAssumption == NoProfile \notin Profiles
ASSUME MaxVersionAssumption == MaxVersion \in Nat

VARIABLES
    dirs,      \* UUID-named directories below the profiles root
    primary,   \* metadata.json of each profile
    backup,    \* metadata.backup.json of each profile
    content,   \* directories that hold anything else (chromium/, network.json)
    pc,        \* where the holder of s.mu is; "idle": s.mu is free
    kind,      \* which operation holds s.mu
    id,        \* the profile it works on
    todo,      \* profiles it still has to load
    ver,       \* the document it is writing
    clock,     \* documents written so far, per profile
    used,      \* UUIDs handed out so far (uuid.NewString never repeats)
    saving,    \* what each saver is about to write beside
    seen,      \* observer: newest document returned or acknowledged to a caller
    live,      \* observer: profiles a caller may rely on
    suspect,   \* observer: profiles with a file damaged since their last load
    deleted,   \* observer: profiles whose Delete returned nil
    excused    \* observer: directories whose creation or removal was cut short,
               \* or that a late save brought back

disk == <<dirs, primary, backup, content>>
lock == <<pc, kind, id, todo, ver>>
ids == <<clock, used>>
observers == <<seen, live, suspect, deleted, excused>>
vars == <<disk, lock, ids, saving, observers>>

Unreadable == 0
Versions == Unreadable..MaxVersion
Readable(document) == document # Unreadable

Kinds == {"none", "get", "check", "list", "update", "delete", "create", "import"}
Steps == {"idle", "load", "apply", "writeBackup", "writePrimary", "remove", "verify", "rename"}

TypeOK ==
    /\ dirs \subseteq Profiles /\ content \subseteq Profiles
    /\ primary \in [Profiles -> Versions] /\ backup \in [Profiles -> Versions]
    /\ pc \in Steps /\ kind \in Kinds /\ id \in Profiles \cup {NoProfile}
    /\ todo \subseteq Profiles /\ ver \in Versions
    /\ clock \in [Profiles -> Versions] /\ used \subseteq Profiles
    /\ saving \in [Savers -> Profiles \cup {NoProfile}]
    /\ seen \in [Profiles -> Versions]
    /\ live \subseteq Profiles /\ suspect \subseteq Profiles
    /\ deleted \subseteq Profiles /\ excused \subseteq Profiles

Init ==
    /\ dirs = {} /\ content = {}
    /\ primary = [p \in Profiles |-> Unreadable]
    /\ backup = [p \in Profiles |-> Unreadable]
    /\ pc = "idle" /\ kind = "none" /\ id = NoProfile /\ todo = {} /\ ver = 0
    /\ clock = [p \in Profiles |-> 0] /\ used = {}
    /\ saving = [s \in Savers |-> NoProfile]
    /\ seen = [p \in Profiles |-> 0]
    /\ live = {} /\ suspect = {} /\ deleted = {} /\ excused = {}

-----------------------------------------------------------------------------
(***************************************************************************)
(* s.mu and the loads                                                      *)
(***************************************************************************)
\* defer s.mu.Unlock()
Unlock == pc' = "idle" /\ kind' = "none" /\ id' = NoProfile /\ todo' = {} /\ ver' = 0

IdleSavers == {s \in Savers : saving[s] = NoProfile}

\* s.mu.Lock() of an operation that starts by loading the profiles in S.
Lock(k, S) ==
    /\ pc = "idle"
    /\ pc' = "load" /\ kind' = k /\ todo' = S
    /\ UNCHANGED <<disk, id, ver, ids, saving, observers>>

Get(p) == Lock("get", {p})
Update(p) == Lock("update", {p})     \* Update, RecordLaunch and RecordLastURL
Delete(p) == Lock("delete", {p})
List == dirs # {} /\ Lock("list", dirs)
SaveCheck(p) == IdleSavers # {} /\ Lock("check", {p})

(***************************************************************************)
(* storage.WriteJSONAtomic(path): the file is replaced by rename, so it    *)
(* holds the old or the new document whatever happens.  When the directory *)
(* flush after the rename fails, the new document is there and the caller  *)
(* gets an error all the same.                                             *)
(***************************************************************************)
Replaced(file, p, document) == file' = [file EXCEPT ![p] = document]
MaybeReplaced(file, p, document) == file' = file \/ Replaced(file, p, document)

\* A load that succeeds goes on with the operation it was made for.
Served(p, document) ==
    /\ seen' = [seen EXCEPT ![p] = document]
    /\ suspect' = suspect \ {p}
    /\ live' = IF kind = "delete" THEN live \ {p} ELSE live \cup {p}
    /\ \/ /\ kind = "get"
          /\ Unlock /\ UNCHANGED saving
       \/ /\ kind = "check"
          /\ Unlock
          /\ \E s \in IdleSavers : saving' = [saving EXCEPT ![s] = p]
       \/ /\ kind = "list"
          /\ IF todo = {p} THEN Unlock
                           ELSE todo' = todo \ {p} /\ UNCHANGED <<pc, kind, id, ver>>
          /\ UNCHANGED saving
       \/ /\ kind \in {"update", "delete"}
          /\ pc' = (IF kind = "update" THEN "apply" ELSE "remove")
          /\ id' = p /\ todo' = {}
          /\ UNCHANGED <<kind, ver, saving>>

Failed == Unlock /\ UNCHANGED <<saving, seen, live, suspect>>

\* Bug: a primary that reads well is served without looking at the backup.
BugLoadPrimaryNoRepair(p) ==
    /\ Readable(primary[p])
    /\ Served(p, primary[p])
    /\ UNCHANGED <<primary, backup>>

(***************************************************************************)
(* loadUnlocked, primary readable.  The backup is rewritten when reading   *)
(* it fails, for any reason: a passing I/O error counts, so the rewrite is *)
(* possible whatever the backup holds.                                     *)
(***************************************************************************)
LoadPrimary(p) ==
    /\ Readable(primary[p])
    /\ UNCHANGED primary
    /\ \/ /\ Readable(backup[p])
          /\ Served(p, primary[p]) /\ UNCHANGED backup
       \/ Replaced(backup, p, primary[p]) /\ Served(p, primary[p])
       \/ MaybeReplaced(backup, p, primary[p]) /\ Failed

\* loadUnlocked, primary absent or corrupt: restore it from the backup.
LoadBackup(p) ==
    /\ ~Readable(primary[p]) /\ Readable(backup[p])
    /\ UNCHANGED backup
    /\ \/ Replaced(primary, p, backup[p]) /\ Served(p, backup[p])
       \/ MaybeReplaced(primary, p, backup[p]) /\ Failed

\* Nothing readable, an I/O error on the primary, or a cancelled context.
LoadError == Failed /\ UNCHANGED <<primary, backup>>

Load(p) ==
    /\ pc = "load" /\ p \in todo
    /\ LoadPrimary(p) \/ LoadBackup(p) \/ LoadError
    /\ UNCHANGED <<dirs, content, ids, deleted, excused>>

-----------------------------------------------------------------------------
(***************************************************************************)
(* Update, RecordLaunch, RecordLastURL: read, change, writeMetadata        *)
(***************************************************************************)
\* The new fields do not validate, or the URL is the recorded one already.
ApplyNothing ==
    /\ pc = "apply"
    /\ Unlock
    /\ UNCHANGED <<disk, ids, saving, observers>>

Apply ==
    /\ pc = "apply"
    /\ clock[id] < MaxVersion
    /\ clock' = [clock EXCEPT ![id] = @ + 1]
    /\ ver' = clock[id] + 1
    /\ pc' = "writeBackup"
    /\ UNCHANGED <<disk, kind, id, todo, used, saving, observers>>

\* An error of writeMetadata: Create removes the directory it made (deferred).
WriteFails ==
    IF kind = "create" THEN pc' = "remove" /\ UNCHANGED <<kind, id, todo, ver>>
                       ELSE Unlock

Commit ==
    /\ seen' = [seen EXCEPT ![id] = ver]
    /\ live' = live \cup {id}
    /\ Unlock

\* writeMetadata, first file.
WriteBackup ==
    /\ pc = "writeBackup"
    /\ \/ Replaced(backup, id, ver) /\ pc' = "writePrimary" /\ UNCHANGED <<kind, id, todo, ver>>
       \/ MaybeReplaced(backup, id, ver) /\ WriteFails
    /\ UNCHANGED <<dirs, primary, content, ids, saving, observers>>

\* writeMetadata, second file.
WritePrimary ==
    /\ pc = "writePrimary"
    /\ \/ Replaced(primary, id, ver) /\ Commit
       \/ MaybeReplaced(primary, id, ver) /\ WriteFails /\ UNCHANGED <<seen, live>>
    /\ UNCHANGED <<dirs, backup, content, ids, saving, suspect, deleted, excused>>

-----------------------------------------------------------------------------
(***************************************************************************)
(* Create and the directory removals                                       *)
(***************************************************************************)
\* os.Mkdir of a fresh UUID, then the two subdirectories.
Create(p) ==
    /\ pc = "idle" /\ p \notin used \cup dirs
    /\ clock[p] < MaxVersion
    /\ kind' = "create" /\ id' = p
    /\ dirs' = dirs \cup {p} /\ used' = used \cup {p}
    /\ ver' = clock[p] + 1
    /\ clock' = [clock EXCEPT ![p] = @ + 1]
    /\ \/ content' = content \cup {p} /\ pc' = "writeBackup"
       \/ content' \in {content, content \cup {p}} /\ pc' = "remove"
    /\ UNCHANGED <<primary, backup, todo, saving, observers>>

\* os.RemoveAll deletes the children in directory order, which is any order.
RemoveChild ==
    /\ pc = "remove"
    /\ \/ Readable(primary[id]) /\ Replaced(primary, id, Unreadable) /\ UNCHANGED <<backup, content>>
       \/ Readable(backup[id]) /\ Replaced(backup, id, Unreadable) /\ UNCHANGED <<primary, content>>
       \/ id \in content /\ content' = content \ {id} /\ UNCHANGED <<primary, backup>>
    /\ UNCHANGED <<dirs, lock, ids, saving, observers>>

RemoveDir ==
    /\ pc = "remove"
    /\ ~Readable(primary[id]) /\ ~Readable(backup[id]) /\ id \notin content
    /\ dirs' = dirs \ {id}
    /\ \/ kind = "delete" /\ pc' = "verify" /\ UNCHANGED <<kind, id, todo, ver>>
       \/ kind = "create" /\ Unlock
    /\ UNCHANGED <<primary, backup, content, ids, saving, observers>>

\* A child cannot be removed (in use on Windows): the rest may be gone already.
RemoveFails ==
    /\ pc = "remove"
    /\ excused' = excused \cup {id}
    /\ Unlock
    /\ UNCHANGED <<disk, ids, saving, seen, live, suspect, deleted>>

\* Delete looks again (os.Lstat) before it reports success.
Verify ==
    /\ pc = "verify"
    /\ deleted' = IF id \in dirs THEN deleted ELSE deleted \cup {id}
    /\ Unlock
    /\ UNCHANGED <<disk, ids, saving, seen, live, suspect, excused>>

-----------------------------------------------------------------------------
(***************************************************************************)
(* CommitImport                                                            *)
(***************************************************************************)
\* The UUID of the archive when its directory does not exist, else a new one.
ImportTarget(source, p) == IF source \notin dirs THEN p = source ELSE p \notin used \cup dirs

\* Until the rename everything happens in a .restore-* directory, which List
\* ignores: an error or a crash there leaves the store as it was.
ImportStage(source, p) ==
    /\ pc = "idle"
    /\ ImportTarget(source, p)
    /\ clock[p] < MaxVersion
    /\ kind' = "import" /\ id' = p /\ pc' = "rename"
    /\ ver' = clock[p] + 1
    /\ clock' = [clock EXCEPT ![p] = @ + 1]
    /\ used' = used \cup {p}
    /\ UNCHANGED <<disk, todo, saving, observers>>

\* Bug: the directory is moved before its metadata is written.
BugImportRenameFirst ==
    /\ pc = "rename"
    /\ id \notin dirs
    /\ dirs' = dirs \cup {id}
    /\ content' = content \cup {id}
    /\ pc' = "writeBackup"
    /\ deleted' = deleted \ {id}
    /\ UNCHANGED <<primary, backup, kind, id, todo, ver, ids, saving, seen, live, suspect, excused>>

\* os.Rename does not replace a directory that exists.
ImportRename ==
    /\ pc = "rename"
    /\ id \notin dirs
    /\ dirs' = dirs \cup {id}
    /\ content' = content \cup {id}
    /\ Replaced(primary, id, ver) /\ Replaced(backup, id, ver)
    /\ Commit
    /\ deleted' = deleted \ {id}
    /\ UNCHANGED <<ids, saving, suspect, excused>>

\* os.Rename fails: always when the destination appeared in the meantime.
ImportFails ==
    /\ pc = "rename"
    /\ Unlock
    /\ UNCHANGED <<disk, ids, saving, observers>>

-----------------------------------------------------------------------------
(***************************************************************************)
(* Environment                                                             *)
(***************************************************************************)
\* network.Store.Save writes network.json; storage.WriteFileAtomic begins
\* with os.MkdirAll of the profile directory, existing or not.
SaveWrite(s) ==
    LET p == saving[s] IN
    /\ p # NoProfile
    /\ dirs' = dirs \cup {p} /\ content' = content \cup {p}
    /\ excused' = IF p \in dirs THEN excused ELSE excused \cup {p}
    /\ saving' = [saving EXCEPT ![s] = NoProfile]
    /\ UNCHANGED <<primary, backup, lock, ids, seen, live, suspect, deleted>>

SaveFails(s) ==
    /\ saving[s] # NoProfile
    /\ saving' = [saving EXCEPT ![s] = NoProfile]
    /\ UNCHANGED <<disk, lock, ids, observers>>

\* One of the two files is lost or damaged; the other one is not before the
\* profile was loaded again.
Damage(p) ==
    /\ p \in live \ suspect
    /\ suspect' = suspect \cup {p}
    /\ \/ Replaced(primary, p, Unreadable) /\ UNCHANGED backup
       \/ Replaced(backup, p, Unreadable) /\ UNCHANGED primary
    /\ UNCHANGED <<dirs, content, lock, ids, saving, seen, live, deleted, excused>>

\* The program dies and is started again.
Crash ==
    /\ excused' = IF kind = "create" \/ pc = "remove" THEN excused \cup {id} ELSE excused
    /\ saving' = [s \in Savers |-> NoProfile]
    /\ Unlock
    /\ UNCHANGED <<disk, ids, seen, live, suspect, deleted>>

Next ==
    \/ \E p \in Profiles :
        \/ Get(p) \/ Update(p) \/ Delete(p) \/ SaveCheck(p)
        \/ Load(p)
        \/ Create(p)
        \/ \E source \in Profiles : ImportStage(source, p)
        \/ Damage(p)
    \/ List
    \/ ApplyNothing \/ Apply \/ WriteBackup \/ WritePrimary
    \/ RemoveChild \/ RemoveDir \/ RemoveFails \/ Verify
    \/ ImportRename \/ ImportFails
    \/ \E s \in Savers : SaveWrite(s) \/ SaveFails(s)
    \/ Crash

Spec == Init /\ [][Next]_vars

-----------------------------------------------------------------------------
(***************************************************************************)
(* Properties                                                              *)
(***************************************************************************)
\* What the next load of p returns (loadUnlocked).
Answer(p) == IF Readable(primary[p]) THEN primary[p] ELSE backup[p]

\* Whatever was acknowledged or shown to a caller is never lost nor replaced
\* by an older document: not by a crash between the two writes of
\* writeMetadata, a failed write, or damage to one file at a time.
AcknowledgedSurvives ==
    \A p \in live : Readable(Answer(p)) /\ Answer(p) >= seen[p]

\* One unreadable profile makes List fail for all of them (store.go:189-192).
\* Updates, imports, repairs and damage never produce such a directory: only
\* a create or delete cut short, or a settings save that races a delete.
BareDirectoriesExcused ==
    \A p \in dirs : ~Readable(Answer(p)) /\ p # id => p \in excused

\* After Delete returned nil no metadata of the profile is left to be found,
\* until it is imported again.
DeleteIsComplete ==
    \A p \in deleted : ~Readable(primary[p]) /\ ~Readable(backup[p])

-----------------------------------------------------------------------------
(***************************************************************************)
(* The invariant behind AcknowledgedSurvives.                              *)
(***************************************************************************)
\* The backup is never older than the primary: writeMetadata writes it first.
BackupIsAhead ==
    \A p \in Profiles : Readable(primary[p]) /\ Readable(backup[p]) => primary[p] <= backup[p]

NothingOlderThanSeen ==
    \A p \in Profiles :
        /\ Readable(primary[p]) => primary[p] >= seen[p]
        /\ Readable(backup[p]) => backup[p] >= seen[p]

\* Both files are readable until one is damaged, then still one of them is.
OneCopyLeft ==
    \A p \in live :
        /\ Readable(primary[p]) \/ Readable(backup[p])
        /\ p \notin suspect => Readable(primary[p]) /\ Readable(backup[p])

ClockIsAhead ==
    \A p \in Profiles : primary[p] <= clock[p] /\ backup[p] <= clock[p] /\ seen[p] <= clock[p]

\* Files are written for UUIDs handed out, and nothing else can become live.
UsedIsAhead ==
    /\ live \subseteq used
    /\ \A p \in Profiles : Readable(primary[p]) \/ Readable(backup[p]) => p \in used

\* The document being written is the newest one of its profile; when the
\* primary follows, the backup holds it or was damaged in between.
WriterIsNewest ==
    /\ pc \in {"writeBackup", "writePrimary", "rename"} => ver = clock[id] /\ Readable(ver)
    /\ pc = "writePrimary" => backup[id] = ver \/ (~Readable(backup[id]) /\ id \in suspect)

\* Which operation can be where, and what it works on.
HolderAtStep ==
    /\ pc \notin {"idle", "load"} => id \in used
    /\ kind = "create" => pc \in {"writeBackup", "writePrimary", "remove"}
    /\ kind = "create" \/ pc = "remove" => id \notin live

IInv ==
    /\ TypeOK
    /\ BackupIsAhead
    /\ NothingOlderThanSeen
    /\ OneCopyLeft
    /\ ClockIsAhead
    /\ UsedIsAhead
    /\ WriterIsNewest
    /\ HolderAtStep

-----------------------------------------------------------------------------
(***************************************************************************)
(* The invariant behind the directory properties, which stands on IInv.    *)
(***************************************************************************)
\* Which kind of operation can be at which step, and whether its profile is
\* one that a caller may rely on.
KindAtStep ==
    /\ pc \in {"idle", "load"} <=> id = NoProfile
    /\ kind = "import" <=> pc = "rename"
    /\ pc = "apply" => kind = "update"
    /\ pc \in {"writeBackup", "writePrimary"} => kind \in {"update", "create"}
    /\ pc = "verify" => kind = "delete"
    /\ kind = "update" /\ id # NoProfile => id \in live

\* Only a late save puts a directory where an import goes or a delete was.
NewDirectoriesExcused == pc \in {"rename", "verify"} /\ id \in dirs => id \in excused

FilesHaveDirectories ==
    \A p \in Profiles : Readable(primary[p]) \/ Readable(backup[p]) => p \in dirs

WritersAreNotDeleted ==
    /\ deleted \subseteq used
    /\ pc \in {"apply", "writeBackup", "writePrimary"} => id \in dirs \ deleted

DirectoryInv ==
    /\ KindAtStep
    /\ BareDirectoriesExcused
    /\ NewDirectoriesExcused
    /\ FilesHaveDirectories
    /\ WritersAreNotDeleted
    /\ DeleteIsComplete
=============================================================================
