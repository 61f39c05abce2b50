------------------------------ MODULE Extensions ------------------------------
(***************************************************************************)
(* internal/extensions/service.go: the vault of extensions, and which      *)
(* profile loads which of them, kept as paths in the profiles' metadata.   *)
(* The vault's operations hold Service.mu; Desktop.UpdateProfile (an       *)
(* editor) and Manager.Launch read and write the same metadata without it. *)
(*                                                                         *)
(* Of a profile's metadata only its extensions matter here; the other      *)
(* fields are left out.  Calls into the profile store are atomic           *)
(* (ProfileStore), but each of them may fail, and one that fails may have  *)
(* written (the flush after the rename).                                   *)
(***************************************************************************)
EXTENDS Naturals, FiniteSets

CONSTANTS Profiles,
          Exts,         \* CRX packages: an ID is the hash of the package
          Bundled,      \* the package that comes with the program
          Editors,      \* calls of Desktop.UpdateProfile
          NoExt, NoProfile

ASSUME BundledAssumption == Bundled \in Exts
ASSUME NullAssumption == NoExt \notin Exts /\ NoProfile \notin Profiles

VARIABLES
    profiles,   \* profiles that exist
    exts,       \* metadata.ExtensionPaths
    dirs,       \* packages whose vault directory exists
    cards,      \* ... with a readable metadata.json in it
    files,      \* ... with the unpacked extension in it
    processed,  \* the bundled package was imported (bundled-state.json)
    pc,         \* the holder of Service.mu; "idle": it is free
    ext,        \* the package it works on
    targets,    \* profiles that shall load it
    oldExts,    \* what List returned to it
    todo,       \* profiles it has still to write
    changed,    \* profiles it wrote
    edit,       \* what each editor read before it writes
    browser,    \* the browser of each profile
    loaded,     \* the extensions it was launched with
    cleared,    \* the package RemoveExtension has found not in use
    stale,      \* observer: profiles written with an outdated list, or whose
                \* list could not be restored
    torn,       \* observer: packages whose removal was cut short
    native      \* observer: what became of the bundled package

metadata == <<profiles, exts>>
vault == <<dirs, cards, files, processed>>
job == <<ext, targets, oldExts, todo, changed>>
launches == <<browser, loaded>>
observers == <<stale, torn, native>>
vars == <<metadata, vault, pc, job, edit, launches, cleared, observers>>

NoEdit == [id |-> NoProfile, exts |-> {}]
Edits == {NoEdit} \cup [id : Profiles, exts : SUBSET Exts]

TypeOK ==
    /\ profiles \subseteq Profiles /\ exts \in [Profiles -> SUBSET Exts]
    /\ dirs \subseteq Exts /\ cards \subseteq dirs /\ files \subseteq dirs /\ processed \in BOOLEAN
    /\ pc \in {"down", "boot", "mark", "idle", "assign", "detach", "erase", "undo"}
    /\ ext \in Exts \cup {NoExt} /\ targets \subseteq Profiles
    /\ oldExts \in [Profiles -> SUBSET Exts]
    /\ todo \subseteq Profiles /\ changed \subseteq Profiles
    /\ edit \in [Editors -> Edits]
    /\ browser \in [Profiles -> {"closed", "launching", "running"}]
    /\ loaded \in [Profiles -> SUBSET Exts]
    /\ cleared \in Exts \cup {NoExt}
    /\ stale \subseteq Profiles /\ torn \subseteq Exts
    /\ native \in {"new", "imported", "uninstalled"}

Init ==
    /\ profiles = {} /\ exts = [p \in Profiles |-> {}]
    /\ dirs = {} /\ cards = {} /\ files = {} /\ processed = FALSE
    /\ pc = "down"
    /\ ext = NoExt /\ targets = {} /\ todo = {} /\ changed = {}
    /\ oldExts = [p \in Profiles |-> {}]
    /\ edit = [e \in Editors |-> NoEdit]
    /\ browser = [p \in Profiles |-> "closed"] /\ loaded = [p \in Profiles |-> {}]
    /\ cleared = NoExt
    /\ stale = {} /\ torn = {} /\ native = "new"

-----------------------------------------------------------------------------
(***************************************************************************)
(* Service.mu                                                              *)
(***************************************************************************)
\* The lock is given back; what the holder remembered is forgotten.
Unlock ==
    /\ pc' = "idle"
    /\ ext' = NoExt /\ targets' = {} /\ todo' = {} /\ changed' = {}
    /\ oldExts' = [p \in Profiles |-> {}]

\* profiles.List: what an operation on e remembers of the profiles it will
\* write, those in S.
Remember(step, e, T, S) ==
    /\ pc' = step /\ ext' = e /\ targets' = T /\ todo' = S /\ changed' = {}
    /\ oldExts' = [p \in Profiles |-> IF p \in S THEN exts[p] ELSE {}]

\* profiles.Update with the fields that List returned and another list of
\* extensions (fieldsFromMetadata).
WriteBack(p, list) == exts' = [exts EXCEPT ![p] = list]

-----------------------------------------------------------------------------
(***************************************************************************)
(* The start of the program: EnsureBundled, before anything else runs      *)
(***************************************************************************)
Boot ==
    /\ pc = "down"
    /\ pc' = "boot"
    /\ UNCHANGED <<metadata, vault, job, edit, launches, cleared, observers>>

\* Bug: the package is unpacked in its place, where errors leave a part of it.
BugInstall(e) ==
    /\ e \notin dirs
    /\ dirs' = dirs \cup {e} /\ files' = files \cup {e}
    /\ cards' = cards \/ cards' = cards \cup {e}

\* InstallCRX: everything is made in a .install-* directory and renamed at the
\* end, which fails when there is a directory without metadata.json.
Install(e) ==
    /\ e \notin dirs
    /\ dirs' = dirs \cup {e} /\ cards' = cards \cup {e} /\ files' = files \cup {e}

\* No package beside the program, or it was imported before.
BootSkips ==
    /\ pc = "boot"
    /\ pc' = "idle"
    /\ UNCHANGED <<metadata, vault, job, edit, launches, cleared, observers>>

BootInstalls ==
    /\ pc = "boot" /\ ~processed
    /\ \/ Bundled \in cards /\ UNCHANGED <<dirs, cards, files>>
       \/ Install(Bundled)
    /\ pc' = "mark"
    /\ UNCHANGED <<metadata, processed, job, edit, launches, cleared, observers>>

\* Bug: the import is reported although the marker could not be written.
BugBootMarks ==
    /\ pc = "mark"
    /\ processed' \in BOOLEAN
    /\ pc' = "idle"
    /\ native' = "imported"
    /\ UNCHANGED <<metadata, dirs, cards, files, job, edit, launches, cleared, stale, torn>>

BootMarks ==
    /\ pc = "mark"
    /\ processed' = TRUE
    /\ pc' = "idle"
    /\ native' = "imported"
    /\ UNCHANGED <<metadata, dirs, cards, files, job, edit, launches, cleared, stale, torn>>

\* Any error: NewCore fails and the program ends (the marker may be written).
BootFails ==
    /\ pc \in {"boot", "mark"}
    /\ \/ UNCHANGED <<processed, native>>
       \/ pc = "mark" /\ processed' = TRUE /\ native' = "imported"
    /\ pc' = "down"
    /\ UNCHANGED <<metadata, dirs, cards, files, job, edit, launches, cleared, stale, torn>>

-----------------------------------------------------------------------------
(***************************************************************************)
(* InstallCRX and SetAssignments                                           *)
(***************************************************************************)
InstallCRX(e) ==
    /\ pc = "idle"
    /\ Install(e)
    /\ native' = IF e = Bundled /\ native = "uninstalled" THEN "imported" ELSE native
    /\ torn' = torn \ {e}
    /\ UNCHANGED <<metadata, processed, pc, job, edit, launches, cleared, stale>>

\* The list of p with e exactly when p is a target.
Chosen(p, e, T) == (exts[p] \ {e}) \cup (IF p \in T THEN {e} ELSE {})

\* Targets whose list is written although it has e: e moves to its end.
Reordered(e, T) == {p \in T : e \in exts[p] /\ exts[p] # {e}}

SetAssignments(e, T) ==
    /\ pc = "idle" /\ e \in cards /\ T \subseteq profiles
    /\ \E S \in SUBSET Reordered(e, T) :
           Remember("assign", e, T, S \cup {p \in profiles : Chosen(p, e, T) # exts[p]})
    /\ UNCHANGED <<metadata, vault, edit, launches, cleared, observers>>

AssignedList(p) == (oldExts[p] \ {ext}) \cup (IF p \in targets THEN {ext} ELSE {})

AssignOne(p) ==
    /\ pc = "assign" /\ p \in todo /\ p \in profiles
    /\ WriteBack(p, AssignedList(p))
    /\ todo' = todo \ {p} /\ changed' = changed \cup {p}
    /\ UNCHANGED <<profiles, vault, pc, ext, targets, oldExts, edit, launches, cleared, observers>>

\* Update fails (having written or not), or the profile is gone: the others stay
\* as they are.
AssignFails(p) ==
    /\ pc = "assign" /\ p \in todo
    /\ \/ UNCHANGED exts
       \/ p \in profiles /\ WriteBack(p, AssignedList(p))
    /\ Unlock
    /\ UNCHANGED <<profiles, vault, edit, launches, cleared, observers>>

AssignEnds ==
    /\ pc = "assign" /\ todo = {}
    /\ Unlock
    /\ UNCHANGED <<metadata, vault, edit, launches, cleared, observers>>

-----------------------------------------------------------------------------
(***************************************************************************)
(* Remove                                                                  *)
(***************************************************************************)
\* Desktop.RemoveExtension: no profile that has the extension is running.
RemoveAsked(e) ==
    /\ pc = "idle" /\ cleared = NoExt /\ e \in cards
    /\ \A p \in profiles : e \in exts[p] => browser[p] # "running"
    /\ cleared' = e
    /\ UNCHANGED <<metadata, vault, pc, job, edit, launches, observers>>

Remove ==
    /\ pc = "idle" /\ cleared # NoExt
    /\ cleared' = NoExt
    /\ IF cleared \in cards
       THEN Remember("detach", cleared, {}, {p \in profiles : cleared \in exts[p]})
       ELSE UNCHANGED <<pc, job>>
    /\ UNCHANGED <<metadata, vault, edit, launches, observers>>

DetachOne(p) ==
    /\ pc = "detach" /\ p \in todo /\ p \in profiles
    /\ WriteBack(p, oldExts[p] \ {ext})
    /\ todo' = todo \ {p} /\ changed' = changed \cup {p}
    /\ UNCHANGED <<profiles, vault, pc, ext, targets, oldExts, edit, launches, cleared, observers>>

\* The rollback: the profiles changed so far.
Undo == pc' = "undo" /\ todo' = changed /\ UNCHANGED <<ext, targets, oldExts, changed>>

\* Bug: an error leaves the profiles detached that were.
BugDetachFails(p) ==
    /\ pc = "detach" /\ p \in todo
    /\ Unlock
    /\ UNCHANGED <<metadata, vault, edit, launches, cleared, observers>>

\* Update fails; if it has written, the profile is not among the changed.
DetachFails(p) ==
    /\ pc = "detach" /\ p \in todo
    /\ \/ UNCHANGED <<exts, stale>>
       \/ p \in profiles /\ WriteBack(p, oldExts[p] \ {ext}) /\ stale' = stale \cup {p}
    /\ Undo
    /\ UNCHANGED <<profiles, vault, edit, launches, cleared, torn, native>>

\* Bug: the files are removed while profiles are still being detached.
BugDetachEnds ==
    /\ pc = "detach"
    /\ pc' = "erase"
    /\ UNCHANGED <<metadata, vault, job, edit, launches, cleared, observers>>

DetachEnds ==
    /\ pc = "detach" /\ todo = {}
    /\ pc' = "erase"
    /\ UNCHANGED <<metadata, vault, job, edit, launches, cleared, observers>>

\* os.RemoveAll: the children in any order, then the directory.
EraseChild ==
    /\ pc = "erase"
    /\ \/ ext \in cards /\ cards' = cards \ {ext} /\ UNCHANGED files
       \/ ext \in files /\ files' = files \ {ext} /\ UNCHANGED cards
    /\ UNCHANGED <<metadata, dirs, processed, pc, job, edit, launches, cleared, observers>>

EraseDir ==
    /\ pc = "erase" /\ ext \notin cards \cup files
    /\ dirs' = dirs \ {ext}
    /\ native' = IF ext = Bundled /\ native = "imported" THEN "uninstalled" ELSE native
    /\ torn' = torn \ {ext}
    /\ Unlock
    /\ UNCHANGED <<metadata, cards, files, processed, edit, launches, cleared, stale>>

EraseFails ==
    /\ pc = "erase"
    /\ torn' = torn \cup {ext}
    /\ Undo
    /\ UNCHANGED <<metadata, vault, edit, launches, cleared, stale, native>>

\* restoreAssignments: an error is kept, the loop goes on.
UndoOne(p) ==
    /\ pc = "undo" /\ p \in todo
    /\ \/ p \in profiles /\ WriteBack(p, oldExts[p]) /\ UNCHANGED stale
       \/ UNCHANGED exts /\ stale' = stale \cup {p}
    /\ todo' = todo \ {p}
    /\ UNCHANGED <<profiles, vault, pc, ext, targets, oldExts, changed, edit, launches, cleared, torn, native>>

UndoEnds ==
    /\ pc = "undo" /\ todo = {}
    /\ Unlock
    /\ UNCHANGED <<metadata, vault, edit, launches, cleared, observers>>

-----------------------------------------------------------------------------
(***************************************************************************)
(* Other users of the metadata                                             *)
(***************************************************************************)
Up == pc \notin {"down", "boot", "mark"}

\* A fresh UUID: no operation remembers it.
CreateProfile(p) ==
    /\ Up /\ p \notin profiles \cup todo \cup changed /\ oldExts[p] = {}
    /\ \A e \in Editors : edit[e].id # p
    /\ profiles' = profiles \cup {p}
    /\ exts' = [exts EXCEPT ![p] = {}]
    /\ stale' = stale \ {p}
    /\ UNCHANGED <<vault, pc, job, edit, launches, cleared, torn, native>>

\* maintenance.DeleteProfile, of a closed profile.  A UUID is never used again.
DeleteProfile(p) ==
    /\ Up /\ p \in profiles /\ browser[p] = "closed"
    /\ profiles' = profiles \ {p}
    /\ UNCHANGED <<exts, vault, pc, job, edit, launches, cleared, observers>>

\* UpdateProfile reads the extensions of the profile ...
EditorReads(e, p) ==
    /\ Up /\ edit[e] = NoEdit /\ p \in profiles
    /\ edit' = [edit EXCEPT ![e] = [id |-> p, exts |-> exts[p]]]
    /\ UNCHANGED <<metadata, vault, pc, job, launches, cleared, observers>>

\* ... and writes them back with the fields of the form (an error of Update that
\* comes after its rename included).
EditorWrites(e) ==
    LET p == edit[e].id IN
    /\ edit[e] # NoEdit /\ p \in profiles
    /\ exts' = [exts EXCEPT ![p] = edit[e].exts]
    /\ stale' = IF exts[p] = edit[e].exts THEN stale ELSE stale \cup {p}
    /\ edit' = [edit EXCEPT ![e] = NoEdit]
    /\ UNCHANGED <<profiles, vault, pc, job, launches, cleared, torn, native>>

EditorFails(e) ==
    /\ edit[e] # NoEdit
    /\ edit' = [edit EXCEPT ![e] = NoEdit]
    /\ UNCHANGED <<metadata, vault, pc, job, launches, cleared, observers>>

\* Launch reads the metadata (one launch of a profile at a time) ...
LaunchReads(p) ==
    /\ Up /\ p \in profiles /\ browser[p] = "closed"
    /\ browser' = [browser EXCEPT ![p] = "launching"]
    /\ loaded' = [loaded EXCEPT ![p] = exts[p]]
    /\ UNCHANGED <<metadata, vault, pc, job, edit, cleared, observers>>

\* ... and starts Chromium when the directories are there.
LaunchStarts(p) ==
    /\ Up /\ browser[p] = "launching" /\ loaded[p] \subseteq files
    /\ browser' = [browser EXCEPT ![p] = "running"]
    /\ UNCHANGED <<metadata, vault, pc, job, edit, loaded, cleared, observers>>

BrowserEnds(p) ==
    /\ browser[p] # "closed"
    /\ browser' = [browser EXCEPT ![p] = "closed"]
    /\ loaded' = [loaded EXCEPT ![p] = {}]
    /\ UNCHANGED <<metadata, vault, pc, job, edit, cleared, observers>>

\* The program ends at any point; Chromium processes are on their own.
Crash ==
    /\ pc # "down"
    /\ pc' = "down"
    /\ ext' = NoExt /\ targets' = {} /\ todo' = {} /\ changed' = {}
    /\ oldExts' = [p \in Profiles |-> {}]
    /\ edit' = [e \in Editors |-> NoEdit]
    /\ browser' = [p \in Profiles |-> "closed"] /\ loaded' = [p \in Profiles |-> {}]
    /\ cleared' = NoExt
    /\ torn' = IF pc = "erase" THEN torn \cup {ext} ELSE torn
    /\ UNCHANGED <<metadata, vault, stale, native>>

-----------------------------------------------------------------------------
\* The start, and the holder of Service.mu until it gives it back.
Holder ==
    \/ BootSkips \/ BootInstalls \/ BootMarks \/ BootFails
    \/ \E p \in Profiles : AssignOne(p) \/ AssignFails(p) \/ DetachOne(p) \/ DetachFails(p) \/ UndoOne(p)
    \/ AssignEnds \/ DetachEnds \/ EraseChild \/ EraseDir \/ EraseFails \/ UndoEnds

Next ==
    \/ Boot \/ Holder
    \/ \E e \in Exts : InstallCRX(e) \/ RemoveAsked(e) \/ \E T \in SUBSET profiles : SetAssignments(e, T)
    \/ Remove
    \/ \E p \in Profiles :
        \/ CreateProfile(p) \/ DeleteProfile(p) \/ LaunchReads(p) \/ LaunchStarts(p) \/ BrowserEnds(p)
    \/ \E e \in Editors :
        \/ \E p \in Profiles : EditorReads(e, p)
        \/ EditorWrites(e) \/ EditorFails(e)
    \/ Crash

Spec == Init /\ [][Next]_vars

-----------------------------------------------------------------------------
(***************************************************************************)
(* Properties                                                              *)
(***************************************************************************)
\* A profile never loads an extension that is not in the vault: launching it
\* would fail for good (manager.go:200).  Excused are lists written by an edit
\* that carried an outdated one, and packages that could be removed only in part.
AssignedAreInstalled ==
    \A p \in profiles \ stale : exts[p] \ torn \subseteq files

\* Remove is done or undone: as long as the package is in the vault, whoever
\* loaded it before does after, wherever the removal failed (service.go:344-352).
RemovalIsUndone ==
    [][pc' = "idle" /\ pc \in {"detach", "erase", "undo"} /\ ext \in dirs' =>
          \A p \in profiles \ stale' : ext \in oldExts[p] => ext \in exts'[p]]_vars

\* "If the user later uninstalls it, the processed marker remains and it is not
\* silently restored" (service.go:153-154), wherever a start was cut short.
BundledStaysUninstalled == native = "uninstalled" => Bundled \notin dirs

\* A vault directory without metadata.json makes List, and so the start page of
\* the program, fail for good: only a removal cut short leaves one.
BareDirectoriesExcused ==
    \A e \in dirs \ cards : e \in torn \/ (pc = "erase" /\ ext = e)

-----------------------------------------------------------------------------
(***************************************************************************)
(* Why they hold: an inductive invariant                                   *)
(***************************************************************************)
Working == pc \in {"assign", "detach", "erase", "undo"}

\* Who holds Service.mu for a while does so for a package.
WorksOnPackage == Working => ext \in Exts

\* The bundled package came with its marker.
ImportIsMarked == native # "new" => processed

\* What has a metadata.json has its files, unless its removal was cut short.
CardsHaveFiles == \A e \in cards \ files : e \in torn \/ (pc = "erase" /\ ext = e)

\* The package is there while profiles are given it, or are given it back.
PackageIsThere == pc \in {"assign", "detach", "undo"} => ext \in files \cup torn

\* The lists the holder remembers stay good beside the package it works on.
RememberedAreInstalled ==
    Working => \A p \in Profiles \ stale : oldExts[p] \ (torn \cup {ext}) \subseteq files

\* The files go when nobody loads them.
DetachedFirst ==
    /\ pc = "detach" => \A p \in profiles \ stale : ext \in exts[p] => p \in todo
    /\ pc = "erase" => \A p \in profiles \ stale : ext \notin exts[p]

\* Whoever lost the package is among the changed, and later among those whose
\* list is still to be restored.
LossIsKnown ==
    \A p \in profiles \ stale : ext \in oldExts[p] /\ ext \notin exts[p] =>
        /\ pc \in {"detach", "erase"} => p \in changed
        /\ pc = "undo" => p \in todo

IInv ==
    /\ TypeOK /\ WorksOnPackage /\ ImportIsMarked
    /\ CardsHaveFiles /\ PackageIsThere /\ RememberedAreInstalled
    /\ DetachedFirst /\ LossIsKnown
    /\ AssignedAreInstalled /\ BundledStaysUninstalled /\ BareDirectoriesExcused
=============================================================================
