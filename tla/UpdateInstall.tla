----------------------------- MODULE UpdateInstall -----------------------------
(***************************************************************************)
(* internal/updates/apply_windows.go with InstallUpdate of desktop.go: the *)
(* application closes its profiles, starts a copy of itself as the helper  *)
(* and quits; the helper saves a restore point, runs the installer over    *)
(* the installation, starts the new version and waits for its marker, or   *)
(* puts the restore point back.                                            *)
(*                                                                         *)
(* The installation is the versions of its parts (the application and the  *)
(* engine); 0 is a part that is missing or cut short.  Windows does not    *)
(* let anybody write or delete a program that runs.  Nothing keeps a user  *)
(* from starting the application meanwhile (main.go has no single-instance *)
(* lock), nor from launching profiles while InstallUpdate works.           *)
(***************************************************************************)
EXTENDS Naturals

CONSTANTS Apps,         \* processes of the application
          Profiles,
          MaxVersion,   \* bound: the last version that is released
          NoApp

ASSUME NoAppAssumption == NoApp \notin Apps
ASSUME MaxVersionAssumption == MaxVersion \in Nat \ {0}

VARIABLES
    inst,      \* the version of each part of the installation
    apps,      \* the version each process of the application runs; 0: none
    call,      \* InstallUpdate of each process
    browser,   \* the browser of each profile
    owner,     \* the process that launched it and still runs
    helper,    \* what the helper is at
    parent,    \* the process it waits for
    target,    \* the version it installs
    backup,    \* its restore point
    left,      \* parts that the present step has still to do
    fresh,     \* the process whose marker it waits for
    marker,    \* that marker is there
    good,      \* observer: the installation that was confirmed last
    kept,      \* observer: an earlier helper left a restore point of it
    spoilt     \* observer: what hindered helpers since

users == <<apps, call, browser, owner>>
steps == <<helper, parent, target, backup, left, fresh, marker>>
observers == <<good, kept, spoilt>>
updateVars == <<inst, users, steps, observers>>

Parts == {"application", "engine"}
Versions == 0..MaxVersion
Installations == [Parts -> Versions]
Nothing == [x \in Parts |-> 0]
Whole(v) == [x \in Parts |-> v]

\* The steps at which there is a complete restore point.
Restorable == {"install", "start", "confirm", "remove", "restore", "reopen"}

UpdateTypeOK ==
    /\ inst \in Installations /\ backup \in Installations /\ good \in Installations
    /\ apps \in [Apps -> Versions]
    /\ call \in [Apps -> {"none", "stopping", "quitting"}]
    /\ \A a \in Apps : call[a] # "none" => apps[a] # 0 /\ apps[a] < MaxVersion
    /\ browser \in [Profiles -> {"closed", "launching", "started", "running"}]
    /\ owner \in [Profiles -> Apps \cup {NoApp}]
    /\ helper \in {"off", "wait", "copy", "discard"} \cup Restorable
    /\ parent \in Apps \cup {NoApp} /\ fresh \in Apps \cup {NoApp}
    /\ target \in Versions /\ left \subseteq Parts
    /\ marker \in BOOLEAN /\ kept \in BOOLEAN
    /\ spoilt \subseteq {"killed", "disk", "in use"}

UpdateInit ==
    /\ inst = Whole(1) /\ good = Whole(1)
    /\ apps = [a \in Apps |-> 0] /\ call = [a \in Apps |-> "none"]
    /\ browser = [p \in Profiles |-> "closed"] /\ owner = [p \in Profiles |-> NoApp]
    /\ helper = "off" /\ parent = NoApp /\ target = 0 /\ backup = Nothing
    /\ left = {} /\ fresh = NoApp /\ marker = FALSE
    /\ kept = FALSE /\ spoilt = {}

\* Somebody runs the file.
InUse(x) ==
    IF x = "application" THEN \E a \in Apps : apps[a] # 0
    ELSE \E p \in Profiles : browser[p] \in {"started", "running"}

-----------------------------------------------------------------------------
(***************************************************************************)
(* The application and its browsers                                        *)
(***************************************************************************)
\* The user opens the application (bound: while there is none).
AppStarts(a) ==
    /\ \A b \in Apps : apps[b] = 0
    /\ inst["application"] # 0
    /\ apps' = [apps EXCEPT ![a] = inst["application"]]
    /\ UNCHANGED <<inst, call, browser, owner, steps, observers>>

\* runtime.Quit, the user or an accident.  What the end of process a leaves: a launch without a process is over, the
\* browsers that have one stay.
Gone(a) ==
    /\ apps' = [apps EXCEPT ![a] = 0]
    /\ call' = [call EXCEPT ![a] = "none"]
    /\ browser' = [p \in Profiles |-> IF owner[p] = a /\ browser[p] = "launching" THEN "closed" ELSE browser[p]]
    /\ owner' = [p \in Profiles |-> IF owner[p] = a THEN NoApp ELSE owner[p]]

AppEnds(a) ==
    /\ apps[a] # 0
    /\ Gone(a)
    /\ parent' = IF parent = a THEN NoApp ELSE parent
    /\ fresh' = IF fresh = a THEN NoApp ELSE fresh
    /\ UNCHANGED <<inst, helper, target, backup, left, marker, observers>>

\* Manager.Launch: reserved, the process started, entered in the running map.
LaunchBegins(p, a) ==
    /\ apps[a] # 0 /\ browser[p] = "closed"
    /\ browser' = [browser EXCEPT ![p] = "launching"]
    /\ owner' = [owner EXCEPT ![p] = a]
    /\ UNCHANGED <<inst, apps, call, steps, observers>>

LaunchStarts(p) ==
    /\ browser[p] = "launching" /\ inst["engine"] # 0
    /\ browser' = [browser EXCEPT ![p] = "started"]
    /\ UNCHANGED <<inst, apps, call, owner, steps, observers>>

LaunchPublishes(p) ==
    /\ browser[p] = "started" /\ owner[p] # NoApp
    /\ browser' = [browser EXCEPT ![p] = "running"]
    /\ UNCHANGED <<inst, apps, call, owner, steps, observers>>

\* The launch fails, or the user or Stop closes the browser.
BrowserEnds(p) ==
    /\ browser[p] # "closed"
    /\ browser' = [browser EXCEPT ![p] = "closed"]
    /\ owner' = [owner EXCEPT ![p] = NoApp]
    /\ UNCHANGED <<inst, apps, call, steps, observers>>

-----------------------------------------------------------------------------
(***************************************************************************)
(* InstallUpdate                                                           *)
(***************************************************************************)
\* The installer is downloaded and verified; Stop is asked of what runs.
InstallAsked(a) ==
    /\ apps[a] # 0 /\ apps[a] < MaxVersion /\ call[a] = "none"
    /\ call' = [call EXCEPT ![a] = "stopping"]
    /\ UNCHANGED <<inst, apps, browser, owner, steps, observers>>

\* A browser that does not end in 20 seconds, or the helper cannot be started.
InstallFails(a) ==
    /\ call[a] = "stopping"
    /\ call' = [call EXCEPT ![a] = "none"]
    /\ UNCHANGED <<inst, apps, browser, owner, steps, observers>>

\* Running() is empty; it does not list the profiles that are being launched.
\* (Bound: one helper at a time.)
HelperStarts(a) ==
    /\ call[a] = "stopping" /\ helper = "off"
    /\ \A p \in Profiles : owner[p] = a => browser[p] # "running"
    /\ call' = [call EXCEPT ![a] = "quitting"]
    /\ helper' = "wait" /\ parent' = a /\ target' = apps[a] + 1
    /\ UNCHANGED <<inst, apps, browser, owner, backup, left, fresh, marker, observers>>

-----------------------------------------------------------------------------
(***************************************************************************)
(* RunApplyHelper                                                          *)
(***************************************************************************)
\* The helper goes to another step, with the parts in S to do.
To(step, S) == helper' = step /\ left' = S

\* The helper ends; its restore point stays where it is, and nobody looks for it.
Over(why) ==
    /\ helper' = "off" /\ left' = {} /\ parent' = NoApp /\ target' = 0
    /\ backup' = Nothing /\ fresh' = NoApp /\ marker' = FALSE
    /\ kept' = (kept \/ (helper \in Restorable /\ backup = good))
    /\ spoilt' = spoilt \cup why

ParentGone ==
    /\ helper = "wait" /\ parent = NoApp /\ inst["engine"] # 0
    /\ To("copy", Parts)
    /\ UNCHANGED <<inst, users, parent, target, backup, fresh, marker, observers>>

\* Bug: the helper waits for as long as it takes.
BugGivesUp ==
    /\ helper = "wait" /\ inst["engine"] = 0
    /\ Over({})
    /\ UNCHANGED <<inst, users, good>>

\* Two minutes, or there is no engine in the installation.
GivesUp ==
    /\ helper = "wait" /\ (parent # NoApp \/ inst["engine"] = 0)
    /\ Over({})
    /\ UNCHANGED <<inst, users, good>>

CopyPart(x) ==
    /\ helper = "copy" /\ x \in left
    /\ backup' = [backup EXCEPT ![x] = inst[x]]
    /\ left' = left \ {x}
    /\ UNCHANGED <<inst, users, helper, parent, target, fresh, marker, observers>>

\* Bug: the installer runs beside the copying.
BugCopyEnds ==
    /\ helper = "copy"
    /\ To("install", Parts)
    /\ UNCHANGED <<inst, users, parent, target, backup, fresh, marker, observers>>

CopyEnds ==
    /\ helper = "copy" /\ left = {}
    /\ To("install", Parts)
    /\ UNCHANGED <<inst, users, parent, target, backup, fresh, marker, observers>>

CopyFails ==
    /\ helper = "copy"
    /\ Over({})
    /\ UNCHANGED <<inst, users, good>>

\* The installer writes one file after the other ...
InstallerWrites(x) ==
    /\ helper = "install" /\ x \in left /\ ~InUse(x)
    /\ \/ inst' = [inst EXCEPT ![x] = 0] /\ UNCHANGED left
       \/ inst' = [inst EXCEPT ![x] = target] /\ left' = left \ {x}
    /\ UNCHANGED <<users, helper, parent, target, backup, fresh, marker, observers>>

\* ... and, being silent, goes on when one is in use.
InstallerSkips(x) ==
    /\ helper = "install" /\ x \in left /\ InUse(x)
    /\ left' = left \ {x}
    /\ UNCHANGED <<inst, users, helper, parent, target, backup, fresh, marker, observers>>

InstallerEnds ==
    /\ helper = "install" /\ left = {} /\ inst["engine"] # 0
    /\ To("start", {})
    /\ UNCHANGED <<inst, users, parent, target, backup, fresh, marker, observers>>

\* Bug: a failed installer is reported, and nothing is put back.
BugInstallerFails ==
    /\ helper = "install"
    /\ To("reopen", {})
    /\ UNCHANGED <<inst, users, parent, target, backup, fresh, marker, observers>>

\* It returns another code than 0: cut short, or after the message box that it
\* shows when the engine is missing has been closed.
InstallerFails ==
    /\ helper = "install"
    /\ To("remove", Parts)
    /\ UNCHANGED <<inst, users, parent, target, backup, fresh, marker, observers>>

\* Process a is the installed application.
Open(a) ==
    /\ apps[a] = 0 /\ inst["application"] # 0
    /\ apps' = [apps EXCEPT ![a] = inst["application"]]

StartNew(a) ==
    /\ helper = "start"
    /\ Open(a)
    /\ fresh' = a /\ marker' = FALSE
    /\ To("confirm", {})
    /\ UNCHANGED <<inst, call, browser, owner, parent, target, backup, observers>>

StartFails ==
    /\ helper = "start"
    /\ To("remove", Parts)
    /\ UNCHANGED <<inst, users, parent, target, backup, fresh, marker, observers>>

\* domReady of the new version.
MarkHealthy ==
    /\ helper = "confirm" /\ fresh # NoApp
    /\ marker' = TRUE
    /\ UNCHANGED <<inst, users, helper, parent, target, backup, left, fresh, observers>>

Confirmed ==
    /\ helper = "confirm" /\ marker
    /\ good' = inst /\ kept' = FALSE /\ spoilt' = {}
    /\ To("discard", {})
    /\ UNCHANGED <<inst, users, parent, target, backup, fresh, marker>>

\* The process has exited, or 60 seconds are over and it is killed.
ConfirmFails ==
    /\ helper = "confirm"
    /\ IF fresh = NoApp THEN UNCHANGED users ELSE Gone(fresh)
    /\ fresh' = NoApp /\ marker' = FALSE
    /\ To("remove", Parts)
    /\ UNCHANGED <<inst, parent, target, backup, observers>>

Discard ==
    /\ helper = "discard"
    /\ Over({})
    /\ UNCHANGED <<inst, users, good>>

-----------------------------------------------------------------------------
(***************************************************************************)
(* restoreInstallation                                                     *)
(***************************************************************************)
RemovePart(x) ==
    /\ helper = "remove" /\ x \in left /\ ~InUse(x)
    /\ inst' = [inst EXCEPT ![x] = 0]
    /\ left' = left \ {x}
    /\ UNCHANGED <<users, helper, parent, target, backup, fresh, marker, observers>>

RemoveEnds ==
    /\ helper = "remove" /\ left = {}
    /\ To("restore", Parts)
    /\ UNCHANGED <<inst, users, parent, target, backup, fresh, marker, observers>>

\* os.RemoveAll removes what it can and then returns the error.
RemoveFails ==
    /\ helper = "remove" /\ left # {}
    /\ \E why \in {"in use", "disk"} :
        /\ why = "in use" => \A x \in left : InUse(x)
        /\ spoilt' = spoilt \cup {why}
    /\ To("reopen", {})
    /\ UNCHANGED <<inst, users, parent, target, backup, fresh, marker, good, kept>>

RestorePart(x) ==
    /\ helper = "restore" /\ x \in left
    /\ inst' = [inst EXCEPT ![x] = backup[x]]
    /\ left' = left \ {x}
    /\ UNCHANGED <<users, helper, parent, target, backup, fresh, marker, observers>>

RestoreEnds ==
    /\ helper = "restore" /\ left = {}
    /\ To("reopen", {})
    /\ UNCHANGED <<inst, users, parent, target, backup, fresh, marker, observers>>

RestoreFails ==
    /\ helper = "restore"
    /\ spoilt' = spoilt \cup {"disk"}
    /\ To("reopen", {})
    /\ UNCHANGED <<inst, users, parent, target, backup, fresh, marker, good, kept>>

\* startApplication, whose error is ignored.
Reopen ==
    /\ helper = "reopen"
    /\ (\E a \in Apps : Open(a)) \/ UNCHANGED apps
    /\ Over({})
    /\ UNCHANGED <<inst, call, browser, owner, good>>

\* The helper is killed.  (A loss of power may also take copies that were not yet
\* on the disk, which copyRegularFile does not sync: that is not modelled.)
HelperDies ==
    /\ helper # "off"
    /\ Over({"killed"})
    /\ UNCHANGED <<inst, users, good>>

-----------------------------------------------------------------------------
HelperWork ==
    \/ ParentGone \/ GivesUp \/ CopyEnds \/ CopyFails
    \/ StartFails \/ Confirmed \/ ConfirmFails \/ Discard
    \/ RemoveEnds \/ RemoveFails \/ RestoreEnds \/ RestoreFails \/ Reopen
    \/ \E x \in Parts : CopyPart(x) \/ RemovePart(x) \/ RestorePart(x)
    \/ \E a \in Apps : StartNew(a)

InstallerWork ==
    \/ InstallerEnds \/ InstallerFails
    \/ \E x \in Parts : InstallerWrites(x) \/ InstallerSkips(x)

UpdateNext ==
    \/ \E a \in Apps : AppStarts(a) \/ AppEnds(a) \/ InstallAsked(a) \/ InstallFails(a) \/ HelperStarts(a)
    \/ \E p \in Profiles :
        \/ \E a \in Apps : LaunchBegins(p, a)
        \/ LaunchStarts(p) \/ LaunchPublishes(p) \/ BrowserEnds(p)
    \/ MarkHealthy \/ HelperWork \/ InstallerWork \/ HelperDies

UpdateSpec == UpdateInit /\ [][UpdateNext]_updateVars

\* The helper goes on.  Nothing makes the application quit, although it is asked
\* to 750 ms after the helper has started, and nothing makes the installer end:
\* its Run has no timeout (apply_windows.go:135), and without an engine it shows
\* a message box even when silent (project.nsi:93-95), which somebody has to close.
FairSpec == UpdateSpec /\ WF_updateVars(HelperWork)

-----------------------------------------------------------------------------
(***************************************************************************)
(* Properties                                                              *)
(***************************************************************************)
\* "The backup is only removed after the interface of the new version has
\* confirmed that it started" (README.md:105): whatever fails and whenever the
\* helper dies, the installation is the one confirmed last or there is a complete
\* copy of that one on the disk.
RestorePointStands ==
    inst = good \/ kept \/ (helper \in Restorable /\ backup = good)

\* "... otherwise the previous installation is restored" (README.md:105): a helper
\* that has ended leaves a confirmed installation unless something kept it from
\* doing so.
FailedUpdateIsUndone == helper = "off" /\ inst # good => spoilt # {}

\* What is true at each step of the helper, and makes the two inductive: until the
\* installation is touched, it or what was kept of it is good; then the restore
\* point is; and what is put back is the restore point.
Untouched == helper \in {"off", "wait", "copy", "discard"} => kept \/ inst = good
Saving == helper = "copy" => \A x \in Parts \ left : backup[x] = inst[x]
Saved == helper \in Restorable => (kept \/ backup = good) /\ (backup = good \/ spoilt # {})
Restoring == helper = "restore" => \A x \in Parts \ left : inst[x] = backup[x]
Undone == helper \in {"off", "wait", "copy", "discard", "reopen"} => inst = good \/ spoilt # {}

\* The inductive invariant of the update.
UpdateIInv == UpdateTypeOK /\ Untouched /\ Saving /\ Saved /\ Restoring /\ Undone

\* Whatever else the helper waits for, it does not wait for ever (apply_windows.go:
\* 117, 145, 150), nor go round between saving, confirming and restoring: it ends,
\* and the next update can begin, or it is at the installer (135), which it waits
\* for without a limit.
HelperSettles == helper # "off" ~> helper \in {"off", "install"}
=============================================================================
