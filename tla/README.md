# A verification project for Bruno Browser

Bruno Browser is a Windows desktop application (Go, Wails, React) that keeps
isolated Chromium profiles: each has a data directory, an identity that is
installed in its pages over the Chrome DevTools protocol, network settings,
extensions, backups. This directory holds TLA+ models of its core, the TLC runs
that check them and the theorems that TLAPS proves about them.

    tlc -config KeyedLock.cfg MCKeyedLock      # one run
    tlapm KeyedLockProofs.tla                  # the proofs of one module

`PROJECT.json` lists the parts of the system, the runs, the lines every
definition stands for, the mutants that show what each property catches, the
hazards in the code, the theorems and the findings. What is proved is not
checked again in the runs when a stronger property is: types, and properties
that a listed theorem states for every instance, such as `MutualExclusion` or
`MaintenanceExcludesBrowser`, are proved in the proof modules and are in no
run. Every safety property of a passing run is also proved for all values of
the constants; what is left to the runs alone is said at the end of section 4.

## 1. Inventory

Paths are below `src/`, Go packages below `src/internal/`.

| Part | State | Operations | Hard behaviour | Correct when |
| --- | --- | --- | --- | --- |
| profile store (`profile/store.go`, `storage/atomicfile.go`) | one directory per profile with `metadata.json` and `metadata.backup.json`; `s.mu` | Create, Get, List, Update, RecordLaunch, RecordLastURL, Delete, CommitImport | crash or error between two file writes; damage to a file; removal that stops half-way; callers that write in the directory without `s.mu` | nothing acknowledged is lost; a profile is there or gone; an import overwrites nothing |
| keyed lock (`maintenance/locks.go`) | table of counted lock entries | lock, unlock | the entry is found under one mutex and taken under another | one mutex per key, no entry leaks |
| browser manager (`browser/manager.go`) | `launching`, `running`, `maintaining`; processes, bridges, CDP sessions | Launch, wait, Stop, BeginMaintenance, Profiles | long operations outside the mutex; every step can fail; processes end when they like; the program ends before they do | one user per data directory; nothing stays after a failure |
| navigation recorder (`fingerprint/controller.go`) | bounded queue of pages, `last` | submit, run, close | pages faster than writes; Close in the middle | the page the user stays at is saved and is where the next launch starts |
| CDP session (`fingerprint/controller.go`, `client.go`) | pending calls, event channel, goroutines per target | Attach, eventLoop, protectAsync, Call, readLoop, Close | answers, events, timeouts and Close in any order; a full channel | no page runs without its identity, none is frozen, Close ends |
| maintenance (`maintenance/service.go`) | none | Inspect, Clear, DeleteProfile | destructive work beside launches | works on closed profiles only |
| extensions (`extensions/service.go`) | vault of CRX packages, paths in profile metadata | InstallCRX, EnsureBundled, SetAssignments, Remove | two stores; a profile update that carries an old list | an assigned path exists; a removal is complete or undone |
| backups (`backups/service.go`) | archives, history | Export, Import | several profiles, several stores, rollback, all beside launches and saves | all or nothing; closed profiles only; no identity of another profile |
| updates (`updates/`) | installation, restore point, health marker | Check, DownloadLatest, helper, MarkHealthy | a crash of any of three processes | one working installation is left |
| proxy bridge (`network/bridge.go`, `socks5.go`) | listener, tracked connections | serveTunnel, copyTunnel, Close | tunnels in the making while it closes, deadlines, half-closed streams | no connection is kept, no response is cut, Close ends every tunnel |
| network settings (`network/store.go`, `manager.go`) | `network.json` per profile | Save, Resolve, Prepare | written beside a deletion | see profile store |
| fingerprint store (`fingerprint/store.go`) | `fingerprint.json` per profile | LoadOrCreate, MarkVerified, RebindFile | a rebind beside a session | one identity per profile, stable |
| license (`license/service.go`), account (`account/service.go`) | `license.json`, `account.json`, a callback server | Activate, Status, RequireActive, Deactivate; Login, Logout | the gate asks one service after the other; expiry and a clock that goes back; a callback that arrives late or twice | only a valid activation of the user opens the gate; an account is whose login it was |
| telemetry, diagnostics (`telemetry/service.go`, `diagnostics/service.go`) | one capped log each | record, Snapshot; Record, Clear | goroutines that write the same file; times taken before the lock; a damaged file | nothing noted is lost; the dashboard tells the truth |
| preferences, configuration | one file each, behind one mutex | load, save | none beyond an atomic replacement | not modelled |
| desktop facade (`desktop.go`, `main.go`, `app/core.go`) | none of its own | combines the services for the frontend | check in one service, act in another | the services' promises hold together |
| frontend (`frontend/`) | views | calls the facade | none | not modelled |

How the parts interact. The facade calls the services from goroutines of its
own, one per call of the frontend, so any two operations may overlap. `Launch`
reads the metadata of the profile store, prepares the network (which starts a
proxy bridge when the proxy has a password), starts Chromium, and attaches the
CDP session, whose recorder writes back to the profile store through
`RecordLastURL`. Maintenance, deletion, backups take a reservation from the
browser manager (`BeginMaintenance`) before they touch a directory; maintenance
takes the keyed lock of the directory first. The settings stores write in the
profile directory without a reservation, and so does an import, whose profiles
other operations can see before it is over. The paid operations pass the gate
of the facade first, which asks the account service for the user and the
license service for the activation, and end by writing to the telemetry and, if
they failed, to the failure log.

## 2. Modules

| Module | Models | State and actions against the code |
| --- | --- | --- |
| `KeyMutex` | what `locks.go` promises | who holds each key |
| `KeyedLock` | `maintenance/locks.go` | `table`, `users`, `owner` are `locks.entries`, `entry.users`, `entry.mu`. `Register` is the first critical section, `Enter` the wait for the entry, `Unlock` and `Deregister` the returned func, which unlocks the entry before it takes `locks.mu`. Entries are heap identities that are reused when nobody refers to them. |
| `ProfileStore` | `profile/store.go` on `storage/atomicfile.go`, with the writer of `network/store.go` | the two files of each profile hold versions of a document, or are unreadable. One operation holds `s.mu`; `Load` is `loadUnlocked` with its repairs, `WriteBackup` and `WritePrimary` are `writeMetadata`, `RemoveChild`, `RemoveDir`, `Verify` are `Delete`, `ImportStage` and `ImportRename` are `CommitImport`. `WriteFileAtomic` may report an error after its rename. `Crash` may follow any step, `Damage` hits one file. |
| `ProfileLease` | what the manager promises | who may use the data directory of each profile |
| `BrowserManager` | `browser/manager.go` | the three maps, and for each launch the stage its goroutine is at. Every step of `Launch` has the success and the error return, the deferred calls are steps of their own in their order (`UnwindNet`, `UnwindLaunching`), `WaitReturns`, `CloseCdp`, `CloseNet` are `wait`. `Restart` is the end of the program, which has no shutdown hook, and its next start. |
| `NavigationRecorder` | the recorder of `fingerprint/controller.go`, up to the start page of the next launch | pages are numbered in the order Chromium committed them; `TakeEvent`, `DropOldest` and `SendNew` are `submit`, whose two channel operations on a full queue the recorder may come between, `RecTake` and `RecSave` the main select of `run`, `RecStops`, `RecDrains`, `RecEnds` its end. `select` with several ready cases is a free choice. |
| `CdpSession` | `Session` and `cdpClient` | Chromium's targets, the messages on the websocket, the event channel, one goroutine per target going through its calls, `readLoop`, `eventLoop`, `Close`. A call whose context is over or whose connection is closed fails at once. |
| `Extensions` | `extensions/service.go` with `UpdateProfile` and `RemoveExtension` of `desktop.go`, `Launch`'s use of the paths, the start of the program | a profile's metadata is its list of extensions. `dirs`, `cards`, `files` say of each package whether its vault directory, its `metadata.json` and its unpacked files exist; `pc` is the holder of `Service.mu`, with what `List` returned to it (`oldExts`) and the profiles it has still to write. Editors read and write the metadata in two steps, `Launch` reads it in one and starts Chromium in another. Every call into the profile store may fail, before or after it wrote. |
| `UpdateInstall` | `updates/apply_windows.go`, `InstallUpdate` of `desktop.go`, the installer script, `main.go` without a single-instance lock | `inst` is the version of each part of the installation, 0 for a part that is missing or cut short; `helper` is the step of `RunApplyHelper` with what is `left` to do in it, `backup` its restore point. `InUse` are the parts Windows does not let anybody write or delete, because the application or a Chromium runs from them. The installer is a process of its own (`InstallerWork`), which the helper waits for and nothing makes end. `good`, `kept` and `spoilt` observe what was confirmed last, whether a dead helper left a copy of it, and what hindered helpers since. |
| `Backups` | `backups/service.go` with what an import calls (`CommitImport`, `Delete`, `InstallCRX`, `RebindFile`, `network.Store.Save`), the reservations of the manager, `LoadOrCreate` of `fingerprint/store.go` | a profile is a record of what a backup carries: extensions, a version of the Chromium data, seed and owner of the fingerprint, route. `pc` follows each goroutine through `reserveProfiles` (one UUID after the other, in order), `writeArchive`, `extractArchive`, the restoring loops and the rollback; each can fail. Launches, browsing, saves, deletions and crashes come between any two steps. A Chromium that was running, or starting, when the program ended is `surviving`: the manager of the next run does not know it, and a launch beside it fails. |
| `Access` | `license/service.go`, `account/service.go`, the gate of `desktop.go` | a call asks for the user, waits for `license.mu`, reads the file, judges it; a login waits for `loginMu`, listens, opens the browser, waits for the callback or the timeout, exchanges the code, fetches the user, saves, shuts the server down. A callback carries the state of the login it was made for. The clock moves both ways; files are damaged; `os.Remove` may fail. |
| `TelemetrySnapshot` | `buildSnapshot`, `profileMetric`, `networkScore` | operators on sequences of events, without state |
| `OperationRecords` | `record` of both services, and their callers in `desktop.go` | `Lock` reads the file under the mutex, `Write` puts the entry in and replaces it; each operation has the books it still has to write to (`todo`), with the times taken before the locks. The dashboard reads the profiles (`ReadStates`) and later the events (`Show`). |
| `ProxyBridge` | `network/bridge.go`, `network/socks5.go` | each handler goes through dial, handshake, hijack, answer, the two entries into the map, the copies and its end; `CloseServer`, `CloseLists`, `CloseConnections` are `Close`. The far side sends, ends, stalls, resets its connection; a copy ends with what it reads or fails at what it writes (`DownEnds`, `UpEnds`, `CopyFails`); Chromium leaves or exits. |
| `MC*` | | the small instances |
| `KeyedLockProofs`, `ProfileStoreProofs`, `BrowserManagerProofs`, `ExtensionsProofs`, `BackupsProofs` | | the theorems about the component of that name and their lemmas |
| `RecordsProofs` | | those about `NavigationRecorder` and `OperationRecords` |
| `ApplicationProofs` | | those about `Access` and `UpdateInstall` |
| `ConnectionProofs` | | those about `ProxyBridge` and `CdpSession` |

Two components whose proofs share a module are extended by it together, so one of the
two names what both have after itself: `UpdateInit`, `UpdateNext`, `UpdateSpec`,
`CdpSpec`, `RecordsSpec`, `CdpTypeOK` and so on. Elsewhere these are `Init`, `Next`,
`Spec`, `TypeOK`, and `IInv` for the inductive invariant.

## 3. Runs

Every run that passes is exhaustive over its instance. Each property has a
mutant in `PROJECT.json`: a plausible mistake in the code under which it fails.

| Run | Instance | Shows |
| --- | --- | --- |
| `keyed_lock` | 3 callers, 2 keys, 3 entries | `TableTracksUsers`; `EveryWaiterEnters` (liveness); `ImplementsMutex`, the refinement of `KeyMutex`. Three callers are the least for one to leave while another waits and a third arrives; two keys let an entry move from one key to the other. |
| `profile_store` | 2 profiles, 1 saver, 3 documents per profile | `AcknowledgedSurvives`, `BareDirectoriesExcused`. Three documents give an old, an acknowledged and a half-written one; a second profile is needed for List and for an import that collides. |
| `browser_manager` | 1 profile, 3 launches, 2 maintenance operations, 1 stop | `OneBrowserPerProfile`, `BridgeOutlivesBrowser`, `NothingLeaks`; `LaunchSettles`, `EndedSessionsAreCleaned` (liveness); `ImplementsLease`, the refinement of `ProfileLease`. Profiles do not share state, so one, with everyone competing for it, is the hard case; the safety properties are proved for any number. Three launches let one take over after another has failed while a third one is refused. |
| `navigation_recorder` | 1 session, 4 pages, 2 URLs, queue of 2 | `LatestPageIsSaved` (liveness), `QueuedPagesSurviveClose`. Four pages overflow a queue of 2 with one page being saved and one waiting in `submit`; two URLs make repeats and changes. The code's queue has 32 places. |
| `relaunch_reads_stale_page` | 2 sessions, 2 pages, queue of 1 | violated: see Findings |
| `cdp_session` | 2 targets, event channel of 1 | `NothingRunsBare`, `PausedTargetsSettle`, `CloseCompletes`. Two targets fill a channel of 1 and block the reader while a goroutine waits for an answer behind the event. The code's channel has 256 places. |
| `extensions` | 2 profiles, 1 package (the bundled one), 1 editor, with symmetry | `AssignedAreInstalled`, `RemovalIsUndone`, `BareDirectoriesExcused`, `BundledStaysUninstalled`. Two profiles let a removal fail after it wrote one of them. |
| `update_install` | 2 processes of the application, 1 profile, 3 versions | `RestorePointStands`, `FailedUpdateIsUndone`, `HelperSettles` (liveness). Two processes let the user open the application again while an update runs; three versions let one update follow another, and each can be tried again after it failed. |
| `backups` | 2 operations at once on 2 profiles and a spare UUID, 1 extension, 2 operations begun, 2 moves of the user, with symmetry | `ExportsDoNotFailEachOther`, `FailedRestoreLeavesNothing`, `RestoredAsArchived`, `ArchivedTreeStandsStill`, `RestoredProfilesOpen`. Two exports over two profiles can each hold what the other wants; the spare UUID is where a copy of an existing profile goes; two moves are a launch and what it collides with. |
| `access` | 2 calls, 2 logins, 2 users, a key bound to one user that expires and a key for anybody, 2 values of the clock, with symmetry | `LoginsAreNotMixedUp`, `ActivationIsNotLost`, `AdmittedIsEntitled`, `SpentKeysStaySpent`. Two values put the clock before and after expiry, in either order. |
| `operation_records` | 2 goroutines, 1 profile, 3 operations, 3 values of the clock, 2 entries in `telemetry.json`, 1 in the failure log, 1 damage | `NothingNotedIsLost`, `LatestResultsAreShown`, `OpeningsAreCountedOnce`. Three operations overflow both logs; two of them can be written in the other order than they happened; three times let an entry get older than what is kept (`Retention` 1). |
| `proxy_bridge` | 2 tunnels, a SOCKS5 proxy with credentials, 1 chunk of data | `ConnectionsAreReleased`, `ResponsesArriveWhole`, `TunnelsEnd` (liveness). With two tunnels `Close` finds one in the map and misses the other. |

`CHECK_DEADLOCK FALSE` stands in the recorder's and the CDP session's
configurations, where a closed session has nothing left to do, in that of the
backups, where every allowed operation may be over, and in the update's, where
an installation without an application cannot be started. The other systems
never stop and are checked for deadlock.

Names of the bounds: `MaxVersion` (documents per profile), `MaxSessions`,
`MaxPages`, `MaxVersion` of `UpdateInstall` (the last release), `MaxRuns` and
`MaxMoves` (operations and moves of the user in `Backups`), `MaxOps`, `MaxClock`,
`MaxDamages`, `MaxChunks`. They limit how
often a user acts, not what the code does. In `UpdateInstall` a user opens the
application only while it is closed, and one helper runs at a time.

### Fairness

A goroutine that can go on does (weak fairness of its steps). Beyond that:

- `KeyedLock`: `SF` for taking `entry.mu`, because Go's mutex hands itself to
  a waiter that starved for a millisecond.
- `BrowserManager`: a process that was told to end does; maintenance ends.
  Nothing makes a user launch or close a browser.
- `UpdateInstall`: the helper goes on, because its own waits are bounded
  (`apply_windows.go:117, 145, 150`). Nothing makes the application quit or
  confirm its start, and nothing makes the installer end: the helper runs it
  without a limit (135), and on its failure path it shows a message box that a
  silent installation shows too (`project.nsi:93-95`), for a hidden process. So
  `HelperSettles` says that the helper ends or is at the installer.
- `NavigationRecorder`: the event loop of a browser that ended ends, because
  the connection breaks. Saves may fail for ever.
- `CdpSession`: a Chromium that lives answers, and the 12 second timers fire.
  Nothing makes it open a target.
- `ProxyBridge`: handlers and copies go on (the deadline ends a handshake that
  hangs), `Close` does once it began, and the operating system closes the
  connections of a Chromium that has exited. The far side may stall for ever, and
  a copy on a connection that was reset need not fail.
- `Backups`, `Access`, `OperationRecords` state safety only.

## 4. Proofs

All theorems hold for every value of the constants under the assumptions the
modules name: the sets of callers finite (`CallersAssumption`, its cardinalities
are counted), the null values outside their sets, the bounds natural numbers.

**`KeyedLockProofs`.** `IInv` is inductive: every caller between lock and
the end of unlock points to the entry its key has in the table
(`PointsToTable`), entries of different keys differ, the counter of an entry is
the number of its pointers, and who is inside owns the entry. The counting is
what makes the deletion of an entry safe: `users - 1 = 0` exactly when the
leaving caller is the only one that points to it. `Exclusion` and `NoEntryLeaks`
follow, and `Implementation` shows that every step is a step of `KeyMutex` or
a stutter.

**`ProfileStoreProofs`.** `AcknowledgedSurvives` is not inductive by itself:
it does not say why, after the first write of `writeMetadata`, the old primary
is still good enough. `IInv` adds that the backup is never older than the primary,
that neither is older than what was seen, that one copy is left of every profile
in use (both until one of them is damaged), and that the document being written
is the newest. `NothingAcknowledgedIsLost` follows. `DirectoryInv` stands on it:
which kind of operation is at which step (`KindAtStep`), that only a late save
puts a directory where an import goes or a delete was, that every metadata file
has its directory, and that nobody writes a profile that was deleted.
`OnlyExcusedDirectoriesAreBare` and `DeletionsAreComplete` follow.

**`BrowserManagerProofs`.** `IInv` ties the three maps to the goroutines: a
profile in `launching` has one launch in its reserved stages, `running` points to
the session that is watched, `maintaining` is what maintainers hold, all three
exclude each other, and the process, the bridge and the CDP session of a launch
exist at exactly the stages at which its deferred calls and its `wait` will
end them. `OneBrowser`, `ExclusiveMaintenance`, `BridgeStands` and
`NothingStays` follow. `Implementation` is the refinement of `ProfileLease`: by
`OneHolder` at most one goroutine claims a profile (`ClaimsExclude`), so the
choice in `Lease` is none, and a step begins or ends at most one claim
(`ClaimMove`); a claim begins only where the maps say the profile is closed.

**`ApplicationProofs`, `UpdateInstall`.** `UpdateIInv` follows the helper: until it
touches the installation, that one is good or a copy was kept (`Untouched`);
what is copied agrees with the installation (`Saving`), so that the restore point is
good when the installer begins (`Saved`), and what is put back agrees with it
(`Restoring`); whatever is not put back has a reason (`Undone`).
`NothingConfirmedIsLost` and `FailuresAreUndone` follow. `UpdateTypeOK` says beside
the types that only an application with an update ahead is in `InstallUpdate`.

**`ApplicationProofs`, `Access`.** A call that judges holds the mutex, so what it
read is on disk (`JudgesTheFile`); a key that was removed as expired is not on disk
(`SpentIsGone`); one login is between its lock and unlock, and the port is its own
(`OneLoginAtATime`); what it finds in its channel was sent to it (`OwnAnswers`).
`EntitledOnly`, `ExpiryIsFinal`, `ActivationsStand`, `LoginsKeepApart` and
`ListenersTakeTurns` follow.

**`ConnectionProofs`, `ProxyBridge`.** What a handler has at each stage
(`HeldByStage`) and, as long as Close has not begun, that nobody else closes its
connections, so that no copy ends before its stream does, unless the far side resets
or Chromium leaves (`WholeWhileOpen`). `NothingIsKept` and `NothingIsCut` follow.

**`ConnectionProofs`, `CdpSession`.** Until a target is cut off, one call to it is on
its way at most, with Chromium or as the one answer its goroutine awaits
(`OneCallAtATime`); what an answer says is so in Chromium already
(`AnswersAreTrue`); and a goroutine past the script knows when the script is
missing (`GoroutineKnows`). `NoPageRunsBare` follows.

**`RecordsProofs`, `NavigationRecorder`.** `IInv` says, session by session, where the
newest page is that was queued before the session was closed, or a later one: at
the end of the queue; with nothing queued, in the recorder's hands, or given up by
`submit` for the page that takes its place; when the recorder is done, on disk, unless
the write failed or the recorder ended before that page was sent (`NewestIsKept`). A page with the same URL
stands for it, because the recorder compares URLs. `ClosingLosesNoPage` follows,
for any capacity of the queue and any number of pages.

**`RecordsProofs`, `OperationRecords`.** Who is inside the mutex of a file holds it
alone, and what it read is what the file has (`MutexHeld`). The failure log is then
simply the newest end of what was noted, in reverse (`FailuresKept`). Telemetry is
harder, because a record drops whatever has become too old, wherever it stands: the
times are taken before the mutex and are not in order. `EventsKept` says that the
file follows what was noted (`Follows`): its entries stand in the log in the same
order and at least as far apart (`Places`), and none of the newest that is recent
enough is missing. The distances are the point: cutting the file to its capacity
takes from its front, and an entry that is near the end of the log has few entries
behind it in the file. `LoopKeeps` shows by counting the rounds (`Reached`, from the
library's well-founded minimum) that the loop of `record` keeps what it should,
`KeptFollows` and `CutFollows` that both steps leave a list that follows, and
`RecordsAreKept` is the result.

What the dashboard shows rests on that and on a second invariant, `OpeningsIInv`: an
operation plans its event once and says in it what happened (`EventsAreSound`), no
event is owed or noted twice (`EventsOnce`), and `LastLaunchedAt`, as it stands and as
the dashboard has read it, is of an opening (`LastOpenings`). `LatestIs` shows round by
round that the loop of `buildSnapshot` finds an event that none about the profile is
later than, wherever it stands; as nothing noted is lost, that is one of the newest
noted (`LatestIsNewest`), and `LatestIsShown` follows through `profileMetric`. For
`CountedOnce` the events in the chart and the profiles without an event go one to one
to different openings (`TwoIntoOne`): an event to the opening with its number, a
profile to the opening its `LastLaunchedAt` is of, and an opening that had both would
have an event after all.

**`ExtensionsProofs`.** `IInv` relates the holder of `Service.mu` to the two stores.
What has a `metadata.json` in the vault has its files, unless its removal was cut
short (`CardsHaveFiles`); while profiles are given a package, or given it back, it is
there (`PackageIsThere`), and the lists the holder remembers stay good beside the
package it works on (`RememberedAreInstalled`); files go only when no profile loads
them (`DetachedFirst`), and whoever lost the package on the way is still known to
the holder (`LossIsKnown`), which is why an undone removal restores everybody.
`AssignedStayInstalled`, `BareDirectoriesAreExcused`, `UninstalledForGood` and
`RemovalsAreUndone` follow.

**`BackupsProofs`.** UUIDs are numbers here, ordered as the code sorts their text
(`ProfilesAssumption`), and `None` is nothing that is stored (`NoneAssumption`). An
export that is reserving has everything before what it still wants
(`LeasesAreHeld`), and reservations exclude each other (`HoldersExclude`). If one
export made another fail, it is past it in that order or done (`BlamedIsAhead`), so
two of them never blame each other: `ExportsAreServed`, by the least and greatest
elements of finite sets of UUIDs. A restore knows what it has committed until it
is over or has taken it back (`CommitsAreKnown`), which gives `RestoresAreTakenBack`,
and what it has committed is finished but for the steps of the last one
(`RestoredSoFar`), which gives `RestoresAreComplete`. `NothingElseStaysShut` follows
the profiles whose fingerprint names another one through commits, rebinds,
rollbacks, crashes and exports of half-restored profiles. `ArchivesAreConsistent` is
about single steps under the same invariant: whoever writes into a directory that is
being archived has outlived an earlier run of the program.

**Only model-checked.** Every liveness property (`EveryWaiterEnters`,
`LaunchSettles`, `EndedSessionsAreCleaned`, `LatestPageIsSaved`,
`PausedTargetsSettle`, `CloseCompletes`, `HelperSettles`, `TunnelsEnd`): liveness
under fairness and `ENABLED` are outside of what the prover does. Every other
property of the passing runs has a theorem. The averages and the median of
`buildSnapshot` are computed in the model but no property speaks of them.

## 5. Findings

`relaunch_reads_stale_page`. `wait` gives the profile back before the recorder
has saved its last page; a launch in that window starts from the page before.

### Also seen in the models

These are consequences of the code that the models contain. No run is made of
them, because a property of the passing runs excuses them by name or because
no line of the repository promises otherwise.

- `network.Store.Save` asks whether the profile exists and writes later, creating
  the directory if need be. A delete in between reports success, and the directory
  comes back with `network.json` alone; from then on `List` fails for every
  profile (`excused` in `ProfileStore`).
- When the 12 seconds of a target's goroutine are over, releasing and closing it
  are refused by the same expired context: the page stays as it was, frozen until
  its user closes it, against the comment at `controller.go:287-288` (`Cut` in
  `CdpSession`).
- `submit` receives the oldest page of a full queue (`controller.go:354`) and sends
  the new one in a second step (358). A recorder that drains the queue after stop
  was closed may find it empty between the two and end: a page queued before the
  close is then lost with the one meant to follow it (`crowded` in
  `NavigationRecorder`).
- A tunnel ends with the first of its two copies (`bridge.go:154`). When the far
  side answers and resets its connection while Chromium still sends, the upward
  copy fails and the client is closed with the rest of the answer undelivered
  (`reset` excuses it in `ResponsesArriveWhole`).
- The helper of an update waits for the installer without a limit, and the
  installer can stop at a message box nobody sees (`HelperSettles`).
- A launch of a profile whose Chromium outlived the program fails: the new process
  hands its command line to that one and ends (`Attach` in `Backups`).
- A program that ends between the commit of a restored profile and the rebind of its
  fingerprint leaves a profile that no launch accepts (`stranded` in `Backups`),
  because `LoadOrCreate` compares the owner in the file.
- `SetAssignments` and `Remove` write profiles with the fields they listed at the
  beginning, and `UpdateProfile` writes back the list of extensions it read: each
  undoes what was saved in between (`stale` in `Extensions`). `RemoveExtension`
  asks whether a profile runs before it removes the files; one that is being
  launched meanwhile loses them.
- Undoing an update begins with the removal of the installation, and stops
  there when a program runs from it. What could be removed is gone, the
  restore point is not put back, and nothing looks for it afterwards (`spoilt` in
  `UpdateInstall`). A helper that fails before it touches the installation does
  not open the application again.
- Nothing ends the browsers with the program, and whether a profile is open is
  known only to the maps of the running one. After the next start an export
  reserves a profile whose Chromium is still open and archives its directory while
  it writes, although `docs/releases/v1.5.0.md:11` promises that an export is blocked
  while a selected profile is open (`surviving` excuses it in
  `ArchivedTreeStandsStill`). The same holds of everything that reserves: a profile is
  cleaned or deleted in `BrowserManager` although a browser of the last run has it
  open.
- A restored profile can be launched before its route is saved, and then
  connects directly; a rollback that deletes a profile beside its launch leaves
  a directory with a fingerprint and no metadata (`bare` in `Backups`).
- An import asks whether a UUID is free when it decides where a profile goes, and
  writes the profile's route by that UUID at the end. If two imports restore the same
  profile and its user deletes the first one's in between, the second commits the same
  UUID, and the first writes the route of its own archive into it; a rollback
  of the first would delete it (`WritesInto` in `Backups`).
- A logout while a login waits for its callback is undone when the login saves.
- A damaged `telemetry.json` is replaced by nothing: `Snapshot` and every record
  fail until it is removed. The failure log starts anew.
- The first bucket of the activity chart is two buckets wide, because Go's
  division rounds toward zero (`Quotient`): "24 hours" may reach back 26.
- A tunnel ends with the first of its two copies, so a client that shuts down its
  sending side only does not get the rest of the answer (`left` excuses it in
  `ResponsesArriveWhole`).

## 6. Abstractions, and what is not modelled

- Documents, pages, identities are versions, numbers, names. Validation of
  fields is a nondeterministic error.
- `Backups` keeps what an operation does in its own temporary directory out of sight
  until the rename. The cipher is a step that succeeds or fails; a file on its
  way through `writeArchive` or `extractArchive` is not told apart from another.
- `Access` takes Discord, its tokens and the form of a key for data: an exchange
  or a request succeeds or fails.
- `OperationRecords` leaves out the size limits of the files, which entries of
  bounded fields do not reach, and the fields nothing is computed from.
- `ProxyBridge` counts data from the proxy to Chromium in chunks; plain requests,
  which the HTTP server of the library serves, and the bytes of the handshakes are
  left out.
- Browsers that outlive the program are in `Backups` and, as processes nobody
  follows, in `BrowserManager`; the other modules follow the browsers of the running
  program only.
- `OperationRecords` has one profile route, a proxy, for good. In the code
  `SaveNetwork` may change the route between a test and the dashboard, and
  `profileMetric` (`telemetry/service.go:352-368`) then judges the new route by the
  test of the old one. The clock does not go back there, a damaged `telemetry.json`
  owes nothing from then on, and a launch whose record fails after it was written is
  left out.
- `Access` judges a plan for the user that was logged in when the gate asked; that
  this user may have logged out meanwhile is no violation of `AdmittedIsEntitled`.
  A key whose removal failed may be used again after the clock was set back.
- `Extensions`: `AssignedAreInstalled` excuses lists that an outdated edit wrote.
  Imports, which write such lists too, are in `Backups` only.
- `UpdateInstall` counts a file as written once the copy has ended; the code does
  not sync it, so a loss of power may undo more than the death of the helper does.
- `BrowserManager`: that a Stop never reaches the process of a later session is not
  stated; it acts on the handle it has looked up.
- `ProfileStore`: `CommitImport` looks at its destination and renames in one step;
  in between, the operating system refuses a directory that is not empty.
- `CdpSession`: Chromium closes a target it is asked to close, as long as it lives.
- `CdpSession` folds the calls of `applyProtection` into four: installing
  the script, the other calls that must succeed, the release, the closing.
  `Attach`'s own calls run before the other goroutines exist and are left out.
- `ProfileStore` gives creation of the subdirectories and files other than
  the metadata one bit (`content`).
- `Extensions` leaves out the unpacking and validation of packages: an install
  makes everything in a temporary directory and renames it, or leaves nothing
  that the program looks at. The list of a profile is a set; that an
  assignment moves a path to its end, and so writes a profile whose set does
  not change, is modelled (`Reordered`).
- `UpdateInstall` takes the download for a step that succeeds or fails. The
  installer is external but for its script: it writes file by file, may fail at
  any point, and, being silent, goes on past a file it cannot open.
- Command lines, preference merging, ciphers, HTTP, HTML and formatting are out
  of scope; `components` in `PROJECT.json` has the reason for each part.

Not modelled, and why:

- preferences and configuration (`preferences/`, `config/`, `domain/`): one
  file behind one mutex, read, validated, replaced. Nothing in it interleaves that
  `OperationRecords` does not have already; validation is about data.
- engine discovery, command lines, identity files (`browser/discovery.go`,
  `arguments.go`, `identity.go`): path lookups and merging of JSON, without state.
- the text of the identity script and the values of an identity
  (`fingerprint/script.go`, `model.go`): data.
- `updates.Check` and `DownloadLatest`, `network.TestProxy`, the backup history, the
  key generator of the license: single requests or pure functions.
- `frontend/`: views over the facade.

## 7. What is left

1. The comparison of versions (`updates/service.go`) and the cleaning of
   directories (`maintenance/service.go`) against reference definitions.
2. A composition of `ProfileStore` with `BrowserManager` in which `Launch` reads what
   `RecordLastURL` writes while the manager's lease is modelled in full;
   `NavigationRecorder` has the part of it that the start page needs.
