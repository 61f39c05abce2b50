--------------------------- MODULE BrowserManager ---------------------------
(***************************************************************************)
(* internal/browser/manager.go: the Chromium process of each profile and   *)
(* the reservation of its data directory.  The maps launching, running and *)
(* maintaining are guarded by Manager.mu; everything else a launch does    *)
(* happens outside it.                                                     *)
(*                                                                         *)
(* A session is one call of Launch that got its reservation, with the      *)
(* Chromium process and the network and CDP sessions it makes, and the     *)
(* goroutine (wait) that follows the process to its end.  core.go always   *)
(* configures PrepareNetwork and AttachCDP, so controlledStartup is true.  *)
(***************************************************************************)
EXTENDS Naturals, FiniteSets

CONSTANTS Profiles,
          Sessions,      \* identities of launches
          Maintainers,   \* maintenance.Service and backups.Service operations
          Stoppers,      \* calls of Stop
          NoSession,     \* a nil *processState
          Free           \* nobody (of the abstract lease)

ASSUME NoSessionAssumption == NoSession \notin Sessions
ASSUME HoldersAssumption == Sessions \cap Maintainers = {} /\ Free \notin Sessions \cup Maintainers

VARIABLES
    launching,     \* m.launching
    running,       \* m.running: the session of each profile, or NoSession
    maintaining,   \* m.maintaining
    pc,            \* where the goroutine of each session is
    prof,          \* the profile each session was launched for
    alive,         \* sessions whose Chromium process exists
    netOpen,       \* sessions whose NetworkSession (proxy bridge) is open
    cdpOpen,       \* sessions whose CDPSession is open
    doomed,        \* sessions whose process was told to end
    holds,         \* profiles each maintainer has reserved
    target         \* the *processState each stopper looked up

reservations == <<launching, running, maintaining>>
resources == <<alive, netOpen, cdpOpen, doomed>>
vars == <<reservations, pc, prof, resources, holds, target>>

\* The stages in which Launch's reservation stands (the deferred delete).
LaunchStages == {"reserved", "prepared", "started", "attached", "recorded",
                 "killing", "unwindNet", "unwindLaunching"}
Stages == {"off", "watched", "closeCdp", "closeNet", "orphan"} \cup LaunchStages

TypeOK ==
    /\ launching \subseteq Profiles /\ maintaining \subseteq Profiles
    /\ running \in [Profiles -> Sessions \cup {NoSession}]
    /\ pc \in [Sessions -> Stages]
    /\ prof \in [Sessions -> Profiles]
    /\ alive \subseteq Sessions /\ netOpen \subseteq Sessions
    /\ cdpOpen \subseteq Sessions /\ doomed \subseteq Sessions
    /\ holds \in [Maintainers -> SUBSET Profiles]
    /\ target \in [Stoppers -> Sessions \cup {NoSession}]

Init ==
    /\ launching = {} /\ maintaining = {}
    /\ running = [p \in Profiles |-> NoSession]
    /\ pc = [s \in Sessions |-> "off"]
    /\ prof \in [Sessions -> Profiles]
    /\ alive = {} /\ netOpen = {} /\ cdpOpen = {} /\ doomed = {}
    /\ holds = [m \in Maintainers |-> {}]
    /\ target = [t \in Stoppers |-> NoSession]

Goto(s, from, to) == pc[s] = from /\ pc' = [pc EXCEPT ![s] = to]

-----------------------------------------------------------------------------
(***************************************************************************)
(* The critical section of Launch and of BeginMaintenance.                 *)
(***************************************************************************)
\* Bug: a profile that is still launching is not looked for.
BugClosed(p) == running[p] = NoSession /\ p \notin maintaining

\* No browser of p is starting or running and nobody maintains p.
Closed(p) == p \notin launching /\ running[p] = NoSession /\ p \notin maintaining

\* Launch, up to the reservation.  The session object is a new one: no
\* stopper still points to it.
Launch(s, p) ==
    /\ Closed(p)
    /\ \A t \in Stoppers : target[t] # s
    /\ Goto(s, "off", "reserved")
    /\ prof' = [prof EXCEPT ![s] = p]
    /\ launching' = launching \cup {p}
    /\ UNCHANGED <<running, maintaining, resources, holds, target>>

BeginMaintenance(m, p) ==
    /\ Closed(p)
    /\ maintaining' = maintaining \cup {p}
    /\ holds' = [holds EXCEPT ![m] = @ \cup {p}]
    /\ UNCHANGED <<launching, running, pc, prof, resources, target>>

\* The release func that BeginMaintenance returned (once).
EndMaintenance(m, p) ==
    /\ p \in holds[m]
    /\ maintaining' = maintaining \ {p}
    /\ holds' = [holds EXCEPT ![m] = @ \ {p}]
    /\ UNCHANGED <<launching, running, pc, prof, resources, target>>

-----------------------------------------------------------------------------
(***************************************************************************)
(* Launch after the reservation                                            *)
(***************************************************************************)
\* Get, identity, startup preferences, then PrepareNetwork.
Prepare(s) ==
    /\ Goto(s, "reserved", "prepared")
    /\ netOpen' = netOpen \cup {s}
    /\ UNCHANGED <<reservations, prof, alive, cdpOpen, doomed, holds, target>>

\* An error before there is a network session: only the reservation to undo.
PrepareFails(s) ==
    /\ Goto(s, "reserved", "unwindLaunching")
    /\ UNCHANGED <<reservations, prof, resources, holds, target>>

\* command.Start()
Start(s) ==
    /\ Goto(s, "prepared", "started")
    /\ alive' = alive \cup {s}
    /\ UNCHANGED <<reservations, prof, netOpen, cdpOpen, doomed, holds, target>>

\* Bug: the network session is not closed when Chromium cannot be started.
BugStartFails(s) ==
    /\ Goto(s, "prepared", "unwindLaunching")
    /\ UNCHANGED <<reservations, prof, resources, holds, target>>

\* An extension directory is gone, the arguments are refused, Start fails.
StartFails(s) ==
    /\ Goto(s, "prepared", "unwindNet")
    /\ UNCHANGED <<reservations, prof, resources, holds, target>>

\* waitDevTools and AttachCDP
Attach(s) ==
    /\ Goto(s, "started", "attached")
    /\ cdpOpen' = cdpOpen \cup {s}
    /\ UNCHANGED <<reservations, prof, alive, netOpen, doomed, holds, target>>

\* Bug: the error return forgets Process.Kill and Wait.
BugAttachFails(s) ==
    /\ Goto(s, "started", "unwindNet")
    /\ UNCHANGED <<reservations, prof, resources, holds, target>>

\* Bug: only Wait, which does not make Chromium end.
BugAttachFailsNoKill(s) ==
    /\ Goto(s, "started", "killing")
    /\ UNCHANGED <<reservations, prof, resources, holds, target>>

\* Either fails: Process.Kill(), and Process.Wait() until it is gone.
AttachFails(s) ==
    /\ Goto(s, "started", "killing")
    /\ doomed' = doomed \cup {s}
    /\ UNCHANGED <<reservations, prof, alive, netOpen, cdpOpen, holds, target>>

RecordLaunch(s) ==
    /\ Goto(s, "attached", "recorded")
    /\ UNCHANGED <<reservations, prof, resources, holds, target>>

RecordLaunchFails(s) ==
    /\ Goto(s, "attached", "killing")
    /\ cdpOpen' = cdpOpen \ {s}
    /\ doomed' = doomed \cup {s}
    /\ UNCHANGED <<reservations, prof, alive, netOpen, holds, target>>

\* command.Wait() of the error returns
Reap(s) ==
    /\ s \notin alive
    /\ Goto(s, "killing", "unwindNet")
    /\ UNCHANGED <<reservations, prof, resources, holds, target>>

\* The deferred calls, last one first: close the network session ...
UnwindNet(s) ==
    /\ Goto(s, "unwindNet", "unwindLaunching")
    /\ netOpen' = netOpen \ {s}
    /\ UNCHANGED <<reservations, prof, alive, cdpOpen, doomed, holds, target>>

\* ... and give the reservation back.
UnwindLaunching(s) ==
    /\ Goto(s, "unwindLaunching", "off")
    /\ launching' = launching \ {prof[s]}
    /\ doomed' = doomed \ {s}
    /\ UNCHANGED <<running, maintaining, prof, alive, netOpen, cdpOpen, holds, target>>

\* The second critical section: from launching to running in one step.
Publish(s) ==
    /\ Goto(s, "recorded", "watched")
    /\ launching' = launching \ {prof[s]}
    /\ running' = [running EXCEPT ![prof[s]] = s]
    /\ UNCHANGED <<maintaining, prof, resources, holds, target>>

-----------------------------------------------------------------------------
(***************************************************************************)
(* wait: the goroutine that follows the process                            *)
(***************************************************************************)
\* Bug: the process is gone but its entry stays.
BugWaitReturns(s) ==
    /\ s \notin alive
    /\ Goto(s, "watched", "closeCdp")
    /\ UNCHANGED <<reservations, prof, resources, holds, target>>

\* command.Wait() returned: the profile is closed for everybody else before
\* the sessions of the process are.
WaitReturns(s) ==
    /\ s \notin alive
    /\ Goto(s, "watched", "closeCdp")
    /\ running' = [running EXCEPT ![prof[s]] = IF @ = s THEN NoSession ELSE @]
    /\ UNCHANGED <<launching, maintaining, prof, resources, holds, target>>

CloseCdp(s) ==
    /\ Goto(s, "closeCdp", "closeNet")
    /\ cdpOpen' = cdpOpen \ {s}
    /\ UNCHANGED <<reservations, prof, alive, netOpen, doomed, holds, target>>

CloseNet(s) ==
    /\ Goto(s, "closeNet", "off")
    /\ netOpen' = netOpen \ {s}
    /\ doomed' = doomed \ {s}
    /\ UNCHANGED <<reservations, prof, alive, cdpOpen, holds, target>>

-----------------------------------------------------------------------------
(***************************************************************************)
(* Stop, the processes, the program                                        *)
(***************************************************************************)
\* Stop reads m.running under RLock ...
StopLooks(t, p) ==
    /\ target[t] = NoSession
    /\ running[p] # NoSession
    /\ target' = [target EXCEPT ![t] = running[p]]
    /\ UNCHANGED <<reservations, pc, prof, resources, holds>>

\* ... and asks that process to end afterwards (Browser.close, else Kill);
\* it may have ended by then.
StopAsks(t) ==
    /\ target[t] # NoSession
    /\ doomed' = IF target[t] \in alive THEN doomed \cup {target[t]} ELSE doomed
    /\ target' = [target EXCEPT ![t] = NoSession]
    /\ UNCHANGED <<reservations, pc, prof, alive, netOpen, cdpOpen, holds>>

\* Chromium ends: closed by its user, told to, or crashed.
Exit(s) ==
    /\ s \in alive
    /\ alive' = alive \ {s}
    /\ pc' = IF pc[s] = "orphan" THEN [pc EXCEPT ![s] = "off"] ELSE pc
    /\ doomed' = IF pc[s] = "orphan" THEN doomed \ {s} ELSE doomed
    /\ UNCHANGED <<reservations, prof, netOpen, cdpOpen, holds, target>>

\* The program ends (main.go has no OnShutdown) and is started again: the
\* maps, goroutines and bridges are gone, the Chromium processes are not.
Restart ==
    /\ launching' = {} /\ maintaining' = {}
    /\ running' = [p \in Profiles |-> NoSession]
    /\ pc' = [s \in Sessions |-> IF s \in alive THEN "orphan" ELSE "off"]
    /\ netOpen' = {} /\ cdpOpen' = {}
    /\ doomed' = doomed \cap alive
    /\ holds' = [m \in Maintainers |-> {}]
    /\ target' = [t \in Stoppers |-> NoSession]
    /\ UNCHANGED <<prof, alive>>

\* What the goroutine of a session does next.
Step(s) ==
    \/ Prepare(s) \/ PrepareFails(s) \/ Start(s) \/ StartFails(s)
    \/ Attach(s) \/ AttachFails(s) \/ RecordLaunch(s) \/ RecordLaunchFails(s)
    \/ Reap(s) \/ UnwindNet(s) \/ UnwindLaunching(s) \/ Publish(s)
    \/ WaitReturns(s) \/ CloseCdp(s) \/ CloseNet(s)

Next ==
    \/ \E p \in Profiles :
        \/ \E s \in Sessions : Launch(s, p)
        \/ \E m \in Maintainers : BeginMaintenance(m, p) \/ EndMaintenance(m, p)
        \/ \E t \in Stoppers : StopLooks(t, p)
    \/ \E s \in Sessions : Step(s) \/ Exit(s)
    \/ \E t \in Stoppers : StopAsks(t)
    \/ Restart

Spec == Init /\ [][Next]_vars

(***************************************************************************)
(* Every call of Launch returns and wait follows the process (WF on Step); *)
(* maintenance ends; a process that was told to end does.  Nothing makes a *)
(* user close a browser, launch one, or the program restart.               *)
(***************************************************************************)
Fairness ==
    /\ \A s \in Sessions : WF_vars(Step(s)) /\ WF_vars(s \in doomed /\ Exit(s))
    /\ \A t \in Stoppers : WF_vars(StopAsks(t))
    /\ \A m \in Maintainers, p \in Profiles : WF_vars(EndMaintenance(m, p))

FairSpec == Spec /\ Fairness

-----------------------------------------------------------------------------
(***************************************************************************)
(* Properties                                                              *)
(***************************************************************************)
\* Processes this run of the program started and still follows.
Managed == {s \in alive : pc[s] # "orphan"}

\* Two launches never have their Chromium on one --user-data-dir together,
\* from Start to the end of the process, whatever step either fails at.
OneBrowserPerProfile ==
    \A s, t \in Managed : prof[s] = prof[t] => s = t

\* "atomically reserves a closed profile so a Chromium launch cannot start
\* while destructive maintenance is in progress" (manager.go:338-339).
MaintenanceExcludesBrowser ==
    \A m \in Maintainers : \A p \in holds[m] :
        /\ \A s \in Managed : prof[s] # p
        /\ \A n \in Maintainers \ {m} : p \notin holds[n]

\* A Chromium that the program follows never runs without the proxy bridge
\* its --proxy-server argument points to, error returns included.
BridgeOutlivesBrowser == Managed \subseteq netOpen

\* When a launch is over, failed or ended, it left nothing behind: no bridge,
\* no CDP session, no process; and each reservation has an operation that
\* will give it back, so no profile stays locked.
NothingLeaks ==
    /\ \A s \in Sessions : pc[s] = "off" => s \notin alive \cup netOpen \cup cdpOpen
    /\ \A p \in launching : \E s \in Sessions : prof[s] = p /\ pc[s] \in LaunchStages
    /\ \A p \in maintaining : \E m \in Maintainers : p \in holds[m]
    /\ \A p \in Profiles : running[p] # NoSession =>
          pc[running[p]] = "watched" /\ prof[running[p]] = p

\* A launch comes to an end: it is published or everything is undone.
LaunchSettles == \A s \in Sessions :
    pc[s] = "reserved" ~> pc[s] \in {"watched", "off", "orphan"}

\* Once its process is gone, or was told to go by Stop, a session gives the
\* profile back and closes its sessions.
EndedSessionsAreCleaned == \A s \in Sessions :
    pc[s] = "watched" /\ (s \notin alive \/ s \in doomed)
        ~> pc[s] = "off" /\ s \notin netOpen \cup cdpOpen /\ running[prof[s]] # s

(***************************************************************************)
(* Refinement: who has the data directory of each profile.                 *)
(***************************************************************************)
HasProfile(s) == pc[s] \in LaunchStages \cup {"watched"}

Lease == [p \in Profiles |->
    IF \E s \in Sessions : HasProfile(s) /\ prof[s] = p
    THEN CHOOSE s \in Sessions : HasProfile(s) /\ prof[s] = p
    ELSE IF \E m \in Maintainers : p \in holds[m]
         THEN CHOOSE m \in Maintainers : p \in holds[m]
         ELSE Free]

Abstract == INSTANCE ProfileLease WITH lease <- Lease

\* The three maps implement one lease per profile.
ImplementsLease == Abstract!Spec

-----------------------------------------------------------------------------
(***************************************************************************)
(* The invariant behind the safety properties.                             *)
(***************************************************************************)
\* The maps say exactly which goroutines have which profile.
MapsMatchGoroutines ==
    /\ \A s \in Sessions : pc[s] \in LaunchStages => prof[s] \in launching
    /\ \A s \in Sessions : pc[s] = "watched" => running[prof[s]] = s
    /\ \A m \in Maintainers : holds[m] \subseteq maintaining
    /\ \A p \in launching : \E s \in Sessions : prof[s] = p /\ pc[s] \in LaunchStages
    /\ \A p \in maintaining : \E m \in Maintainers : p \in holds[m]
    /\ \A p \in Profiles : running[p] # NoSession =>
          pc[running[p]] = "watched" /\ prof[running[p]] = p

\* Among sessions and among maintainers, a profile has one of them.
OneHolder ==
    /\ \A s, t \in Sessions : HasProfile(s) /\ HasProfile(t) /\ prof[s] = prof[t] => s = t
    /\ \A m, n \in Maintainers : holds[m] \cap holds[n] # {} => m = n
    /\ \A p \in Profiles : p \in launching => running[p] = NoSession
    /\ \A p \in maintaining : p \notin launching /\ running[p] = NoSession

\* What a session has open at each stage.
ResourcesMatchStage ==
    \A s \in Sessions :
        /\ s \in alive => pc[s] \in {"started", "attached", "recorded", "killing", "watched", "orphan"}
        /\ s \in netOpen => pc[s] \in {"prepared", "started", "attached", "recorded", "killing",
                                       "unwindNet", "watched", "closeCdp", "closeNet"}
        /\ s \in cdpOpen => pc[s] \in {"attached", "recorded", "watched", "closeCdp"}
        /\ pc[s] \in {"prepared", "started", "attached", "recorded", "killing", "watched"} =>
              s \in netOpen

IInv == TypeOK /\ MapsMatchGoroutines /\ OneHolder /\ ResourcesMatchStage
=============================================================================
