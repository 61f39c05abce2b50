------------------------ MODULE BrowserManagerProofs ------------------------
(***************************************************************************)
(* For any sets of profiles, launches, maintenance operations and stops:   *)
(* a profile's data directory is used by one of them at a time, and a      *)
(* Chromium never outlives its proxy bridge while the program runs.        *)
(***************************************************************************)
EXTENDS BrowserManager, TLAPS

\* No maps, no sessions.
LEMMA InitIInv == Init => IInv
<1> SUFFICES ASSUME Init PROVE IInv
  OBVIOUS
<1> USE NoSessionAssumption DEF Init
<1>1. TypeOK
  BY DEF TypeOK, Stages
<1>2. MapsMatchGoroutines
  BY DEF MapsMatchGoroutines, LaunchStages
<1>3. OneHolder
  BY DEF OneHolder, HasProfile, LaunchStages
<1>4. ResourcesMatchStage
  BY DEF ResourcesMatchStage
<1> QED
  BY <1>1, <1>2, <1>3, <1>4 DEF IInv

-----------------------------------------------------------------------------
(***************************************************************************)
(* Between the two critical sections of Launch the maps do not change, and *)
(* neither does who has the profile.                                       *)
(***************************************************************************)
LEMMA StageMove ==
    ASSUME IInv, NEW s \in Sessions, NEW from \in LaunchStages, NEW to \in LaunchStages,
           Goto(s, from, to), UNCHANGED <<launching, running, maintaining, prof, holds>>
    PROVE  MapsMatchGoroutines' /\ OneHolder' /\ pc' \in [Sessions -> Stages]
<1>1. pc \in [Sessions -> Stages] /\ pc[s] = from /\ pc' = [pc EXCEPT ![s] = to]
  BY DEF IInv, TypeOK, Goto
<1>2. from # "watched" /\ to # "watched" /\ to \in Stages
  BY DEF LaunchStages, Stages
<1>3. \A t \in Sessions : /\ pc'[t] \in LaunchStages <=> pc[t] \in LaunchStages
                          /\ pc'[t] = "watched" <=> pc[t] = "watched"
  BY <1>1, <1>2
<1>4. MapsMatchGoroutines'
  <2>1. \A p \in Profiles : running[p] # NoSession => running[p] \in Sessions
    BY DEF IInv, TypeOK
  <2> QED
    BY <1>3, <2>1 DEF IInv, MapsMatchGoroutines
<1>5. OneHolder'
  BY <1>3 DEF IInv, OneHolder, HasProfile
<1> QED
  BY <1>1, <1>2, <1>4, <1>5

\* The stages of wait after the entry is gone from running.
LEMMA TailMove ==
    ASSUME IInv, NEW s \in Sessions, NEW from, NEW to \in {"closeNet", "off"},
           from \in {"closeCdp", "closeNet"},
           Goto(s, from, to), UNCHANGED <<launching, running, maintaining, prof, holds>>
    PROVE  MapsMatchGoroutines' /\ OneHolder' /\ pc' \in [Sessions -> Stages]
<1>1. pc \in [Sessions -> Stages] /\ pc[s] = from /\ pc' = [pc EXCEPT ![s] = to]
  BY DEF IInv, TypeOK, Goto
<1>2. \A t \in Sessions : /\ pc'[t] \in LaunchStages <=> pc[t] \in LaunchStages
                          /\ pc'[t] = "watched" <=> pc[t] = "watched"
  BY <1>1 DEF LaunchStages
<1>3. MapsMatchGoroutines'
  <2>1. \A p \in Profiles : running[p] # NoSession => running[p] \in Sessions
    BY DEF IInv, TypeOK
  <2> QED
    BY <1>2, <2>1 DEF IInv, MapsMatchGoroutines
<1>4. OneHolder'
  BY <1>2 DEF IInv, OneHolder, HasProfile
<1> QED
  BY <1>1, <1>3, <1>4 DEF Stages

\* The middle of a launch: everything between reservation and publication.
LEMMA MiddleIInv ==
    ASSUME IInv, NEW s \in Sessions,
           \/ Prepare(s) \/ PrepareFails(s) \/ Start(s) \/ StartFails(s)
           \/ Attach(s) \/ AttachFails(s) \/ RecordLaunch(s) \/ RecordLaunchFails(s)
           \/ Reap(s) \/ UnwindNet(s)
    PROVE  IInv'
<1> USE DEF resources, reservations
<1>1. PICK from \in LaunchStages, to \in LaunchStages :
         /\ Goto(s, from, to)
         /\ UNCHANGED <<launching, running, maintaining, prof, holds, target>>
         /\ alive' \in {alive, alive \cup {s}}
         /\ netOpen' \in {netOpen, netOpen \cup {s}, netOpen \ {s}}
         /\ cdpOpen' \in {cdpOpen, cdpOpen \cup {s}, cdpOpen \ {s}}
         /\ doomed' \in {doomed, doomed \cup {s}}
  BY DEF Prepare, PrepareFails, Start, StartFails, Attach, AttachFails, RecordLaunch,
         RecordLaunchFails, Reap, UnwindNet, LaunchStages
<1>2. MapsMatchGoroutines' /\ OneHolder' /\ pc' \in [Sessions -> Stages]
  BY <1>1, StageMove
<1>3. TypeOK'
  BY <1>1, <1>2 DEF IInv, TypeOK
<1>4. pc \in [Sessions -> Stages]
  BY DEF IInv, TypeOK
<1>5. ResourcesMatchStage'
  <2> USE <1>4 DEF IInv, ResourcesMatchStage, Goto
  <2>1. CASE Prepare(s)
    BY <2>1 DEF Prepare
  <2>2. CASE PrepareFails(s)
    BY <2>2 DEF PrepareFails
  <2>3. CASE Start(s)
    BY <2>3 DEF Start
  <2>4. CASE StartFails(s)
    BY <2>4 DEF StartFails
  <2>5. CASE Attach(s)
    BY <2>5 DEF Attach
  <2>6. CASE AttachFails(s)
    BY <2>6 DEF AttachFails
  <2>7. CASE RecordLaunch(s)
    BY <2>7 DEF RecordLaunch
  <2>8. CASE RecordLaunchFails(s)
    BY <2>8 DEF RecordLaunchFails
  <2>9. CASE Reap(s)
    BY <2>9 DEF Reap
  <2>10. CASE UnwindNet(s)
    BY <2>10 DEF UnwindNet
  <2> QED
    BY <2>1, <2>2, <2>3, <2>4, <2>5, <2>6, <2>7, <2>8, <2>9, <2>10
<1> QED
  BY <1>2, <1>3, <1>5 DEF IInv

-----------------------------------------------------------------------------
(***************************************************************************)
(* The critical sections.                                                  *)
(***************************************************************************)
\* Launch reserves a profile that nobody has.
LEMMA LaunchIInv ==
    ASSUME IInv, NEW s \in Sessions, NEW p \in Profiles, Launch(s, p)
    PROVE  IInv'
<1>1. /\ p \notin launching /\ running[p] = NoSession /\ p \notin maintaining
      /\ pc[s] = "off" /\ pc' = [pc EXCEPT ![s] = "reserved"]
      /\ prof' = [prof EXCEPT ![s] = p] /\ launching' = launching \cup {p}
      /\ UNCHANGED <<running, maintaining, alive, netOpen, cdpOpen, doomed, holds, target>>
  BY DEF Launch, Closed, Goto, resources
<1>2. pc \in [Sessions -> Stages] /\ prof \in [Sessions -> Profiles]
  BY DEF IInv, TypeOK
<1>3. TypeOK'
  BY <1>1, <1>2 DEF IInv, TypeOK, Stages, LaunchStages
<1>4. /\ pc'[s] = "reserved" /\ prof'[s] = p
      /\ \A t \in Sessions \ {s} : pc'[t] = pc[t] /\ prof'[t] = prof[t]
  BY <1>1, <1>2
<1>5. MapsMatchGoroutines'
  <2>1. \A q \in Profiles : running[q] # NoSession => running[q] \in Sessions \ {s}
    BY <1>1 DEF IInv, TypeOK, MapsMatchGoroutines
  <2>2. \A q \in launching : \E t \in Sessions \ {s} : prof[t] = q /\ pc[t] \in LaunchStages
    BY <1>1 DEF IInv, MapsMatchGoroutines, LaunchStages
  <2> QED
    BY <1>1, <1>4, <2>1, <2>2 DEF IInv, MapsMatchGoroutines, LaunchStages
<1>6. OneHolder'
  <2>1. \A t \in Sessions \ {s} : HasProfile(t) => prof[t] # p
    BY <1>1, NoSessionAssumption DEF IInv, MapsMatchGoroutines, HasProfile
  <2> QED
    BY <1>1, <1>4, <2>1 DEF IInv, OneHolder, HasProfile
<1>7. ResourcesMatchStage'
  BY <1>1, <1>4 DEF IInv, ResourcesMatchStage
<1> QED
  BY <1>3, <1>5, <1>6, <1>7 DEF IInv

\* Publication moves the profile from launching to running.
LEMMA PublishIInv == ASSUME IInv, NEW s \in Sessions, Publish(s) PROVE IInv'
<1> DEFINE p == prof[s]
<1>1. /\ pc[s] = "recorded" /\ pc' = [pc EXCEPT ![s] = "watched"]
      /\ launching' = launching \ {p} /\ running' = [running EXCEPT ![p] = s]
      /\ UNCHANGED <<maintaining, prof, alive, netOpen, cdpOpen, doomed, holds, target>>
  BY DEF Publish, Goto, resources
<1>2. /\ pc \in [Sessions -> Stages] /\ prof \in [Sessions -> Profiles] /\ p \in Profiles
      /\ running \in [Profiles -> Sessions \cup {NoSession}]
  BY DEF IInv, TypeOK
<1>3. TypeOK'
  BY <1>1, <1>2 DEF IInv, TypeOK, Stages
<1>4. p \in launching /\ running[p] = NoSession /\ p \notin maintaining
  BY <1>1, <1>2 DEF IInv, MapsMatchGoroutines, OneHolder, LaunchStages
<1>5. \A t \in Sessions \ {s} : HasProfile(t) => prof[t] # p
  BY <1>1 DEF IInv, OneHolder, HasProfile, LaunchStages
<1>6. \A t \in Sessions : HasProfile(t)' <=> HasProfile(t)
  BY <1>1, <1>2 DEF HasProfile, LaunchStages
<1>7. MapsMatchGoroutines'
  <2>1. \A t \in Sessions : pc'[t] \in LaunchStages => prof'[t] \in launching'
    BY <1>1, <1>2, <1>5 DEF IInv, MapsMatchGoroutines, HasProfile, LaunchStages
  <2>2. \A t \in Sessions : pc'[t] = "watched" => running'[prof'[t]] = t
    BY <1>1, <1>2, <1>5 DEF IInv, MapsMatchGoroutines, HasProfile
  <2>3. \A q \in launching' : \E t \in Sessions : prof'[t] = q /\ pc'[t] \in LaunchStages
    BY <1>1, <1>2 DEF IInv, MapsMatchGoroutines
  <2>4. \A q \in Profiles : running'[q] # NoSession =>
            pc'[running'[q]] = "watched" /\ prof'[running'[q]] = q
    BY <1>1, <1>2 DEF IInv, MapsMatchGoroutines
  <2> QED
    BY <1>1, <2>1, <2>2, <2>3, <2>4 DEF IInv, MapsMatchGoroutines
<1>8. OneHolder'
  BY <1>1, <1>2, <1>4, <1>6 DEF IInv, OneHolder
<1>9. ResourcesMatchStage'
  BY <1>1, <1>2 DEF IInv, ResourcesMatchStage
<1> QED
  BY <1>3, <1>7, <1>8, <1>9 DEF IInv

\* The deferred delete of a failed launch.
LEMMA UnwindLaunchingIInv == ASSUME IInv, NEW s \in Sessions, UnwindLaunching(s) PROVE IInv'
<1> DEFINE p == prof[s]
<1>1. /\ pc[s] = "unwindLaunching" /\ pc' = [pc EXCEPT ![s] = "off"]
      /\ launching' = launching \ {p} /\ doomed' = doomed \ {s}
      /\ UNCHANGED <<running, maintaining, prof, alive, netOpen, cdpOpen, holds, target>>
  BY DEF UnwindLaunching, Goto
<1>2. /\ pc \in [Sessions -> Stages] /\ prof \in [Sessions -> Profiles] /\ p \in Profiles
      /\ running \in [Profiles -> Sessions \cup {NoSession}]
  BY DEF IInv, TypeOK
<1>3. TypeOK'
  BY <1>1, <1>2 DEF IInv, TypeOK, Stages
<1>4. \A t \in Sessions \ {s} : HasProfile(t) => prof[t] # p
  BY <1>1 DEF IInv, OneHolder, HasProfile, LaunchStages
<1>5. MapsMatchGoroutines'
  <2>1. \A t \in Sessions : pc'[t] \in LaunchStages => prof'[t] \in launching'
    BY <1>1, <1>2, <1>4 DEF IInv, MapsMatchGoroutines, HasProfile, LaunchStages
  <2>2. \A t \in Sessions : pc'[t] = "watched" => running'[prof'[t]] = t
    BY <1>1, <1>2 DEF IInv, MapsMatchGoroutines
  <2>3. \A q \in launching' : \E t \in Sessions : prof'[t] = q /\ pc'[t] \in LaunchStages
    BY <1>1, <1>2 DEF IInv, MapsMatchGoroutines
  <2>4. \A q \in Profiles : running'[q] # NoSession =>
            pc'[running'[q]] = "watched" /\ prof'[running'[q]] = q
    BY <1>1, <1>2 DEF IInv, MapsMatchGoroutines
  <2> QED
    BY <1>1, <2>1, <2>2, <2>3, <2>4 DEF IInv, MapsMatchGoroutines
<1>6. OneHolder'
  BY <1>1, <1>2 DEF IInv, OneHolder, HasProfile, LaunchStages
<1>7. ResourcesMatchStage'
  BY <1>1, <1>2 DEF IInv, ResourcesMatchStage
<1> QED
  BY <1>3, <1>5, <1>6, <1>7 DEF IInv

\* wait takes the ended process out of running.
LEMMA WaitIInv ==
    ASSUME IInv, NEW s \in Sessions, WaitReturns(s) \/ CloseCdp(s) \/ CloseNet(s)
    PROVE  IInv'
<1>0. /\ pc \in [Sessions -> Stages] /\ prof \in [Sessions -> Profiles]
      /\ running \in [Profiles -> Sessions \cup {NoSession}]
  BY DEF IInv, TypeOK
<1>1. CASE WaitReturns(s)
  <2> DEFINE p == prof[s]
  <2>1. /\ s \notin alive /\ pc[s] = "watched" /\ running[p] = s
        /\ pc' = [pc EXCEPT ![s] = "closeCdp"] /\ running' = [running EXCEPT ![p] = NoSession]
        /\ UNCHANGED <<launching, maintaining, prof, alive, netOpen, cdpOpen, doomed, holds, target>>
    BY <1>1, <1>0 DEF WaitReturns, Goto, resources, IInv, MapsMatchGoroutines
  <2>2. TypeOK'
    BY <1>0, <2>1 DEF IInv, TypeOK, Stages
  <2>3. MapsMatchGoroutines'
    <3>1. \A t \in Sessions : pc'[t] \in LaunchStages => prof'[t] \in launching'
      BY <1>0, <2>1 DEF IInv, MapsMatchGoroutines, LaunchStages
    <3>2. \A t \in Sessions : pc'[t] = "watched" => running'[prof'[t]] = t
      BY <1>0, <2>1 DEF IInv, MapsMatchGoroutines
    <3>3. \A q \in launching' : \E t \in Sessions : prof'[t] = q /\ pc'[t] \in LaunchStages
      BY <1>0, <2>1 DEF IInv, MapsMatchGoroutines, LaunchStages
    <3>4. \A q \in Profiles : running'[q] # NoSession =>
              pc'[running'[q]] = "watched" /\ prof'[running'[q]] = q
      BY <1>0, <2>1 DEF IInv, MapsMatchGoroutines
    <3> QED
      BY <2>1, <3>1, <3>2, <3>3, <3>4 DEF IInv, MapsMatchGoroutines
  <2>4. OneHolder'
    BY <1>0, <2>1 DEF IInv, OneHolder, HasProfile, LaunchStages
  <2>5. ResourcesMatchStage'
    BY <1>0, <2>1 DEF IInv, ResourcesMatchStage
  <2> QED
    BY <2>2, <2>3, <2>4, <2>5 DEF IInv
<1>2. CASE CloseCdp(s)
  <2>1. MapsMatchGoroutines' /\ OneHolder' /\ pc' \in [Sessions -> Stages]
    BY <1>2, TailMove DEF CloseCdp, reservations
  <2>2. TypeOK'
    BY <1>2, <2>1 DEF CloseCdp, reservations, IInv, TypeOK
  <2>3. ResourcesMatchStage'
    BY <1>0, <1>2 DEF CloseCdp, Goto, IInv, ResourcesMatchStage
  <2> QED
    BY <2>1, <2>2, <2>3 DEF IInv
<1>3. CASE CloseNet(s)
  <2>1. MapsMatchGoroutines' /\ OneHolder' /\ pc' \in [Sessions -> Stages]
    BY <1>3, TailMove DEF CloseNet, reservations
  <2>2. TypeOK'
    BY <1>3, <2>1 DEF CloseNet, reservations, IInv, TypeOK
  <2>3. ResourcesMatchStage'
    BY <1>0, <1>3 DEF CloseNet, Goto, IInv, ResourcesMatchStage
  <2> QED
    BY <2>1, <2>2, <2>3 DEF IInv
<1> QED
  BY <1>1, <1>2, <1>3

\* BeginMaintenance reserves a closed profile; its release func frees it.
LEMMA MaintenanceIInv ==
    ASSUME IInv, NEW m \in Maintainers, NEW p \in Profiles,
           BeginMaintenance(m, p) \/ EndMaintenance(m, p)
    PROVE  IInv'
<1>1. /\ maintaining \subseteq Profiles /\ holds \in [Maintainers -> SUBSET Profiles]
      /\ UNCHANGED <<launching, running, pc, prof, alive, netOpen, cdpOpen, doomed, target>>
  BY DEF IInv, TypeOK, BeginMaintenance, EndMaintenance, resources
<1>2. ResourcesMatchStage'
  BY <1>1 DEF IInv, ResourcesMatchStage
<1>3. CASE BeginMaintenance(m, p)
  <2>1. /\ p \notin launching /\ running[p] = NoSession /\ p \notin maintaining
        /\ maintaining' = maintaining \cup {p}
        /\ holds' = [holds EXCEPT ![m] = @ \cup {p}]
    BY <1>3 DEF BeginMaintenance, Closed
  <2>2. TypeOK'
    BY <1>1, <2>1 DEF IInv, TypeOK
  <2>3. \A n \in Maintainers : p \notin holds[n]
    BY <2>1 DEF IInv, MapsMatchGoroutines
  <2>4. holds'[m] = holds[m] \cup {p} /\ \A n \in Maintainers \ {m} : holds'[n] = holds[n]
    BY <1>1, <2>1
  <2>5. MapsMatchGoroutines'
    <3>1. \A q \in maintaining' : \E n \in Maintainers : q \in holds'[n]
      BY <2>1, <2>4 DEF IInv, MapsMatchGoroutines
    <3> QED
      BY <1>1, <2>1, <2>4, <3>1 DEF IInv, MapsMatchGoroutines
  <2>6. OneHolder'
    <3>1. \A n, o \in Maintainers : holds'[n] \cap holds'[o] # {} => n = o
      BY <2>3, <2>4 DEF IInv, OneHolder
    <3> QED
      BY <1>1, <2>1, <3>1 DEF IInv, OneHolder, HasProfile
  <2> QED
    BY <1>2, <2>2, <2>5, <2>6 DEF IInv
<1>4. CASE EndMaintenance(m, p)
  <2>1. /\ p \in holds[m] /\ maintaining' = maintaining \ {p}
        /\ holds' = [holds EXCEPT ![m] = @ \ {p}]
    BY <1>4 DEF EndMaintenance
  <2>2. TypeOK'
    BY <1>1, <2>1 DEF IInv, TypeOK
  <2>3. \A n \in Maintainers \ {m} : p \notin holds[n]
    BY <2>1 DEF IInv, OneHolder
  <2>4. holds'[m] = holds[m] \ {p} /\ \A n \in Maintainers \ {m} : holds'[n] = holds[n]
    BY <1>1, <2>1
  <2>5. MapsMatchGoroutines'
    <3>1. \A n \in Maintainers : holds'[n] \subseteq maintaining'
      BY <2>1, <2>3, <2>4 DEF IInv, MapsMatchGoroutines
    <3>2. \A q \in maintaining' : \E n \in Maintainers : q \in holds'[n]
      BY <2>1, <2>4 DEF IInv, MapsMatchGoroutines
    <3> QED
      BY <1>1, <3>1, <3>2 DEF IInv, MapsMatchGoroutines
  <2>6. OneHolder'
    <3>1. \A n, o \in Maintainers : holds'[n] \cap holds'[o] # {} => n = o
      BY <2>4 DEF IInv, OneHolder
    <3> QED
      BY <1>1, <2>1, <3>1 DEF IInv, OneHolder, HasProfile
  <2> QED
    BY <1>2, <2>2, <2>5, <2>6 DEF IInv
<1> QED
  BY <1>3, <1>4

-----------------------------------------------------------------------------
(***************************************************************************)
(* Stop, the end of a process, the end of the program.                     *)
(***************************************************************************)
\* A stop only asks.
LEMMA StopIInv ==
    ASSUME IInv, NEW t \in Stoppers,
           StopAsks(t) \/ \E p \in Profiles : StopLooks(t, p)
    PROVE  IInv'
<1>1. /\ UNCHANGED <<launching, running, maintaining, pc, prof, alive, netOpen, cdpOpen, holds>>
      /\ doomed' \subseteq Sessions /\ target' \in [Stoppers -> Sessions \cup {NoSession}]
  BY DEF StopAsks, StopLooks, reservations, resources, IInv, TypeOK
<1>2. TypeOK'
  BY <1>1 DEF IInv, TypeOK
<1>3. MapsMatchGoroutines' /\ OneHolder' /\ ResourcesMatchStage'
  BY <1>1 DEF IInv, MapsMatchGoroutines, OneHolder, HasProfile, ResourcesMatchStage
<1> QED
  BY <1>2, <1>3 DEF IInv

\* Chromium may end at any stage; only an orphan's session ends with it.
LEMMA ExitIInv == ASSUME IInv, NEW s \in Sessions, Exit(s) PROVE IInv'
<1>1. /\ alive' = alive \ {s} /\ s \in alive
      /\ pc' = IF pc[s] = "orphan" THEN [pc EXCEPT ![s] = "off"] ELSE pc
      /\ UNCHANGED <<launching, running, maintaining, prof, netOpen, cdpOpen, holds, target>>
      /\ doomed' \subseteq Sessions
  BY DEF Exit, reservations, IInv, TypeOK
<1>2. pc \in [Sessions -> Stages] /\ \A p \in Profiles : running[p] \in Sessions \cup {NoSession}
  BY DEF IInv, TypeOK
<1>3. TypeOK'
  BY <1>1, <1>2 DEF IInv, TypeOK, Stages
<1>4. \A t \in Sessions : /\ pc'[t] \in LaunchStages <=> pc[t] \in LaunchStages
                          /\ pc'[t] = "watched" <=> pc[t] = "watched"
  BY <1>1, <1>2 DEF LaunchStages
<1>5. MapsMatchGoroutines'
  BY <1>1, <1>2, <1>4 DEF IInv, MapsMatchGoroutines
<1>6. OneHolder'
  BY <1>1, <1>4 DEF IInv, OneHolder, HasProfile
<1>7. ResourcesMatchStage'
  BY <1>1, <1>2 DEF IInv, ResourcesMatchStage
<1> QED
  BY <1>3, <1>5, <1>6, <1>7 DEF IInv

\* A new run of the program knows nothing; processes it lost are orphans.
LEMMA RestartIInv == ASSUME IInv, Restart PROVE IInv'
<1> USE NoSessionAssumption DEF Restart
<1>1. TypeOK'
  BY DEF IInv, TypeOK, Stages
<1>2. \A s \in Sessions : pc'[s] \in {"orphan", "off"} /\ (s \in alive => pc'[s] = "orphan")
  OBVIOUS
<1>3. MapsMatchGoroutines'
  BY <1>2 DEF MapsMatchGoroutines, LaunchStages
<1>4. OneHolder'
  BY <1>2 DEF OneHolder, HasProfile, LaunchStages
<1>5. ResourcesMatchStage'
  BY <1>2 DEF ResourcesMatchStage
<1> QED
  BY <1>1, <1>3, <1>4, <1>5 DEF IInv

-----------------------------------------------------------------------------
\* Every step keeps the invariant.
LEMMA NextIInv == IInv /\ [Next]_vars => IInv'
<1> SUFFICES ASSUME IInv, [Next]_vars PROVE IInv'
  OBVIOUS
<1>1. ASSUME NEW p \in Profiles, NEW s \in Sessions, Launch(s, p) PROVE IInv'
  BY <1>1, LaunchIInv
<1>2. ASSUME NEW p \in Profiles, NEW m \in Maintainers,
             BeginMaintenance(m, p) \/ EndMaintenance(m, p)
      PROVE  IInv'
  BY <1>2, MaintenanceIInv
<1>3. ASSUME NEW t \in Stoppers, StopAsks(t) \/ \E p \in Profiles : StopLooks(t, p)
      PROVE  IInv'
  BY <1>3, StopIInv
<1>4. ASSUME NEW s \in Sessions, Step(s) PROVE IInv'
  BY <1>4, MiddleIInv, PublishIInv, UnwindLaunchingIInv, WaitIInv DEF Step
<1>5. ASSUME NEW s \in Sessions, Exit(s) PROVE IInv'
  BY <1>5, ExitIInv
<1>6. CASE Restart
  BY <1>6, RestartIInv
<1>7. CASE UNCHANGED vars
  BY <1>7 DEF vars, reservations, resources, IInv, TypeOK, MapsMatchGoroutines, OneHolder,
              HasProfile, ResourcesMatchStage
<1> QED
  BY <1>1, <1>2, <1>3, <1>4, <1>5, <1>6, <1>7 DEF Next

\* The invariant holds in every reachable state, for any constants.
THEOREM InductiveInvariant == Spec => []IInv
  BY InitIInv, NextIInv, PTL DEF Spec

\* Every variable keeps its type.
THEOREM TypeCorrect == Spec => []TypeOK
<1>1. IInv => TypeOK
  BY DEF IInv
<1> QED
  BY <1>1, InductiveInvariant, PTL

\* The process of a launch never meets another one on the same directory.
THEOREM OneBrowser == Spec => []OneBrowserPerProfile
<1>1. IInv => OneBrowserPerProfile
  <2>1. ASSUME IInv, NEW s \in Managed PROVE HasProfile(s) /\ s \in Sessions
    BY <2>1 DEF IInv, TypeOK, ResourcesMatchStage, Managed, HasProfile, LaunchStages
  <2> QED
    BY <2>1 DEF IInv, OneHolder, OneBrowserPerProfile
<1> QED
  BY <1>1, InductiveInvariant, PTL

\* Deletion, cleaning, export and import never work under a browser.
THEOREM ExclusiveMaintenance == Spec => []MaintenanceExcludesBrowser
<1>1. IInv => MaintenanceExcludesBrowser
  <2> SUFFICES ASSUME IInv, NEW m \in Maintainers, NEW p \in holds[m]
               PROVE  /\ \A s \in Managed : prof[s] # p
                      /\ \A n \in Maintainers \ {m} : p \notin holds[n]
    BY DEF MaintenanceExcludesBrowser
  <2>1. p \in maintaining /\ p \notin launching /\ running[p] = NoSession /\ p \in Profiles
    BY DEF IInv, TypeOK, MapsMatchGoroutines, OneHolder
  <2>2. ASSUME NEW s \in Managed PROVE HasProfile(s) /\ s \in Sessions
    BY <2>2 DEF IInv, TypeOK, ResourcesMatchStage, Managed, HasProfile, LaunchStages
  <2>3. \A s \in Managed : prof[s] # p
    BY <2>1, <2>2, NoSessionAssumption DEF IInv, MapsMatchGoroutines, HasProfile
  <2>4. \A n \in Maintainers \ {m} : p \notin holds[n]
    BY DEF IInv, OneHolder
  <2> QED
    BY <2>3, <2>4
<1> QED
  BY <1>1, InductiveInvariant, PTL

\* No Chromium of this run of the program is ever without its bridge.
THEOREM BridgeStands == Spec => []BridgeOutlivesBrowser
<1>1. IInv => BridgeOutlivesBrowser
  BY DEF IInv, TypeOK, ResourcesMatchStage, BridgeOutlivesBrowser, Managed
<1> QED
  BY <1>1, InductiveInvariant, PTL

\* Whatever step a launch fails at, nothing of it stays.
THEOREM NothingStays == Spec => []NothingLeaks
<1>1. IInv => NothingLeaks
  BY DEF IInv, MapsMatchGoroutines, ResourcesMatchStage, NothingLeaks
<1> QED
  BY <1>1, InductiveInvariant, PTL

-----------------------------------------------------------------------------
(***************************************************************************)
(* The refinement of ProfileLease                                          *)
(***************************************************************************)
\* h is a session or a maintenance operation that has profile p.
Claims(h, p) ==
    \/ h \in Sessions /\ HasProfile(h) /\ prof[h] = p
    \/ h \in Maintainers /\ p \in holds[h]

\* The lease of a profile is the one who claims it.
LeaseMap ==
    \A p \in Profiles :
        /\ Lease[p] \in Sessions \cup Maintainers \cup {Free}
        /\ \A h \in Sessions \cup Maintainers : Lease[p] = h <=> Claims(h, p)

\* Nobody claims what another one has, so the choice in Lease is none.
LEMMA ClaimsExclude ==
    ASSUME IInv, NEW p \in Profiles,
           NEW h \in Sessions \cup Maintainers, NEW g \in Sessions \cup Maintainers,
           Claims(h, p), Claims(g, p)
    PROVE  h = g
<1>1. ASSUME NEW s \in Sessions, HasProfile(s), prof[s] = p PROVE \A m \in Maintainers : p \notin holds[m]
  <2>1. s # NoSession
    BY NoSessionAssumption
  <2>2. p \in launching \/ running[p] # NoSession
    BY <1>1, <2>1 DEF IInv, MapsMatchGoroutines, HasProfile
  <2>3. p \notin maintaining
    BY <2>2 DEF IInv, OneHolder
  <2> QED
    BY <2>3 DEF IInv, MapsMatchGoroutines
<1>2. CASE h \in Sessions /\ HasProfile(h) /\ prof[h] = p
  <2>1. ~(g \in Maintainers /\ p \in holds[g])
    BY <1>1, <1>2
  <2>2. g \in Sessions /\ HasProfile(g) /\ prof[g] = p
    BY <2>1 DEF Claims
  <2> QED
    BY <1>2, <2>2 DEF IInv, OneHolder
<1>3. CASE h \in Maintainers /\ p \in holds[h]
  <2>1. ~(g \in Sessions /\ HasProfile(g) /\ prof[g] = p)
    BY <1>1, <1>3
  <2>2. g \in Maintainers /\ p \in holds[g]
    BY <2>1 DEF Claims
  <2> QED
    BY <1>3, <2>2 DEF IInv, OneHolder
<1> QED
  BY <1>2, <1>3 DEF Claims

LEMMA LeaseIsClaim == IInv => LeaseMap
<1> SUFFICES ASSUME IInv, NEW p \in Profiles
             PROVE  /\ Lease[p] \in Sessions \cup Maintainers \cup {Free}
                    /\ \A h \in Sessions \cup Maintainers : Lease[p] = h <=> Claims(h, p)
  BY DEF LeaseMap
<1>1. CASE \E s \in Sessions : HasProfile(s) /\ prof[s] = p
  <2>1. Lease[p] \in Sessions /\ HasProfile(Lease[p]) /\ prof[Lease[p]] = p
    BY <1>1 DEF Lease
  <2>2. Claims(Lease[p], p)
    BY <2>1 DEF Claims
  <2> QED
    BY <2>1, <2>2, ClaimsExclude
<1>2. CASE /\ ~\E s \in Sessions : HasProfile(s) /\ prof[s] = p
           /\ \E m \in Maintainers : p \in holds[m]
  <2>1. Lease[p] \in Maintainers /\ p \in holds[Lease[p]]
    BY <1>2 DEF Lease
  <2>2. Claims(Lease[p], p)
    BY <2>1 DEF Claims
  <2> QED
    BY <2>1, <2>2, ClaimsExclude
<1>3. CASE /\ ~\E s \in Sessions : HasProfile(s) /\ prof[s] = p
           /\ ~\E m \in Maintainers : p \in holds[m]
  <2>1. Lease[p] = Free
    BY <1>3 DEF Lease
  <2>2. \A h : ~Claims(h, p)
    BY <1>3 DEF Claims
  <2> QED
    BY <2>1, <2>2, HoldersAssumption
<1> QED
  BY <1>1, <1>2, <1>3

\* In every step of Next at most one claim begins or ends.
LEMMA ClaimMove ==
    ASSUME LeaseMap, LeaseMap',
           NEW a \in Sessions \cup Maintainers, NEW q \in Profiles,
           \A h \in Sessions \cup Maintainers, p \in Profiles :
               ~(h = a /\ p = q) => (Claims(h, p)' <=> Claims(h, p))
    PROVE  /\ (Claims(a, q)' <=> Claims(a, q)) => Lease' = Lease
           /\ Claims(a, q) /\ ~Claims(a, q)' => Abstract!Return(a, q)
           /\ ~Claims(a, q) /\ Claims(a, q)' /\ Lease[q] = Free => Abstract!Take(a, q)
<1>1. /\ Lease = [p \in Profiles |-> Lease[p]]
      /\ Lease' = [p \in Profiles |-> Lease'[p]]
  BY DEF Lease
<1>2. \A p \in Profiles :
        /\ Lease[p] \in Sessions \cup Maintainers \cup {Free}
        /\ \A h \in Sessions \cup Maintainers : Lease[p] = h <=> Claims(h, p)
  BY DEF LeaseMap
<1>3. \A p \in Profiles :
        /\ Lease'[p] \in Sessions \cup Maintainers \cup {Free}
        /\ \A h \in Sessions \cup Maintainers : Lease'[p] = h <=> Claims(h, p)'
  BY DEF LeaseMap
<1>4. \A p \in Profiles \ {q} : Lease'[p] = Lease[p]
  BY <1>2, <1>3
<1>5. ASSUME Claims(a, q)' <=> Claims(a, q) PROVE Lease' = Lease
  <2>1. Lease'[q] = Lease[q]
    BY <1>2, <1>3, <1>5
  <2> QED
    BY <1>1, <1>4, <2>1
<1>6. ASSUME Claims(a, q), ~Claims(a, q)' PROVE Abstract!Return(a, q)
  <2>1. Lease[q] = a
    BY <1>2, <1>6
  <2>2. ASSUME NEW h \in Sessions \cup Maintainers PROVE Lease'[q] # h
    <3>1. h # a => (Claims(h, q)' <=> Claims(h, q))
      OBVIOUS
    <3> QED
      BY <1>2, <1>3, <1>6, <2>1, <3>1
  <2>3. Lease'[q] = Free
    BY <1>3, <2>2
  <2>4. Lease' = [Lease EXCEPT ![q] = Free]
    BY <1>1, <1>4, <2>3
  <2> QED
    BY <2>1, <2>4 DEF Abstract!Return
<1>7. ASSUME ~Claims(a, q), Claims(a, q)', Lease[q] = Free PROVE Abstract!Take(a, q)
  <2>1. Lease'[q] = a
    BY <1>3, <1>7
  <2>2. Lease' = [Lease EXCEPT ![q] = a]
    BY <1>1, <1>4, <2>1
  <2> QED
    BY <1>7, <2>2 DEF Abstract!Take
<1> QED
  BY <1>5, <1>6, <1>7

\* A profile that is closed has no lease.
LEMMA ClosedIsFree ==
    ASSUME IInv, NEW p \in Profiles, Closed(p)
    PROVE  Lease[p] = Free /\ \A h : ~Claims(h, p)
<1>1. \A s \in Sessions : ~(HasProfile(s) /\ prof[s] = p)
  BY NoSessionAssumption DEF Closed, IInv, MapsMatchGoroutines, HasProfile
<1>2. \A m \in Maintainers : p \notin holds[m]
  BY DEF Closed, IInv, MapsMatchGoroutines
<1> QED
  BY <1>1, <1>2 DEF Lease, Claims

\* Launch, BeginMaintenance and Publish decide under one mutex: at every
\* moment a data directory is leased to one user, and every lease is returned
\* by the one who took it, or dropped with the program.
THEOREM Implementation == Spec => ImplementsLease
<1>1. Init => Abstract!Init
  <2> SUFFICES ASSUME Init PROVE Lease = [p \in Profiles |-> Free]
    BY DEF Abstract!Init
  <2>1. /\ \A s \in Sessions : ~HasProfile(s)
        /\ \A m \in Maintainers, p \in Profiles : p \notin holds[m]
    BY DEF Init, HasProfile, LaunchStages
  <2> QED
    BY <2>1 DEF Lease
<1>2. IInv /\ IInv' /\ [Next]_vars => [Abstract!Next]_Lease
  <2> SUFFICES ASSUME IInv, IInv', [Next]_vars PROVE Abstract!Next \/ Lease' = Lease
    OBVIOUS
  <2>1. LeaseMap /\ LeaseMap'
    <3>1. LeaseMap
      BY LeaseIsClaim
    <3>2. LeaseMap'
      BY LeaseIsClaim, PTL
    <3> QED
      BY <3>1, <3>2
  <2>2. ASSUME NEW a \in Sessions \cup Maintainers, NEW q \in Profiles,
               Abstract!Take(a, q) \/ Abstract!Return(a, q)
        PROVE  Abstract!Next
    BY <2>2 DEF Abstract!Next, Abstract!Holders
  <2>3. \A s \in Sessions : prof[s] \in Profiles
    BY DEF IInv, TypeOK
  <2>4. ASSUME NEW s \in Sessions, NEW from \in Stages, NEW to \in Stages,
               Goto(s, from, to), UNCHANGED <<prof, holds>>,
               to \in LaunchStages \cup {"watched"} => from \in LaunchStages \cup {"watched"}
        PROVE  Abstract!Next \/ Lease' = Lease
    <3>1. PICK q \in Profiles : q = prof[s]
      BY <2>3
    <3>2. \A h \in Sessions \cup Maintainers, p \in Profiles :
            ~(h = s /\ p = q) => (Claims(h, p)' <=> Claims(h, p))
      BY <2>4, <3>1, HoldersAssumption DEF Claims, HasProfile, Goto, IInv, TypeOK
    <3>3. Claims(s, q)' => Claims(s, q)
      BY <2>4, <3>1, HoldersAssumption DEF Claims, HasProfile, Goto, IInv, TypeOK
    <3>4. \/ Claims(s, q)' <=> Claims(s, q)
          \/ Claims(s, q) /\ ~Claims(s, q)'
      BY <3>3
    <3> QED
      BY <2>1, <2>2, <3>2, <3>4, ClaimMove
  <2>5. ASSUME NEW s \in Sessions, Step(s) PROVE Abstract!Next \/ Lease' = Lease
    <3>1. UNCHANGED <<prof, holds>>
      BY <2>5 DEF Step, Prepare, PrepareFails, Start, StartFails, Attach, AttachFails,
         RecordLaunch, RecordLaunchFails, Reap, UnwindNet, UnwindLaunching, Publish,
         WaitReturns, CloseCdp, CloseNet
    <3>2. \E from \in Stages, to \in Stages :
            /\ Goto(s, from, to)
            /\ to \in LaunchStages \cup {"watched"} => from \in LaunchStages \cup {"watched"}
      <4>1. CASE Prepare(s) \/ PrepareFails(s) \/ Start(s) \/ StartFails(s) \/ Attach(s)
        BY <4>1 DEF Prepare, PrepareFails, Start, StartFails, Attach, Stages, LaunchStages
      <4>2. CASE AttachFails(s) \/ RecordLaunch(s) \/ RecordLaunchFails(s) \/ Reap(s) \/ UnwindNet(s)
        BY <4>2 DEF AttachFails, RecordLaunch, RecordLaunchFails, Reap, UnwindNet, Stages, LaunchStages
      <4>3. CASE UnwindLaunching(s) \/ Publish(s) \/ WaitReturns(s) \/ CloseCdp(s) \/ CloseNet(s)
        BY <4>3 DEF UnwindLaunching, Publish, WaitReturns, CloseCdp, CloseNet, Stages, LaunchStages
      <4> QED
        BY <2>5, <4>1, <4>2, <4>3 DEF Step
    <3> QED
      BY <2>4, <3>1, <3>2
  <2>6. ASSUME NEW s \in Sessions, NEW p \in Profiles, Launch(s, p) PROVE Abstract!Next
    <3>1. Lease[p] = Free /\ ~Claims(s, p)
      BY <2>6, ClosedIsFree DEF Launch
    <3>2. Claims(s, p)'
      BY <2>6 DEF Launch, Goto, Claims, HasProfile, LaunchStages, IInv, TypeOK
    <3>3. ~HasProfile(s)
      BY <2>6 DEF Launch, Goto, HasProfile, LaunchStages
    <3>4. \A h \in Sessions \cup Maintainers, r \in Profiles :
            ~(h = s /\ r = p) => (Claims(h, r)' <=> Claims(h, r))
      <4>1. ASSUME NEW h \in Sessions, NEW r \in Profiles, ~(h = s /\ r = p)
            PROVE  HasProfile(h)' /\ prof'[h] = r <=> HasProfile(h) /\ prof[h] = r
        BY <2>6, <3>3, <4>1 DEF Launch, Goto, HasProfile, LaunchStages, IInv, TypeOK
      <4>2. holds' = holds
        BY <2>6 DEF Launch
      <4> QED
        BY <4>1, <4>2 DEF Claims
    <3> QED
      BY <2>1, <2>2, <3>1, <3>2, <3>4, ClaimMove
  <2>7. ASSUME NEW m \in Maintainers, NEW p \in Profiles,
               BeginMaintenance(m, p) \/ EndMaintenance(m, p)
        PROVE  Abstract!Next
    <3>1. UNCHANGED <<pc, prof>> /\ m \notin Sessions
      BY <2>7, HoldersAssumption DEF BeginMaintenance, EndMaintenance
    <3>2. \A h \in Sessions \cup Maintainers, r \in Profiles :
            ~(h = m /\ r = p) => (Claims(h, r)' <=> Claims(h, r))
      BY <2>7, <3>1 DEF BeginMaintenance, EndMaintenance, Claims, HasProfile, IInv, TypeOK
    <3>3. CASE BeginMaintenance(m, p)
      <4>1. Lease[p] = Free /\ ~Claims(m, p)
        BY <3>3, ClosedIsFree DEF BeginMaintenance
      <4>2. Claims(m, p)'
        BY <3>3 DEF BeginMaintenance, Claims, IInv, TypeOK
      <4> QED
        BY <2>1, <2>2, <3>2, <4>1, <4>2, ClaimMove
    <3>4. CASE EndMaintenance(m, p)
      <4>1. Claims(m, p)
        BY <3>4 DEF EndMaintenance, Claims
      <4>2. ~Claims(m, p)'
        BY <3>1, <3>4 DEF EndMaintenance, Claims, IInv, TypeOK
      <4> QED
        BY <2>1, <2>2, <3>2, <4>1, <4>2, ClaimMove
    <3> QED
      BY <2>7, <3>3, <3>4
  <2>8. CASE Restart
    <3>1. \A s \in Sessions : ~HasProfile(s)'
      BY <2>8 DEF Restart, HasProfile, LaunchStages
    <3>2. \A m \in Maintainers, p \in Profiles : p \notin holds'[m]
      BY <2>8 DEF Restart
    <3>3. Lease' = [p \in Profiles |-> Free]
      BY <3>1, <3>2 DEF Lease
    <3> QED
      BY <3>3 DEF Abstract!Next, Abstract!Drop
  <2>9. ASSUME UNCHANGED <<prof, holds>>, \A s \in Sessions : HasProfile(s)' <=> HasProfile(s)
        PROVE  Lease' = Lease
    <3>1. \A h \in Sessions \cup Maintainers, p \in Profiles : Claims(h, p)' <=> Claims(h, p)
      BY <2>9 DEF Claims
    <3>2. \A p \in Profiles : Lease'[p] = Lease[p]
      BY <2>1, <3>1 DEF LeaseMap
    <3>3. /\ Lease = [p \in Profiles |-> Lease[p]]
          /\ Lease' = [p \in Profiles |-> Lease'[p]]
      BY DEF Lease
    <3> QED
      BY <3>2, <3>3
  <2>10. ASSUME NEW s \in Sessions, Exit(s) PROVE Lease' = Lease
    <3>1. UNCHANGED <<prof, holds>>
      BY <2>10 DEF Exit
    <3>2. \A t \in Sessions : HasProfile(t)' <=> HasProfile(t)
      BY <2>10 DEF Exit, HasProfile, LaunchStages, IInv, TypeOK
    <3> QED
      BY <2>9, <3>1, <3>2
  <2>11. ASSUME \E t \in Stoppers : StopAsks(t) \/ \E p \in Profiles : StopLooks(t, p)
         PROVE  Lease' = Lease
    BY <2>9, <2>11 DEF StopAsks, StopLooks, HasProfile
  <2>12. CASE UNCHANGED vars
    BY <2>9, <2>12 DEF vars, HasProfile
  <2> QED
    BY <2>5, <2>6, <2>7, <2>8, <2>10, <2>11, <2>12 DEF Next
<1> QED
  BY <1>1, <1>2, InductiveInvariant, PTL DEF Spec, ImplementsLease, Abstract!Spec
=============================================================================
