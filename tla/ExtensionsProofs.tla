-------------------------- MODULE ExtensionsProofs --------------------------
(***************************************************************************)
(* For any profiles, packages and editors: no profile is left with a       *)
(* package that is not in the vault, a removal is done or undone, and what *)
(* the user uninstalled does not come back.                                *)
(***************************************************************************)
EXTENDS Extensions, TLAPS

USE BundledAssumption, NullAssumption
USE DEF metadata, vault, job, launches, observers, Working
\* The parts of the invariant are short and lean on each other: they are all
\* expanded from here on.
USE DEF IInv, TypeOK, NoEdit, Edits,
        WorksOnPackage, ImportIsMarked, CardsHaveFiles, PackageIsThere,
        RememberedAreInstalled, DetachedFirst, LossIsKnown, AssignedAreInstalled,
        BundledStaysUninstalled, BareDirectoriesExcused

LEMMA InitIInv == Init => IInv
BY DEF Init

-----------------------------------------------------------------------------
\* The start of the program.  The package beside it is unpacked when there is no
\* marker, so when nobody uninstalled it.
LEMMA StartKeepsIInv ==
    ASSUME IInv,
           \/ Boot \/ BootSkips \/ BootInstalls \/ BootMarks \/ BootFails
    PROVE  IInv'
<1>1. CASE Boot
  BY <1>1 DEF Boot
<1>2. CASE BootSkips
  BY <1>2 DEF BootSkips
<1>3. CASE BootInstalls
  <2>1. /\ TypeOK' /\ WorksOnPackage' /\ ImportIsMarked' /\ CardsHaveFiles'
        /\ PackageIsThere' /\ RememberedAreInstalled' /\ DetachedFirst'
        /\ LossIsKnown' /\ AssignedAreInstalled' /\ BareDirectoriesExcused'
    BY <1>3 DEF BootInstalls, Install
  \* There is no marker, so nobody uninstalled it.
  <2>2. BundledStaysUninstalled'
    BY <1>3 DEF BootInstalls, Install
  <2> QED
    BY <2>1, <2>2
<1>4. CASE BootMarks
  BY <1>4 DEF BootMarks
<1>5. CASE BootFails
  <2>1. /\ TypeOK' /\ WorksOnPackage' /\ CardsHaveFiles' /\ PackageIsThere'
        /\ RememberedAreInstalled' /\ DetachedFirst' /\ LossIsKnown'
        /\ AssignedAreInstalled' /\ BareDirectoriesExcused'
    BY <1>5 DEF BootFails
  <2>2. ImportIsMarked'
    BY <1>5 DEF BootFails
  <2>3. BundledStaysUninstalled'
    BY <1>5 DEF BootFails
  <2> QED
    BY <2>1, <2>2, <2>3
<1> QED
  BY <1>1, <1>2, <1>3, <1>4, <1>5

\* SetAssignments writes the lists it remembers, with a package that is there.
LEMMA AssignmentKeepsIInv ==
    ASSUME IInv,
           \/ (\E e \in Exts, T \in SUBSET profiles : SetAssignments(e, T))
           \/ (\E p \in Profiles : AssignOne(p))
           \/ (\E p \in Profiles : AssignFails(p)) \/ AssignEnds
    PROVE  IInv'
<1>1. ASSUME NEW e \in Exts, NEW T \in SUBSET profiles, SetAssignments(e, T)
      PROVE  IInv'
  <2>1. /\ TypeOK' /\ WorksOnPackage' /\ ImportIsMarked' /\ CardsHaveFiles'
        /\ DetachedFirst' /\ LossIsKnown' /\ AssignedAreInstalled'
        /\ BundledStaysUninstalled' /\ BareDirectoriesExcused'
    BY <1>1 DEF SetAssignments, Remember, Reordered, Chosen
  \* Its metadata.json was read, and nothing is being erased.
  <2>2. PackageIsThere'
    BY <1>1 DEF SetAssignments, Remember, Reordered, Chosen
  \* What List returns is what the profiles have.
  <2>3. RememberedAreInstalled'
    BY <1>1 DEF SetAssignments, Remember, Reordered, Chosen
  <2> QED
    BY <2>1, <2>2, <2>3
<1>2. ASSUME NEW p \in Profiles, AssignOne(p)
      PROVE  IInv'
  <2>1. /\ TypeOK' /\ WorksOnPackage' /\ ImportIsMarked' /\ CardsHaveFiles'
        /\ PackageIsThere' /\ RememberedAreInstalled' /\ DetachedFirst'
        /\ LossIsKnown' /\ BundledStaysUninstalled' /\ BareDirectoriesExcused'
    BY <1>2 DEF AssignOne, WriteBack, AssignedList
  \* A remembered list and a package that is there.
  <2>2. AssignedAreInstalled'
    BY <1>2 DEF AssignOne, WriteBack, AssignedList
  <2> QED
    BY <2>1, <2>2
<1>3. ASSUME NEW p \in Profiles, AssignFails(p)
      PROVE  IInv'
  <2>1. /\ TypeOK' /\ WorksOnPackage' /\ ImportIsMarked' /\ CardsHaveFiles'
        /\ PackageIsThere' /\ RememberedAreInstalled' /\ DetachedFirst'
        /\ LossIsKnown' /\ BundledStaysUninstalled' /\ BareDirectoriesExcused'
    BY <1>3 DEF AssignFails, WriteBack, AssignedList, Unlock
  <2>2. AssignedAreInstalled'
    BY <1>3 DEF AssignFails, WriteBack, AssignedList, Unlock
  <2> QED
    BY <2>1, <2>2
<1>4. CASE AssignEnds
  BY <1>4 DEF AssignEnds, Unlock
<1> QED
  BY <1>1, <1>2, <1>3, <1>4

\* Remove takes the package from every profile first, then from the vault; when
\* it fails it goes back to those it has changed.
LEMMA RemovalKeepsIInv ==
    ASSUME IInv,
           \/ Remove \/ (\E p \in Profiles : DetachOne(p))
           \/ (\E p \in Profiles : DetachFails(p)) \/ DetachEnds \/ EraseChild
           \/ EraseDir \/ EraseFails \/ (\E p \in Profiles : UndoOne(p))
           \/ UndoEnds
    PROVE  IInv'
<1>1. CASE Remove
  <2>1. /\ TypeOK' /\ ImportIsMarked' /\ CardsHaveFiles' /\ DetachedFirst'
        /\ AssignedAreInstalled' /\ BundledStaysUninstalled'
        /\ BareDirectoriesExcused'
    BY <1>1 DEF Remove, Remember
  <2>2. WorksOnPackage'
    BY <1>1 DEF Remove, Remember
  \* As for SetAssignments.
  <2>3. PackageIsThere'
    BY <1>1 DEF Remove, Remember
  <2>4. RememberedAreInstalled'
    BY <1>1 DEF Remove, Remember
  \* Nobody has lost anything yet.
  <2>5. LossIsKnown'
    BY <1>1 DEF Remove, Remember
  <2> QED
    BY <2>1, <2>2, <2>3, <2>4, <2>5
<1>2. ASSUME NEW p \in Profiles, DetachOne(p)
      PROVE  IInv'
  <2>1. /\ TypeOK' /\ WorksOnPackage' /\ ImportIsMarked' /\ CardsHaveFiles'
        /\ PackageIsThere' /\ RememberedAreInstalled' /\ LossIsKnown'
        /\ BundledStaysUninstalled' /\ BareDirectoriesExcused'
    BY <1>2 DEF DetachOne, WriteBack
  <2>2. DetachedFirst'
    BY <1>2 DEF DetachOne, WriteBack
  \* A remembered list without the package.
  <2>3. AssignedAreInstalled'
    BY <1>2 DEF DetachOne, WriteBack
  <2> QED
    BY <2>1, <2>2, <2>3
<1>3. ASSUME NEW p \in Profiles, DetachFails(p)
      PROVE  IInv'
  <2>1. /\ TypeOK' /\ WorksOnPackage' /\ ImportIsMarked' /\ CardsHaveFiles'
        /\ PackageIsThere' /\ RememberedAreInstalled' /\ DetachedFirst'
        /\ BundledStaysUninstalled' /\ BareDirectoriesExcused'
    BY <1>3 DEF DetachFails, WriteBack, Undo
  \* The profile still has it, or is stale by now.
  <2>2. LossIsKnown'
    BY <1>3 DEF DetachFails, WriteBack, Undo
  <2>3. AssignedAreInstalled'
    BY <1>3 DEF DetachFails, WriteBack, Undo
  <2> QED
    BY <2>1, <2>2, <2>3
<1>4. CASE DetachEnds
  BY <1>4 DEF DetachEnds
<1>5. CASE EraseChild
  <2>1. /\ TypeOK' /\ WorksOnPackage' /\ ImportIsMarked' /\ CardsHaveFiles'
        /\ PackageIsThere' /\ RememberedAreInstalled' /\ DetachedFirst'
        /\ LossIsKnown' /\ BundledStaysUninstalled' /\ BareDirectoriesExcused'
    BY <1>5 DEF EraseChild
  \* Nobody loads the package any more.
  <2>2. AssignedAreInstalled'
    BY <1>5 DEF EraseChild
  <2> QED
    BY <2>1, <2>2
<1>6. CASE EraseDir
  <2>1. /\ TypeOK' /\ WorksOnPackage' /\ ImportIsMarked' /\ CardsHaveFiles'
        /\ PackageIsThere' /\ RememberedAreInstalled' /\ DetachedFirst'
        /\ LossIsKnown' /\ BundledStaysUninstalled' /\ BareDirectoriesExcused'
    BY <1>6 DEF EraseDir, Unlock
  \* The package is excused no longer, but nobody loads it.
  <2>2. AssignedAreInstalled'
    BY <1>6 DEF EraseDir, Unlock
  <2> QED
    BY <2>1, <2>2
<1>7. CASE EraseFails
  BY <1>7 DEF EraseFails, Undo
<1>8. ASSUME NEW p \in Profiles, UndoOne(p)
      PROVE  IInv'
  <2>1. /\ TypeOK' /\ WorksOnPackage' /\ ImportIsMarked' /\ CardsHaveFiles'
        /\ PackageIsThere' /\ RememberedAreInstalled' /\ DetachedFirst'
        /\ BundledStaysUninstalled' /\ BareDirectoriesExcused'
    BY <1>8 DEF UndoOne, WriteBack
  \* The profile has it again, or is stale by now.
  <2>2. LossIsKnown'
    BY <1>8 DEF UndoOne, WriteBack
  \* The remembered list, with a package that is still there or torn.
  <2>3. AssignedAreInstalled'
    BY <1>8 DEF UndoOne, WriteBack
  <2> QED
    BY <2>1, <2>2, <2>3
<1>9. CASE UndoEnds
  BY <1>9 DEF UndoEnds, Unlock
<1> QED
  BY <1>1, <1>2, <1>3, <1>4, <1>5, <1>6, <1>7, <1>8, <1>9

\* The other operations of the vault, the profiles, their editors and browsers,
\* and the end of the program.
LEMMA OthersKeepIInv ==
    ASSUME IInv,
           \/ (\E e \in Exts : InstallCRX(e))
           \/ (\E e \in Exts : RemoveAsked(e))
           \/ (\E p \in Profiles : CreateProfile(p))
           \/ (\E p \in Profiles : DeleteProfile(p))
           \/ (\E e \in Editors, p \in Profiles : EditorReads(e, p))
           \/ (\E e \in Editors : EditorWrites(e))
           \/ (\E e \in Editors : EditorFails(e))
           \/ (\E p \in Profiles : LaunchReads(p))
           \/ (\E p \in Profiles : LaunchStarts(p))
           \/ (\E p \in Profiles : BrowserEnds(p)) \/ Crash
    PROVE  IInv'
<1>1. ASSUME NEW e \in Exts, InstallCRX(e)
      PROVE  IInv'
  BY <1>1 DEF InstallCRX, Install
<1>2. ASSUME NEW e \in Exts, RemoveAsked(e)
      PROVE  IInv'
  BY <1>2 DEF RemoveAsked
<1>3. ASSUME NEW p \in Profiles, CreateProfile(p)
      PROVE  IInv'
  <2>1. /\ TypeOK' /\ WorksOnPackage' /\ ImportIsMarked' /\ CardsHaveFiles'
        /\ PackageIsThere' /\ RememberedAreInstalled' /\ LossIsKnown'
        /\ BundledStaysUninstalled' /\ BareDirectoriesExcused'
    BY <1>3 DEF CreateProfile, Up
  <2>2. DetachedFirst'
    BY <1>3 DEF CreateProfile, Up
  \* A new profile has no extensions.
  <2>3. AssignedAreInstalled'
    BY <1>3 DEF CreateProfile, Up
  <2> QED
    BY <2>1, <2>2, <2>3
<1>4. ASSUME NEW p \in Profiles, DeleteProfile(p)
      PROVE  IInv'
  BY <1>4 DEF DeleteProfile, Up
<1>5. ASSUME NEW e \in Editors, NEW p \in Profiles, EditorReads(e, p)
      PROVE  IInv'
  BY <1>5 DEF EditorReads, Up
<1>6. ASSUME NEW e \in Editors, EditorWrites(e)
      PROVE  IInv'
  BY <1>6 DEF EditorWrites
<1>7. ASSUME NEW e \in Editors, EditorFails(e)
      PROVE  IInv'
  BY <1>7 DEF EditorFails
<1>8. ASSUME NEW p \in Profiles, LaunchReads(p)
      PROVE  IInv'
  BY <1>8 DEF LaunchReads, Up
<1>9. ASSUME NEW p \in Profiles, LaunchStarts(p)
      PROVE  IInv'
  BY <1>9 DEF LaunchStarts, Up
<1>10. ASSUME NEW p \in Profiles, BrowserEnds(p)
      PROVE  IInv'
  BY <1>10 DEF BrowserEnds
<1>11. CASE Crash
  BY <1>11 DEF Crash
<1> QED
  BY <1>1, <1>2, <1>3, <1>4, <1>5, <1>6, <1>7, <1>8, <1>9, <1>10, <1>11

-----------------------------------------------------------------------------
\* Everything above, for any profiles, packages and editors.
THEOREM InductiveInvariant == Spec => []IInv
<1>1. IInv /\ [Next]_vars => IInv'
  <2> SUFFICES ASSUME IInv, [Next]_vars PROVE IInv'
    OBVIOUS
  <2>1. CASE Boot \/ Holder
    BY <2>1, StartKeepsIInv, AssignmentKeepsIInv, RemovalKeepsIInv DEF Holder
  <2>2. CASE \E e \in Exts : \/ InstallCRX(e) \/ RemoveAsked(e)
                           \/ \E T \in SUBSET profiles : SetAssignments(e, T)
    BY <2>2, AssignmentKeepsIInv, OthersKeepIInv
  <2>3. CASE Remove
    BY <2>3, RemovalKeepsIInv
  <2>4. CASE \E p \in Profiles :
               \/ CreateProfile(p) \/ DeleteProfile(p) \/ LaunchReads(p) \/ LaunchStarts(p) \/ BrowserEnds(p)
    BY <2>4, OthersKeepIInv
  <2>5. CASE \E e \in Editors :
               \/ \E p \in Profiles : EditorReads(e, p)
               \/ EditorWrites(e) \/ EditorFails(e)
    BY <2>5, OthersKeepIInv
  <2>6. CASE Crash
    BY <2>6, OthersKeepIInv
  <2>7. CASE UNCHANGED vars
    BY <2>7 DEF vars
  <2> QED
    BY <2>1, <2>2, <2>3, <2>4, <2>5, <2>6, <2>7 DEF Next
<1> QED
  BY InitIInv, <1>1, PTL DEF Spec

\* Every variable keeps its type.
THEOREM TypeCorrect == Spec => []TypeOK
BY InductiveInvariant, PTL

\* A profile whose list no outdated edit wrote has only packages of the vault,
\* but for those whose removal was cut short.
THEOREM AssignedStayInstalled == Spec => []AssignedAreInstalled
BY InductiveInvariant, PTL

\* Only a removal cut short leaves a vault directory without its metadata.json.
THEOREM BareDirectoriesAreExcused == Spec => []BareDirectoriesExcused
BY InductiveInvariant, PTL

\* What the user uninstalled, no start of the program brings back.
THEOREM UninstalledForGood == Spec => []BundledStaysUninstalled
BY InductiveInvariant, PTL

\* Remove ends with the package gone, or with everybody who loaded it before
\* loading it again.
THEOREM RemovalsAreUndone == Spec => RemovalIsUndone
<1> DEFINE Undone == \A p \in profiles \ stale' : ext \in oldExts[p] => ext \in exts'[p]
           Returns == pc' = "idle" /\ pc \in {"detach", "erase", "undo"} /\ ext \in dirs'
<1>1. IInv /\ [Next]_vars => (Returns => Undone)
  <2> SUFFICES ASSUME IInv, Next, Returns PROVE Undone
    BY DEF vars
  <2>1. UndoEnds
    BY DEF Next, Holder, Boot, BootSkips, BootInstalls, BootMarks, BootFails, AssignOne, AssignFails,
           AssignEnds, InstallCRX, SetAssignments, Remember, RemoveAsked, Remove, DetachOne, DetachFails,
           DetachEnds, EraseChild, EraseDir, EraseFails, Undo, UndoOne, CreateProfile, DeleteProfile,
           EditorReads, EditorWrites, EditorFails, LaunchReads, LaunchStarts, BrowserEnds, Crash
  <2> QED
    BY <2>1 DEF UndoEnds, IInv, LossIsKnown
<1>2. IInv /\ [Next]_vars => [Returns => Undone]_vars
  BY <1>1
<1> QED
  BY InductiveInvariant, <1>2, PTL DEF Spec, RemovalIsUndone
=============================================================================
