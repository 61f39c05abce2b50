------------------------- MODULE ProfileStoreProofs -------------------------
(***************************************************************************)
(* For any set of profiles, any number of settings saves and any bound on  *)
(* the documents written: what the store acknowledged or returned survives *)
(* crashes, failed writes and damage to one of the two files at a time.    *)
(***************************************************************************)
EXTENDS ProfileStore, TLAPS

USE DEF Unreadable, Versions, Readable

\* The empty store.
LEMMA InitIInv == Init => IInv
<1> SUFFICES ASSUME Init PROVE IInv
  OBVIOUS
<1> USE NoProfileAssumption, MaxVersionAssumption DEF Init
<1>1. TypeOK
  BY DEF TypeOK, Kinds, Steps
<1>2. BackupIsAhead /\ NothingOlderThanSeen /\ OneCopyLeft /\ ClockIsAhead /\ UsedIsAhead
  BY DEF BackupIsAhead, NothingOlderThanSeen, OneCopyLeft, ClockIsAhead, UsedIsAhead
<1>3. WriterIsNewest /\ HolderAtStep
  BY DEF WriterIsNewest, HolderAtStep
<1> QED
  BY <1>1, <1>2, <1>3 DEF IInv

-----------------------------------------------------------------------------
(***************************************************************************)
(* The load of one profile, which every operation on it starts with.       *)
(***************************************************************************)
\* What IInv needs to know of a successful load: the document returned is one
\* that both files hold afterwards, or the primary's with the backup ahead.
ServedWell(p, document) ==
    /\ Served(p, document)
    /\ document \in Versions /\ Readable(document)
    /\ primary' \in [Profiles -> Versions] /\ backup' \in [Profiles -> Versions]
    /\ primary'[p] = document
    /\ backup'[p] = document \/ (backup'[p] = backup[p] /\ primary[p] = document)
    /\ backup'[p] >= document
    /\ document = primary[p] \/ document = backup[p]
    /\ document >= seen[p] /\ backup'[p] <= clock[p] /\ document <= clock[p]
    /\ \A q \in Profiles \ {p} : primary'[q] = primary[q] /\ backup'[q] = backup[q]

\* What IInv needs to know of a load that fails: it lost no readable file.
FailedWell(p) ==
    /\ Failed
    /\ primary' \in [Profiles -> Versions] /\ backup' \in [Profiles -> Versions]
    /\ \/ primary' = primary /\ backup' = backup
       \/ Readable(primary[p]) /\ primary' = primary /\ Replaced(backup, p, primary[p])
       \/ ~Readable(primary[p]) /\ Readable(backup[p]) /\ backup' = backup
             /\ Replaced(primary, p, backup[p])

\* Every outcome of loadUnlocked is one of the two.
LEMMA LoadOutcomes ==
    ASSUME IInv, NEW p \in Profiles, Load(p)
    PROVE  (\E document \in Versions : ServedWell(p, document)) \/ FailedWell(p)
<1> USE MaxVersionAssumption
<1>0. /\ primary \in [Profiles -> Versions] /\ backup \in [Profiles -> Versions]
      /\ seen \in [Profiles -> Versions] /\ clock \in [Profiles -> Versions]
      /\ Readable(primary[p]) /\ Readable(backup[p]) => primary[p] <= backup[p]
      /\ Readable(primary[p]) => primary[p] >= seen[p]
      /\ Readable(backup[p]) => backup[p] >= seen[p]
      /\ primary[p] <= clock[p] /\ backup[p] <= clock[p]
  BY DEF IInv, TypeOK, BackupIsAhead, NothingOlderThanSeen, ClockIsAhead
<1>1. CASE LoadPrimary(p)
  <2>1. CASE Readable(backup[p]) /\ Served(p, primary[p]) /\ UNCHANGED backup
    BY <1>0, <1>1, <2>1 DEF LoadPrimary, ServedWell
  <2>2. CASE Replaced(backup, p, primary[p]) /\ Served(p, primary[p])
    BY <1>0, <1>1, <2>2 DEF LoadPrimary, ServedWell, Replaced
  <2>3. CASE MaybeReplaced(backup, p, primary[p]) /\ Failed
    BY <1>0, <1>1, <2>3 DEF LoadPrimary, FailedWell, Replaced, MaybeReplaced
  <2> QED
    BY <1>1, <2>1, <2>2, <2>3 DEF LoadPrimary
<1>2. CASE LoadBackup(p)
  <2>1. CASE Replaced(primary, p, backup[p]) /\ Served(p, backup[p])
    BY <1>0, <1>2, <2>1 DEF LoadBackup, ServedWell, Replaced
  <2>2. CASE MaybeReplaced(primary, p, backup[p]) /\ Failed
    BY <1>0, <1>2, <2>2 DEF LoadBackup, FailedWell, Replaced, MaybeReplaced
  <2> QED
    BY <1>2, <2>1, <2>2 DEF LoadBackup
<1>3. CASE LoadError
  BY <1>0, <1>3 DEF LoadError, FailedWell
<1> QED
  BY <1>1, <1>2, <1>3 DEF Load

\* A load keeps the invariant.
LEMMA LoadIInv ==
    ASSUME IInv, NEW p \in Profiles, Load(p)
    PROVE  IInv'
<1> USE NoProfileAssumption, MaxVersionAssumption
<1>0. /\ pc = "load" /\ p \in todo /\ kind # "create"
      /\ UNCHANGED <<dirs, content, clock, used, deleted, excused>>
  BY DEF Load, IInv, HolderAtStep, ids
<1>1. CASE \E document \in Versions : ServedWell(p, document)
  <2>1. PICK document \in Versions : ServedWell(p, document)
    BY <1>1
  <2>2. /\ seen' = [seen EXCEPT ![p] = document] /\ suspect' = suspect \ {p}
        /\ live' = IF kind = "delete" THEN live \ {p} ELSE live \cup {p}
        /\ ver' \in {0, ver}
        /\ \/ pc' = "idle" /\ kind' = "none" /\ id' = NoProfile /\ todo' = {}
           \/ pc' = "load" /\ kind' = kind /\ id' = id /\ todo' = todo \ {p}
           \/ pc' = "apply" /\ kind' = kind /\ kind = "update" /\ id' = p /\ todo' = {}
           \/ pc' = "remove" /\ kind' = kind /\ kind = "delete" /\ id' = p /\ todo' = {}
    BY <1>0, <2>1 DEF ServedWell, Served, Unlock
  <2>3. saving' \in [Savers -> Profiles \cup {NoProfile}]
    BY <2>1 DEF ServedWell, Served, IInv, TypeOK
  <2>4. TypeOK'
    BY <1>0, <2>1, <2>2, <2>3 DEF ServedWell, IInv, TypeOK, Kinds, Steps
  <2>5. BackupIsAhead' /\ NothingOlderThanSeen' /\ ClockIsAhead'
    BY <1>0, <2>1, <2>2
       DEF ServedWell, IInv, TypeOK, BackupIsAhead, NothingOlderThanSeen, ClockIsAhead
  <2>6. OneCopyLeft'
    BY <2>1, <2>2 DEF ServedWell, IInv, TypeOK, OneCopyLeft
  <2>7. p \in used
    BY <2>1 DEF ServedWell, IInv, UsedIsAhead
  <2>8. UsedIsAhead'
    BY <1>0, <2>1, <2>2, <2>7 DEF ServedWell, IInv, TypeOK, UsedIsAhead
  <2>9. WriterIsNewest'
    BY <2>2 DEF WriterIsNewest
  <2>10. HolderAtStep'
    BY <1>0, <2>2, <2>7 DEF HolderAtStep
  <2> QED
    BY <2>4, <2>5, <2>6, <2>8, <2>9, <2>10 DEF IInv
<1>2. CASE FailedWell(p)
  <2>1. /\ pc' = "idle" /\ kind' = "none" /\ id' = NoProfile /\ todo' = {} /\ ver' = 0
        /\ UNCHANGED <<saving, seen, live, suspect>>
    BY <1>2 DEF FailedWell, Failed, Unlock
  <2>2. TypeOK'
    BY <1>0, <1>2, <2>1 DEF FailedWell, IInv, TypeOK, Kinds, Steps
  <2>3. /\ \A q \in Profiles \ {p} : primary'[q] = primary[q] /\ backup'[q] = backup[q]
        /\ \/ primary'[p] = primary[p] /\ backup'[p] = backup[p]
           \/ Readable(primary[p]) /\ primary'[p] = primary[p] /\ backup'[p] = primary[p]
           \/ ~Readable(primary[p]) /\ Readable(backup[p])
                 /\ primary'[p] = backup[p] /\ backup'[p] = backup[p]
    BY <1>2 DEF FailedWell, Replaced, IInv, TypeOK
  <2>4. BackupIsAhead' /\ NothingOlderThanSeen' /\ ClockIsAhead'
    BY <1>0, <2>1, <2>3
       DEF IInv, TypeOK, BackupIsAhead, NothingOlderThanSeen, ClockIsAhead
  <2>5. OneCopyLeft'
    BY <2>1, <2>3 DEF IInv, TypeOK, OneCopyLeft
  <2>6. UsedIsAhead'
    BY <1>0, <2>1, <2>3 DEF IInv, TypeOK, UsedIsAhead
  <2>7. WriterIsNewest' /\ HolderAtStep'
    BY <2>1 DEF WriterIsNewest, HolderAtStep
  <2> QED
    BY <2>2, <2>4, <2>5, <2>6, <2>7 DEF IInv
<1> QED
  BY <1>1, <1>2, LoadOutcomes

-----------------------------------------------------------------------------
(***************************************************************************)
(* The other steps.                                                        *)
(***************************************************************************)
\* The parts of the invariant that speak of the disk and of what was seen.
DiskInv == BackupIsAhead /\ NothingOlderThanSeen /\ OneCopyLeft /\ ClockIsAhead /\ UsedIsAhead

\* Steps that touch neither the documents nor what they are compared with.
LEMMA DiskUntouched ==
    ASSUME DiskInv, UNCHANGED <<primary, backup, clock, used, seen, live, suspect>>
    PROVE  DiskInv'
BY DEF DiskInv, BackupIsAhead, NothingOlderThanSeen, OneCopyLeft, ClockIsAhead, UsedIsAhead

\* A step that lets go of s.mu leaves nothing to say about its holder.
LEMMA Unlocked == ASSUME Unlock PROVE WriterIsNewest' /\ HolderAtStep'
BY DEF Unlock, WriterIsNewest, HolderAtStep

\* s.mu is taken.
LEMMA LockIInv ==
    ASSUME IInv, NEW k \in Kinds \ {"create", "none"}, NEW S \in SUBSET Profiles, Lock(k, S)
    PROVE  IInv'
<1>1. TypeOK'
  BY DEF Lock, IInv, TypeOK, Steps, Kinds, disk, ids, observers
<1>2. DiskInv'
  BY DiskUntouched DEF Lock, IInv, DiskInv, disk, ids, observers
<1>3. WriterIsNewest' /\ HolderAtStep'
  BY DEF Lock, WriterIsNewest, HolderAtStep, disk, ids, observers
<1> QED
  BY <1>1, <1>2, <1>3 DEF IInv, DiskInv

\* ApplyNothing and Apply.
LEMMA ApplyIInv == ASSUME IInv, ApplyNothing \/ Apply PROVE IInv'
<1> USE NoProfileAssumption, MaxVersionAssumption
<1>1. CASE ApplyNothing
  <2>1. TypeOK'
    BY <1>1 DEF ApplyNothing, Unlock, IInv, TypeOK, Steps, Kinds, disk, ids, observers
  <2>2. DiskInv'
    BY <1>1, DiskUntouched DEF ApplyNothing, IInv, DiskInv, disk, ids, observers
  <2> QED
    BY <1>1, <2>1, <2>2, Unlocked DEF ApplyNothing, IInv, DiskInv
<1>2. CASE Apply
  <2>1. /\ pc = "apply" /\ id \in used /\ id \in Profiles /\ kind # "create"
        /\ clock[id] < MaxVersion /\ clock' = [clock EXCEPT ![id] = @ + 1]
        /\ ver' = clock[id] + 1 /\ pc' = "writeBackup"
        /\ UNCHANGED <<dirs, primary, backup, content, kind, id, todo, used, saving>>
        /\ UNCHANGED <<seen, live, suspect, deleted, excused>>
    BY <1>2 DEF Apply, IInv, TypeOK, HolderAtStep, disk, observers
  <2>2. clock \in [Profiles -> Versions]
    BY DEF IInv, TypeOK
  <2>3. TypeOK'
    BY <2>1, <2>2 DEF IInv, TypeOK, Steps
  <2>4. BackupIsAhead' /\ NothingOlderThanSeen' /\ OneCopyLeft' /\ UsedIsAhead'
    BY <2>1 DEF IInv, BackupIsAhead, NothingOlderThanSeen, OneCopyLeft, UsedIsAhead
  <2>5. ClockIsAhead'
    BY <2>1, <2>2 DEF IInv, TypeOK, ClockIsAhead
  <2>6. WriterIsNewest'
    BY <2>1, <2>2 DEF WriterIsNewest
  <2>7. HolderAtStep'
    BY <2>1 DEF IInv, HolderAtStep
  <2> QED
    BY <2>3, <2>4, <2>5, <2>6, <2>7 DEF IInv
<1> QED
  BY <1>1, <1>2

\* The first file of writeMetadata.
LEMMA WriteBackupIInv == ASSUME IInv, WriteBackup PROVE IInv'
<1> USE NoProfileAssumption, MaxVersionAssumption
<1>1. /\ pc = "writeBackup" /\ id \in used /\ id \in Profiles
      /\ ver = clock[id] /\ ver # 0
      /\ backup' = backup \/ backup' = [backup EXCEPT ![id] = ver]
      /\ UNCHANGED <<dirs, primary, content, clock, used, saving>>
      /\ UNCHANGED <<seen, live, suspect, deleted, excused>>
      /\ kind = "create" => id \notin live
  BY DEF WriteBackup, IInv, TypeOK, UsedIsAhead, HolderAtStep, WriterIsNewest, ids, observers,
         Replaced, MaybeReplaced
<1>2. \/ Unlock
      \/ /\ pc' = "writePrimary" /\ UNCHANGED <<kind, id, todo, ver>>
         /\ backup' = [backup EXCEPT ![id] = ver]
      \/ /\ pc' = "remove" /\ UNCHANGED <<kind, id, todo, ver>> /\ kind = "create"
  BY DEF WriteBackup, WriteFails, Replaced
<1>3. /\ clock \in [Profiles -> Versions] /\ backup \in [Profiles -> Versions]
      /\ primary \in [Profiles -> Versions]
  BY DEF IInv, TypeOK
<1>4. TypeOK'
  BY <1>1, <1>2, <1>3 DEF IInv, TypeOK, Steps, Kinds, Unlock
<1>5. /\ BackupIsAhead' /\ NothingOlderThanSeen' /\ ClockIsAhead'
  BY <1>1, <1>3 DEF IInv, TypeOK, BackupIsAhead, NothingOlderThanSeen, ClockIsAhead
<1>6. OneCopyLeft' /\ UsedIsAhead'
  BY <1>1, <1>3 DEF IInv, TypeOK, OneCopyLeft, UsedIsAhead
<1>7. WriterIsNewest' /\ HolderAtStep'
  <2>1. CASE Unlock
    BY <2>1, Unlocked
  <2>2. CASE pc' = "writePrimary" /\ UNCHANGED <<kind, id, todo, ver>>
               /\ backup' = [backup EXCEPT ![id] = ver]
    BY <1>1, <1>3, <2>2 DEF IInv, WriterIsNewest, HolderAtStep
  <2>3. CASE pc' = "remove" /\ UNCHANGED <<kind, id, todo, ver>> /\ kind = "create"
    BY <1>1, <2>3 DEF WriterIsNewest, HolderAtStep
  <2> QED
    BY <1>2, <2>1, <2>2, <2>3
<1> QED
  BY <1>4, <1>5, <1>6, <1>7 DEF IInv

\* The second file: the write is acknowledged, and both files hold it.
LEMMA WritePrimaryIInv == ASSUME IInv, WritePrimary PROVE IInv'
<1> USE NoProfileAssumption, MaxVersionAssumption
<1>1. /\ pc = "writePrimary" /\ id \in used /\ id \in Profiles
      /\ ver = clock[id] /\ ver # 0
      /\ backup[id] = ver \/ (backup[id] = 0 /\ id \in suspect)
      /\ UNCHANGED <<dirs, backup, content, clock, used, saving, suspect, deleted, excused>>
      /\ kind = "create" => id \notin live
  BY DEF WritePrimary, IInv, TypeOK, UsedIsAhead, HolderAtStep, WriterIsNewest, ids
<1>2. /\ clock \in [Profiles -> Versions] /\ backup \in [Profiles -> Versions]
      /\ primary \in [Profiles -> Versions] /\ seen \in [Profiles -> Versions]
  BY DEF IInv, TypeOK
<1>3. CASE Replaced(primary, id, ver) /\ Commit
  <2>1. /\ primary' = [primary EXCEPT ![id] = ver] /\ seen' = [seen EXCEPT ![id] = ver]
        /\ live' = live \cup {id} /\ Unlock
    BY <1>3 DEF Replaced, Commit
  <2>2. TypeOK'
    BY <1>1, <1>2, <2>1 DEF IInv, TypeOK, Steps, Kinds, Unlock
  <2>3. BackupIsAhead' /\ NothingOlderThanSeen' /\ ClockIsAhead'
    BY <1>1, <1>2, <2>1 DEF IInv, BackupIsAhead, NothingOlderThanSeen, ClockIsAhead
  <2>4. OneCopyLeft' /\ UsedIsAhead'
    BY <1>1, <1>2, <2>1 DEF IInv, TypeOK, OneCopyLeft, UsedIsAhead
  <2> QED
    BY <2>1, <2>2, <2>3, <2>4, Unlocked DEF IInv
<1>4. CASE MaybeReplaced(primary, id, ver) /\ WriteFails /\ UNCHANGED <<seen, live>>
  <2>1. /\ primary' = primary \/ primary' = [primary EXCEPT ![id] = ver]
        /\ UNCHANGED <<seen, live>>
        /\ \/ Unlock
           \/ pc' = "remove" /\ UNCHANGED <<kind, id, todo, ver>> /\ kind = "create"
    BY <1>4 DEF Replaced, MaybeReplaced, WriteFails
  <2>2. TypeOK'
    BY <1>1, <1>2, <2>1 DEF IInv, TypeOK, Steps, Kinds, Unlock
  <2>3. BackupIsAhead' /\ NothingOlderThanSeen' /\ ClockIsAhead'
    BY <1>1, <1>2, <2>1 DEF IInv, BackupIsAhead, NothingOlderThanSeen, ClockIsAhead
  <2>4. OneCopyLeft' /\ UsedIsAhead'
    BY <1>1, <1>2, <2>1 DEF IInv, TypeOK, OneCopyLeft, UsedIsAhead
  <2>5. WriterIsNewest' /\ HolderAtStep'
    BY <1>1, <2>1, Unlocked DEF WriterIsNewest, HolderAtStep
  <2> QED
    BY <2>2, <2>3, <2>4, <2>5 DEF IInv
<1> QED
  BY <1>3, <1>4 DEF WritePrimary

\* Create makes the directory of a UUID never used before.
LEMMA CreateIInv == ASSUME IInv, NEW p \in Profiles, Create(p) PROVE IInv'
<1> USE NoProfileAssumption, MaxVersionAssumption
<1>1. /\ p \notin used /\ p \notin live /\ clock[p] < MaxVersion
      /\ kind' = "create" /\ id' = p /\ ver' = clock[p] + 1
      /\ pc' \in {"writeBackup", "remove"}
      /\ dirs' = dirs \cup {p} /\ used' = used \cup {p} /\ clock' = [clock EXCEPT ![p] = @ + 1]
      /\ content' \in {content, content \cup {p}}
      /\ UNCHANGED <<primary, backup, todo, saving, seen, live, suspect, deleted, excused>>
  BY DEF Create, IInv, UsedIsAhead, observers
<1>2. clock \in [Profiles -> Versions]
  BY DEF IInv, TypeOK
<1>3. TypeOK'
  BY <1>1, <1>2 DEF IInv, TypeOK, Kinds, Steps
<1>4. BackupIsAhead' /\ NothingOlderThanSeen' /\ OneCopyLeft'
  BY <1>1 DEF IInv, BackupIsAhead, NothingOlderThanSeen, OneCopyLeft
<1>5. ClockIsAhead' /\ UsedIsAhead'
  BY <1>1, <1>2 DEF IInv, TypeOK, ClockIsAhead, UsedIsAhead
<1>6. WriterIsNewest' /\ HolderAtStep'
  BY <1>1, <1>2 DEF WriterIsNewest, HolderAtStep
<1> QED
  BY <1>3, <1>4, <1>5, <1>6 DEF IInv

\* Removing a directory that nobody may rely on any more.
LEMMA RemoveIInv ==
    ASSUME IInv, RemoveChild \/ RemoveDir \/ RemoveFails \/ Verify
    PROVE  IInv'
<1> USE NoProfileAssumption, MaxVersionAssumption
<1>1. CASE RemoveChild
  <2>1. /\ pc = "remove" /\ id \in Profiles /\ id \notin live /\ id \in used
        /\ \/ primary' = [primary EXCEPT ![id] = 0] /\ UNCHANGED <<backup, content>>
           \/ backup' = [backup EXCEPT ![id] = 0] /\ UNCHANGED <<primary, content>>
           \/ content' = content \ {id} /\ UNCHANGED <<primary, backup>>
        /\ UNCHANGED <<dirs, pc, kind, id, todo, ver, clock, used, saving>>
        /\ UNCHANGED <<seen, live, suspect, deleted, excused>>
    BY <1>1 DEF RemoveChild, Replaced, IInv, TypeOK, HolderAtStep, UsedIsAhead, lock, ids, observers
  <2>2. TypeOK'
    BY <2>1 DEF IInv, TypeOK
  <2>3. BackupIsAhead' /\ NothingOlderThanSeen' /\ ClockIsAhead'
    BY <2>1 DEF IInv, TypeOK, BackupIsAhead, NothingOlderThanSeen, ClockIsAhead
  <2>4. OneCopyLeft' /\ UsedIsAhead'
    BY <2>1 DEF IInv, TypeOK, OneCopyLeft, UsedIsAhead
  <2>5. WriterIsNewest' /\ HolderAtStep'
    BY <2>1 DEF IInv, WriterIsNewest, HolderAtStep
  <2> QED
    BY <2>2, <2>3, <2>4, <2>5 DEF IInv
<1>2. CASE RemoveDir
  <2>1. /\ pc = "remove" /\ id \in used /\ id \notin live
        /\ dirs' = dirs \ {id}
        /\ \/ kind = "delete" /\ pc' = "verify" /\ UNCHANGED <<kind, id, todo, ver>>
           \/ Unlock
        /\ UNCHANGED <<primary, backup, content, clock, used, saving>>
        /\ UNCHANGED <<seen, live, suspect, deleted, excused>>
    BY <1>2 DEF RemoveDir, IInv, HolderAtStep, ids, observers
  <2>2. TypeOK'
    BY <2>1 DEF IInv, TypeOK, Kinds, Steps, Unlock
  <2>3. DiskInv'
    BY <2>1, DiskUntouched DEF IInv, DiskInv
  <2>4. WriterIsNewest' /\ HolderAtStep'
    BY <2>1, Unlocked DEF WriterIsNewest, HolderAtStep
  <2> QED
    BY <2>2, <2>3, <2>4 DEF IInv, DiskInv
<1>3. CASE RemoveFails \/ Verify
  <2>1. /\ pc \in {"remove", "verify"} /\ id \in used /\ id \in Profiles
        /\ Unlock
        /\ excused' \in {excused, excused \cup {id}} /\ deleted' \in {deleted, deleted \cup {id}}
        /\ UNCHANGED <<dirs, primary, backup, content, clock, used, saving, seen, live, suspect>>
    BY <1>3 DEF RemoveFails, Verify, IInv, TypeOK, HolderAtStep, disk, ids
  <2>2. TypeOK'
    BY <2>1 DEF IInv, TypeOK, Kinds, Steps, Unlock
  <2>3. DiskInv'
    BY <2>1, DiskUntouched DEF IInv, DiskInv
  <2> QED
    BY <2>1, <2>2, <2>3, Unlocked DEF IInv, DiskInv
<1> QED
  BY <1>1, <1>2, <1>3

\* CommitImport: nothing is visible before the rename, everything after it.
LEMMA ImportIInv ==
    ASSUME IInv,
           ImportRename \/ ImportFails
             \/ (\E source \in Profiles, p \in Profiles : ImportStage(source, p))
    PROVE  IInv'
<1> USE NoProfileAssumption, MaxVersionAssumption
<1>0. clock \in [Profiles -> Versions]
  BY DEF IInv, TypeOK
<1>1. ASSUME NEW source \in Profiles, NEW p \in Profiles, ImportStage(source, p) PROVE IInv'
  <2>1. /\ clock[p] < MaxVersion /\ kind' = "import" /\ id' = p /\ pc' = "rename"
        /\ ver' = clock[p] + 1 /\ clock' = [clock EXCEPT ![p] = @ + 1] /\ used' = used \cup {p}
        /\ UNCHANGED <<dirs, primary, backup, content, todo, saving>>
        /\ UNCHANGED <<seen, live, suspect, deleted, excused>>
    BY <1>1 DEF ImportStage, disk, observers
  <2>2. TypeOK'
    BY <1>0, <2>1 DEF IInv, TypeOK, Kinds, Steps
  <2>3. BackupIsAhead' /\ NothingOlderThanSeen' /\ OneCopyLeft'
    BY <2>1 DEF IInv, BackupIsAhead, NothingOlderThanSeen, OneCopyLeft
  <2>4. ClockIsAhead' /\ UsedIsAhead'
    BY <1>0, <2>1 DEF IInv, TypeOK, ClockIsAhead, UsedIsAhead
  <2>5. WriterIsNewest' /\ HolderAtStep'
    BY <1>0, <2>1 DEF WriterIsNewest, HolderAtStep
  <2> QED
    BY <2>2, <2>3, <2>4, <2>5 DEF IInv
<1>2. CASE ImportRename
  <2>1. /\ pc = "rename" /\ id \in used /\ id \in Profiles /\ ver = clock[id] /\ ver # 0
        /\ dirs' = dirs \cup {id} /\ content' = content \cup {id}
        /\ primary' = [primary EXCEPT ![id] = ver] /\ backup' = [backup EXCEPT ![id] = ver]
        /\ seen' = [seen EXCEPT ![id] = ver] /\ live' = live \cup {id} /\ Unlock
        /\ deleted' = deleted \ {id}
        /\ UNCHANGED <<clock, used, saving, suspect, excused>>
    BY <1>2 DEF ImportRename, Commit, Replaced, IInv, TypeOK, HolderAtStep, WriterIsNewest, ids
  <2>2. TypeOK'
    BY <1>0, <2>1 DEF IInv, TypeOK, Kinds, Steps, Unlock
  <2>3. BackupIsAhead' /\ NothingOlderThanSeen' /\ ClockIsAhead'
    BY <1>0, <2>1 DEF IInv, TypeOK, BackupIsAhead, NothingOlderThanSeen, ClockIsAhead
  <2>4. OneCopyLeft' /\ UsedIsAhead'
    BY <1>0, <2>1 DEF IInv, TypeOK, OneCopyLeft, UsedIsAhead
  <2> QED
    BY <2>1, <2>2, <2>3, <2>4, Unlocked DEF IInv
<1>3. CASE ImportFails
  <2>1. TypeOK'
    BY <1>3 DEF ImportFails, Unlock, IInv, TypeOK, Kinds, Steps, disk, ids, observers
  <2>2. DiskInv'
    BY <1>3, DiskUntouched DEF ImportFails, IInv, DiskInv, disk, ids, observers
  <2> QED
    BY <1>3, <2>1, <2>2, Unlocked DEF ImportFails, IInv, DiskInv
<1> QED
  BY <1>1, <1>2, <1>3

\* Settings saves, damage and crashes.
LEMMA EnvironmentIInv ==
    ASSUME IInv,
           \/ \E s \in Savers : SaveWrite(s) \/ SaveFails(s)
           \/ \E p \in Profiles : Damage(p)
           \/ Crash
    PROVE  IInv'
<1> USE NoProfileAssumption, MaxVersionAssumption
<1>1. ASSUME NEW s \in Savers, SaveWrite(s) \/ SaveFails(s) PROVE IInv'
  <2>1. /\ saving[s] \in Profiles
        /\ dirs' \in {dirs, dirs \cup {saving[s]}} /\ content' \in {content, content \cup {saving[s]}}
        /\ excused' \in {excused, excused \cup {saving[s]}}
        /\ saving' = [saving EXCEPT ![s] = NoProfile]
        /\ UNCHANGED <<primary, backup, pc, kind, id, todo, ver, clock, used>>
        /\ UNCHANGED <<seen, live, suspect, deleted>>
    BY <1>1 DEF SaveWrite, SaveFails, IInv, TypeOK, disk, lock, ids, observers
  <2>2. TypeOK'
    BY <2>1 DEF IInv, TypeOK
  <2>3. DiskInv'
    BY <2>1, DiskUntouched DEF IInv, DiskInv
  <2>4. WriterIsNewest' /\ HolderAtStep'
    BY <2>1 DEF IInv, WriterIsNewest, HolderAtStep
  <2> QED
    BY <2>2, <2>3, <2>4 DEF IInv, DiskInv
<1>2. ASSUME NEW p \in Profiles, Damage(p) PROVE IInv'
  <2>1. /\ p \in live /\ p \notin suspect /\ suspect' = suspect \cup {p}
        /\ \/ primary' = [primary EXCEPT ![p] = 0] /\ UNCHANGED backup
           \/ backup' = [backup EXCEPT ![p] = 0] /\ UNCHANGED primary
        /\ UNCHANGED <<dirs, content, pc, kind, id, todo, ver, clock, used, saving>>
        /\ UNCHANGED <<seen, live, deleted, excused>>
    BY <1>2 DEF Damage, Replaced, lock, ids
  <2>2. TypeOK'
    BY <2>1 DEF IInv, TypeOK
  <2>3. BackupIsAhead' /\ NothingOlderThanSeen' /\ ClockIsAhead'
    BY <2>1 DEF IInv, TypeOK, BackupIsAhead, NothingOlderThanSeen, ClockIsAhead
  <2>4. OneCopyLeft' /\ UsedIsAhead'
    BY <2>1 DEF IInv, TypeOK, OneCopyLeft, UsedIsAhead
  <2>5. WriterIsNewest'
    BY <2>1 DEF IInv, TypeOK, WriterIsNewest, HolderAtStep
  <2>6. HolderAtStep'
    BY <2>1 DEF IInv, HolderAtStep
  <2> QED
    BY <2>2, <2>3, <2>4, <2>5, <2>6 DEF IInv
<1>3. CASE Crash
  <2>1. /\ Unlock /\ saving' = [s \in Savers |-> NoProfile]
        /\ excused' \in SUBSET Profiles
        /\ UNCHANGED <<dirs, primary, backup, content, clock, used, seen, live, suspect, deleted>>
    <3>1. kind = "create" \/ pc = "remove" => id \in Profiles
      BY DEF IInv, TypeOK, HolderAtStep
    <3> QED
      BY <1>3, <3>1 DEF Crash, IInv, TypeOK, disk, ids
  <2>2. TypeOK'
    BY <2>1 DEF Unlock, IInv, TypeOK, Kinds, Steps
  <2>3. DiskInv'
    BY <2>1, DiskUntouched DEF IInv, DiskInv
  <2> QED
    BY <2>1, <2>2, <2>3, Unlocked DEF IInv, DiskInv
<1> QED
  BY <1>1, <1>2, <1>3

-----------------------------------------------------------------------------
\* Every step of the store keeps the invariant.
LEMMA NextIInv == IInv /\ [Next]_vars => IInv'
<1> SUFFICES ASSUME IInv, [Next]_vars PROVE IInv'
  OBVIOUS
<1>1. ASSUME NEW p \in Profiles, Get(p) \/ Update(p) \/ Delete(p) \/ SaveCheck(p) PROVE IInv'
  BY <1>1, LockIInv DEF Get, Update, Delete, SaveCheck, Kinds
<1>2. CASE List
  BY <1>2, LockIInv DEF List, Kinds, IInv, TypeOK
<1>3. CASE UNCHANGED vars
  <2>1. UNCHANGED <<dirs, primary, backup, content, pc, kind, id, todo, ver, clock, used, saving>>
    BY <1>3 DEF vars, disk, lock, ids
  <2>2. UNCHANGED <<seen, live, suspect, deleted, excused>>
    BY <1>3 DEF vars, observers
  <2>3. DiskInv'
    BY <2>1, <2>2, DiskUntouched DEF IInv, DiskInv
  <2> QED
    BY <2>1, <2>2, <2>3 DEF IInv, DiskInv, TypeOK, WriterIsNewest, HolderAtStep
<1> QED
  BY <1>1, <1>2, <1>3, LoadIInv, ApplyIInv, WriteBackupIInv, WritePrimaryIInv, CreateIInv,
     RemoveIInv, ImportIInv, EnvironmentIInv DEF Next

\* The inductive invariant holds of every behaviour of the store.
THEOREM InductiveInvariant == Spec => []IInv
<1> QED
  BY InitIInv, NextIInv, PTL DEF Spec

\* Types, among them that only known UUIDs ever get a directory.
THEOREM TypeCorrect == Spec => []TypeOK
<1>1. IInv => TypeOK
  BY DEF IInv
<1> QED
  BY <1>1, InductiveInvariant, PTL

\* For a profile a caller may rely on, loadUnlocked always finds a document,
\* and never one older than what was acknowledged or returned before.
THEOREM NothingAcknowledgedIsLost == Spec => []AcknowledgedSurvives
<1>1. IInv => AcknowledgedSurvives
  BY DEF IInv, TypeOK, NothingOlderThanSeen, OneCopyLeft, AcknowledgedSurvives, Answer
<1> QED
  BY <1>1, InductiveInvariant, PTL

-----------------------------------------------------------------------------
(***************************************************************************)
(* The directories: which of them can be without metadata, and when.       *)
(***************************************************************************)
\* Some document of the profile can be read.
Legible(p) == Readable(primary[p]) \/ Readable(backup[p])

LEMMA InitDirectoryInv == Init => DirectoryInv
BY DEF Init, DirectoryInv, KindAtStep, BareDirectoriesExcused, NewDirectoriesExcused,
       FilesHaveDirectories, WritersAreNotDeleted, DeleteIsComplete

\* A step that lets go of s.mu, makes no document unreadable, brings no
\* document into being and leaves the directories alone.
LEMMA LettingGo ==
    ASSUME IInv, DirectoryInv, Unlock, UNCHANGED <<dirs, deleted, used, excused>>,
           \A p \in Profiles : Legible(p) <=> Legible(p)',
           id \in dirs => Legible(id) \/ id \in excused
    PROVE  DirectoryInv'
<1>1. dirs \subseteq Profiles /\ deleted \subseteq Profiles
  BY DEF IInv, TypeOK
<1> USE DEF DirectoryInv, Legible
<1>2. KindAtStep' /\ NewDirectoriesExcused'
  BY DEF Unlock, KindAtStep, NewDirectoriesExcused
<1>3. FilesHaveDirectories' /\ WritersAreNotDeleted' /\ DeleteIsComplete'
  BY <1>1 DEF Unlock, FilesHaveDirectories, WritersAreNotDeleted, DeleteIsComplete
<1>4. BareDirectoriesExcused'
  BY <1>1 DEF BareDirectoriesExcused, Answer
<1> QED
  BY <1>2, <1>3, <1>4

\* A profile that a caller may rely on is legible.
LEMMA LiveIsLegible == IInv => \A p \in live : Legible(p)
BY DEF IInv, OneCopyLeft, Legible

LEMMA LockKeepsDirectories ==
    ASSUME IInv, DirectoryInv, NEW k \in {"get", "update", "delete", "list", "check"}, NEW S, Lock(k, S)
    PROVE  DirectoryInv'
<1>1. /\ pc = "idle" /\ pc' = "load" /\ kind' = k /\ id' = id
      /\ UNCHANGED <<dirs, primary, backup, used, live, deleted, excused>>
  BY DEF Lock, disk, ids, observers
<1>2. id = NoProfile
  BY <1>1 DEF DirectoryInv, KindAtStep
<1> QED
  BY <1>1, <1>2 DEF DirectoryInv, KindAtStep, BareDirectoriesExcused, Answer, NewDirectoriesExcused,
     FilesHaveDirectories, WritersAreNotDeleted, DeleteIsComplete

LEMMA LoadKeepsDirectories ==
    ASSUME IInv, DirectoryInv, NEW p \in Profiles, Load(p)
    PROVE  DirectoryInv'
<1> USE NoProfileAssumption, MaxVersionAssumption
<1>1. /\ pc = "load" /\ id = NoProfile /\ kind # "import"
      /\ UNCHANGED <<dirs, used, deleted, excused>>
      /\ dirs \subseteq Profiles /\ deleted \subseteq Profiles
  BY DEF Load, ids, DirectoryInv, KindAtStep, IInv, TypeOK
<1>2. CASE FailedWell(p)
  <2>1. \A q \in Profiles : Legible(q) <=> Legible(q)'
    BY <1>2 DEF FailedWell, Legible, Replaced, IInv, TypeOK
  <2> QED
    BY <1>1, <1>2, <2>1, LettingGo DEF FailedWell, Failed, IInv, TypeOK
<1>3. ASSUME NEW document \in Versions, ServedWell(p, document) PROVE DirectoryInv'
  <2>1. \A q \in Profiles : Legible(q) <=> Legible(q)'
    BY <1>3 DEF ServedWell, Legible, IInv, TypeOK
  <2>2. Legible(p)
    BY <1>3 DEF ServedWell, Legible
  <2>3. \/ Unlock
        \/ pc' = "load" /\ kind' = kind /\ id' = id
        \/ pc' = "apply" /\ kind' = kind /\ kind = "update" /\ id' = p /\ p \in live'
        \/ pc' = "remove" /\ kind' = kind /\ kind = "delete" /\ id' = p
    BY <1>1, <1>3 DEF ServedWell, Served
  <2>4. CASE Unlock
    BY <1>1, <2>1, <2>4, LettingGo DEF IInv, TypeOK
  <2>5. CASE pc' = "load" /\ kind' = kind /\ id' = id
    BY <1>1, <2>1, <2>5 DEF DirectoryInv, KindAtStep, BareDirectoriesExcused, Answer, Legible,
       NewDirectoriesExcused, FilesHaveDirectories, WritersAreNotDeleted, DeleteIsComplete
  <2>6. CASE pc' = "apply" /\ kind' = kind /\ kind = "update" /\ id' = p /\ p \in live'
    <3>1. p \in dirs /\ p \notin deleted
      BY <2>2 DEF DirectoryInv, FilesHaveDirectories, DeleteIsComplete, Legible
    <3> QED
      BY <1>1, <2>1, <2>6, <3>1 DEF DirectoryInv, KindAtStep, BareDirectoriesExcused, Answer, Legible,
         NewDirectoriesExcused, FilesHaveDirectories, WritersAreNotDeleted, DeleteIsComplete
  <2>7. CASE pc' = "remove" /\ kind' = kind /\ kind = "delete" /\ id' = p
    BY <1>1, <2>1, <2>7 DEF DirectoryInv, KindAtStep, BareDirectoriesExcused, Answer, Legible,
       NewDirectoriesExcused, FilesHaveDirectories, WritersAreNotDeleted, DeleteIsComplete
  <2> QED
    BY <2>3, <2>4, <2>5, <2>6, <2>7
<1> QED
  BY <1>2, <1>3, LoadOutcomes

\* Update between its load and its first write.
LEMMA ApplyKeepsDirectories ==
    ASSUME IInv, DirectoryInv, ApplyNothing \/ Apply
    PROVE  DirectoryInv'
<1> USE NoProfileAssumption
<1>1. /\ pc = "apply" /\ kind = "update" /\ id \in live /\ id # NoProfile
      /\ UNCHANGED <<dirs, primary, backup, used, live, deleted, excused>>
  BY DEF ApplyNothing, Apply, DirectoryInv, KindAtStep, disk, ids, observers
<1>2. CASE ApplyNothing
  <2>1. Unlock /\ (\A p \in Profiles : Legible(p) <=> Legible(p)')
    BY <1>1, <1>2 DEF ApplyNothing, Legible
  <2> QED
    BY <1>1, <2>1, LettingGo, LiveIsLegible
<1>3. CASE Apply
  <2>1. pc' = "writeBackup" /\ UNCHANGED <<kind, id>>
    BY <1>3 DEF Apply
  <2> QED
    BY <1>1, <2>1 DEF DirectoryInv, KindAtStep, BareDirectoriesExcused, Answer,
       NewDirectoriesExcused, FilesHaveDirectories, WritersAreNotDeleted, DeleteIsComplete
<1> QED
  BY <1>2, <1>3

\* writeMetadata: the document it writes is legible, and a create that fails
\* goes on to remove its directory.
LEMMA WriteKeepsDirectories ==
    ASSUME IInv, DirectoryInv, WriteBackup \/ WritePrimary
    PROVE  DirectoryInv'
<1> USE NoProfileAssumption, MaxVersionAssumption
<1>1. /\ pc \in {"writeBackup", "writePrimary"} /\ id \in Profiles /\ id \in dirs /\ id \notin deleted
      /\ Readable(ver) /\ kind \in {"update", "create"}
      /\ kind = "update" => id \in live
      /\ dirs \subseteq Profiles /\ deleted \subseteq Profiles
      /\ primary \in [Profiles -> Versions] /\ backup \in [Profiles -> Versions]
  BY DEF WriteBackup, WritePrimary, IInv, TypeOK, HolderAtStep, WriterIsNewest, DirectoryInv, KindAtStep,
     WritersAreNotDeleted
<1>2. UNCHANGED <<dirs, used, deleted, excused>>
  BY DEF WriteBackup, WritePrimary, ids, observers
<1>3. /\ \A p \in Profiles \ {id} : primary'[p] = primary[p] /\ backup'[p] = backup[p]
      /\ Legible(id) => (Readable(primary'[id]) \/ Readable(backup'[id]))
      /\ \/ pc' = "writePrimary" /\ UNCHANGED <<kind, id, live>>
         \/ kind = "create" /\ pc' = "remove" /\ UNCHANGED <<kind, id, live>>
         \/ kind = "update" /\ Unlock
         \/ Unlock /\ (Readable(primary'[id]) \/ Readable(backup'[id]))
  <2>1. CASE WriteBackup
    BY <1>1, <2>1 DEF WriteBackup, WriteFails, Replaced, MaybeReplaced, Legible, observers
  <2>2. CASE WritePrimary
    BY <1>1, <2>2 DEF WritePrimary, WriteFails, Commit, Replaced, MaybeReplaced, Legible
  <2> QED
    BY <2>1, <2>2
<1>4. \A p \in Profiles \ {id} : Legible(p)' <=> Legible(p)
  BY <1>3 DEF Legible
<1>5. FilesHaveDirectories' /\ DeleteIsComplete'
  <2>1. FilesHaveDirectories'
    BY <1>1, <1>2, <1>3 DEF DirectoryInv, FilesHaveDirectories
  <2>2. DeleteIsComplete'
    BY <1>1, <1>2, <1>3 DEF DirectoryInv, DeleteIsComplete
  <2> QED
    BY <2>1, <2>2
<1>6. KindAtStep' /\ NewDirectoriesExcused' /\ WritersAreNotDeleted'
  BY <1>1, <1>2, <1>3 DEF Unlock, DirectoryInv, KindAtStep, NewDirectoriesExcused, WritersAreNotDeleted
<1>7. BareDirectoriesExcused'
  <2>1. Unlock => (Readable(primary'[id]) \/ Readable(backup'[id]))
    BY <1>1, <1>3, LiveIsLegible DEF Unlock
  <2>2. \A p \in dirs \ {id} : Legible(p)' \/ p \in excused
    BY <1>1, <1>4 DEF DirectoryInv, BareDirectoriesExcused, Answer, Legible
  <2>3. id' = id \/ Unlock
    BY <1>3
  <2> QED
    BY <1>2, <2>1, <2>2, <2>3 DEF BareDirectoriesExcused, Answer, Legible
<1> QED
  BY <1>5, <1>6, <1>7 DEF DirectoryInv

\* os.Mkdir, and what removes a directory.
LEMMA CreateKeepsDirectories ==
    ASSUME IInv, DirectoryInv, NEW p \in Profiles, Create(p)
    PROVE  DirectoryInv'
<1> USE NoProfileAssumption
<1>1. /\ pc = "idle" /\ id = NoProfile /\ p \notin used /\ kind' = "create" /\ id' = p
      /\ dirs' = dirs \cup {p} /\ used' = used \cup {p}
      /\ pc' \in {"writeBackup", "remove"}
      /\ UNCHANGED <<primary, backup, live, deleted, excused>>
  BY DEF Create, DirectoryInv, KindAtStep, observers
<1>2. p \notin deleted /\ p # NoProfile /\ dirs \subseteq Profiles
  BY <1>1 DEF DirectoryInv, WritersAreNotDeleted, IInv, TypeOK
<1> QED
  BY <1>1, <1>2 DEF DirectoryInv, KindAtStep, BareDirectoriesExcused, Answer,
     NewDirectoriesExcused, FilesHaveDirectories, WritersAreNotDeleted, DeleteIsComplete

LEMMA RemoveKeepsDirectories ==
    ASSUME IInv, DirectoryInv, RemoveChild \/ RemoveDir \/ RemoveFails \/ Verify
    PROVE  DirectoryInv'
<1> USE NoProfileAssumption, MaxVersionAssumption
<1>0. /\ pc \in {"remove", "verify"} /\ id \in Profiles /\ id \in used
      /\ dirs \subseteq Profiles /\ deleted \subseteq Profiles /\ excused \subseteq Profiles
      /\ primary \in [Profiles -> Versions] /\ backup \in [Profiles -> Versions]
  BY DEF RemoveChild, RemoveDir, RemoveFails, Verify, IInv, TypeOK, HolderAtStep
<1>1. CASE RemoveChild
  <2>1. /\ pc = "remove" /\ UNCHANGED <<dirs, pc, kind, id, used, live, deleted, excused>>
        /\ \A p \in Profiles : Legible(p)' => Legible(p)
        /\ \A p \in Profiles \ {id} : Legible(p)' <=> Legible(p)
    BY <1>0, <1>1 DEF RemoveChild, Replaced, Legible, lock, ids, observers
  <2> QED
    BY <1>0, <2>1 DEF DirectoryInv, KindAtStep, BareDirectoriesExcused, Answer, Legible,
       NewDirectoriesExcused, FilesHaveDirectories, WritersAreNotDeleted, DeleteIsComplete
<1>2. CASE RemoveDir
  <2>1. /\ ~ Legible(id) /\ dirs' = dirs \ {id}
        /\ \/ kind = "delete" /\ pc' = "verify" /\ UNCHANGED <<kind, id>>
           \/ Unlock
        /\ UNCHANGED <<primary, backup, used, live, deleted, excused>>
    BY <1>2 DEF RemoveDir, Legible, ids, observers
  <2> QED
    BY <1>0, <2>1 DEF Unlock, DirectoryInv, KindAtStep, BareDirectoriesExcused, Answer, Legible,
       NewDirectoriesExcused, FilesHaveDirectories, WritersAreNotDeleted, DeleteIsComplete
<1>3. CASE RemoveFails
  <2>1. /\ excused' = excused \cup {id} /\ Unlock
        /\ UNCHANGED <<dirs, primary, backup, used, live, deleted>>
    BY <1>3 DEF RemoveFails, disk, ids
  <2> QED
    BY <1>0, <2>1 DEF Unlock, DirectoryInv, KindAtStep, BareDirectoriesExcused, Answer,
       NewDirectoriesExcused, FilesHaveDirectories, WritersAreNotDeleted, DeleteIsComplete
<1>4. CASE Verify
  <2>1. /\ pc = "verify" /\ Unlock
        /\ deleted' = IF id \in dirs THEN deleted ELSE deleted \cup {id}
        /\ UNCHANGED <<dirs, primary, backup, used, live, excused>>
    BY <1>4 DEF Verify, disk, ids
  <2>2. id \in dirs => id \in excused
    BY <2>1 DEF DirectoryInv, NewDirectoriesExcused
  <2>3. id \notin dirs => ~ Readable(primary[id]) /\ ~ Readable(backup[id])
    BY <1>0 DEF DirectoryInv, FilesHaveDirectories
  <2>4. DeleteIsComplete' /\ WritersAreNotDeleted'
    BY <1>0, <2>1, <2>3 DEF Unlock, DirectoryInv, DeleteIsComplete, WritersAreNotDeleted
  <2>5. BareDirectoriesExcused'
    BY <1>0, <2>1, <2>2 DEF DirectoryInv, BareDirectoriesExcused, Answer
  <2> QED
    BY <2>1, <2>4, <2>5 DEF Unlock, DirectoryInv, KindAtStep, NewDirectoriesExcused, FilesHaveDirectories
<1> QED
  BY <1>1, <1>2, <1>3, <1>4

LEMMA ImportKeepsDirectories ==
    ASSUME IInv, DirectoryInv,
           ImportRename \/ ImportFails
             \/ (\E source \in Profiles, p \in Profiles : ImportStage(source, p))
    PROVE  DirectoryInv'
<1> USE NoProfileAssumption, MaxVersionAssumption
<1>0. /\ dirs \subseteq Profiles /\ deleted \subseteq Profiles
      /\ primary \in [Profiles -> Versions] /\ backup \in [Profiles -> Versions]
  BY DEF IInv, TypeOK
<1>1. ASSUME NEW source \in Profiles, NEW p \in Profiles, ImportStage(source, p) PROVE DirectoryInv'
  <2>1. /\ pc = "idle" /\ id = NoProfile /\ p \notin dirs /\ p # NoProfile
        /\ kind' = "import" /\ id' = p /\ pc' = "rename" /\ used' = used \cup {p}
        /\ UNCHANGED <<dirs, primary, backup, live, deleted, excused>>
    BY <1>1 DEF ImportStage, ImportTarget, DirectoryInv, KindAtStep, disk, observers
  <2> QED
    BY <1>0, <2>1 DEF DirectoryInv, KindAtStep, BareDirectoriesExcused, Answer,
       NewDirectoriesExcused, FilesHaveDirectories, WritersAreNotDeleted, DeleteIsComplete
<1>2. CASE ImportRename
  <2>1. /\ id \in Profiles /\ Readable(ver)
        /\ dirs' = dirs \cup {id} /\ deleted' = deleted \ {id} /\ Unlock
        /\ primary' = [primary EXCEPT ![id] = ver] /\ backup' = [backup EXCEPT ![id] = ver]
        /\ UNCHANGED <<used, excused>>
    BY <1>2 DEF ImportRename, Commit, Replaced, IInv, TypeOK, HolderAtStep, WriterIsNewest, ids
  <2>2. /\ primary'[id] = ver /\ backup'[id] = ver
        /\ \A p \in Profiles \ {id} : primary'[p] = primary[p] /\ backup'[p] = backup[p]
    BY <1>0, <2>1
  <2>3. KindAtStep' /\ NewDirectoriesExcused' /\ WritersAreNotDeleted'
    BY <2>1 DEF Unlock, DirectoryInv, KindAtStep, NewDirectoriesExcused, WritersAreNotDeleted
  <2>4. FilesHaveDirectories' /\ DeleteIsComplete'
    BY <1>0, <2>1, <2>2 DEF DirectoryInv, FilesHaveDirectories, DeleteIsComplete
  <2>5. BareDirectoriesExcused'
    BY <1>0, <2>1, <2>2 DEF DirectoryInv, BareDirectoriesExcused, Answer
  <2> QED
    BY <2>3, <2>4, <2>5 DEF DirectoryInv
<1>3. CASE ImportFails
  <2>1. /\ pc = "rename" /\ Unlock
        /\ UNCHANGED <<dirs, primary, backup, used, deleted, excused>>
    BY <1>3 DEF ImportFails, disk, ids, observers
  <2>2. \A p \in Profiles : Legible(p) <=> Legible(p)'
    BY <2>1 DEF Legible
  <2>3. id \in dirs => id \in excused
    BY <2>1 DEF DirectoryInv, NewDirectoriesExcused
  <2> QED
    BY <2>1, <2>2, <2>3, LettingGo
<1> QED
  BY <1>1, <1>2, <1>3

\* Settings saves, damage and crashes.
LEMMA EnvironmentKeepsDirectories ==
    ASSUME IInv, IInv', DirectoryInv,
           \/ \E s \in Savers : SaveWrite(s) \/ SaveFails(s)
           \/ \E p \in Profiles : Damage(p)
           \/ Crash
    PROVE  DirectoryInv'
<1> USE NoProfileAssumption, MaxVersionAssumption
<1>0. /\ dirs \subseteq Profiles /\ deleted \subseteq Profiles
      /\ primary \in [Profiles -> Versions] /\ backup \in [Profiles -> Versions]
  BY DEF IInv, TypeOK
<1>1. ASSUME NEW s \in Savers, SaveWrite(s) \/ SaveFails(s) PROVE DirectoryInv'
  <2>1. PICK D \in SUBSET Profiles :
          /\ dirs' = dirs \cup D /\ excused' = excused \cup (D \ dirs)
          /\ UNCHANGED <<primary, backup, pc, kind, id, used, live, deleted>>
    <3>1. CASE SaveWrite(s)
      <4>1. saving[s] \in Profiles
        BY <3>1 DEF SaveWrite, IInv, TypeOK
      <4>2. excused' = excused \cup ({saving[s]} \ dirs)
        BY <3>1 DEF SaveWrite
      <4> QED
        BY <3>1, <4>1, <4>2 DEF SaveWrite, lock, ids
    <3>2. CASE SaveFails(s)
      <4>1. dirs' = dirs \cup {} /\ excused' = excused \cup ({} \ dirs)
        BY <3>2 DEF SaveFails, disk, observers
      <4> QED
        BY <3>2, <4>1 DEF SaveFails, disk, lock, ids, observers
    <3> QED
      BY <1>1, <3>1, <3>2
  <2> QED
    BY <2>1 DEF DirectoryInv, KindAtStep, BareDirectoriesExcused, Answer,
       NewDirectoriesExcused, FilesHaveDirectories, WritersAreNotDeleted, DeleteIsComplete
<1>2. ASSUME NEW p \in Profiles, Damage(p) PROVE DirectoryInv'
  <2>1. /\ p \in live /\ p \in live'
        /\ \/ primary' = [primary EXCEPT ![p] = 0] /\ UNCHANGED backup
           \/ backup' = [backup EXCEPT ![p] = 0] /\ UNCHANGED primary
        /\ UNCHANGED <<dirs, pc, kind, id, used, live, deleted, excused>>
    BY <1>2 DEF Damage, Replaced, lock, ids
  <2>2. Legible(p) /\ Legible(p)'
    BY <2>1 DEF IInv, OneCopyLeft, Legible
  <2>3. \A q \in Profiles : Legible(q) <=> Legible(q)'
    BY <1>0, <2>1, <2>2 DEF Legible
  <2> QED
    BY <1>0, <2>1, <2>3 DEF DirectoryInv, KindAtStep, BareDirectoriesExcused, Answer, Legible,
       NewDirectoriesExcused, FilesHaveDirectories, WritersAreNotDeleted, DeleteIsComplete
<1>3. CASE Crash
  <2>1. /\ Unlock
        /\ excused' = IF kind = "create" \/ pc = "remove" THEN excused \cup {id} ELSE excused
        /\ UNCHANGED <<dirs, primary, backup, used, live, deleted>>
    BY <1>3 DEF Crash, disk, ids
  <2>2. id \in dirs => Legible(id) \/ id \in excused'
    <3>1. CASE pc \in {"idle", "load"}
      BY <1>0, <3>1 DEF DirectoryInv, KindAtStep
    <3>2. CASE kind = "create" \/ pc = "remove"
      BY <2>1, <3>2
    <3>3. CASE pc \in {"rename", "verify"}
      BY <2>1, <3>3 DEF DirectoryInv, NewDirectoriesExcused
    <3>4. CASE pc \in {"apply", "writeBackup", "writePrimary"} /\ kind # "create"
      <4>1. kind = "update" /\ id \in live
        BY <3>4 DEF DirectoryInv, KindAtStep
      <4> QED
        BY <4>1, LiveIsLegible
    <3> QED
      BY <3>1, <3>2, <3>3, <3>4 DEF IInv, TypeOK, Steps
  <2>3. BareDirectoriesExcused'
    BY <2>1, <2>2 DEF DirectoryInv, BareDirectoriesExcused, Answer, Legible
  <2> QED
    BY <2>1, <2>3 DEF Unlock, DirectoryInv, KindAtStep, NewDirectoriesExcused,
       FilesHaveDirectories, WritersAreNotDeleted, DeleteIsComplete
<1> QED
  BY <1>1, <1>2, <1>3

LEMMA NextKeepsDirectories == IInv /\ IInv' /\ DirectoryInv /\ [Next]_vars => DirectoryInv'
<1> SUFFICES ASSUME IInv, IInv', DirectoryInv, [Next]_vars PROVE DirectoryInv'
  OBVIOUS
<1>1. ASSUME NEW p \in Profiles, Get(p) \/ Update(p) \/ Delete(p) \/ SaveCheck(p) PROVE DirectoryInv'
  BY <1>1, LockKeepsDirectories DEF Get, Update, Delete, SaveCheck
<1>2. CASE List
  BY <1>2, LockKeepsDirectories DEF List
<1>3. CASE UNCHANGED vars
  BY <1>3 DEF vars, disk, lock, ids, observers, DirectoryInv, KindAtStep, BareDirectoriesExcused, Answer,
     NewDirectoriesExcused, FilesHaveDirectories, WritersAreNotDeleted, DeleteIsComplete
<1> QED
  BY <1>1, <1>2, <1>3, LoadKeepsDirectories, ApplyKeepsDirectories, WriteKeepsDirectories,
     CreateKeepsDirectories, RemoveKeepsDirectories, ImportKeepsDirectories,
     EnvironmentKeepsDirectories DEF Next

\* What is known of the directories holds of every behaviour of the store.
THEOREM DirectoryInvariant == Spec => []DirectoryInv
BY InitDirectoryInv, NextKeepsDirectories, InductiveInvariant, PTL DEF Spec

\* Every directory without readable metadata comes from a create or delete cut
\* short, or from a settings save that raced a delete.
THEOREM OnlyExcusedDirectoriesAreBare == Spec => []BareDirectoriesExcused
BY DirectoryInvariant, PTL DEF DirectoryInv

\* After Delete returned nil no metadata of the profile is left.
THEOREM DeletionsAreComplete == Spec => []DeleteIsComplete
BY DirectoryInvariant, PTL DEF DirectoryInv
=============================================================================
