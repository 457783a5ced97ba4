--------------------------- MODULE RestoreProofs ---------------------------
(***************************************************************************)
(* Proofs about Restore, for every set of pods, every set of sentinels,    *)
(* every configuration and every combination of mishaps.                   *)
(***************************************************************************)
EXTENDS Restore, TLAPS

(* Types *)

LEMMA InitTyped == Init => TypeOK
  BY DEF Init, TypeOK, Files, RestorePc, InitPc, Snapshots, Inodes

\* What moves one pod from one place to another keeps the types.
LEMMA MoveTyped ==
  ASSUME TypeOK, NEW p \in Pods, NEW from, NEW to \in RestorePc,
         Goto(p, from, to) \/ Exit0(p, from) \/ Exit1(p, from)
  PROVE  /\ pc' \in [Pods -> RestorePc] /\ ok' \in [Pods -> BOOLEAN] /\ repo' \in Snapshots
  BY DEF TypeOK, Goto, Exit0, Exit1, RestorePc

LEMMA RunTyped ==
  ASSUME TypeOK, NEW p \in Pods, RunRestore(p)
  PROVE  TypeOK'
<1> USE DEF config, volume, lockfile
<1>1. CASE Look(p)
  BY <1>1, MoveTyped DEF Look, TypeOK, Goto, Exit0, Exit1, RestorePc, InitPc
<1>2. CASE CheckMarker(p)
  BY <1>2 DEF CheckMarker, TypeOK, Goto, Exit0, Exit1, RestorePc, InitPc
<1>3. CASE PickSnapshot(p)
  BY <1>3 DEF PickSnapshot, RepositoryError, PickPinned, PickLatest, TypeOK, Goto, Exit0, Exit1,
              RestorePc, InitPc
<1>4. CASE OpenLock(p)
  BY <1>4 DEF OpenLock, TypeOK, Goto, RestorePc, InitPc
<1>5. CASE TryLock(p)
  BY <1>5 DEF TryLock, TypeOK, Goto, Exit0, RestorePc, InitPc
<1>6. CASE RestoreFile(p)
  BY <1>6 DEF RestoreFile, TypeOK, Contents, Files
<1>7. CASE EndRestore(p)
  BY <1>7 DEF EndRestore, TypeOK, Goto, RestorePc, InitPc
<1>8. CASE Verify(p)
  BY <1>8 DEF Verify, TypeOK, Goto, RestorePc, InitPc
<1>9. CASE WriteMarker(p)
  BY <1>9 DEF WriteMarker, TypeOK, Goto, RestorePc, InitPc
<1>10. CASE Unlock(p)
  BY <1>10 DEF Unlock, TypeOK, Goto, RestorePc, InitPc
<1>11. CASE Unlink(p)
  BY <1>11 DEF Unlink, TypeOK, RestorePc, InitPc
<1> QED
  BY <1>1, <1>2, <1>3, <1>4, <1>5, <1>6, <1>7, <1>8, <1>9, <1>10, <1>11 DEF RunRestore

LEMMA StepTyped == TypeOK /\ [Next]_vars => TypeOK'
<1> SUFFICES ASSUME TypeOK, [Next]_vars
             PROVE  TypeOK'
  OBVIOUS
<1> USE DEF config, volume, lockfile
<1>1. ASSUME NEW p \in mounts, AppWrites(p) \/ Restart(p) \/ Crash(p)
      PROVE  TypeOK'
  BY <1>1 DEF AppWrites, Restart, Crash, Goto, TypeOK, Files, RestorePc, InitPc
<1>2. CASE Backup \/ Corrupt \/ SetOverride
  BY <1>2 DEF Backup, Corrupt, SetOverride, TypeOK, Snapshots
<1>3. CASE UNCHANGED vars
  BY <1>3 DEF vars, TypeOK
<1> QED
  BY <1>1, <1>2, <1>3, RunTyped DEF Next, TypeOK

\* Every pod is at a step of the program, the volume holds files of the app,
\* the lock file and the descriptors are inodes.
THEOREM RestoreTyped == Spec => []TypeOK
<1> QED
  BY InitTyped, StepTyped, PTL DEF Spec

-----------------------------------------------------------------------------
(* The marker *)

\* A pod between the restore and the marker has seen a restore end.
MarkerInv == /\ MarkerMeansRestored
             /\ \A p \in Pods : pc[p] \in {"verify", "mark"} => "restored" \in ends

LEMMA MarkerStep == TypeOK /\ MarkerInv /\ [Next]_vars => MarkerInv'
<1> SUFFICES ASSUME TypeOK, MarkerInv, [Next]_vars
             PROVE  MarkerInv'
  OBVIOUS
<1> USE DEF config, volume, lockfile, MarkerInv, MarkerMeansRestored, TypeOK
<1>1. ASSUME NEW p \in mounts, RunRestore(p)
      PROVE  MarkerInv'
  <2>1. CASE Look(p) \/ CheckMarker(p)
    BY <2>1 DEF Look, CheckMarker, Goto, Exit0, Exit1
  <2>2. CASE PickSnapshot(p)
    BY <2>2 DEF PickSnapshot, RepositoryError, PickPinned, PickLatest, Goto, Exit0, Exit1
  <2>3. CASE OpenLock(p)
    BY <2>3 DEF OpenLock, Goto
  <2>4. CASE TryLock(p)
    BY <2>4 DEF TryLock, Goto, Exit0
  <2>5. CASE RestoreFile(p) \/ EndRestore(p)
    BY <2>5 DEF RestoreFile, EndRestore, Goto
  <2>6. CASE Verify(p) \/ WriteMarker(p)
    BY <2>6 DEF Verify, WriteMarker, Goto
  <2>7. CASE Unlock(p) \/ Unlink(p)
    BY <2>7 DEF Unlock, Unlink, Goto
  <2> QED
    BY <1>1, <2>1, <2>2, <2>3, <2>4, <2>5, <2>6, <2>7 DEF RunRestore
<1>2. ASSUME NEW p \in mounts, AppWrites(p) \/ Restart(p) \/ Crash(p)
      PROVE  MarkerInv'
  BY <1>2 DEF AppWrites, Restart, Crash, Goto
<1>3. CASE Backup \/ Corrupt \/ SetOverride
  BY <1>3 DEF Backup, Corrupt, SetOverride
<1>4. CASE UNCHANGED vars
  BY <1>4 DEF vars
<1> QED
  BY <1>1, <1>2, <1>3, <1>4 DEF Next

\* .k8si-restore-complete is on the volume only if a restore ran to its end.
THEOREM MarkerSound == Spec => []MarkerMeansRestored
<1>1. Init => MarkerInv
  BY DEF Init, MarkerInv, MarkerMeansRestored
<1>2. MarkerInv => MarkerMeansRestored
  BY DEF MarkerInv
<1> QED
  BY <1>1, <1>2, MarkerStep, RestoreTyped, PTL DEF Spec

-----------------------------------------------------------------------------
(* One writer *)

\* Data an app has initialised is complete, and no init container that has
\* passed the sentinel check works beside it.
KeptInv == /\ app => disk = Files
           /\ SingleWriter => \A p \in Pods : pc[p] \in InitPc => p \in mounts /\ ~app

LEMMA KeptStep ==
  ASSUME Sentinels # {}
  PROVE  TypeOK /\ KeptInv /\ [Next]_vars => KeptInv'
<1> SUFFICES ASSUME TypeOK, KeptInv, [Next]_vars
             PROVE  KeptInv'
  OBVIOUS
<1> USE DEF config, volume, lockfile, KeptInv, SingleWriter, TypeOK, InitPc, Files
<1>1. ASSUME NEW p \in mounts, RunRestore(p)
      PROVE  KeptInv'
  <2>1. CASE Look(p)
    \* An app's data has every sentinel: it is not passed over.
    BY <2>1 DEF Look, Goto, Exit0
  <2>2. CASE CheckMarker(p)
    BY <2>2 DEF CheckMarker, Goto, Exit0, Exit1
  <2>3. CASE PickSnapshot(p)
    BY <2>3 DEF PickSnapshot, RepositoryError, PickPinned, PickLatest, Goto, Exit0, Exit1
  <2>4. CASE OpenLock(p)
    BY <2>4 DEF OpenLock, Goto
  <2>5. CASE TryLock(p)
    BY <2>5 DEF TryLock, Goto, Exit0
  <2>6. CASE RestoreFile(p)
    <3>1. Contents \subseteq Files
      BY DEF Contents, Files
    <3> QED
      BY <2>6, <3>1 DEF RestoreFile
  <2>7. CASE EndRestore(p)
    BY <2>7 DEF EndRestore, Goto
  <2>8. CASE Verify(p) \/ WriteMarker(p)
    BY <2>8 DEF Verify, WriteMarker, Goto
  <2>9. CASE Unlock(p) \/ Unlink(p)
    BY <2>9 DEF Unlock, Unlink, Goto
  <2> QED
    BY <1>1, <2>1, <2>2, <2>3, <2>4, <2>5, <2>6, <2>7, <2>8, <2>9 DEF RunRestore
<1>2. ASSUME NEW p \in mounts, AppWrites(p) \/ Restart(p) \/ Crash(p)
      PROVE  KeptInv'
  \* The only pod is the one whose app writes.
  BY <1>2 DEF AppWrites, Restart, Crash, Goto
<1>3. CASE Backup \/ Corrupt \/ SetOverride
  BY <1>3 DEF Backup, Corrupt, SetOverride
<1>4. CASE UNCHANGED vars
  BY <1>4 DEF vars
<1> QED
  BY <1>1, <1>2, <1>3, <1>4 DEF Next

\* One pod on the volume and at least one sentinel: whatever fails, crashes or
\* gets lost, data the app has initialised is never restored over.
THEOREM SingleWriterKeepsData ==
  ASSUME Sentinels # {}
  PROVE  Spec => []AppDataKept
<1>1. Init => KeptInv
  BY DEF Init, KeptInv, InitPc
<1>2. KeptInv => AppDataKept
  BY DEF KeptInv, AppDataKept, InitPc
<1>3. TypeOK /\ KeptInv /\ [Next]_vars => KeptInv'
  BY KeptStep
<1> QED
  BY <1>1, <1>2, <1>3, RestoreTyped, PTL DEF Spec

-----------------------------------------------------------------------------
(* The decision table *)

\* The snapshot a restore was begun from, or a better one, is still there; a pod
\* that has written the marker has found its sentinels, and nothing takes them
\* away before it exits; a pod that waits for the lock does not hold it.
Restorable == SentinelsInSnapshot /\ (pinned \/ repo \in {"good", "misplaced", "bad"})
Restoring(p) == pc[p] \in {"open", "lock", "restore", "verify", "mark"}
TableInv == /\ marker \/ (\E p \in Pods : Restoring(p)) => Restorable
            /\ \A p \in Pods :
                 /\ pc[p] = "mark" => Sentinels \subseteq disk
                 /\ pc[p] \in {"unlock", "unlink"} /\ ok[p] => marker /\ Sentinels \subseteq disk
                 /\ p \in flocked => pc[p] \in {"restore", "verify", "mark", "unlock"}

LEMMA TableStep == TypeOK /\ TableInv /\ [Next]_vars => TableInv'
<1> SUFFICES ASSUME TypeOK, TableInv, [Next]_vars
             PROVE  TableInv'
  OBVIOUS
<1> USE DEF config, volume, lockfile, TableInv, Restoring, Restorable, SentinelsInSnapshot,
            TypeOK, InitPc
<1>1. ASSUME NEW p \in mounts, RunRestore(p)
      PROVE  TableInv'
  <2>1. CASE Look(p)
    BY <2>1 DEF Look, Goto, Exit0
  <2>2. CASE CheckMarker(p)
    BY <2>2 DEF CheckMarker, Goto, Exit0, Exit1
  <2>3. CASE PickSnapshot(p)
    BY <2>3 DEF PickSnapshot, RepositoryError, PickPinned, PickLatest, Goto, Exit0, Exit1
  <2>4. CASE OpenLock(p)
    BY <2>4 DEF OpenLock, Goto
  <2>5. CASE TryLock(p)
    BY <2>5 DEF TryLock, Goto, Exit0
  <2>6. CASE RestoreFile(p)
    BY <2>6 DEF RestoreFile
  <2>7. CASE EndRestore(p)
    BY <2>7 DEF EndRestore, Goto
  <2>8. CASE Verify(p)
    BY <2>8 DEF Verify, Goto
  <2>9. CASE WriteMarker(p)
    BY <2>9 DEF WriteMarker, Goto
  <2>10. CASE Unlock(p)
    BY <2>10 DEF Unlock, Goto
  <2>11. CASE Unlink(p)
    BY <2>11 DEF Unlink
  <2> QED
    BY <1>1, <2>1, <2>2, <2>3, <2>4, <2>5, <2>6, <2>7, <2>8, <2>9, <2>10, <2>11 DEF RunRestore
<1>2. ASSUME NEW p \in mounts, AppWrites(p) \/ Restart(p) \/ Crash(p)
      PROVE  TableInv'
  <2>1. CASE AppWrites(p)
    BY <2>1 DEF AppWrites, Files
  <2>2. CASE Restart(p) \/ Crash(p)
    BY <2>2 DEF Restart, Crash, Goto
  <2> QED
    BY <1>2, <2>1, <2>2
<1>3. CASE Backup
  BY <1>3 DEF Backup
<1>4. CASE Corrupt \/ SetOverride
  BY <1>4 DEF Corrupt, SetOverride
<1>5. CASE UNCHANGED vars
  BY <1>5 DEF vars
<1> QED
  BY <1>1, <1>2, <1>3, <1>4, <1>5 DEF Next

LEMMA JustifiedStep ==
  ASSUME TypeOK, TableInv, Next, NEW p \in Pods, Starts(p)
  PROVE  \/ override
         \/ Sentinels # {} /\ Sentinels \subseteq disk
         \/ Sentinels = {} /\ marker
         \/ ~marker /\ ~pinned /\ repo = "none" /\ ~required
         \/ ~marker /\ ~pinned /\ repo \in {"bad", "outside"}
         \/ flocked \ {p} # {}
<1> USE DEF TableInv, TypeOK, Starts
\* Only the pod's own exit 0 starts its app.
<1>1. ASSUME NEW q \in mounts, AppWrites(q) \/ Restart(q) \/ Crash(q)
      PROVE  FALSE
  BY <1>1 DEF AppWrites, Restart, Crash, Goto
<1>2. ASSUME Backup \/ Corrupt \/ SetOverride
      PROVE  FALSE
  BY <1>2 DEF Backup, Corrupt, SetOverride
<1>3. PICK q \in mounts : RunRestore(q)
  BY <1>1, <1>2 DEF Next
<1>4. CASE Look(q)
  BY <1>4 DEF Look, Goto, Exit0
<1>5. CASE CheckMarker(q)
  BY <1>5 DEF CheckMarker, Goto, Exit0, Exit1
<1>6. CASE PickSnapshot(q)
  <2>1. PickLatest(q) /\ ~pinned /\ pc[q] = "pick" /\ q = p
    BY <1>6 DEF PickSnapshot, RepositoryError, PickPinned, PickLatest, Goto, Exit0, Exit1
  <2>2. ~Restorable /\ ~(repo = "none" /\ required)
    BY <2>1 DEF PickLatest, Goto, Exit1, Restorable
  <2>3. ~marker
    BY <2>2
  <2> QED
    BY <2>1, <2>2, <2>3 DEF Restorable, SentinelsInSnapshot, Snapshots
<1>7. CASE TryLock(q)
  BY <1>7 DEF TryLock, Goto, Exit0
<1>8. CASE Unlink(q)
  BY <1>8 DEF Unlink
<1>9. CASE OpenLock(q) \/ RestoreFile(q)
  BY <1>9 DEF OpenLock, RestoreFile, Goto
<1>10. CASE EndRestore(q) \/ Verify(q)
  BY <1>10 DEF EndRestore, Verify, Goto
<1>11. CASE WriteMarker(q) \/ Unlock(q)
  BY <1>11 DEF WriteMarker, Unlock, Goto
<1> QED
  BY <1>3, <1>4, <1>5, <1>6, <1>7, <1>8, <1>9, <1>10, <1>11 DEF RunRestore

\* The app starts only on a row of the decision table, for any number of pods:
\* what a pod has read of the volume and of the repository still holds for the
\* table when it acts on it.
THEOREM StartsJustified == Spec => StartIsJustified
<1>1. Init => TableInv
  BY DEF Init, TableInv, Restoring
<1>2. TypeOK /\ TableInv /\ [Next]_vars =>
        [\A p \in Pods : Starts(p) =>
           \/ override
           \/ Sentinels # {} /\ Sentinels \subseteq disk
           \/ Sentinels = {} /\ marker
           \/ ~marker /\ ~pinned /\ repo = "none" /\ ~required
           \/ ~marker /\ ~pinned /\ repo \in {"bad", "outside"}
           \/ flocked \ {p} # {}]_vars
  BY JustifiedStep
<1> QED
  BY <1>1, <1>2, TableStep, RestoreTyped, PTL DEF Spec, StartIsJustified

-----------------------------------------------------------------------------
(* The lock *)

\* The volume is mounted by at most two pods (any number may wait elsewhere).
Pair == \E a, b \in Pods : mounts \subseteq {a, b}

Clean == "failed" \notin ends

\* A pod has the lock file open from "lock" on and holds the flock from
\* "restore" on, until it unlocks; a file has one holder; until a restore fails
\* no init container is on its way to exit 1 from within the lock.
LockInv ==
  /\ \A p \in Pods :
       /\ pc[p] # "look" => p \in mounts
       /\ (fd[p] # 0) = (pc[p] \in {"lock", "restore", "verify", "mark", "unlock"})
       /\ (p \in flocked) = (pc[p] \in {"restore", "verify", "mark", "unlock"})
       /\ Clean => ok[p]
  /\ \A p, q \in flocked : fd[p] = fd[q] => p = q

LEMMA LockStep == TypeOK /\ LockInv /\ [Next]_vars => LockInv'
<1> SUFFICES ASSUME TypeOK, LockInv, [Next]_vars
             PROVE  LockInv'
  OBVIOUS
<1> USE DEF config, volume, lockfile, LockInv, Clean, TypeOK, InitPc, Inodes
<1>1. ASSUME NEW p \in mounts, RunRestore(p)
      PROVE  LockInv'
  <2>1. CASE Look(p)
    BY <2>1 DEF Look, Goto, Exit0
  <2>2. CASE CheckMarker(p)
    BY <2>2 DEF CheckMarker, Goto, Exit0, Exit1
  <2>3. CASE PickSnapshot(p)
    BY <2>3 DEF PickSnapshot, RepositoryError, PickPinned, PickLatest, Goto, Exit0, Exit1
  <2>4. CASE OpenLock(p)
    BY <2>4 DEF OpenLock, Goto
  <2>5. CASE TryLock(p)
    BY <2>5 DEF TryLock, Goto, Exit0
  <2>6. CASE RestoreFile(p)
    BY <2>6 DEF RestoreFile
  <2>7. CASE EndRestore(p)
    BY <2>7 DEF EndRestore, Goto
  <2>8. CASE Verify(p)
    BY <2>8 DEF Verify, Goto
  <2>9. CASE WriteMarker(p)
    BY <2>9 DEF WriteMarker, Goto
  <2>10. CASE Unlock(p)
    BY <2>10 DEF Unlock, Goto
  <2>11. CASE Unlink(p)
    BY <2>11 DEF Unlink
  <2> QED
    BY <1>1, <2>1, <2>2, <2>3, <2>4, <2>5, <2>6, <2>7, <2>8, <2>9, <2>10, <2>11 DEF RunRestore
<1>2. ASSUME NEW p \in mounts, AppWrites(p) \/ Restart(p) \/ Crash(p)
      PROVE  LockInv'
  <2>1. CASE AppWrites(p)
    BY <2>1 DEF AppWrites
  <2>2. CASE Restart(p) \/ Crash(p)
    BY <2>2 DEF Restart, Crash, Goto
  <2> QED
    BY <1>2, <2>1, <2>2
<1>3. CASE Backup \/ Corrupt \/ SetOverride
  BY <1>3 DEF Backup, Corrupt, SetOverride
<1>4. CASE UNCHANGED vars
  BY <1>4 DEF vars
<1> QED
  BY <1>1, <1>2, <1>3, <1>4 DEF Next

\* A pod whose lock file is no longer the one at the path was overtaken by the
\* unlink of the other, which has restored the volume: the other can only
\* start its app, and never comes back to open a new file.
Settled == marker /\ Sentinels \subseteq disk
Aside(q) == pc[q] \in {"look", "marker", "app"}
DetachedInv ==
  Pair /\ Clean =>
    \A p \in Pods : fd[p] \notin {0, path} =>
      Settled /\ \A q \in Pods \ {p} : Aside(q)

\* Who mounts the volume is given; what has ended has ended.
LEMMA MountsKept ==
  ASSUME [Next]_vars
  PROVE  mounts' = mounts /\ ends \subseteq ends'
<1> USE DEF config, volume, lockfile
<1>1. ASSUME NEW p \in mounts, RunRestore(p)
      PROVE  mounts' = mounts /\ ends \subseteq ends'
  <2>1. CASE Look(p) \/ CheckMarker(p) \/ OpenLock(p) \/ TryLock(p)
    BY <2>1 DEF Look, CheckMarker, OpenLock, TryLock, Goto, Exit0, Exit1
  <2>2. CASE PickSnapshot(p)
    BY <2>2 DEF PickSnapshot, RepositoryError, PickPinned, PickLatest, Goto, Exit0, Exit1
  <2>3. CASE RestoreFile(p) \/ EndRestore(p) \/ Verify(p)
    BY <2>3 DEF RestoreFile, EndRestore, Verify, Goto
  <2>4. CASE WriteMarker(p) \/ Unlock(p) \/ Unlink(p)
    BY <2>4 DEF WriteMarker, Unlock, Unlink, Goto
  <2> QED
    BY <1>1, <2>1, <2>2, <2>3, <2>4 DEF RunRestore
<1>2. ASSUME NEW p \in mounts, AppWrites(p) \/ Restart(p) \/ Crash(p)
      PROVE  mounts' = mounts /\ ends \subseteq ends'
  BY <1>2 DEF AppWrites, Restart, Crash, Goto
<1>3. CASE Backup \/ Corrupt \/ SetOverride
  BY <1>3 DEF Backup, Corrupt, SetOverride
<1>4. CASE UNCHANGED vars
  BY <1>4 DEF vars
<1> QED
  BY <1>1, <1>2, <1>3, <1>4 DEF Next

LEMMA DetachedStep ==
  TypeOK /\ TableInv /\ LockInv /\ DetachedInv /\ [Next]_vars => DetachedInv'
<1> SUFFICES ASSUME TypeOK, TableInv, LockInv, DetachedInv, [Next]_vars, Pair', Clean',
                    NEW p \in Pods, fd'[p] \notin {0, path'}
             PROVE  Settled' /\ \A q \in Pods \ {p} : Aside(q)'
  BY DEF DetachedInv
<1> USE DEF config, volume, lockfile, LockInv, TypeOK, InitPc, Inodes, Settled, Aside
<1>1. Pair /\ Clean
  BY MountsKept DEF Pair, Clean
<1>2. ASSUME NEW r \in mounts, RunRestore(r)
      PROVE  Settled' /\ \A q \in Pods \ {p} : Aside(q)'
  <2> USE <1>1 DEF DetachedInv
  <2>1. CASE Look(r)
    BY <2>1 DEF Look, Goto, Exit0
  <2>2. CASE CheckMarker(r)
    BY <2>2 DEF CheckMarker, Goto, Exit0, Exit1
  <2>3. CASE PickSnapshot(r)
    BY <2>3 DEF PickSnapshot, RepositoryError, PickPinned, PickLatest, Goto, Exit0, Exit1
  <2>4. CASE OpenLock(r)
    BY <2>4 DEF OpenLock, Goto
  <2>5. CASE TryLock(r)
    BY <2>5 DEF TryLock, Goto, Exit0
  <2>6. CASE RestoreFile(r)
    BY <2>6 DEF RestoreFile
  <2>7. CASE EndRestore(r)
    BY <2>7 DEF EndRestore, Goto
  <2>8. CASE Verify(r)
    BY <2>8 DEF Verify, Goto
  <2>9. CASE WriteMarker(r)
    BY <2>9 DEF WriteMarker, Goto
  <2>10. CASE Unlock(r)
    BY <2>10 DEF Unlock, Goto
  <2>11. CASE Unlink(r)
    BY <2>11 DEF Unlink, TableInv, Pair, Clean
  <2> QED
    BY <1>2, <2>1, <2>2, <2>3, <2>4, <2>5, <2>6, <2>7, <2>8, <2>9, <2>10, <2>11 DEF RunRestore
<1>3. ASSUME NEW r \in mounts, AppWrites(r) \/ Restart(r) \/ Crash(r)
      PROVE  Settled' /\ \A q \in Pods \ {p} : Aside(q)'
  <2> USE <1>1 DEF DetachedInv
  <2>1. CASE AppWrites(r)
    BY <2>1 DEF AppWrites, Files
  <2>2. CASE Restart(r) \/ Crash(r)
    BY <2>2 DEF Restart, Crash, Goto
  <2> QED
    BY <1>3, <2>1, <2>2
<1>4. CASE Backup \/ Corrupt \/ SetOverride
  BY <1>1, <1>4 DEF Backup, Corrupt, SetOverride, DetachedInv
<1>5. CASE UNCHANGED vars
  BY <1>1, <1>5 DEF vars, DetachedInv
<1> QED
  BY <1>2, <1>3, <1>4, <1>5 DEF Next

\* Two pods on one volume never restore it at the same time, wherever they
\* interleave, crash, restart or miss the repository, until a restore fails.
THEOREM OneRestoreAtATime == Spec => [](Pair => OneRestore)
<1>1. Init => TableInv /\ LockInv /\ DetachedInv
  BY DEF Init, TableInv, Restoring, LockInv, DetachedInv
<1>2. TypeOK /\ LockInv /\ DetachedInv => (Pair => OneRestore)
  BY DEF TypeOK, LockInv, DetachedInv, OneRestore, Clean, Aside
<1> QED
  BY <1>1, <1>2, TableStep, LockStep, DetachedStep, RestoreTyped, PTL DEF Spec
=============================================================================
