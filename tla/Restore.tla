------------------------------ MODULE Restore ------------------------------
(***************************************************************************)
(* restore.py: the init container that decides, at every start of a pod,   *)
(* whether the volume needs its data back, and restores it under a lock    *)
(* file.  Several pods may start on ONE volume; each is a process, and a    *)
(* step is what it does between two looks at what the pods share: the      *)
(* volume, the lock file, the repository.                                  *)
(*                                                                         *)
(* A file of the volume is a sentinel or "rest", which stands for all the   *)
(* others; `restic restore` writes them one by one, in an order nobody      *)
(* promises.  The report to the K8siBackup is best-effort and not read      *)
(* back; it is left out.                                                   *)
(***************************************************************************)
EXTENDS Naturals, FiniteSets

CONSTANTS
  Pods,       \* the pods there may be
  Sentinels,  \* RESTORE_SENTINELS
  Mishaps     \* what may go wrong, at will: a subset of {"unreachable",
              \* "failure", "crash", "corruption", "misplaced"}

ASSUME PodsAssumption == IsFiniteSet(Pods)
ASSUME SentinelsAssumption == "rest" \notin Sentinels

Files == Sentinels \union {"rest"}

\* The latest (or the pinned) snapshot: there is none; it has the sentinels;
\* it lacks them; it has them under a path a restore does not put them back
\* at; it is too old, too small or too large.
Snapshots == {"none", "good", "bad", "misplaced", "outside"}

\* One inode more than pods: one at the path and one per open file.
Inodes == 1..(Cardinality(Pods) + 1)

VARIABLES
  required,  \* RESTORE_REQUIRED, the same for all pods
  pinned,    \* does RESTORE_SNAPSHOT name a snapshot?
  mounts,    \* the pods that mount the volume
  pc,        \* where each pod is
  ok,        \* will the init container exit 0?
  disk,      \* files on the volume
  app,       \* has an app written its own data to the volume?
  marker,    \* .k8si-restore-complete
  override,  \* .k8si-no-restore
  repo,      \* the snapshot in the repository
  path,      \* inode at .k8si-restore.lock, 0 if there is no such file
  fd,        \* inode each pod has open, 0 if none
  flocked,   \* pods that hold the flock on the inode they have open
  ends       \* "restored" if any restore has run to its end, "failed" if any
             \* has ended with exit 1 (history variable)

config == <<required, pinned, mounts>>
volume == <<disk, app, marker, override>>
lockfile == <<path, fd, flocked>>
vars == <<config, pc, ok, disk, app, marker, override, repo, path, fd, flocked, ends>>

InitPc == {"marker", "pick", "open", "lock", "restore", "verify", "mark", "unlock", "unlink"}
RestorePc == {"look", "app"} \union InitPc

Init == /\ required \in BOOLEAN /\ pinned \in BOOLEAN
        /\ mounts \in SUBSET Pods \ {{}}
        /\ pc = [p \in Pods |-> "look"]
        /\ ok = [p \in Pods |-> TRUE]
        /\ disk = {} /\ app = FALSE /\ marker = FALSE /\ override = FALSE
        /\ repo \in {"none", "good", "bad", "outside"}
                    \union (IF "misplaced" \in Mishaps THEN {"misplaced"} ELSE {})
        /\ path = 0
        /\ fd = [p \in Pods |-> 0]
        /\ flocked = {}
        /\ ends = {}

Goto(p, from, to) == /\ pc[p] = from
                     /\ pc' = [pc EXCEPT ![p] = to]
                     /\ UNCHANGED <<config, ok, repo>>

\* SystemExit(1), or an error cli.main turns into exit 1: the kubelet starts
\* the init container again.
Exit1(p, from) == Goto(p, from, "look")

\* exit 0: the pod's containers start.
Exit0(p, from) == Goto(p, from, "app")

-----------------------------------------------------------------------------
(* _run_restore                                                            *)

\* Mutant: the sentinels on disk are not looked for.
LookAtOverride(p) ==
  /\ IF override THEN Exit0(p, "look") ELSE Goto(p, "look", "marker")
  /\ UNCHANGED <<volume, lockfile, ends>>

\* Mutant: the marker is looked at before the sentinels.
LookAtMarker(p) ==
  /\ IF override \/ (Sentinels # {} /\ Sentinels \subseteq disk /\ ~marker)
     THEN Exit0(p, "look") ELSE Goto(p, "look", "marker")
  /\ UNCHANGED <<volume, lockfile, ends>>

\* The override, then step 1: all sentinels on disk.
Look(p) ==
  /\ IF override \/ (Sentinels # {} /\ Sentinels \subseteq disk)
     THEN Exit0(p, "look") ELSE Goto(p, "look", "marker")
  /\ UNCHANGED <<volume, lockfile, ends>>

\* Steps 2 and 3: a marker without its sentinels is corruption, a marker
\* where none are configured is enough.
CheckMarker(p) ==
  /\ IF ~marker THEN Goto(p, "marker", "pick")
     ELSE IF Sentinels # {} THEN Exit1(p, "marker") ELSE Exit0(p, "marker")
  /\ UNCHANGED <<volume, lockfile, ends>>

\* The gate on a snapshot's listing.
SentinelsInSnapshot == Sentinels # {} => repo \in {"good", "misplaced", "outside"}

RepositoryError(p) == "unreachable" \in Mishaps /\ Exit1(p, "pick")

\* Mutant: a pinned snapshot that fails the gate is skipped.
PickPinnedSkips(p) ==
  pinned /\ IF SentinelsInSnapshot THEN Goto(p, "pick", "open") ELSE Exit0(p, "pick")
PickPinned(p) ==
  pinned /\ IF SentinelsInSnapshot THEN Goto(p, "pick", "open") ELSE Exit1(p, "pick")

\* _pick_snapshot: the bounds, then the gate; a snapshot that fails either is
\* skipped.
PickLatest(p) ==
  /\ ~pinned
  /\ LET restorable == repo \in {"good", "misplaced", "bad"} /\ SentinelsInSnapshot
         failing    == repo = "none" /\ required
     IN \/ restorable /\ Goto(p, "pick", "open")
        \/ failing /\ Exit1(p, "pick")
        \/ ~restorable /\ ~failing /\ Exit0(p, "pick")

PickSnapshot(p) ==
  /\ RepositoryError(p) \/ PickPinned(p) \/ PickLatest(p)
  /\ UNCHANGED <<volume, lockfile, ends>>

-----------------------------------------------------------------------------
(* _do_restore                                                             *)

\* lock_path.open("w"): the file at the path, or a new one.
OpenLock(p) ==
  /\ Goto(p, "open", "lock")
  /\ \E i \in IF path # 0 THEN {path}
              ELSE {j \in Inodes : \A q \in Pods : fd[q] # j} :
       /\ path' = i
       /\ fd' = [fd EXCEPT ![p] = i]
  /\ UNCHANGED <<volume, flocked, ends>>

\* Mutant: a shared lock.
TryLockShared(p) ==
  /\ Goto(p, "lock", "restore")
  /\ flocked' = flocked \union {p}
  /\ UNCHANGED <<volume, path, fd, ends>>

\* flock(LOCK_EX | LOCK_NB): a pod that does not get the lock skips.
TryLock(p) ==
  /\ IF \E q \in flocked : fd[q] = fd[p]
     THEN /\ Exit0(p, "lock")
          /\ fd' = [fd EXCEPT ![p] = 0]
          /\ UNCHANGED flocked
     ELSE /\ Goto(p, "lock", "restore")
          /\ flocked' = flocked \union {p}
          /\ UNCHANGED fd
  /\ UNCHANGED <<volume, path, ends>>

\* What a restore of the snapshot puts on the volume.
Contents == CASE repo = "none" -> {}
              [] repo \in {"bad", "misplaced"} -> {"rest"}
              [] OTHER -> Files

\* `restic restore` writes a file.
RestoreFile(p) ==
  /\ pc[p] = "restore"
  /\ \E f \in Contents \ disk : disk' = disk \union {f}
  /\ UNCHANGED <<config, pc, ok, app, marker, override, repo, lockfile, ends>>

\* backend.restore returns, or raises BackupError; then SystemExit(1) through
\* the finally clause.
EndRestore(p) ==
  /\ \/ /\ repo # "none" /\ Contents \subseteq disk
        /\ Goto(p, "restore", "verify")
        /\ ends' = ends \union {"restored"}
     \/ /\ repo = "none" \/ "failure" \in Mishaps
        /\ pc[p] = "restore"
        /\ pc' = [pc EXCEPT ![p] = "unlock"]
        /\ ok' = [ok EXCEPT ![p] = FALSE]
        /\ ends' = ends \union {"failed"}
        /\ UNCHANGED <<config, repo>>
  /\ UNCHANGED <<volume, lockfile>>

\* The sentinels must be there after a restore.
Verify(p) ==
  /\ IF Sentinels \subseteq disk
     THEN Goto(p, "verify", "mark") /\ UNCHANGED ends
     ELSE /\ pc[p] = "verify"
          /\ pc' = [pc EXCEPT ![p] = "unlock"]
          /\ ok' = [ok EXCEPT ![p] = FALSE]
          /\ ends' = ends \union {"failed"}
          /\ UNCHANGED <<config, repo>>
  /\ UNCHANGED <<volume, lockfile>>

WriteMarker(p) ==
  /\ Goto(p, "mark", "unlock")
  /\ marker' = TRUE
  /\ UNCHANGED <<disk, app, override, lockfile, ends>>

\* Mutant: the marker is written whether or not the restore succeeded.
UnlockAndMark(p) ==
  /\ Goto(p, "unlock", "unlink")
  /\ marker' = TRUE
  /\ flocked' = flocked \ {p}
  /\ fd' = [fd EXCEPT ![p] = 0]
  /\ UNCHANGED <<disk, app, override, path, ends>>

\* The finally clause: flock(LOCK_UN) and close(), then unlink().
Unlock(p) ==
  /\ Goto(p, "unlock", "unlink")
  /\ flocked' = flocked \ {p}
  /\ fd' = [fd EXCEPT ![p] = 0]
  /\ UNCHANGED <<volume, path, ends>>

Unlink(p) ==
  /\ pc[p] = "unlink"
  /\ pc' = [pc EXCEPT ![p] = IF ok[p] THEN "app" ELSE "look"]
  /\ ok' = [ok EXCEPT ![p] = TRUE]
  /\ path' = 0
  /\ UNCHANGED <<config, volume, repo, fd, flocked, ends>>

RunRestore(p) == \/ Look(p) \/ CheckMarker(p) \/ PickSnapshot(p) \/ OpenLock(p) \/ TryLock(p)
                 \/ RestoreFile(p) \/ EndRestore(p) \/ Verify(p) \/ WriteMarker(p)
                 \/ Unlock(p) \/ Unlink(p)

-----------------------------------------------------------------------------
(* The environment                                                         *)

\* The app initialises its data, the sentinels included.
AppWrites(p) ==
  /\ pc[p] = "app"
  /\ disk' = Files /\ app' = TRUE
  /\ UNCHANGED <<config, pc, ok, marker, override, repo, lockfile, ends>>

\* A backup of a volume the app has initialised.
Backup ==
  /\ app /\ \E p \in Pods : pc[p] = "app"
  /\ repo' = "good"
  /\ UNCHANGED <<config, pc, ok, volume, lockfile, ends>>

\* A pod is started anew.
Restart(p) ==
  /\ Goto(p, "app", "look")
  /\ UNCHANGED <<volume, lockfile, ends>>

\* The init container is killed: the kernel closes its file and drops the
\* lock; the path stays.
Crash(p) ==
  /\ "crash" \in Mishaps /\ pc[p] \in InitPc
  /\ pc' = [pc EXCEPT ![p] = "look"]
  /\ ok' = [ok EXCEPT ![p] = TRUE]
  /\ flocked' = flocked \ {p}
  /\ fd' = [fd EXCEPT ![p] = 0]
  /\ UNCHANGED <<config, volume, repo, path, ends>>

\* Files of an initialised volume get lost while no init container runs.
Corrupt ==
  /\ "corruption" \in Mishaps /\ \A p \in Pods : pc[p] \notin InitPc
  /\ \E f \in disk : disk' = disk \ {f}
  /\ app' = FALSE
  /\ UNCHANGED <<config, pc, ok, marker, override, repo, lockfile, ends>>

\* The user creates .k8si-no-restore on the volume, or removes it.
SetOverride ==
  /\ \A p \in Pods : pc[p] \notin InitPc
  /\ override' = ~override
  /\ UNCHANGED <<config, pc, ok, disk, app, marker, repo, lockfile, ends>>

Next == \/ \E p \in mounts : RunRestore(p) \/ AppWrites(p) \/ Restart(p) \/ Crash(p)
        \/ Backup \/ Corrupt \/ SetOverride

Spec == Init /\ [][Next]_vars

\* The init container runs on: nothing in it waits for another pod.
FairSpec == Spec /\ \A p \in Pods : WF_vars(p \in mounts /\ RunRestore(p))

-----------------------------------------------------------------------------
(* Properties                                                              *)

TypeOK == /\ required \in BOOLEAN /\ pinned \in BOOLEAN
          /\ mounts \subseteq Pods
          /\ pc \in [Pods -> RestorePc]
          /\ ok \in [Pods -> BOOLEAN]
          /\ disk \subseteq Files
          /\ app \in BOOLEAN /\ marker \in BOOLEAN /\ override \in BOOLEAN
          /\ repo \in Snapshots
          /\ path \in Inodes \union {0}
          /\ fd \in [Pods -> Inodes \union {0}]
          /\ flocked \subseteq Pods
          /\ ends \subseteq {"restored", "failed"}

\* The marker is on the volume only if a restore has run to its end, whatever
\* failed, crashed or overlapped: "restored" is never claimed for nothing.
MarkerMeansRestored == marker => "restored" \in ends

\* "One PVC, one writer" (README)
SingleWriter == \A p, q \in mounts : p = q

\* A volume with the data an app has initialised is not restored over, as long
\* as no second pod mounts it.
AppDataKept == app /\ SingleWriter => \A p \in Pods : pc[p] # "restore"

Starts(p) == pc[p] # "app" /\ pc'[p] = "app"

\* The decision table of the README, row by row: the app starts if the user
\* says so, on its sentinels, on the marker if it has no sentinels, or on a
\* volume k8si has nothing to restore to -- never on an empty volume because
\* the repository did not answer, never on one that has lost a sentinel since
\* its restore -- or on a volume another pod is restoring.
StartIsJustified ==
  [][\A p \in Pods : Starts(p) =>
       \/ override
       \/ Sentinels # {} /\ Sentinels \subseteq disk
       \/ Sentinels = {} /\ marker
       \/ ~marker /\ ~pinned /\ repo = "none" /\ ~required
       \/ ~marker /\ ~pinned /\ repo \in {"bad", "outside"}
       \/ flocked \ {p} # {}]_vars

\* "Restore fails: fail loud, pod stays in Init:Error": the app does not start
\* on a volume a restore has only partly written.
NoPartialStart ==
  [][\A p \in Pods : Starts(p) => override \/ app \/ disk \in {{}, Files}]_vars

\* "restores it before the app ever starts"
StartsAfterRestore ==
  [][\A p \in Pods : Starts(p) /\ ~override => \A q \in Pods : pc[q] # "restore"]_vars

\* "_do_restore() returns False when another process holds the file lock": one
\* restore at a time, until one fails (the retry may lock a new file while the
\* next pod holds the unlinked one).
OneRestore == "failed" \in ends \/ \A p, q \in Pods : pc[p] = "restore" /\ pc[q] = "restore" => p = q

\* What the init container fails loudly on for as long as it lasts.
Refused == \/ marker /\ ~(Sentinels \subseteq disk)
           \/ required /\ repo = "none"
           \/ pinned /\ repo \in {"none", "bad"}
           \/ repo = "misplaced"

\* (At "marker" a crash looks like the exit 1 of a pod that found a marker.)
Mishap == Corrupt \/ \E p \in Pods : \/ Crash(p) /\ ~(pc[p] = "marker" /\ marker)
                                     \/ RepositoryError(p)
                                     \/ pc[p] = "restore" /\ pc'[p] = "unlock"

\* Once nothing goes wrong any more a pod gets its app started, its neighbours'
\* restores, the lock and the files crashed pods have left notwithstanding,
\* unless it is right to refuse.
PodStarts ==
  <>[][~Mishap]_vars => \A p \in Pods : p \in mounts /\ pc[p] = "look" ~> (pc[p] = "app" \/ Refused)
=============================================================================
