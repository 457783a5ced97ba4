------------------------------ MODULE Pipeline ------------------------------
(***************************************************************************)
(* workflow._run_backup: the orphan sweep, the database quiesced, the hook *)
(* Job, the snapshot, the ephemeral PVC, the backup Job, and the cleanup.  *)
(* Several executions work on ONE PVC: of one backup (a re-invocation, or   *)
(* two runs that slipped through the guard) or of several backups.          *)
(*                                                                         *)
(* An exception in flight is e \in failing; Python's except and finally    *)
(* clauses are the steps from "unlock" and from "reap" on.  A call to the   *)
(* Kubernetes API that can fail takes one of MaxFaults faults; what depends *)
(* on the database, the hook, the snapshot controller or the Job fails at   *)
(* will.                                                                   *)
(***************************************************************************)
EXTENDS Naturals, FiniteSets

CONSTANTS
  Execs,          \* the executions
  BackupOf,       \* the backup each belongs to
  Mode,           \* the mode of each: the run's, or the backup's
  Lock,           \* BOOLEAN: spec.database.type is mariadb
  Hook,           \* preSnapshotHook: "none", "optional" or "required"
  Guard,          \* BOOLEAN: _running keeps executions of one backup apart
  MaxConcurrent,  \* K8SI_MAX_CONCURRENT_BACKUPS
  Foreign,        \* BOOLEAN: another system snapshots the PVC, once
  MaxWait,        \* periods of 300 s a conflict wait may last (6 in the code)
  MaxCrashes, MaxFaults   \* bounds on the model

ASSUME ExecsAssumption == IsFiniteSet(Execs)
ASSUME ModeAssumption == Mode \in [Execs -> {"snapshot", "direct"}]
ASSUME HookAssumption == Hook \in {"none", "optional", "required"}
ASSUME PipelineBounds == MaxConcurrent \in Nat \ {0} /\ MaxWait \in Nat
                         /\ MaxCrashes \in Nat /\ MaxFaults \in Nat

VARIABLES
  pc,        \* where each execution is
  failing,   \* executions with an exception in flight
  mounted,   \* the claims that were mounted when the sweep listed the pods
  lock,      \* executions whose connection holds FLUSH TABLES WITH READ LOCK
  held,      \* periods of 300 s it has waited for other snapshots, locked or not
  snap,      \* the VolumeSnapshot of each execution
  cut,       \* executions whose snapshot was complete under the lock (history)
  pvc,       \* executions whose ephemeral PVC exists
  job,       \* the backup Job of each execution
  named,     \* executions whose Job name is in the run's status
  foreign,   \* the other system's snapshot
  crashes, faults

cluster == <<snap, cut, pvc, job, named, foreign>>
vars == <<pc, failing, mounted, lock, held, snap, cut, pvc, job, named, foreign, crashes, faults>>

PipelinePc == {"idle", "sweep", "orphans", "quiesce", "hook", "conflict", "create", "ready",
               "unlock", "discard", "node", "claim", "name", "job", "wait", "reap", "dropPvc",
               "dropSnap", "end", "dead"}
Live(e) == pc[e] \notin {"idle", "end", "dead"}
Siblings(e) == {f \in Execs \ {e} : BackupOf[f] = BackupOf[e]}

Init == /\ pc = [e \in Execs |-> "idle"]
        /\ failing = {}
        /\ mounted = [e \in Execs |-> {}]
        /\ lock = {} /\ cut = {} /\ pvc = {} /\ named = {}
        /\ held = [e \in Execs |-> 0]
        /\ snap = [e \in Execs |-> "none"]
        /\ job = [e \in Execs |-> "none"]
        /\ foreign = "none"
        /\ crashes = 0 /\ faults = 0

Fault == faults < MaxFaults /\ faults' = faults + 1
NoFault == faults' = faults

Goto(e, from, to) == /\ pc[e] = from
                     /\ pc' = [pc EXCEPT ![e] = to]
                     /\ UNCHANGED <<failing, crashes>>
Raise(e, from, to) == /\ pc[e] = from
                      /\ pc' = [pc EXCEPT ![e] = to]
                      /\ failing' = failing \union {e}
                      /\ UNCHANGED crashes

-----------------------------------------------------------------------------
(* The orphan sweep                                                        *)

\* Mutant: a Job that is still there is not asked for after a restart.
StartUnchecked(e) ==
  /\ Goto(e, "idle", "sweep")
  /\ Cardinality({f \in Execs : Live(f)}) < MaxConcurrent
  /\ Guard => \A f \in Siblings(e) : ~Live(f)
  /\ NoFault
  /\ UNCHANGED <<cluster, mounted, lock, held>>

\* run_backup under the semaphore.  on_run_create has refused an execution
\* while a Job the run's status names is still there.
Start(e) ==
  /\ Goto(e, "idle", "sweep")
  /\ Cardinality({f \in Execs : Live(f)}) < MaxConcurrent
  /\ Guard => \A f \in Siblings(e) : ~Live(f)
  /\ IF \E f \in Siblings(e) : pc[f] = "dead" /\ f \in named /\ job[f] # "none"
     THEN Fault ELSE NoFault
  /\ UNCHANGED <<cluster, mounted, lock, held>>

\* Claims in the spec of any pod, a finished one's too.
InPods == {f \in pvc : job[f] \in {"pod", "running", "complete", "failed"}}
ListPods(e) ==
  /\ \/ /\ Goto(e, "sweep", "orphans") /\ NoFault
        /\ mounted' = [mounted EXCEPT ![e] = InPods]
     \/ Raise(e, "sweep", "end") /\ Fault /\ UNCHANGED mounted
  /\ UNCHANGED <<cluster, lock, held>>

OrphanPvcs(e) == {f \in pvc : f \in Siblings(e) /\ f \notin mounted[e]}

\* Mutant: VolumeSnapshots are not swept (#4).
OrphanSnapsNone(e) == {}
\* Mutant: the pattern is a prefix, and "app" takes "app-kopia" for its own.
OrphanSnapsPrefix(e) == {f \in Execs \ {e} : snap[f] # "none"}
OrphanSnaps(e) == {f \in Siblings(e) : snap[f] # "none"}

\* A failing delete or snapshot list is logged, a failing PVC list raised.
DeleteOrphans(e) ==
  /\ \/ /\ Goto(e, "orphans", "quiesce")
        /\ \E keptPvcs \in SUBSET OrphanPvcs(e), keptSnaps \in SUBSET OrphanSnaps(e) :
             /\ pvc' = pvc \ (OrphanPvcs(e) \ keptPvcs)
             /\ snap' = [f \in Execs |-> IF f \in OrphanSnaps(e) \ keptSnaps THEN "none" ELSE snap[f]]
             /\ IF keptPvcs \union keptSnaps = {} THEN NoFault ELSE Fault
     \/ Raise(e, "orphans", "end") /\ Fault /\ UNCHANGED <<pvc, snap>>
  /\ UNCHANGED <<cut, job, named, foreign, mounted, lock, held>>

-----------------------------------------------------------------------------
(* Inside quiesce_context                                                  *)

\* Where the except clause around quiesce_context leads.
Except(e) == IF Mode[e] = "snapshot" THEN "discard" ELSE "end"
AfterUnlock(e) ==
  IF e \in failing THEN Except(e) ELSE IF Mode[e] = "snapshot" THEN "node" ELSE "end"
Quiesced(e) == IF Mode[e] = "snapshot" THEN "conflict" ELSE "node"

\* The secret is read, the lock taken (another database is checkpointed).
Quiesce(e) ==
  /\ \/ Goto(e, "quiesce", "hook") /\ lock' = IF Lock THEN lock \union {e} ELSE lock
     \/ Raise(e, "quiesce", Except(e)) /\ UNCHANGED lock
  /\ NoFault
  /\ UNCHANGED <<cluster, mounted, held>>

\* A failing optional hook is logged; the node lookup before it raises in any
\* case.
RunHook(e) ==
  /\ \/ Goto(e, "hook", Quiesced(e)) /\ NoFault
     \/ Hook = "required" /\ Raise(e, "hook", "unlock") /\ NoFault
     \/ Hook = "optional" /\ Raise(e, "hook", "unlock") /\ Fault
  /\ UNCHANGED <<cluster, mounted, lock, held>>

\* _wait_no_snapshot_in_progress_sync
Conflict == foreign = "unready" \/ \E f \in Execs : snap[f] = "unready"
KeepWaiting(e) ==
  /\ pc[e] = "conflict" /\ Conflict /\ held[e] < MaxWait
  /\ held' = [held EXCEPT ![e] = @ + 1]
  /\ UNCHANGED <<cluster, pc, failing, mounted, lock, crashes, faults>>

\* Mutant: an unready snapshot is no reason to wait.
AwaitNothing(e) ==
  /\ Goto(e, "conflict", "create") /\ NoFault
  /\ UNCHANGED <<cluster, mounted, lock, held>>

\* The way is clear; or the deadline is over, or a list fails.
AwaitNoConflict(e) ==
  /\ \/ ~Conflict /\ Goto(e, "conflict", "create") /\ NoFault
     \/ /\ Raise(e, "conflict", "unlock")
        /\ IF Conflict /\ held[e] = MaxWait THEN NoFault ELSE Fault
  /\ UNCHANGED <<cluster, mounted, lock, held>>

CreateSnapshot(e) ==
  /\ \/ /\ Goto(e, "create", "ready") /\ NoFault
        /\ snap' = [snap EXCEPT ![e] = "unready"]
     \/ Raise(e, "create", "unlock") /\ Fault /\ UNCHANGED snap
  /\ UNCHANGED <<cut, pvc, job, named, foreign, mounted, lock, held>>

\* Ready; or the timeout, a 404, an error that is not the server's.
AwaitReady(e) ==
  /\ \/ snap[e] = "ready" /\ Goto(e, "ready", "unlock") /\ NoFault
     \/ /\ Raise(e, "ready", "unlock")
        /\ IF snap[e] = "ready" THEN Fault ELSE NoFault
  /\ UNCHANGED <<cluster, mounted, lock, held>>

\* Mutant: an error of UNLOCK TABLES is swallowed.
UnlockQuietly(e) ==
  /\ Goto(e, "unlock", AfterUnlock(e))
  /\ lock' = lock \ {e}
  /\ NoFault
  /\ UNCHANGED <<cluster, mounted, held>>

\* Mutant: no `finally` around the snapshot.
UnlockOnSuccess(e) ==
  /\ Goto(e, "unlock", AfterUnlock(e))
  /\ lock' = IF e \in failing THEN lock ELSE lock \ {e}
  /\ NoFault
  /\ UNCHANGED <<cluster, mounted, held>>

\* quiesce_context's finally: the connection is closed in any case; UNLOCK
\* TABLES on a connection that was lost raises.
Unlock(e) ==
  /\ \/ /\ Lock => e \in lock
        /\ Goto(e, "unlock", AfterUnlock(e))
     \/ Lock /\ Raise(e, "unlock", Except(e))
  /\ lock' = lock \ {e}
  /\ NoFault
  /\ UNCHANGED <<cluster, mounted, held>>

\* Mutant: a failed snapshot phase leaves its VolumeSnapshot (#4).
DiscardNothing(e) ==
  /\ Goto(e, "discard", "end")
  /\ NoFault
  /\ UNCHANGED <<cluster, mounted, lock, held>>

\* The except clause of phase 1; an error is logged.
Discard(e) ==
  /\ Goto(e, "discard", "end")
  /\ \/ snap' = [snap EXCEPT ![e] = "none"] /\ NoFault
     \/ Fault /\ UNCHANGED snap
  /\ UNCHANGED <<cut, pvc, job, named, foreign, mounted, lock, held>>

-----------------------------------------------------------------------------
(* The backup Job and the cleanup                                          *)

\* Where the finally clauses lead after the Job.
AfterJob(e) == IF Mode[e] = "snapshot" THEN "dropPvc" ELSE "unlock"

\* _find_pvc_node_sync: before phase 2's try in snapshot mode.
FindNode(e) ==
  /\ \/ Goto(e, "node", IF Mode[e] = "snapshot" THEN "claim" ELSE "name") /\ NoFault
     \/ Raise(e, "node", IF Mode[e] = "snapshot" THEN "end" ELSE "unlock") /\ Fault
  /\ UNCHANGED <<cluster, mounted, lock, held>>

CreatePvc(e) ==
  /\ \/ Goto(e, "claim", "name") /\ NoFault /\ pvc' = pvc \union {e}
     \/ Raise(e, "claim", "dropSnap") /\ Fault /\ UNCHANGED pvc
  /\ UNCHANGED <<snap, cut, job, named, foreign, mounted, lock, held>>

\* on_job_created, before the Job exists; a lost patch is logged.
NameJob(e) ==
  /\ Goto(e, "name", "job")
  /\ \/ named' = named \union {e} /\ NoFault
     \/ Fault /\ UNCHANGED named
  /\ UNCHANGED <<snap, cut, pvc, job, foreign, mounted, lock, held>>

CreateJob(e) ==
  /\ \/ /\ Goto(e, "job", "wait") /\ NoFault
        /\ job' = [job EXCEPT ![e] = "created"]
     \/ Raise(e, "job", AfterJob(e)) /\ Fault /\ UNCHANGED job
  /\ UNCHANGED <<snap, cut, pvc, named, foreign, mounted, lock, held>>

\* Mutant: the poll has no deadline.
AwaitJobForever(e) ==
  /\ \/ job[e] = "complete" /\ Goto(e, "wait", "reap")
     \/ job[e] \in {"failed", "none"} /\ Raise(e, "wait", "reap")
  /\ NoFault
  /\ UNCHANGED <<cluster, mounted, lock, held>>

\* Complete; or failed, gone (404), jobTimeout; or a read error.
AwaitJob(e) ==
  /\ \/ job[e] = "complete" /\ Goto(e, "wait", "reap") /\ NoFault
     \/ /\ Raise(e, "wait", "reap")
        /\ IF job[e] = "complete" THEN Fault ELSE NoFault
  /\ UNCHANGED <<cluster, mounted, lock, held>>

\* _run_job's finally: deleted in the foreground and waited for; an error is
\* swallowed, and so is a pod that outlives the 120 s of the wait.
Reap(e) ==
  /\ Goto(e, "reap", AfterJob(e))
  /\ \/ job' = [job EXCEPT ![e] = "none"] /\ NoFault
     \/ Fault /\ UNCHANGED job
  /\ UNCHANGED <<snap, cut, pvc, named, foreign, mounted, lock, held>>

\* delete_snapshot_and_pvc in phase 2's finally: an error ends it, and the backup.
DropPvc(e) ==
  /\ \/ Goto(e, "dropPvc", "dropSnap") /\ NoFault /\ pvc' = pvc \ {e}
     \/ Raise(e, "dropPvc", "end") /\ Fault /\ UNCHANGED pvc
  /\ UNCHANGED <<snap, cut, job, named, foreign, mounted, lock, held>>

DropSnap(e) ==
  /\ \/ /\ Goto(e, "dropSnap", "end") /\ NoFault
        /\ snap' = [snap EXCEPT ![e] = "none"]
     \/ Raise(e, "dropSnap", "end") /\ Fault /\ UNCHANGED snap
  /\ UNCHANGED <<cut, pvc, job, named, foreign, mounted, lock, held>>

RunBackup(e) ==
  \/ ListPods(e) \/ DeleteOrphans(e) \/ Quiesce(e) \/ RunHook(e) \/ AwaitNoConflict(e)
  \/ CreateSnapshot(e) \/ AwaitReady(e) \/ Unlock(e) \/ Discard(e) \/ FindNode(e)
  \/ CreatePvc(e) \/ NameJob(e) \/ CreateJob(e) \/ AwaitJob(e) \/ Reap(e) \/ DropPvc(e)
  \/ DropSnap(e) \/ KeepWaiting(e)

-----------------------------------------------------------------------------
(* The environment                                                         *)

\* The snapshot controller: the data is complete, under the lock or not.
SnapshotReady(e) ==
  /\ snap[e] = "unready"
  /\ snap' = [snap EXCEPT ![e] = "ready"]
  /\ cut' = IF e \in lock THEN cut \union {e} ELSE cut
  /\ UNCHANGED <<pc, failing, mounted, lock, held, pvc, job, named, foreign, crashes, faults>>

ForeignSnapshot ==
  /\ \/ Foreign /\ foreign = "none" /\ foreign' = "unready"
     \/ foreign = "unready" /\ foreign' = "ready"
  /\ UNCHANGED <<pc, failing, mounted, lock, held, snap, cut, pvc, job, named, crashes, faults>>

\* The database drops the connection, and with it the lock.
ConnectionLost(e) ==
  /\ e \in lock
  /\ lock' = lock \ {e}
  /\ UNCHANGED <<cluster, pc, failing, mounted, held, crashes, faults>>

\* The Job controller makes a pod; it runs once its claim is provisioned from
\* the snapshot; the Job completes or fails (its deadline at any time); it is
\* deleted when its ttl is over, or by the reconciler.
Usable(e) == Mode[e] = "direct" \/ (e \in pvc /\ snap[e] = "ready")
JobStep(e) ==
  /\ \E s \in {"pod", "running", "complete", "failed", "none"} :
       /\ \/ job[e] = "created" /\ s \in {"pod", "failed"}
          \/ job[e] = "pod" /\ (s = "failed" \/ (s = "running" /\ Usable(e)))
          \/ job[e] = "running" /\ s \in {"complete", "failed"}
          \/ job[e] \in {"complete", "failed"} /\ s = "none"
          \/ job[e] # "none" /\ e \in named /\ s = "none"
       /\ job' = [job EXCEPT ![e] = s]
  /\ UNCHANGED <<pc, failing, mounted, lock, held, snap, cut, pvc, named, foreign, crashes, faults>>

\* The operator dies, its database connections with it.
Crash ==
  /\ crashes < MaxCrashes
  /\ crashes' = crashes + 1
  /\ pc' = [e \in Execs |-> IF Live(e) THEN "dead" ELSE pc[e]]
  /\ lock' = {}
  /\ UNCHANGED <<cluster, failing, mounted, held, faults>>

Next == \/ \E e \in Execs : \/ Start(e) \/ RunBackup(e)
                            \/ SnapshotReady(e) \/ ConnectionLost(e) \/ JobStep(e)
        \/ ForeignSnapshot \/ Crash

Spec == Init /\ [][Next]_vars

\* An execution goes on: every wait has a deadline or polls on.
Fairness == \A e \in Execs : WF_vars(RunBackup(e))
FairSpec == Spec /\ Fairness

-----------------------------------------------------------------------------
(* Properties                                                              *)

SnapStates == {"none", "unready", "ready"}

TypeOK == /\ pc \in [Execs -> PipelinePc]
          /\ failing \subseteq Execs
          /\ mounted \in [Execs -> SUBSET Execs]
          /\ lock \subseteq Execs /\ cut \subseteq Execs /\ pvc \subseteq Execs
          /\ named \subseteq Execs
          /\ held \in [Execs -> 0..MaxWait]
          /\ snap \in [Execs -> SnapStates]
          /\ job \in [Execs -> {"none", "created", "pod", "running", "complete", "failed"}]
          /\ foreign \in SnapStates
          /\ crashes \in 0..MaxCrashes /\ faults \in 0..MaxFaults

\* A backup that is reported as a success was copied from a snapshot that was
\* complete while the database was locked: no early unlock, no lost
\* connection, no error on the way goes unnoticed.
SuccessIsConsistent ==
  Lock => \A e \in Execs : Mode[e] = "snapshot" /\ pc[e] = "end" /\ e \notin failing => e \in cut

\* The database is never write-locked while the backup Job copies the
\* snapshot, or when the execution is over, however it ended.
LockEndsWithSnapshot ==
  \A e \in lock : /\ Live(e)
                  /\ Mode[e] = "snapshot" => job[e] = "none" /\ e \notin pvc

\* What an execution creates it removes, whichever step failed.
NothingLeft ==
  \A e \in Execs : pc[e] = "end" => snap[e] = "none" /\ e \notin pvc /\ job[e] = "none"

\* "Phase 2: create ephemeral PVC from snapshot, run backup job, clean up": an
\* execution that leaves a snapshot behind has tried to delete it.
CleanupIsTried ==
  [][\A e \in Execs : Live(e) /\ pc'[e] = "end" /\ snap'[e] # "none"
        => pc[e] \in {"discard", "dropPvc", "dropSnap"}]_vars

\* "Leftover VolumeSnapshots wedge every later run in the 30-minute conflict
\* wait" (#4): no execution waits for a dead one's snapshot.
NotWedged ==
  \A e \in Execs : pc[e] = "conflict" => \A f \in Siblings(e) : pc[f] = "dead" => snap[f] = "none"

\* A volume is not taken from under its pod: not by the sweep of an execution
\* after a restart, not by the cleanup.
VolumeInUseKept ==
  [][\A e \in pvc \ pvc' : job[e] \notin {"pod", "running"}]_vars

\* "PVCs still mounted by any pod in the namespace are in active use" -- as
\* are those whose pod is about to be created, and their snapshots.
LiveResourcesKept ==
  [][\A e \in Execs : pc[e] \in {"ready", "node", "claim", "name", "job", "wait"} /\ pc'[e] = pc[e]
        => (snap[e] # "none" => snap'[e] # "none") /\ (e \in pvc => e \in pvc')]_vars

\* k8si takes one snapshot of a PVC at a time.
OneSnapshotAtATime == Cardinality({e \in Execs : snap[e] = "unready"}) <= 1

\* "write lock ... held until snapshot completes, max ~300s" (quiesce.py)
LockIsShort == \A e \in lock : held[e] <= 1

\* The database becomes writable again, whatever else hangs.
LockIsReleased == \A e \in Execs : e \in lock ~> e \notin lock
=============================================================================
