--------------------------- MODULE PipelineProofs ---------------------------
(***************************************************************************)
(* For every number of executions of every number of backups, with or      *)
(* without the guard, any cap, faults and crashes: the lock ends with the  *)
(* snapshot, a reported success was snapshotted under the lock, and        *)
(* without a failing call an execution leaves nothing behind.              *)
(*                                                                         *)
(* The invariant says of each execution where it may be while it holds the *)
(* lock or has a snapshot, a claim or a Job; the other executions can only *)
(* take its snapshot and its claim away.                                   *)
(***************************************************************************)
EXTENDS Pipeline, FiniteSetTheorems, TLAPS

Types == /\ pc \in [Execs -> PipelinePc]
         /\ failing \subseteq Execs /\ lock \subseteq Execs /\ pvc \subseteq Execs
         /\ snap \in [Execs -> SnapStates]
         /\ job \in [Execs -> {"none", "created", "pod", "running", "complete", "failed"}]
         /\ faults \in 0..MaxFaults

\* Steps of phase 2, and what may come after them.
Phase2 == {"node", "claim", "name", "job", "wait", "reap", "dropPvc", "dropSnap"}

LockAt(e) == e \in lock =>
  \/ pc[e] \in {"hook", "conflict", "create", "ready", "unlock"}
  \/ Mode[e] = "direct" /\ pc[e] \in {"node", "name", "job", "wait", "reap"}

SnapshotOnly(e) ==
  pc[e] \in {"conflict", "create", "ready", "discard", "claim", "dropPvc", "dropSnap"}
    => Mode[e] = "snapshot"

SnapAt(e) == snap[e] # "none" =>
  Mode[e] = "snapshot" /\ pc[e] \in Phase2 \union {"ready", "unlock", "discard", "end", "dead"}

PvcAt(e) == e \in pvc =>
  Mode[e] = "snapshot"
  /\ pc[e] \in {"name", "job", "wait", "reap", "dropPvc", "dropSnap", "end", "dead"}

JobAt(e) == job[e] # "none" =>
  \/ pc[e] \in {"wait", "reap", "dropPvc", "dropSnap", "end", "dead"}
  \/ Mode[e] = "direct" /\ pc[e] = "unlock"

CutUnderLock(e) == snap[e] = "ready" /\ e \in lock => e \in cut

CutAt(e) == Lock /\ Mode[e] = "snapshot" /\ e \notin failing =>
  /\ pc[e] \in Phase2 \union {"end"} => e \in cut
  /\ pc[e] = "unlock" /\ e \in lock => e \in cut
  /\ pc[e] # "discard"

Clean(e) == MaxFaults = 0 =>
  /\ pc[e] = "end" => snap[e] = "none" /\ e \notin pvc
  /\ pc[e] = "dropSnap" => e \notin pvc
  /\ pc[e] \in {"unlock", "dropPvc", "dropSnap", "end"} => job[e] = "none"

Local(e) == /\ LockAt(e) /\ SnapshotOnly(e) /\ SnapAt(e) /\ PvcAt(e) /\ JobAt(e)
            /\ CutUnderLock(e) /\ CutAt(e) /\ Clean(e)

Inv == Types /\ \A e \in Execs : Local(e)

\* What a step of another execution may do to one.
Calm(f) == /\ pc'[f] = pc[f] /\ job'[f] = job[f] /\ snap'[f] \in {snap[f], "none"}
           /\ f \in failing <=> f \in failing'
           /\ f \in lock <=> f \in lock'
           /\ f \in pvc' => f \in pvc
           /\ f \in cut => f \in cut'

\* Being calm keeps an execution's part of the invariant.
LEMMA CalmKeepsLocal == ASSUME NEW f \in Execs, Local(f), Calm(f) PROVE Local(f)'
  BY DEF Local, Calm, LockAt, SnapshotOnly, SnapAt, PvcAt, JobAt, CutUnderLock, CutAt, Clean

Moves(e) == Types' /\ Local(e)' /\ \A f \in Execs \ {e} : Calm(f)

\* One lemma per action: the types, the execution's own part of the invariant,
\* and what the step does to the other executions.
LEMMA StartMoves == ASSUME Inv, NEW e \in Execs, Start(e) PROVE Moves(e)
<1>1. Types'
  BY PipelineBounds DEF Inv, Types, PipelinePc, SnapStates, Start, Goto, Raise, Fault,
         NoFault, cluster
<1>2. Local(e)'
  BY ModeAssumption, PipelineBounds DEF Inv, Types, Local, LockAt, SnapshotOnly, SnapAt,
         PvcAt, JobAt, CutUnderLock, CutAt, Clean, Phase2, Start, Goto, Raise, Fault,
         NoFault, cluster
<1>3. \A f \in Execs \ {e} : Calm(f)
  BY DEF Inv, Types, Calm, Start, Goto, Raise, Fault, NoFault, cluster
<1> QED
  BY <1>1, <1>2, <1>3 DEF Moves

LEMMA ListPodsMoves == ASSUME Inv, NEW e \in Execs, ListPods(e) PROVE Moves(e)
<1>1. Types'
  BY PipelineBounds DEF Inv, Types, PipelinePc, SnapStates, ListPods, Goto, Raise, Fault,
         NoFault, cluster
<1>2. Local(e)'
  BY ModeAssumption, PipelineBounds DEF Inv, Types, Local, LockAt, SnapshotOnly, SnapAt,
         PvcAt, JobAt, CutUnderLock, CutAt, Clean, Phase2, ListPods, Goto, Raise, Fault,
         NoFault, cluster
<1>3. \A f \in Execs \ {e} : Calm(f)
  BY DEF Inv, Types, Calm, ListPods, Goto, Raise, Fault, NoFault, cluster
<1> QED
  BY <1>1, <1>2, <1>3 DEF Moves

LEMMA DeleteOrphansMoves == ASSUME Inv, NEW e \in Execs, DeleteOrphans(e) PROVE Moves(e)
<1>1. Types'
  BY PipelineBounds DEF Inv, Types, PipelinePc, SnapStates, DeleteOrphans, Goto, Raise,
         Fault, NoFault, cluster, OrphanPvcs, OrphanSnaps, Siblings
<1>2. Local(e)'
  BY ModeAssumption, PipelineBounds DEF Inv, Types, Local, LockAt, SnapshotOnly, SnapAt,
         PvcAt, JobAt, CutUnderLock, CutAt, Clean, Phase2, DeleteOrphans, Goto, Raise,
         Fault, NoFault, cluster, OrphanPvcs, OrphanSnaps, Siblings
<1>3. \A f \in Execs \ {e} : Calm(f)
  BY DEF Inv, Types, Calm, DeleteOrphans, Goto, Raise, Fault, NoFault, cluster, OrphanPvcs,
     OrphanSnaps, Siblings
<1> QED
  BY <1>1, <1>2, <1>3 DEF Moves

LEMMA QuiesceMoves == ASSUME Inv, NEW e \in Execs, Quiesce(e) PROVE Moves(e)
<1>1. Types'
  BY PipelineBounds DEF Inv, Types, PipelinePc, SnapStates, Quiesce, Goto, Raise, Fault,
         NoFault, cluster, Except
<1>2. Local(e)'
  BY ModeAssumption, PipelineBounds DEF Inv, Types, Local, LockAt, SnapshotOnly, SnapAt,
         PvcAt, JobAt, CutUnderLock, CutAt, Clean, Phase2, Quiesce, Goto, Raise, Fault,
         NoFault, cluster, Except
<1>3. \A f \in Execs \ {e} : Calm(f)
  BY DEF Inv, Types, Calm, Quiesce, Goto, Raise, Fault, NoFault, cluster, Except
<1> QED
  BY <1>1, <1>2, <1>3 DEF Moves

LEMMA RunHookMoves == ASSUME Inv, NEW e \in Execs, RunHook(e) PROVE Moves(e)
<1>1. Types'
  BY PipelineBounds DEF Inv, Types, PipelinePc, SnapStates, RunHook, Goto, Raise, Fault,
         NoFault, cluster, Quiesced
<1>2. Local(e)'
  BY ModeAssumption, PipelineBounds DEF Inv, Types, Local, LockAt, SnapshotOnly, SnapAt,
         PvcAt, JobAt, CutUnderLock, CutAt, Clean, Phase2, RunHook, Goto, Raise, Fault,
         NoFault, cluster, Quiesced
<1>3. \A f \in Execs \ {e} : Calm(f)
  BY DEF Inv, Types, Calm, RunHook, Goto, Raise, Fault, NoFault, cluster, Quiesced
<1> QED
  BY <1>1, <1>2, <1>3 DEF Moves

LEMMA AwaitNoConflictMoves == ASSUME Inv, NEW e \in Execs, AwaitNoConflict(e) PROVE Moves(e)
<1>1. Types'
  BY PipelineBounds DEF Inv, Types, PipelinePc, SnapStates, AwaitNoConflict, Goto, Raise,
         Fault, NoFault, cluster
<1>2. Local(e)'
  BY ModeAssumption, PipelineBounds DEF Inv, Types, Local, LockAt, SnapshotOnly, SnapAt,
         PvcAt, JobAt, CutUnderLock, CutAt, Clean, Phase2, AwaitNoConflict, Goto, Raise,
         Fault, NoFault, cluster
<1>3. \A f \in Execs \ {e} : Calm(f)
  BY DEF Inv, Types, Calm, AwaitNoConflict, Goto, Raise, Fault, NoFault, cluster
<1> QED
  BY <1>1, <1>2, <1>3 DEF Moves

LEMMA CreateSnapshotMoves == ASSUME Inv, NEW e \in Execs, CreateSnapshot(e) PROVE Moves(e)
<1>1. Types'
  BY PipelineBounds DEF Inv, Types, PipelinePc, SnapStates, CreateSnapshot, Goto, Raise,
         Fault, NoFault, cluster
<1>2. Local(e)'
  BY ModeAssumption, PipelineBounds DEF Inv, Types, Local, LockAt, SnapshotOnly, SnapAt,
         PvcAt, JobAt, CutUnderLock, CutAt, Clean, Phase2, CreateSnapshot, Goto, Raise,
         Fault, NoFault, cluster
<1>3. \A f \in Execs \ {e} : Calm(f)
  BY DEF Inv, Types, Calm, CreateSnapshot, Goto, Raise, Fault, NoFault, cluster
<1> QED
  BY <1>1, <1>2, <1>3 DEF Moves

LEMMA AwaitReadyMoves == ASSUME Inv, NEW e \in Execs, AwaitReady(e) PROVE Moves(e)
<1>1. Types'
  BY PipelineBounds DEF Inv, Types, PipelinePc, SnapStates, AwaitReady, Goto, Raise, Fault,
         NoFault, cluster
<1>2. Local(e)'
  BY ModeAssumption, PipelineBounds DEF Inv, Types, Local, LockAt, SnapshotOnly, SnapAt,
         PvcAt, JobAt, CutUnderLock, CutAt, Clean, Phase2, AwaitReady, Goto, Raise, Fault,
         NoFault, cluster
<1>3. \A f \in Execs \ {e} : Calm(f)
  BY DEF Inv, Types, Calm, AwaitReady, Goto, Raise, Fault, NoFault, cluster
<1> QED
  BY <1>1, <1>2, <1>3 DEF Moves

LEMMA UnlockMoves == ASSUME Inv, NEW e \in Execs, Unlock(e) PROVE Moves(e)
<1>1. Types'
  BY PipelineBounds DEF Inv, Types, PipelinePc, SnapStates, Unlock, Goto, Raise, Fault,
         NoFault, cluster, Except, AfterUnlock
<1>2. Local(e)'
  BY ModeAssumption, PipelineBounds DEF Inv, Types, Local, LockAt, SnapshotOnly, SnapAt,
         PvcAt, JobAt, CutUnderLock, CutAt, Clean, Phase2, Unlock, Goto, Raise, Fault,
         NoFault, cluster, Except, AfterUnlock
<1>3. \A f \in Execs \ {e} : Calm(f)
  BY DEF Inv, Types, Calm, Unlock, Goto, Raise, Fault, NoFault, cluster, Except, AfterUnlock
<1> QED
  BY <1>1, <1>2, <1>3 DEF Moves

LEMMA DiscardMoves == ASSUME Inv, NEW e \in Execs, Discard(e) PROVE Moves(e)
<1>1. Types'
  BY PipelineBounds DEF Inv, Types, PipelinePc, SnapStates, Discard, Goto, Raise, Fault,
         NoFault, cluster
<1>2. Local(e)'
  BY ModeAssumption, PipelineBounds DEF Inv, Types, Local, LockAt, SnapshotOnly, SnapAt,
         PvcAt, JobAt, CutUnderLock, CutAt, Clean, Phase2, Discard, Goto, Raise, Fault,
         NoFault, cluster
<1>3. \A f \in Execs \ {e} : Calm(f)
  BY DEF Inv, Types, Calm, Discard, Goto, Raise, Fault, NoFault, cluster
<1> QED
  BY <1>1, <1>2, <1>3 DEF Moves

LEMMA FindNodeMoves == ASSUME Inv, NEW e \in Execs, FindNode(e) PROVE Moves(e)
<1>1. Types'
  BY PipelineBounds DEF Inv, Types, PipelinePc, SnapStates, FindNode, Goto, Raise, Fault,
         NoFault, cluster
<1>2. Local(e)'
  BY ModeAssumption, PipelineBounds DEF Inv, Types, Local, LockAt, SnapshotOnly, SnapAt,
         PvcAt, JobAt, CutUnderLock, CutAt, Clean, Phase2, FindNode, Goto, Raise, Fault,
         NoFault, cluster
<1>3. \A f \in Execs \ {e} : Calm(f)
  BY DEF Inv, Types, Calm, FindNode, Goto, Raise, Fault, NoFault, cluster
<1> QED
  BY <1>1, <1>2, <1>3 DEF Moves

LEMMA CreatePvcMoves == ASSUME Inv, NEW e \in Execs, CreatePvc(e) PROVE Moves(e)
<1>1. Types'
  BY PipelineBounds DEF Inv, Types, PipelinePc, SnapStates, CreatePvc, Goto, Raise, Fault,
         NoFault, cluster
<1>2. Local(e)'
  BY ModeAssumption, PipelineBounds DEF Inv, Types, Local, LockAt, SnapshotOnly, SnapAt,
         PvcAt, JobAt, CutUnderLock, CutAt, Clean, Phase2, CreatePvc, Goto, Raise, Fault,
         NoFault, cluster
<1>3. \A f \in Execs \ {e} : Calm(f)
  BY DEF Inv, Types, Calm, CreatePvc, Goto, Raise, Fault, NoFault, cluster
<1> QED
  BY <1>1, <1>2, <1>3 DEF Moves

LEMMA NameJobMoves == ASSUME Inv, NEW e \in Execs, NameJob(e) PROVE Moves(e)
<1>1. Types'
  BY PipelineBounds DEF Inv, Types, PipelinePc, SnapStates, NameJob, Goto, Raise, Fault,
         NoFault, cluster
<1>2. Local(e)'
  BY ModeAssumption, PipelineBounds DEF Inv, Types, Local, LockAt, SnapshotOnly, SnapAt,
         PvcAt, JobAt, CutUnderLock, CutAt, Clean, Phase2, NameJob, Goto, Raise, Fault,
         NoFault, cluster
<1>3. \A f \in Execs \ {e} : Calm(f)
  BY DEF Inv, Types, Calm, NameJob, Goto, Raise, Fault, NoFault, cluster
<1> QED
  BY <1>1, <1>2, <1>3 DEF Moves

LEMMA CreateJobMoves == ASSUME Inv, NEW e \in Execs, CreateJob(e) PROVE Moves(e)
<1>1. Types'
  BY PipelineBounds DEF Inv, Types, PipelinePc, SnapStates, CreateJob, Goto, Raise, Fault,
         NoFault, cluster, AfterJob
<1>2. Local(e)'
  BY ModeAssumption, PipelineBounds DEF Inv, Types, Local, LockAt, SnapshotOnly, SnapAt,
         PvcAt, JobAt, CutUnderLock, CutAt, Clean, Phase2, CreateJob, Goto, Raise, Fault,
         NoFault, cluster, AfterJob
<1>3. \A f \in Execs \ {e} : Calm(f)
  BY DEF Inv, Types, Calm, CreateJob, Goto, Raise, Fault, NoFault, cluster, AfterJob
<1> QED
  BY <1>1, <1>2, <1>3 DEF Moves

LEMMA AwaitJobMoves == ASSUME Inv, NEW e \in Execs, AwaitJob(e) PROVE Moves(e)
<1>1. Types'
  BY PipelineBounds DEF Inv, Types, PipelinePc, SnapStates, AwaitJob, Goto, Raise, Fault,
         NoFault, cluster
<1>2. Local(e)'
  BY ModeAssumption, PipelineBounds DEF Inv, Types, Local, LockAt, SnapshotOnly, SnapAt,
         PvcAt, JobAt, CutUnderLock, CutAt, Clean, Phase2, AwaitJob, Goto, Raise, Fault,
         NoFault, cluster
<1>3. \A f \in Execs \ {e} : Calm(f)
  BY DEF Inv, Types, Calm, AwaitJob, Goto, Raise, Fault, NoFault, cluster
<1> QED
  BY <1>1, <1>2, <1>3 DEF Moves

LEMMA ReapMoves == ASSUME Inv, NEW e \in Execs, Reap(e) PROVE Moves(e)
<1>1. Types'
  BY PipelineBounds DEF Inv, Types, PipelinePc, SnapStates, Reap, Goto, Raise, Fault,
         NoFault, cluster, AfterJob
<1>2. Local(e)'
  <2>1. LockAt(e)' /\ SnapshotOnly(e)' /\ SnapAt(e)' /\ PvcAt(e)'
    BY ModeAssumption DEF Inv, Types, Local, LockAt, SnapshotOnly, SnapAt, PvcAt, Phase2,
                          Reap, Goto, AfterJob
  <2>2. JobAt(e)'
    BY ModeAssumption DEF Inv, Types, Local, JobAt, Reap, Goto, AfterJob
  <2>3. CutUnderLock(e)' /\ CutAt(e)'
    BY ModeAssumption DEF Inv, Types, Local, CutUnderLock, CutAt, LockAt, Phase2, Reap,
           Goto, AfterJob
  <2>4. Clean(e)'
    BY ModeAssumption, PipelineBounds DEF Inv, Types, Local, Clean, PvcAt, Reap, Goto,
           AfterJob,
                                          Fault, NoFault
  <2> QED
    BY <2>1, <2>2, <2>3, <2>4 DEF Local
<1>3. \A f \in Execs \ {e} : Calm(f)
  BY DEF Inv, Types, Calm, Reap, Goto, Raise, Fault, NoFault, cluster, AfterJob
<1> QED
  BY <1>1, <1>2, <1>3 DEF Moves

LEMMA DropPvcMoves == ASSUME Inv, NEW e \in Execs, DropPvc(e) PROVE Moves(e)
<1>1. Types'
  BY PipelineBounds DEF Inv, Types, PipelinePc, SnapStates, DropPvc, Goto, Raise, Fault,
         NoFault, cluster
<1>2. Local(e)'
  BY ModeAssumption, PipelineBounds DEF Inv, Types, Local, LockAt, SnapshotOnly, SnapAt,
         PvcAt, JobAt, CutUnderLock, CutAt, Clean, Phase2, DropPvc, Goto, Raise, Fault,
         NoFault, cluster
<1>3. \A f \in Execs \ {e} : Calm(f)
  BY DEF Inv, Types, Calm, DropPvc, Goto, Raise, Fault, NoFault, cluster
<1> QED
  BY <1>1, <1>2, <1>3 DEF Moves

LEMMA DropSnapMoves == ASSUME Inv, NEW e \in Execs, DropSnap(e) PROVE Moves(e)
<1>1. Types'
  BY PipelineBounds DEF Inv, Types, PipelinePc, SnapStates, DropSnap, Goto, Raise, Fault,
         NoFault, cluster
<1>2. Local(e)'
  BY ModeAssumption, PipelineBounds DEF Inv, Types, Local, LockAt, SnapshotOnly, SnapAt,
         PvcAt, JobAt, CutUnderLock, CutAt, Clean, Phase2, DropSnap, Goto, Raise, Fault,
         NoFault, cluster
<1>3. \A f \in Execs \ {e} : Calm(f)
  BY DEF Inv, Types, Calm, DropSnap, Goto, Raise, Fault, NoFault, cluster
<1> QED
  BY <1>1, <1>2, <1>3 DEF Moves

LEMMA KeepWaitingMoves == ASSUME Inv, NEW e \in Execs, KeepWaiting(e) PROVE Moves(e)
<1>1. Types'
  BY PipelineBounds DEF Inv, Types, PipelinePc, SnapStates, KeepWaiting, Goto, Raise, Fault,
         NoFault, cluster
<1>2. Local(e)'
  BY ModeAssumption, PipelineBounds DEF Inv, Types, Local, LockAt, SnapshotOnly, SnapAt,
         PvcAt, JobAt, CutUnderLock, CutAt, Clean, Phase2, KeepWaiting, Goto, Raise, Fault,
         NoFault, cluster
<1>3. \A f \in Execs \ {e} : Calm(f)
  BY DEF Inv, Types, Calm, KeepWaiting, Goto, Raise, Fault, NoFault, cluster
<1> QED
  BY <1>1, <1>2, <1>3 DEF Moves

LEMMA SnapshotReadyMoves == ASSUME Inv, NEW e \in Execs, SnapshotReady(e) PROVE Moves(e)
<1>1. Types'
  BY PipelineBounds DEF Inv, Types, PipelinePc, SnapStates, SnapshotReady, Goto, Raise,
         Fault, NoFault, cluster
<1>2. Local(e)'
  BY ModeAssumption, PipelineBounds DEF Inv, Types, Local, LockAt, SnapshotOnly, SnapAt,
         PvcAt, JobAt, CutUnderLock, CutAt, Clean, Phase2, SnapshotReady, Goto, Raise,
         Fault, NoFault, cluster
<1>3. \A f \in Execs \ {e} : Calm(f)
  BY DEF Inv, Types, Calm, SnapshotReady, Goto, Raise, Fault, NoFault, cluster
<1> QED
  BY <1>1, <1>2, <1>3 DEF Moves

LEMMA ConnectionLostMoves == ASSUME Inv, NEW e \in Execs, ConnectionLost(e) PROVE Moves(e)
<1>1. Types'
  BY PipelineBounds DEF Inv, Types, PipelinePc, SnapStates, ConnectionLost, Goto, Raise,
         Fault, NoFault, cluster
<1>2. Local(e)'
  BY ModeAssumption, PipelineBounds DEF Inv, Types, Local, LockAt, SnapshotOnly, SnapAt,
         PvcAt, JobAt, CutUnderLock, CutAt, Clean, Phase2, ConnectionLost, Goto, Raise,
         Fault, NoFault, cluster
<1>3. \A f \in Execs \ {e} : Calm(f)
  BY DEF Inv, Types, Calm, ConnectionLost, Goto, Raise, Fault, NoFault, cluster
<1> QED
  BY <1>1, <1>2, <1>3 DEF Moves

LEMMA JobStepMoves == ASSUME Inv, NEW e \in Execs, JobStep(e) PROVE Moves(e)
<1>1. Types'
  BY PipelineBounds DEF Inv, Types, PipelinePc, SnapStates, JobStep, Goto, Raise, Fault,
         NoFault, cluster
<1>2. Local(e)'
  BY ModeAssumption, PipelineBounds DEF Inv, Types, Local, LockAt, SnapshotOnly, SnapAt,
         PvcAt, JobAt, CutUnderLock, CutAt, Clean, Phase2, JobStep, Goto, Raise, Fault,
         NoFault, cluster
<1>3. \A f \in Execs \ {e} : Calm(f)
  BY DEF Inv, Types, Calm, JobStep, Goto, Raise, Fault, NoFault, cluster
<1> QED
  BY <1>1, <1>2, <1>3 DEF Moves

\* Whatever step _run_backup takes.
LEMMA RunBackupMoves == ASSUME Inv, NEW e \in Execs, RunBackup(e) PROVE Moves(e)
  BY ListPodsMoves, DeleteOrphansMoves, QuiesceMoves, RunHookMoves, AwaitNoConflictMoves,
     CreateSnapshotMoves, AwaitReadyMoves, UnlockMoves, DiscardMoves, FindNodeMoves,
     CreatePvcMoves, NameJobMoves, CreateJobMoves, AwaitJobMoves, ReapMoves, DropPvcMoves,
     DropSnapMoves, KeepWaitingMoves
     DEF RunBackup

\* A step of one execution keeps the invariant of all.
LEMMA Moved == ASSUME Inv, NEW e \in Execs, Moves(e) PROVE Inv'
<1>1. ASSUME NEW f \in Execs PROVE Local(f)'
  BY <1>1, CalmKeepsLocal DEF Inv, Moves
<1> QED
  BY <1>1 DEF Inv, Moves

\* The steps that are no execution's.
LEMMA ForeignKeeps == ASSUME Inv, ForeignSnapshot PROVE Inv'
<1>1. UNCHANGED <<pc, failing, lock, snap, cut, pvc, job, faults>>
  BY DEF ForeignSnapshot
<1> QED
  BY <1>1 DEF Inv, Types, Local, LockAt, SnapshotOnly, SnapAt, PvcAt, JobAt, CutUnderLock,
         CutAt, Clean

\* A crash gives the locks back and leaves the rest to the next sweep.
LEMMA CrashKeeps == ASSUME Inv, Crash PROVE Inv'
<1>1. /\ Types' /\ lock' = {} /\ UNCHANGED <<failing, snap, cut, pvc, job>>
      /\ \A e \in Execs : pc'[e] \in {pc[e], "dead"}
  BY DEF Inv, Types, PipelinePc, Crash, Live, cluster
<1>2. ASSUME NEW e \in Execs PROVE Local(e)'
  <2>1. CASE pc'[e] = "dead"
    BY <1>1, <2>1 DEF Inv, Local, LockAt, SnapshotOnly, SnapAt, PvcAt, JobAt, CutUnderLock,
           CutAt, Clean, Phase2
  <2>2. CASE pc'[e] = pc[e]
    BY <1>1, <2>2 DEF Inv, Local, LockAt, SnapshotOnly, SnapAt, PvcAt, JobAt, CutUnderLock,
           CutAt, Clean
  <2> QED
    BY <1>1, <2>1, <2>2
<1> QED
  BY <1>1, <1>2 DEF Inv

\* Inv is an invariant, for every number of executions and every fault.
THEOREM Invariant == Spec => []Inv
<1>1. Init => Inv
  BY PipelineBounds DEF Init, Inv, Types, PipelinePc, SnapStates, Local, LockAt,
         SnapshotOnly, SnapAt,
     PvcAt, JobAt, CutUnderLock, CutAt, Clean, Phase2
<1>2. ASSUME Inv, [Next]_vars PROVE Inv'
  <2>1. ASSUME NEW e \in Execs,
               Start(e) \/ RunBackup(e) \/ SnapshotReady(e) \/ ConnectionLost(e) \/ JobStep(e)
        PROVE  Inv'
    BY <1>2, <2>1, StartMoves, RunBackupMoves, SnapshotReadyMoves, ConnectionLostMoves,
       JobStepMoves, Moved
  <2>2. CASE ForeignSnapshot
    BY <1>2, <2>2, ForeignKeeps
  <2>3. CASE Crash
    BY <1>2, <2>3, CrashKeeps
  <2>4. CASE UNCHANGED vars
    BY <1>2, <2>4 DEF vars, Inv, Types, Local, LockAt, SnapshotOnly, SnapAt, PvcAt, JobAt,
       CutUnderLock, CutAt, Clean
  <2> QED
    BY <1>2, <2>1, <2>2, <2>3, <2>4 DEF Next
<1> QED
  BY <1>1, <1>2, PTL DEF Spec

\* The database is write-locked neither while the Job copies the snapshot nor
\* after the execution, however quiesce_context is left.
THEOREM LockEnds == Spec => []LockEndsWithSnapshot
<1>1. Inv => LockEndsWithSnapshot
  BY DEF Inv, Types, Local, LockAt, PvcAt, JobAt, LockEndsWithSnapshot, Live
<1> QED
  BY <1>1, Invariant, PTL

\* A backup reported as a success was snapshotted under the lock, whatever fails,
\* is lost or crashes.
THEOREM SuccessConsistent == Spec => []SuccessIsConsistent
<1>1. Inv => SuccessIsConsistent
  BY DEF Inv, Local, CutAt, SuccessIsConsistent
<1> QED
  BY <1>1, Invariant, PTL

\* Without a failing API call an execution removes what it has created, although
\* the hook, the database, the snapshot and the Job may fail.
THEOREM NothingStays == ASSUME MaxFaults = 0 PROVE Spec => []NothingLeft
<1>1. Inv => NothingLeft
  BY DEF Inv, Local, Clean, NothingLeft
<1> QED
  BY <1>1, Invariant, PTL

-----------------------------------------------------------------------------
(* What executions of one backup do to each other                          *)

Swept == {"quiesce", "hook", "conflict"}

Alone(e) == Guard => \A f \in Siblings(e) : ~(Live(e) /\ Live(f))

NamedAt(e) == MaxFaults = 0 /\ (pc[e] = "job" \/ job[e] # "none") => e \in named

\* A predecessor's Job is over before the next execution starts.
Sole(e) == Guard /\ MaxFaults = 0 /\ Live(e) => \A f \in Siblings(e) : job[f] = "none"

SweptAt(e) == MaxFaults = 0 /\ pc[e] \in Swept =>
  \A f \in Siblings(e) : pc[f] = "dead" => snap[f] = "none"

Among(e) == Alone(e) /\ NamedAt(e) /\ Sole(e) /\ SweptAt(e)
\* What is said of one execution, and of an execution and its siblings.
Inv2 == Inv /\ \A e \in Execs : Among(e)

Step(e) == Start(e) \/ RunBackup(e) \/ SnapshotReady(e) \/ ConnectionLost(e) \/ JobStep(e)

LEMMA StepMoves == ASSUME Inv, NEW e \in Execs, Step(e) PROVE Moves(e)
  BY StartMoves, RunBackupMoves, SnapshotReadyMoves, ConnectionLostMoves, JobStepMoves
     DEF Step

\* What a step does to its own execution.
LEMMA Own ==
  ASSUME Inv, NEW e \in Execs, Step(e)
  PROVE  /\ pc'[e] = "dead" => pc[e] = "dead" /\ (snap[e] = "none" => snap'[e] = "none")
         /\ pc'[e] \in Swept => pc[e] \in Swept \/ DeleteOrphans(e)
         /\ Live(e)' => Live(e) \/ Start(e)
         /\ named \subseteq named'
         /\ MaxFaults = 0 /\ pc'[e] = "job" => pc[e] = "job" \/ e \in named'
         /\ job'[e] # "none" => job[e] # "none" \/ pc[e] = "job"
<1> USE DEF Goto, Raise, cluster
<1>1. CASE Start(e)
  BY <1>1, ModeAssumption, PipelineBounds DEF Inv, Types, Swept, Live, Start
<1>2. CASE ListPods(e)
  BY <1>2, ModeAssumption, PipelineBounds DEF Inv, Types, Swept, Live, ListPods
<1>3. CASE DeleteOrphans(e)
  BY <1>3, ModeAssumption, PipelineBounds DEF Inv, Types, Swept, Live, DeleteOrphans
<1>4. CASE Quiesce(e)
  BY <1>4, ModeAssumption, PipelineBounds DEF Inv, Types, Swept, Live, Quiesce, Except
<1>5. CASE RunHook(e)
  BY <1>5, ModeAssumption, PipelineBounds DEF Inv, Types, Swept, Live, RunHook, Quiesced
<1>6. CASE AwaitNoConflict(e)
  BY <1>6, ModeAssumption, PipelineBounds DEF Inv, Types, Swept, Live, AwaitNoConflict
<1>7. CASE CreateSnapshot(e)
  BY <1>7, ModeAssumption, PipelineBounds DEF Inv, Types, Swept, Live, CreateSnapshot
<1>8. CASE AwaitReady(e)
  BY <1>8, ModeAssumption, PipelineBounds DEF Inv, Types, Swept, Live, AwaitReady
<1>9. CASE Unlock(e)
  BY <1>9, ModeAssumption, PipelineBounds DEF Inv, Types, Swept, Live, Unlock, Except,
         AfterUnlock
<1>10. CASE Discard(e)
  BY <1>10, ModeAssumption, PipelineBounds DEF Inv, Types, Swept, Live, Discard
<1>11. CASE FindNode(e)
  BY <1>11, ModeAssumption, PipelineBounds DEF Inv, Types, Swept, Live, FindNode
<1>12. CASE CreatePvc(e)
  BY <1>12, ModeAssumption, PipelineBounds DEF Inv, Types, Swept, Live, CreatePvc
<1>13. CASE NameJob(e)
  BY <1>13, ModeAssumption, PipelineBounds DEF Inv, Types, Swept, Live, NameJob, Fault
<1>14. CASE CreateJob(e)
  BY <1>14, ModeAssumption, PipelineBounds DEF Inv, Types, Swept, Live, CreateJob, AfterJob
<1>15. CASE AwaitJob(e)
  BY <1>15, ModeAssumption, PipelineBounds DEF Inv, Types, Swept, Live, AwaitJob
<1>16. CASE Reap(e)
  BY <1>16, ModeAssumption, PipelineBounds DEF Inv, Types, Swept, Live, Reap, AfterJob
<1>17. CASE DropPvc(e)
  BY <1>17, ModeAssumption, PipelineBounds DEF Inv, Types, Swept, Live, DropPvc
<1>18. CASE DropSnap(e)
  BY <1>18, ModeAssumption, PipelineBounds DEF Inv, Types, Swept, Live, DropSnap
<1>19. CASE KeepWaiting(e)
  BY <1>19, ModeAssumption, PipelineBounds DEF Inv, Types, Swept, Live, KeepWaiting
<1>20. CASE SnapshotReady(e)
  BY <1>20, ModeAssumption, PipelineBounds DEF Inv, Types, Swept, Live, SnapshotReady
<1>21. CASE ConnectionLost(e)
  BY <1>21, ModeAssumption, PipelineBounds DEF Inv, Types, Swept, Live, ConnectionLost
<1>22. CASE JobStep(e)
  BY <1>22, ModeAssumption, PipelineBounds DEF Inv, Types, Swept, Live, JobStep
<1> QED
  BY <1>1, <1>2, <1>3, <1>4, <1>5, <1>6, <1>7, <1>8, <1>9, <1>10, <1>11, <1>12, <1>13, <1>14, <1>15,
     <1>16, <1>17, <1>18, <1>19, <1>20, <1>21, <1>22
     DEF Step, RunBackup

\* A step keeps what executions of one backup owe each other.
LEMMA StepKeeps == ASSUME Inv2, NEW g \in Execs, Step(g) PROVE \A e \in Execs : Among(e)'
<1>1. /\ Types' /\ \A f \in Execs : Local(f)'
      /\ \A f \in Execs \ {g} : Calm(f)
  BY StepMoves, Moved DEF Inv2, Inv, Moves
<1>2. ASSUME NEW e \in Execs PROVE Alone(e)'
  <2>1. CASE Start(g)
    BY <1>1, <1>2, <2>1, Own DEF Inv2, Among, Alone, Calm, Siblings, Live, Start
  <2>2. CASE ~Start(g)
    BY <1>1, <1>2, <2>2, Own DEF Inv2, Among, Alone, Calm, Siblings, Live
  <2> QED
    BY <2>1, <2>2
<1>3. ASSUME NEW e \in Execs PROVE NamedAt(e)'
  BY <1>1, <1>3, Own DEF Inv2, Among, NamedAt, Calm
<1>4. ASSUME NEW e \in Execs PROVE Sole(e)'
  <2>1. SUFFICES ASSUME Guard, MaxFaults = 0, Live(e)', NEW f \in Siblings(e) PROVE job'[f] = "none"
    BY DEF Sole, Siblings
  <2>2. f \in Execs /\ e # f /\ e \in Siblings(f)
    BY <1>4 DEF Siblings
  <2>3. CASE g = e /\ Start(e)
    <3>1. ~Live(f) /\ (pc[f] = "dead" => job[f] = "none")
      BY <2>1, <2>2, <2>3, PipelineBounds DEF Start, Fault, Inv2, Inv, Types, Among, NamedAt
    <3>2. job[f] = "none"
      BY <2>1, <2>2, <3>1 DEF Live, Inv2, Inv, Local, JobAt, Clean
    <3> QED
      BY <1>1, <2>2, <2>3, <3>2 DEF Calm
  <2>4. CASE ~(g = e /\ Start(e))
    <3>1. Live(e)
      BY <1>1, <1>4, <2>1, <2>4, Own DEF Calm, Live, Inv2
    <3>2. job[f] = "none" /\ pc[f] # "job"
      BY <2>1, <2>2, <3>1, <1>4 DEF Inv2, Among, Sole, Alone, Live
    <3> QED
      BY <1>1, <2>2, <3>2, Own DEF Calm, Inv2
  <2> QED
    BY <2>3, <2>4
<1>5. ASSUME NEW e \in Execs PROVE SweptAt(e)'
  <2>1. SUFFICES ASSUME MaxFaults = 0, pc'[e] \in Swept, NEW f \in Siblings(e), pc'[f] = "dead"
                 PROVE  snap'[f] = "none"
    BY DEF SweptAt, Siblings
  <2>2. f \in Execs /\ e # f
    BY DEF Siblings
  <2>3. CASE g = e /\ DeleteOrphans(e)
    BY <1>4, <2>1, <2>2, <2>3, PipelineBounds DEF DeleteOrphans, OrphanSnaps, Inv2, Inv,
           Types, Fault, Goto, Raise
  <2>4. CASE ~(g = e /\ DeleteOrphans(e))
    <3>1. pc[e] \in Swept /\ pc[f] = "dead"
      BY <1>1, <1>5, <2>1, <2>2, <2>4, Own DEF Calm, Inv2
    <3>2. snap[f] = "none"
      BY <1>5, <2>1, <3>1 DEF Inv2, Among, SweptAt
    <3> QED
      BY <1>1, <2>1, <2>2, <3>2, Own DEF Calm, Inv2
  <2> QED
    BY <2>3, <2>4
<1> QED
  BY <1>2, <1>3, <1>4, <1>5 DEF Among

\* Inv2 is an invariant.
THEOREM Invariant2 == Spec => []Inv2
<1>1. Init /\ Inv => Inv2
  BY DEF Init, Inv2, Among, Alone, NamedAt, Sole, SweptAt, Swept, Live, Siblings
<1>2. ASSUME Inv2, Inv', [Next]_vars PROVE Inv2'
  <2>1. ASSUME NEW g \in Execs, Step(g) PROVE Inv2'
    BY <1>2, <2>1, StepKeeps DEF Inv2
  <2>2. CASE ForeignSnapshot
    BY <1>2, <2>2 DEF ForeignSnapshot, Inv2, Among, Alone, NamedAt, Sole, SweptAt, Live,
           Siblings
  <2>3. CASE Crash
    BY <1>2, <2>3 DEF Crash, cluster, Inv2, Inv, Types, Among, Alone, NamedAt, Sole,
           SweptAt, Swept, Live, Siblings
  <2>4. CASE UNCHANGED vars
    BY <1>2, <2>4 DEF vars, Inv2, Among, Alone, NamedAt, Sole, SweptAt, Live, Siblings
  <2> QED
    BY <1>2, <2>1, <2>2, <2>3, <2>4 DEF Next, Step
<1> QED
  BY <1>1, <1>2, Invariant, PTL DEF Spec

\* No execution waits for the snapshot of a dead one: the sweep has taken it.
THEOREM NeverWedged == ASSUME MaxFaults = 0 PROVE Spec => []NotWedged
<1>1. Inv2 => NotWedged
  BY DEF Inv2, Among, SweptAt, Swept, NotWedged
<1> QED
  BY <1>1, Invariant2, PTL

\* With the guard, and without a failing call, no claim is deleted from under a
\* pod: a dead execution's Job is over before the next sweep.
THEOREM VolumesInUseKept == ASSUME Guard, MaxFaults = 0 PROVE Spec => VolumeInUseKept
<1>1. ASSUME Inv2, [Next]_vars PROVE \A e \in pvc \ pvc' : job[e] \notin {"pod", "running"}
  <2> SUFFICES ASSUME NEW e \in pvc, e \notin pvc' PROVE job[e] = "none"
    OBVIOUS
  <2>1. e \in Execs
    BY <1>1 DEF Inv2, Inv, Types
  <2>2. PICK g \in Execs : Step(g)
    BY <1>1 DEF Next, Step, ForeignSnapshot, Crash, cluster, vars
  <2>3. DeleteOrphans(g) \/ DropPvc(g)
    BY <2>2, <1>1 DEF Step, Start, RunBackup, cluster, ListPods, Quiesce, RunHook,
           AwaitNoConflict,
       CreateSnapshot, AwaitReady, Unlock, Discard, FindNode, CreatePvc, NameJob, CreateJob,
       AwaitJob, Reap, DropSnap, KeepWaiting, SnapshotReady, ConnectionLost, JobStep
  <2>4. CASE DeleteOrphans(g)
    <3>1. e \in Siblings(g) /\ Live(g)
      BY <2>4 DEF DeleteOrphans, OrphanPvcs, Live, Goto, Raise
    <3> QED
      BY <1>1, <2>2, <3>1 DEF Inv2, Among, Sole
  <2>5. CASE DropPvc(g)
    BY <1>1, <2>1, <2>5 DEF DropPvc, Goto, Raise, Inv2, Inv, Local, Clean
  <2> QED
    BY <2>3, <2>4, <2>5
<1> QED
  BY <1>1, Invariant2, PTL DEF Spec, VolumeInUseKept

\* With the guard no sweep takes a live execution's snapshot or claim, whatever
\* fails and however many backups share the PVC.
THEOREM LiveKept == ASSUME Guard PROVE Spec => LiveResourcesKept
<1> DEFINE Kept(e) == pc[e] \in {"ready", "node", "claim", "name", "job", "wait"} /\ pc'[e] = pc[e]
        => (snap[e] # "none" => snap'[e] # "none") /\ (e \in pvc => e \in pvc')
<1>1. ASSUME Inv2, [Next]_vars PROVE \A e \in Execs : Kept(e)
  <2> SUFFICES ASSUME NEW e \in Execs, pc[e] \in {"ready", "node", "claim", "name", "job", "wait"},
                      pc'[e] = pc[e]
               PROVE  (snap[e] # "none" => snap'[e] # "none") /\ (e \in pvc => e \in pvc')
    OBVIOUS
  <2>1. CASE UNCHANGED <<snap, pvc>>
    BY <2>1
  <2>2. ASSUME ~UNCHANGED <<snap, pvc>>
        PROVE  (snap[e] # "none" => snap'[e] # "none") /\ (e \in pvc => e \in pvc')
    <3>1. PICK g \in Execs : Step(g)
      BY <1>1, <2>2 DEF Next, Step, ForeignSnapshot, Crash, cluster, vars
    <3>2. DeleteOrphans(g) \/ CreateSnapshot(g) \/ Discard(g) \/ CreatePvc(g) \/ DropPvc(g)
          \/ DropSnap(g) \/ SnapshotReady(g)
      BY <3>1, <2>2 DEF Step, Start, RunBackup, cluster, ListPods, Quiesce, RunHook,
             AwaitNoConflict,
         AwaitReady, Unlock, FindNode, NameJob, CreateJob, AwaitJob, Reap, KeepWaiting,
         ConnectionLost, JobStep
    <3>3. CASE DeleteOrphans(g)
      <4>1. Live(g) /\ Live(e) /\ e \notin Siblings(g)
        BY <1>1, <3>3 DEF DeleteOrphans, Live, Goto, Raise, Inv2, Among, Alone
      <4> QED
        BY <3>3, <4>1 DEF DeleteOrphans, OrphanPvcs, OrphanSnaps
    <3>4. CASE ~DeleteOrphans(g)
      BY <1>1, <3>2, <3>4 DEF CreateSnapshot, Discard, CreatePvc, DropPvc, DropSnap,
             SnapshotReady,
         Goto, Raise, Inv2, Inv, Types
    <3> QED
      BY <3>3, <3>4
  <2> QED
    BY <2>1, <2>2
<1> QED
  BY <1>1, Invariant2, PTL DEF Spec, LiveResourcesKept

-----------------------------------------------------------------------------
(* The type invariant                                                      *)

Rest == /\ mounted \in [Execs -> SUBSET Execs] /\ cut \subseteq Execs /\ named \subseteq Execs
        /\ held \in [Execs -> 0..MaxWait] /\ foreign \in SnapStates /\ crashes \in 0..MaxCrashes

LEMMA StepRest == ASSUME Types, Rest, NEW e \in Execs, Step(e) PROVE Rest'
<1> USE DEF Goto, Raise, cluster, Rest
<1>1. CASE Start(e)
  BY <1>1, PipelineBounds DEF Start
<1>2. CASE ListPods(e)
  BY <1>2, PipelineBounds DEF ListPods, Types, InPods
<1>3. CASE DeleteOrphans(e)
  BY <1>3, PipelineBounds DEF DeleteOrphans
<1>4. CASE Quiesce(e)
  BY <1>4, PipelineBounds DEF Quiesce
<1>5. CASE RunHook(e)
  BY <1>5, PipelineBounds DEF RunHook
<1>6. CASE AwaitNoConflict(e)
  BY <1>6, PipelineBounds DEF AwaitNoConflict
<1>7. CASE CreateSnapshot(e)
  BY <1>7, PipelineBounds DEF CreateSnapshot
<1>8. CASE AwaitReady(e)
  BY <1>8, PipelineBounds DEF AwaitReady
<1>9. CASE Unlock(e)
  BY <1>9, PipelineBounds DEF Unlock
<1>10. CASE Discard(e)
  BY <1>10, PipelineBounds DEF Discard
<1>11. CASE FindNode(e)
  BY <1>11, PipelineBounds DEF FindNode
<1>12. CASE CreatePvc(e)
  BY <1>12, PipelineBounds DEF CreatePvc
<1>13. CASE NameJob(e)
  BY <1>13, PipelineBounds DEF NameJob
<1>14. CASE CreateJob(e)
  BY <1>14, PipelineBounds DEF CreateJob
<1>15. CASE AwaitJob(e)
  BY <1>15, PipelineBounds DEF AwaitJob
<1>16. CASE Reap(e)
  BY <1>16, PipelineBounds DEF Reap
<1>17. CASE DropPvc(e)
  BY <1>17, PipelineBounds DEF DropPvc
<1>18. CASE DropSnap(e)
  BY <1>18, PipelineBounds DEF DropSnap
<1>19. CASE KeepWaiting(e)
  BY <1>19, PipelineBounds DEF KeepWaiting
<1>20. CASE SnapshotReady(e)
  BY <1>20, PipelineBounds DEF SnapshotReady
<1>21. CASE ConnectionLost(e)
  BY <1>21, PipelineBounds DEF ConnectionLost
<1>22. CASE JobStep(e)
  BY <1>22, PipelineBounds DEF JobStep
<1> QED
  BY <1>1, <1>2, <1>3, <1>4, <1>5, <1>6, <1>7, <1>8, <1>9, <1>10, <1>11, <1>12, <1>13, <1>14, <1>15,
     <1>16, <1>17, <1>18, <1>19, <1>20, <1>21, <1>22
     DEF Step, RunBackup

\* The state of executions and cluster stays within its types.
THEOREM TypeCorrect == Spec => []TypeOK
<1>1. Init => Rest
  BY PipelineBounds DEF Init, Rest, SnapStates
<1>2. ASSUME Inv, Rest, [Next]_vars PROVE Rest'
  <2>1. ASSUME NEW e \in Execs, Step(e) PROVE Rest'
    BY <1>2, <2>1, StepRest DEF Inv
  <2>2. CASE ForeignSnapshot
    BY <1>2, <2>2 DEF ForeignSnapshot, Rest, SnapStates
  <2>3. CASE Crash
    BY <1>2, <2>3, PipelineBounds DEF Crash, Rest, cluster
  <2>4. CASE UNCHANGED vars
    BY <1>2, <2>4 DEF vars, Rest
  <2> QED
    BY <1>2, <2>1, <2>2, <2>3, <2>4 DEF Next, Step
<1>3. Inv /\ Rest => TypeOK
  BY DEF Inv, Types, Rest, TypeOK
<1> QED
  BY <1>1, <1>2, <1>3, Invariant, PTL DEF Spec

-----------------------------------------------------------------------------
(* One execution at a time                                                 *)

OneLive == \A e, f \in Execs : Live(e) /\ Live(f) => e = f
Clear == \A e \in Execs : pc[e] = "create" => \A f \in Execs : snap[f] # "unready"
OneUnready == \A e, f \in Execs : snap[e] = "unready" /\ snap[f] = "unready" => e = f
Serial == OneLive /\ Clear /\ OneUnready

LEMMA StartsAlone ==
  ASSUME MaxConcurrent = 1, NEW e \in Execs, Start(e) PROVE \A f \in Execs : ~Live(f)
<1> DEFINE L == {f \in Execs : Live(f)}
<1>1. IsFiniteSet(L) /\ Cardinality(L) \in Nat
  BY ExecsAssumption, FS_Subset, FS_CardinalityType
<1>2. Cardinality(L) < 1
  BY DEF Start
<1>3. L = {}
  BY <1>1, <1>2, FS_EmptySet
<1> QED
  BY <1>3

\* Where an unready snapshot and the right to create one come from.
LEMMA Creates ==
  ASSUME Inv, NEW e \in Execs, Step(e)
  PROVE  /\ snap'[e] = "unready" => snap[e] = "unready" \/ pc[e] = "create"
         /\ pc'[e] = "create" => /\ Live(e) /\ snap' = snap
                                 /\ pc[e] = "create" \/ ~Conflict
<1> USE DEF Goto, Raise, cluster
<1>1. CASE Start(e)
  BY <1>1, ModeAssumption DEF Inv, Types, Local, SnapAt, Phase2, Live, Start
<1>2. CASE ListPods(e)
  BY <1>2, ModeAssumption DEF Inv, Types, Local, SnapAt, Phase2, Live, ListPods
<1>3. CASE DeleteOrphans(e)
  BY <1>3, ModeAssumption DEF Inv, Types, Local, SnapAt, Phase2, Live, DeleteOrphans
<1>4. CASE Quiesce(e)
  BY <1>4, ModeAssumption DEF Inv, Types, Local, SnapAt, Phase2, Live, Quiesce, Except
<1>5. CASE RunHook(e)
  BY <1>5, ModeAssumption DEF Inv, Types, Local, SnapAt, Phase2, Live, RunHook, Quiesced
<1>6. CASE AwaitNoConflict(e)
  BY <1>6, ModeAssumption DEF Inv, Types, Local, SnapAt, Phase2, Live, AwaitNoConflict
<1>7. CASE CreateSnapshot(e)
  BY <1>7, ModeAssumption DEF Inv, Types, Local, SnapAt, Phase2, Live, CreateSnapshot
<1>8. CASE AwaitReady(e)
  BY <1>8, ModeAssumption DEF Inv, Types, Local, SnapAt, Phase2, Live, AwaitReady
<1>9. CASE Unlock(e)
  BY <1>9, ModeAssumption DEF Inv, Types, Local, SnapAt, Phase2, Live, Unlock, Except, AfterUnlock
<1>10. CASE Discard(e)
  BY <1>10, ModeAssumption DEF Inv, Types, Local, SnapAt, Phase2, Live, Discard
<1>11. CASE FindNode(e)
  BY <1>11, ModeAssumption DEF Inv, Types, Local, SnapAt, Phase2, Live, FindNode
<1>12. CASE CreatePvc(e)
  BY <1>12, ModeAssumption DEF Inv, Types, Local, SnapAt, Phase2, Live, CreatePvc
<1>13. CASE NameJob(e)
  BY <1>13, ModeAssumption DEF Inv, Types, Local, SnapAt, Phase2, Live, NameJob
<1>14. CASE CreateJob(e)
  BY <1>14, ModeAssumption DEF Inv, Types, Local, SnapAt, Phase2, Live, CreateJob, AfterJob
<1>15. CASE AwaitJob(e)
  BY <1>15, ModeAssumption DEF Inv, Types, Local, SnapAt, Phase2, Live, AwaitJob
<1>16. CASE Reap(e)
  BY <1>16, ModeAssumption DEF Inv, Types, Local, SnapAt, Phase2, Live, Reap, AfterJob
<1>17. CASE DropPvc(e)
  BY <1>17, ModeAssumption DEF Inv, Types, Local, SnapAt, Phase2, Live, DropPvc
<1>18. CASE DropSnap(e)
  BY <1>18, ModeAssumption DEF Inv, Types, Local, SnapAt, Phase2, Live, DropSnap
<1>19. CASE KeepWaiting(e)
  BY <1>19, ModeAssumption DEF Inv, Types, Local, SnapAt, Phase2, Live, KeepWaiting
<1>20. CASE SnapshotReady(e)
  BY <1>20, ModeAssumption DEF Inv, Types, Local, SnapAt, Phase2, Live, SnapshotReady
<1>21. CASE ConnectionLost(e)
  BY <1>21, ModeAssumption DEF Inv, Types, Local, SnapAt, Phase2, Live, ConnectionLost
<1>22. CASE JobStep(e)
  BY <1>22, ModeAssumption DEF Inv, Types, Local, SnapAt, Phase2, Live, JobStep
<1> QED
  BY <1>1, <1>2, <1>3, <1>4, <1>5, <1>6, <1>7, <1>8, <1>9, <1>10, <1>11, <1>12, <1>13, <1>14, <1>15,
     <1>16, <1>17, <1>18, <1>19, <1>20, <1>21, <1>22
     DEF Step, RunBackup

LEMMA SerialStep ==
  ASSUME MaxConcurrent = 1, Inv, Serial, NEW g \in Execs, Step(g) PROVE Serial'
<1>1. \A f \in Execs \ {g} : Calm(f)
  BY StepMoves DEF Moves
<1>2. OneLive'
  <2>1. CASE Start(g)
    BY <1>1, <2>1, StartsAlone DEF OneLive, Calm, Live
  <2>2. CASE ~Start(g)
    BY <1>1, <2>2, Own DEF Serial, OneLive, Calm, Live
  <2> QED
    BY <2>1, <2>2
<1>3. Clear'
  <2>1. SUFFICES ASSUME NEW e \in Execs, NEW f \in Execs, pc'[e] = "create", snap'[f] = "unready"
                 PROVE  FALSE
    BY DEF Clear
  <2>2. CASE g = e
    BY <2>1, <2>2, Creates DEF Serial, Clear, Conflict
  <2>3. CASE g # e
    <3>1. pc[e] = "create" /\ snap[f] # "unready"
      BY <1>1, <2>1, <2>3 DEF Calm, Serial, Clear
    <3>2. f = g /\ pc[g] = "create"
      BY <1>1, <2>1, <3>1, Creates DEF Calm
    <3> QED
      BY <2>3, <3>1, <3>2 DEF Serial, OneLive, Live
  <2> QED
    BY <2>2, <2>3
<1>4. OneUnready'
  <2>1. SUFFICES ASSUME NEW e \in Execs, NEW f \in Execs, e # f,
                        snap'[e] = "unready", snap'[f] = "unready"
                 PROVE  FALSE
    BY DEF OneUnready
  <2>2. \A x \in Execs : snap'[x] = "unready" => snap[x] = "unready" \/ (x = g /\ pc[g] = "create")
    BY <1>1, Creates DEF Calm
  <2> QED
    BY <2>1, <2>2 DEF Serial, Clear, OneUnready
<1> QED
  BY <1>2, <1>3, <1>4 DEF Serial

\* "k8si takes one snapshot of a PVC at a time": proved with a cap of one (the
\* conflict wait and the create are two calls); a crashed execution's snapshot is
\* waited for, or ends the next.
THEOREM SerialSnapshots == ASSUME MaxConcurrent = 1 PROVE Spec => []OneSnapshotAtATime
<1>1. Init => Serial
  BY DEF Init, Serial, OneLive, Clear, OneUnready, Live
<1>2. ASSUME Inv, Serial, [Next]_vars PROVE Serial'
  <2>1. ASSUME NEW g \in Execs, Step(g) PROVE Serial'
    BY <1>2, <2>1, SerialStep
  <2>2. CASE ForeignSnapshot
    BY <1>2, <2>2 DEF ForeignSnapshot, Serial, OneLive, Clear, OneUnready, Live
  <2>3. CASE Crash
    <3>1. snap' = snap /\ \A e \in Execs : ~Live(e)' /\ pc'[e] # "create"
      BY <1>2, <2>3 DEF Crash, cluster, Inv, Types, Live
    <3> QED
      BY <1>2, <3>1 DEF Serial, OneLive, Clear, OneUnready
  <2>4. CASE UNCHANGED vars
    BY <1>2, <2>4 DEF vars, Serial, OneLive, Clear, OneUnready, Live
  <2> QED
    BY <1>2, <2>1, <2>2, <2>3, <2>4 DEF Next, Step
<1>3. Serial => OneSnapshotAtATime
  <2> DEFINE U == {e \in Execs : snap[e] = "unready"}
  <2>1. ASSUME Serial, NEW u \in U PROVE U = {u}
    BY <2>1 DEF Serial, OneUnready
  <2>2. Cardinality({}) = 0 /\ \A u \in U : Cardinality({u}) = 1
    BY FS_EmptySet, FS_Singleton
  <2>3. ASSUME Serial PROVE U = {} \/ \E u \in U : U = {u}
    BY <2>1, <2>3
  <2>4. ASSUME Serial PROVE Cardinality(U) <= 1
    BY <2>2, <2>3, <2>4
  <2> QED
    BY <2>4 DEF OneSnapshotAtATime
<1> QED
  BY <1>1, <1>2, <1>3, Invariant, PTL DEF Spec

=============================================================================
