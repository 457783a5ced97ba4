------------------------- MODULE RunLifecycleProofs -------------------------
(***************************************************************************)
(* For every number of runs, every retention, cap, set of creators and     *)
(* number of crashes and faults: the types of RunLifecycle, that a success *)
(* is backed by a completed Job, that the key in _running has an owner,    *)
(* and that an executed run has one active Job at most, through one crash; *)
(* and until the operator dies, a call fails or a run gets old, that a run *)
(* is recorded once, and where one of backup_timer and the dashboard       *)
(* creates the runs, that their executions are apart, that no active run   *)
(* is pruned, and that the runs take turns as in RunTurns.                 *)
(***************************************************************************)
EXTENDS RunLifecycle, FiniteSetTheorems, TLAPS

-----------------------------------------------------------------------------
(* What the API calls of the code keep                                     *)

LEMMA FaultTyped ==
  ASSUME TypeOK, Fault \/ NoFault
  PROVE  faults' \in 0..MaxFaults
BY BoundsAssumption DEF TypeOK, Fault, NoFault

\* _patch_run_status writes one run object, or nothing.
LEMMA PatchTyped ==
  ASSUME TypeOK, NEW r \in Runs, NEW fields \in RunRecord, PatchRun(r, fields)
  PROVE  run' \in [Runs -> RunRecord] /\ faults' \in 0..MaxFaults
<1>1. run' \in [Runs -> RunRecord]
  BY DEF TypeOK, PatchRun
<1>2. Fault \/ NoFault
  BY DEF PatchRun
<1> QED
  BY <1>1, <1>2, FaultTyped

LEMMA FieldsTyped ==
  ASSUME TypeOK, NEW r \in Runs, NEW p \in Phases, NEW l \in BOOLEAN, NEW n \in Nat
  PROVE  /\ [run[r] EXCEPT !.phase = p] \in RunRecord
         /\ [run[r] EXCEPT !.log = l] \in RunRecord
         /\ [run[r] EXCEPT !.phase = p, !.log = l] \in RunRecord
         /\ [run[r] EXCEPT !.phase = p, !.job = n] \in RunRecord
<1>1. run[r] \in RunRecord
  BY DEF TypeOK
<1>2. [run[r] EXCEPT !.phase = p] \in RunRecord
  BY <1>1 DEF RunRecord
<1>3. [run[r] EXCEPT !.log = l] \in RunRecord
  BY <1>1 DEF RunRecord
<1>4. [run[r] EXCEPT !.phase = p, !.log = l] \in RunRecord
  BY <1>1 DEF RunRecord
<1>5. [run[r] EXCEPT !.phase = p, !.job = n] \in RunRecord
  BY <1>1 DEF RunRecord
<1> QED
  BY <1>2, <1>3, <1>4, <1>5

LEMMA RecordTyped ==
  ASSUME TypeOK, NEW r \in Runs, NEW x \in Results, Record(r, x)
  PROVE  entries' \in [Runs -> [Results -> 0..2]] /\ faults' \in 0..MaxFaults
<1>1. Fault \/ NoFault
  BY DEF Record
<1>2. entries[r] \in [Results -> 0..2] /\ entries[r][x] \in 0..2
  BY DEF TypeOK
<1>3. (IF entries[r][x] < 2 THEN entries[r][x] + 1 ELSE 2) \in 0..2
  BY <1>2
<1>4. entries' \in [Runs -> [Results -> 0..2]]
  BY <1>3 DEF TypeOK, Record
<1> QED
  BY <1>1, <1>4, FaultTyped

LEMMA PruneTyped ==
  ASSUME TypeOK, PruneRuns
  PROVE  run' \in [Runs -> RunRecord] /\ faults' \in 0..MaxFaults
<1>1. ASSUME NEW r \in Runs
      PROVE  [run[r] EXCEPT !.phase = "gone"] \in RunRecord /\ run[r] \in RunRecord
  BY FieldsTyped DEF TypeOK, Phases
<1>2. run' \in [Runs -> RunRecord]
  BY <1>1 DEF TypeOK, PruneRuns
<1>3. Fault \/ NoFault
  BY DEF PruneRuns
<1> QED
  BY <1>2, <1>3, FaultTyped

LEMMA CreateTyped ==
  ASSUME TypeOK, NEW r \in Runs, NEW by \in {"schedule", "manual", "backfill"}, CreateRun(r, by)
  PROVE  run' \in [Runs -> RunRecord]
BY DEF TypeOK, CreateRun, RunRecord, Phases, Active

LEMMA HandlerTyped ==
  ASSUME TypeOK, NEW r \in Runs, NEW from, NEW to \in HandlerPc, HandlerStep(r, from, to)
  PROVE  /\ h' \in [Runs -> HandlerPc]
         /\ UNCHANGED <<c, cache, t, u, old, crashes>>
BY DEF TypeOK, HandlerStep

LEMMA ReconcilerTyped ==
  ASSUME TypeOK, NEW r \in Runs, NEW from, NEW to \in ReconcilerPc, ReconcilerStep(r, from, to)
  PROVE  /\ c' \in [Runs -> ReconcilerPc]
         /\ UNCHANGED <<backed, running, h, attempt, handled, cache, t, u, old, crashes>>
BY DEF TypeOK, ReconcilerStep

-----------------------------------------------------------------------------
(* Types                                                                   *)

LEMMA TypeInit == Init => TypeOK
<1> SUFFICES ASSUME Init PROVE TypeOK
  OBVIOUS
<1>1. Absent \in RunRecord
  BY DEF Absent, RunRecord, Phases
<1>2. run \in [Runs -> RunRecord] /\ cache \in [Runs -> RunRecord]
  BY <1>1 DEF Init
<1>3. entries \in [Runs -> [Results -> 0..2]]
  BY DEF Init
<1>4. h \in [Runs -> HandlerPc] /\ c \in [Runs -> ReconcilerPc] /\ attempt \in [Runs -> Nat]
  BY DEF Init, HandlerPc, ReconcilerPc
<1>5. crashes \in 0..MaxCrashes /\ faults \in 0..MaxFaults
  BY BoundsAssumption DEF Init
<1> QED
  BY <1>2, <1>3, <1>4, <1>5 DEF Init, TypeOK

\* A step of on_run_create that only patches the run.
LEMMA PatchStepTyped ==
  ASSUME TypeOK, NEW r \in Runs, NEW from, NEW to \in HandlerPc, NEW fields \in RunRecord,
         HandlerStep(r, from, to), PatchRun(r, fields),
         UNCHANGED <<jobs, backed, entries, running, attempt, handled>>
  PROVE  TypeOK'
BY PatchTyped, HandlerTyped DEF TypeOK

LEMMA TypeHandler ==
  ASSUME TypeOK, NEW r \in Runs, OnRunCreate(r)
  PROVE  TypeOK'
<1> USE DEF HandlerPc, Guarding, Phases, Active, Terminal
<1>1. CASE Enter(r)
  BY <1>1 DEF Enter, HandlerStep, TypeOK, api
<1>2. CASE Reject(r) \/ Abort(r)
  BY <1>2, FieldsTyped, PatchStepTyped DEF Reject, Abort
<1>3. CASE Check(r)
  <2>1. h' \in [Runs -> HandlerPc] /\ UNCHANGED <<c, cache, t, u, old, crashes>>
    BY <1>3, HandlerTyped DEF Check
  <2>2. running' \in BOOLEAN /\ faults' \in 0..MaxFaults
    BY <1>3, FaultTyped DEF Check, TypeOK
  <2> QED
    BY <1>3, <2>1, <2>2 DEF Check, TypeOK, api
<1>4. CASE FetchParent(r)
  <2>1. h' \in [Runs -> HandlerPc] /\ UNCHANGED <<c, cache, t, u, old, crashes>>
    BY <1>4, HandlerTyped DEF FetchParent
  <2>2. running' \in BOOLEAN /\ faults' \in 0..MaxFaults
    BY <1>4, FaultTyped DEF FetchParent, TypeOK
  <2> QED
    BY <1>4, <2>1, <2>2 DEF FetchParent, TypeOK, api
<1>5. CASE MarkQueued(r) \/ SettlePatch(r) \/ ResetLog(r) \/ MarkFailed(r)
  BY <1>5, FieldsTyped, PatchStepTyped DEF MarkQueued, SettlePatch, ResetLog, MarkFailed
<1>6. CASE Acquire(r)
  BY <1>6, HandlerTyped DEF Acquire, TypeOK, api
<1>7. CASE FirstLog(r)
  <2>1. h' \in [Runs -> HandlerPc] /\ UNCHANGED <<c, cache, t, u, old, crashes>>
    BY <1>7, HandlerTyped DEF FirstLog
  <2>2. run' \in [Runs -> RunRecord] /\ faults' \in 0..MaxFaults
    BY <1>7, FieldsTyped, PatchTyped, FaultTyped DEF FirstLog, TypeOK
  <2> QED
    BY <1>7, <2>1, <2>2 DEF FirstLog, TypeOK
<1>8. CASE Prepare(r)
  BY <1>8, FieldsTyped, PatchStepTyped DEF Prepare
<1>9. CASE NameJob(r)
  <2>1. attempt[r] + 1 \in Nat /\ attempt' \in [Runs -> Nat]
    BY <1>9 DEF NameJob, TypeOK
  <2>2. run' \in [Runs -> RunRecord] /\ faults' \in 0..MaxFaults
    BY <1>9, <2>1, FieldsTyped, PatchTyped DEF NameJob
  <2> QED
    BY <1>9, <2>1, <2>2, HandlerTyped DEF NameJob, TypeOK
<1>10. CASE CreateJob(r)
  <2>1. [run |-> r, no |-> attempt[r], state |-> "active"] \in JobRecord
    BY DEF JobRecord, TypeOK
  <2>2. jobs' \subseteq JobRecord /\ faults' \in 0..MaxFaults
    BY <1>10, <2>1, FaultTyped DEF CreateJob, TypeOK
  <2>3. h' \in [Runs -> HandlerPc] /\ UNCHANGED <<c, cache, t, u, old, crashes>>
    BY <1>10, HandlerTyped DEF CreateJob
  <2> QED
    BY <1>10, <2>2, <2>3 DEF CreateJob, TypeOK
<1>11. CASE AwaitJob(r) \/ CleanUp(r)
  <2>1. h' \in [Runs -> HandlerPc] /\ UNCHANGED <<c, cache, t, u, old, crashes>>
    BY <1>11, HandlerTyped DEF AwaitJob, CleanUp
  <2>2. faults' \in 0..MaxFaults
    BY <1>11, FaultTyped DEF AwaitJob, CleanUp
  <2> QED
    BY <1>11, <2>1, <2>2 DEF AwaitJob, CleanUp, TypeOK, api
<1>12. CASE Reap(r)
  <2>1. h' \in [Runs -> HandlerPc] /\ UNCHANGED <<c, cache, t, u, old, crashes>>
    BY <1>12, HandlerTyped DEF Reap
  <2>2. jobs' \subseteq JobRecord /\ faults' \in 0..MaxFaults
    BY <1>12, FaultTyped DEF Reap, TypeOK
  <2> QED
    BY <1>12, <2>1, <2>2 DEF Reap, TypeOK
<1>13. CASE Reread(r)
  <2>1. h' \in [Runs -> HandlerPc] /\ UNCHANGED <<c, cache, t, u, old, crashes>>
    BY <1>13, HandlerTyped DEF Reread
  <2>2. running' \in BOOLEAN /\ faults' \in 0..MaxFaults
    BY <1>13, FaultTyped DEF Reread, TypeOK
  <2> QED
    BY <1>13, <2>1, <2>2 DEF Reread, TypeOK, api
<1>14. CASE Succeed(r)
  <2>1. attempt[r] \in Nat
    BY DEF TypeOK
  <2> QED
    BY <1>14, <2>1, FieldsTyped, PatchStepTyped DEF Succeed
<1>15. CASE RecordResult(r)
  <2>1. h' \in [Runs -> HandlerPc] /\ UNCHANGED <<c, cache, t, u, old, crashes>>
    BY <1>15, HandlerTyped DEF RecordResult
  <2>2. entries' \in [Runs -> [Results -> 0..2]] /\ faults' \in 0..MaxFaults
    BY <1>15, RecordTyped DEF RecordResult, Results
  <2> QED
    BY <1>15, <2>1, <2>2 DEF RecordResult, TypeOK
<1>16. CASE PruneAndRelease(r)
  BY <1>16, HandlerTyped, PruneTyped DEF PruneAndRelease, TypeOK
<1>17. CASE Return(r)
  BY <1>17, HandlerTyped DEF Return, TypeOK, api
<1> QED
  BY <1>1, <1>2, <1>3, <1>4, <1>5, <1>6, <1>7, <1>8, <1>9, <1>10, <1>11, <1>12, <1>13,
     <1>14, <1>15, <1>16, <1>17 DEF OnRunCreate

LEMMA TypeReconciler ==
  ASSUME TypeOK, NEW r \in Runs, RunReconcileTimer(r)
  PROVE  TypeOK'
<1> USE DEF ReconcilerPc, Phases, Active, Terminal
<1> DEFINE Others == UNCHANGED <<backed, running, h, attempt, handled, cache, t, u, old, crashes>>
<1>1. CASE Reconcile(r)
  BY <1>1, ReconcilerTyped DEF Reconcile, TypeOK
<1>2. CASE Peek(r) \/ ReadJob(r)
  <2>1. c' \in [Runs -> ReconcilerPc] /\ Others
    BY <1>2, ReconcilerTyped DEF Peek, ReadJob
  <2>2. faults' \in 0..MaxFaults
    BY <1>2, FaultTyped DEF Peek, ReadJob
  <2> QED
    BY <1>2, <2>1, <2>2 DEF Peek, ReadJob, TypeOK
<1>3. CASE Finish(r) \/ Kill(r)
  <2>1. c' \in [Runs -> ReconcilerPc] /\ Others
    BY <1>3, ReconcilerTyped DEF Finish, Kill
  <2>2. run' \in [Runs -> RunRecord] /\ faults' \in 0..MaxFaults
    BY <1>3, FieldsTyped, PatchTyped DEF Finish, Kill
  <2> QED
    BY <1>3, <2>1, <2>2 DEF Finish, Kill, TypeOK
<1>4. CASE KillJob(r)
  <2>1. c' \in [Runs -> ReconcilerPc] /\ Others
    BY <1>4, ReconcilerTyped DEF KillJob
  <2>2. jobs' \subseteq JobRecord /\ faults' \in 0..MaxFaults
    BY <1>4, FaultTyped DEF KillJob, TypeOK
  <2> QED
    BY <1>4, <2>1, <2>2 DEF KillJob, TypeOK
<1>5. CASE ReconcileParent(r)
  <2>1. c' \in [Runs -> ReconcilerPc] /\ Others
    BY <1>5, ReconcilerTyped DEF ReconcileParent
  <2>2. entries' \in [Runs -> [Results -> 0..2]] /\ faults' \in 0..MaxFaults
    BY <1>5, RecordTyped, FaultTyped DEF ReconcileParent, Results, TypeOK
  <2> QED
    BY <1>5, <2>1, <2>2 DEF ReconcileParent, TypeOK
<1>6. CASE ReconcilePrune(r)
  BY <1>6, ReconcilerTyped, PruneTyped DEF ReconcilePrune, TypeOK
<1> QED
  BY <1>1, <1>2, <1>3, <1>4, <1>5, <1>6 DEF RunReconcileTimer

LEMMA TypeCreators ==
  ASSUME TypeOK, TimerLook \/ TimerList \/ TimerCreate \/ UiList \/ UiCreate \/ Backfill
  PROVE  TypeOK'
<1>1. CASE TimerLook \/ UiList
  BY <1>1 DEF TimerLook, UiList, TypeOK, api
<1>2. CASE TimerList
  <2>1. faults' \in 0..MaxFaults
    BY <1>2, FaultTyped DEF TimerList
  <2> QED
    BY <1>2, <2>1 DEF TimerList, TypeOK, api
<1>3. CASE TimerCreate \/ UiCreate \/ Backfill
  <2>1. run' \in [Runs -> RunRecord]
    BY <1>3, CreateTyped DEF TimerCreate, UiCreate, Backfill
  <2> QED
    BY <1>3, <2>1 DEF TimerCreate, UiCreate, Backfill, TypeOK
<1> QED
  BY <1>1, <1>2, <1>3

LEMMA JobEndsTyped ==
  ASSUME TypeOK, JobEnds
  PROVE  jobs' \subseteq JobRecord /\ backed' \subseteq Runs
<1>1. PICK j \in jobs, s \in {"complete", "failed"} :
        /\ jobs' = (jobs \ {j}) \union {[j EXCEPT !.state = s]}
        /\ backed' = IF s = "complete" THEN backed \union {j.run} ELSE backed
  BY DEF JobEnds
<1>2. j.run \in Runs /\ [j EXCEPT !.state = s] \in JobRecord
  BY <1>1 DEF TypeOK, JobRecord
<1> QED
  BY <1>1, <1>2 DEF TypeOK

LEMMA TypeEnvironment ==
  ASSUME TypeOK,
         \/ \E r \in Runs : Deliver(r) \/ GrowOld(r)
         \/ JobEnds \/ JobExpires \/ Crash \/ UNCHANGED vars
  PROVE  TypeOK'
<1>1. ASSUME NEW r \in Runs, Deliver(r) \/ GrowOld(r) PROVE TypeOK'
  BY <1>1 DEF Deliver, GrowOld, TypeOK, api
<1>2. CASE JobEnds
  BY <1>2, JobEndsTyped DEF JobEnds, TypeOK
<1>3. CASE JobExpires
  BY <1>3 DEF JobExpires, TypeOK
<1>4. CASE Crash
  <2>1. h' \in [Runs -> HandlerPc] /\ c' \in [Runs -> ReconcilerPc]
    BY <1>4 DEF Crash, HandlerPc, ReconcilerPc
  <2>2. crashes' \in 0..MaxCrashes
    BY <1>4, BoundsAssumption DEF Crash, TypeOK
  <2> QED
    BY <1>4, <2>1, <2>2 DEF Crash, TypeOK, api
<1>5. CASE UNCHANGED vars
  BY <1>5 DEF vars, TypeOK
<1> QED
  BY <1>1, <1>2, <1>3, <1>4, <1>5

LEMMA TypeNext == TypeOK /\ [Next]_vars => TypeOK'
  BY TypeHandler, TypeReconciler, TypeCreators, TypeEnvironment DEF Next

\* Whatever is lost, repeated or restarted, the state stays one of the CRD's
\* phases and the coroutines' suspension points.
THEOREM TypeCorrect == Spec => []TypeOK
  BY TypeInit, TypeNext, PTL DEF Spec

-----------------------------------------------------------------------------
(* The owner of the key in _running                                        *)

\* Every way out of the guarded section discards the key.
LEMMA OwnerHandler ==
  ASSUME TypeOK, GuardIsOwned, NEW r \in Runs, OnRunCreate(r)
  PROVE  GuardIsOwned'
<1>1. ASSUME NEW from \in HandlerPc, NEW to \in HandlerPc, HandlerStep(r, from, to),
             \/ from \notin Guarding /\ UNCHANGED running
             \/ to \in Guarding
             \/ running' = FALSE
      PROVE  GuardIsOwned'
  <2>1. h \in [Runs -> HandlerPc] /\ h' = [h EXCEPT ![r] = to] /\ h[r] = from
    BY <1>1 DEF HandlerStep, TypeOK
  <2>2. CASE from \notin Guarding /\ UNCHANGED running
    BY <2>1, <2>2 DEF GuardIsOwned
  <2>3. CASE to \in Guarding
    BY <2>1, <2>3 DEF GuardIsOwned
  <2>4. CASE running' = FALSE
    BY <2>4 DEF GuardIsOwned
  <2> QED
    BY <1>1, <2>2, <2>3, <2>4
<1> USE DEF HandlerPc, Guarding
<1>2. CASE Enter(r) \/ Reject(r) \/ Check(r) \/ FetchParent(r) \/ Abort(r) \/ MarkQueued(r)
  BY <1>1, <1>2 DEF Enter, Reject, Check, FetchParent, Abort, MarkQueued
<1>3. CASE Acquire(r) \/ SettlePatch(r) \/ ResetLog(r) \/ FirstLog(r) \/ Prepare(r) \/ NameJob(r)
           \/ CreateJob(r)
  BY <1>1, <1>3 DEF Acquire, SettlePatch, ResetLog, FirstLog, Prepare, NameJob, CreateJob
<1>4. CASE AwaitJob(r) \/ Reap(r) \/ CleanUp(r) \/ Reread(r) \/ Succeed(r)
  BY <1>1, <1>4 DEF AwaitJob, Reap, CleanUp, Reread, Succeed
<1>5. CASE RecordResult(r) \/ MarkFailed(r) \/ PruneAndRelease(r) \/ Return(r)
  BY <1>1, <1>5 DEF RecordResult, MarkFailed, PruneAndRelease, Return
<1> QED
  BY <1>2, <1>3, <1>4, <1>5 DEF OnRunCreate

LEMMA OwnerNext == TypeOK /\ GuardIsOwned /\ [Next]_vars => GuardIsOwned'
<1> SUFFICES ASSUME TypeOK, GuardIsOwned, [Next]_vars PROVE GuardIsOwned'
  OBVIOUS
<1>1. ASSUME NEW r \in Runs, OnRunCreate(r) PROVE GuardIsOwned'
  BY <1>1, OwnerHandler
<1>2. ASSUME NEW r \in Runs, RunReconcileTimer(r) PROVE UNCHANGED <<h, running>>
  BY <1>2 DEF RunReconcileTimer, Reconcile, Peek, ReadJob, Finish, Kill, KillJob,
              ReconcileParent, ReconcilePrune, ReconcilerStep
<1>3. ASSUME NEW r \in Runs, Deliver(r) \/ GrowOld(r) PROVE UNCHANGED <<h, running>>
  BY <1>3 DEF Deliver, GrowOld
<1>4. CASE TimerLook \/ TimerList \/ TimerCreate \/ UiList \/ UiCreate \/ Backfill
           \/ JobEnds \/ JobExpires \/ UNCHANGED vars
  BY <1>4 DEF TimerLook, TimerList, TimerCreate, UiList, UiCreate, Backfill, JobEnds,
              JobExpires, vars, GuardIsOwned
<1>5. CASE Crash
  BY <1>5 DEF Crash, GuardIsOwned
<1>6. UNCHANGED <<h, running>> => GuardIsOwned'
  BY DEF GuardIsOwned
<1> QED
  BY <1>1, <1>2, <1>3, <1>4, <1>5, <1>6 DEF Next

\* on_run_create: each early return and the `finally` discard the key, so that
\* a key in _running always has a coroutine that will still discard it.
THEOREM GuardHasOwner == Spec => []GuardIsOwned
<1>1. Init => GuardIsOwned
  BY DEF Init, GuardIsOwned
<1> QED
  BY <1>1, OwnerNext, TypeCorrect, PTL DEF Spec

-----------------------------------------------------------------------------
(* A success is backed by a completed Job                                  *)

\* What each of the two writers of a success knows while it is on its way
\* there, whatever has become of the Job in the meantime.
JobsBacked == \A j \in jobs : j.state = "complete" => j.run \in backed
Succeeding == {"reap", "clean", "reread", "succeed", "recordOk"}
HandlerKnows == \A r \in Runs : h[r] \in Succeeding => r \in backed
ReconcilerKnows == \A r \in Runs : c[r] \in {"finish", "finishParent"} => r \in backed
BackedInv == JobsBacked /\ HandlerKnows /\ ReconcilerKnows /\ SuccessIsBacked

\* A patch that writes "Succeeded" only to a backed run, an entry that says
\* "success" only of a backed run.
LEMMA PatchBacked ==
  ASSUME TypeOK, SuccessIsBacked, NEW r \in Runs, NEW fields \in RunRecord, PatchRun(r, fields),
         fields.phase # "Succeeded" \/ fields.phase = run[r].phase \/ r \in backed,
         UNCHANGED <<entries, backed>>
  PROVE  SuccessIsBacked'
<1>1. run' = run \/ run' = [run EXCEPT ![r] = fields]
  BY DEF PatchRun
<1>2. CASE run' = run
  BY <1>2 DEF SuccessIsBacked
<1>3. CASE run' = [run EXCEPT ![r] = fields]
  <2>1. run \in [Runs -> RunRecord]
    BY DEF TypeOK
  <2> QED
    BY <1>3, <2>1 DEF SuccessIsBacked
<1> QED
  BY <1>1, <1>2, <1>3

LEMMA RecordBacked ==
  ASSUME TypeOK, SuccessIsBacked, NEW r \in Runs, NEW x \in Results, Record(r, x),
         x = "failed" \/ r \in backed, UNCHANGED <<run, backed>>
  PROVE  SuccessIsBacked'
<1>1. ASSUME NEW q \in Runs, q # r \/ x = "failed"
      PROVE  entries'[q]["success"] = entries[q]["success"]
  BY <1>1 DEF Record, TypeOK, Results
<1> QED
  BY <1>1 DEF SuccessIsBacked

LEMMA PruneBacked ==
  ASSUME TypeOK, SuccessIsBacked, PruneRuns, UNCHANGED <<entries, backed>>
  PROVE  SuccessIsBacked'
<1>1. ASSUME NEW r \in Runs PROVE run'[r].phase \in {run[r].phase, "gone"}
  <2>1. run[r] \in RunRecord
    BY DEF TypeOK
  <2> QED
    BY <2>1 DEF PruneRuns, RunRecord
<1> QED
  BY <1>1 DEF SuccessIsBacked

LEMMA BackedInit == Init => BackedInv
BY DEF Init, BackedInv, JobsBacked, HandlerKnows, Succeeding, ReconcilerKnows, SuccessIsBacked,
       Absent, Results

\* on_run_create gets to Succeeding only from a Job it has seen complete.
LEMMA KnowsAfterStep ==
  ASSUME TypeOK, HandlerKnows, NEW r \in Runs, NEW from, NEW to, HandlerStep(r, from, to),
         to \in Succeeding => from \in Succeeding \/ r \in backed,
         backed' = backed
  PROVE  HandlerKnows'
BY DEF TypeOK, HandlerKnows, HandlerStep

LEMMA BackedHandler ==
  ASSUME TypeOK, BackedInv, NEW r \in Runs, OnRunCreate(r)
  PROVE  BackedInv'
<1>0. backed' = backed /\ ReconcilerKnows'
  <2>1. backed' = backed /\ c' = c
    BY DEF OnRunCreate, Enter, Reject, Check, FetchParent, Abort, MarkQueued, Acquire,
           SettlePatch, ResetLog, FirstLog, Prepare, NameJob, CreateJob, AwaitJob, Reap,
           CleanUp, Reread, Succeed, RecordResult, MarkFailed, PruneAndRelease, Return,
           HandlerStep, api
  <2> QED
    BY <2>1 DEF BackedInv, ReconcilerKnows
<1>1. JobsBacked'
  <2>1. CASE CreateJob(r)
    BY <2>1, <1>0 DEF BackedInv, JobsBacked, CreateJob
  <2>2. CASE Reap(r)
    BY <2>2, <1>0 DEF BackedInv, JobsBacked, Reap
  <2>3. CASE ~CreateJob(r) /\ ~Reap(r)
    <3>1. jobs' = jobs
      BY <2>3 DEF OnRunCreate, Enter, Reject, Check, FetchParent, Abort, MarkQueued, Acquire,
           SettlePatch, ResetLog, FirstLog, Prepare, NameJob, AwaitJob,
           CleanUp, Reread, Succeed, RecordResult, MarkFailed, PruneAndRelease, Return, api
    <3> QED
      BY <3>1, <1>0 DEF BackedInv, JobsBacked
  <2> QED
    BY <2>1, <2>2, <2>3
<1>2. HandlerKnows'
  <2> USE DEF Succeeding, BackedInv
  <2>1. CASE Enter(r) \/ Reject(r) \/ Check(r) \/ FetchParent(r) \/ Abort(r) \/ MarkQueued(r)
    BY <2>1, <1>0, KnowsAfterStep DEF Enter, Reject, Check, FetchParent, Abort, MarkQueued
  <2>2. CASE Acquire(r) \/ SettlePatch(r) \/ ResetLog(r) \/ FirstLog(r) \/ Prepare(r)
             \/ NameJob(r) \/ CreateJob(r)
    BY <2>2, <1>0, KnowsAfterStep DEF Acquire, SettlePatch, ResetLog, FirstLog, Prepare,
       NameJob, CreateJob
  <2>3. CASE AwaitJob(r)
    <3>1. Completed(r) => r \in backed
      BY DEF Completed, JobsNamed, JobsBacked
    <3> QED
      BY <2>3, <3>1, <1>0, KnowsAfterStep DEF AwaitJob
  <2>4. CASE Reap(r) \/ CleanUp(r) \/ Reread(r) \/ Succeed(r)
    BY <2>4, <1>0, KnowsAfterStep DEF Reap, CleanUp, Reread, Succeed
  <2>5. CASE RecordResult(r) \/ MarkFailed(r) \/ PruneAndRelease(r) \/ Return(r)
    BY <2>5, <1>0, KnowsAfterStep DEF RecordResult, MarkFailed, PruneAndRelease, Return
  <2> QED
    BY <2>1, <2>2, <2>3, <2>4, <2>5 DEF OnRunCreate
<1>3. SuccessIsBacked'
  <2> USE DEF BackedInv
  <2> DEFINE Fields(f) == f \in RunRecord /\ (f.phase # "Succeeded" \/ f.phase = run[r].phase)
  <2>1. /\ \A p \in Phases \ {"Succeeded"} : Fields([run[r] EXCEPT !.phase = p])
        /\ \A l \in BOOLEAN : Fields([run[r] EXCEPT !.log = l])
        /\ Fields([run[r] EXCEPT !.phase = "Queued", !.log = TRUE])
        /\ Fields([run[r] EXCEPT !.phase = "Running", !.job = attempt[r] + 1])
    <3>1. run[r] \in RunRecord /\ attempt[r] + 1 \in Nat
      BY DEF TypeOK
    <3>2. \A p \in Phases \ {"Succeeded"} : Fields([run[r] EXCEPT !.phase = p])
      BY <3>1, FieldsTyped DEF RunRecord
    <3>3. \A l \in BOOLEAN : Fields([run[r] EXCEPT !.log = l])
      BY <3>1, FieldsTyped DEF RunRecord
    <3>4. Fields([run[r] EXCEPT !.phase = "Queued", !.log = TRUE])
      <4>1. [run[r] EXCEPT !.phase = "Queued", !.log = TRUE].phase = "Queued"
        BY <3>1 DEF RunRecord
      <4>2. [run[r] EXCEPT !.phase = "Queued", !.log = TRUE] \in RunRecord
        BY FieldsTyped DEF Phases, Active
      <4> QED
        BY <4>1, <4>2
    <3>5. Fields([run[r] EXCEPT !.phase = "Running", !.job = attempt[r] + 1])
      <4>1. [run[r] EXCEPT !.phase = "Running", !.job = attempt[r] + 1].phase = "Running"
        BY <3>1 DEF RunRecord
      <4>2. [run[r] EXCEPT !.phase = "Running", !.job = attempt[r] + 1] \in RunRecord
        BY <3>1, FieldsTyped DEF Phases, Active
      <4> QED
        BY <4>1, <4>2
    <3> QED
      BY <3>2, <3>3, <3>4, <3>5
  <2>2. CASE Reject(r) \/ Abort(r) \/ MarkFailed(r)
    BY <2>2, <2>1, <1>0, PatchBacked DEF Reject, Abort, MarkFailed, Phases, Terminal
  <2>3. CASE MarkQueued(r) \/ SettlePatch(r) \/ NameJob(r)
    BY <2>3, <2>1, <1>0, PatchBacked DEF MarkQueued, SettlePatch, NameJob, Phases, Active
  <2>4. CASE ResetLog(r) \/ Prepare(r)
    BY <2>4, <2>1, <1>0, PatchBacked DEF ResetLog, Prepare
  <2>5. CASE FirstLog(r)
    <3>1. CASE PatchRun(r, [run[r] EXCEPT !.log = TRUE])
      BY <2>5, <3>1, <2>1, <1>0, PatchBacked DEF FirstLog
    <3>2. CASE UNCHANGED run
      BY <2>5, <3>2, <1>0 DEF FirstLog, SuccessIsBacked
    <3> QED
      BY <2>5, <3>1, <3>2 DEF FirstLog
  <2>6. CASE Succeed(r)
    <3>1. r \in backed
      BY <2>6 DEF Succeed, HandlerStep, HandlerKnows, Succeeding
    <3>2. [run[r] EXCEPT !.phase = "Succeeded", !.job = attempt[r]] \in RunRecord
      BY FieldsTyped DEF TypeOK, Phases, Terminal
    <3> QED
      BY <2>6, <3>1, <3>2, <1>0, PatchBacked DEF Succeed
  <2>7. CASE RecordResult(r)
    <3>1. h[r] = "recordOk" => r \in backed
      BY DEF HandlerKnows, Succeeding
    <3> QED
      BY <2>7, <3>1, <1>0, RecordBacked DEF RecordResult, HandlerStep, Results
  <2>8. CASE PruneAndRelease(r)
    BY <2>8, <1>0, PruneBacked DEF PruneAndRelease
  <2>9. CASE Enter(r) \/ Check(r) \/ FetchParent(r) \/ Acquire(r) \/ CreateJob(r) \/ AwaitJob(r)
             \/ Reap(r) \/ CleanUp(r) \/ Reread(r) \/ Return(r)
    <3>1. UNCHANGED <<run, entries>>
      BY <2>9 DEF Enter, Check, FetchParent, Acquire, CreateJob, AwaitJob, Reap, CleanUp, Reread,
                  Return, api
    <3> QED
      BY <3>1, <1>0 DEF SuccessIsBacked
  <2> QED
    BY <2>2, <2>3, <2>4, <2>5, <2>6, <2>7, <2>8, <2>9 DEF OnRunCreate
<1> QED
  BY <1>0, <1>1, <1>2, <1>3 DEF BackedInv

\* The reconciler finishes only a run whose Job it has seen complete.
LEMMA BackedReconciler ==
  ASSUME TypeOK, BackedInv, NEW r \in Runs, RunReconcileTimer(r)
  PROVE  BackedInv'
<1>0. backed' = backed /\ HandlerKnows'
  <2>1. backed' = backed /\ h' = h
    BY DEF RunReconcileTimer, Reconcile, Peek, ReadJob, Finish, Kill, KillJob,
           ReconcileParent, ReconcilePrune, ReconcilerStep
  <2> QED
    BY <2>1 DEF BackedInv, HandlerKnows
<1>1. JobsBacked'
  <2>1. jobs' \subseteq jobs
    BY DEF RunReconcileTimer, Reconcile, Peek, ReadJob, Finish, Kill, KillJob,
           ReconcileParent, ReconcilePrune
  <2> QED
    BY <2>1, <1>0 DEF BackedInv, JobsBacked
<1>2. ReconcilerKnows'
  <2>1. ASSUME NEW from, NEW to, ReconcilerStep(r, from, to),
               to \in {"finish", "finishParent"} => from = "finish" \/ r \in backed
        PROVE  ReconcilerKnows'
    BY <2>1, <1>0 DEF TypeOK, BackedInv, ReconcilerKnows, ReconcilerStep
  <2>2. CASE ReadJob(r)
    <3>1. (\E j \in SeenJob(r) : j.state = "complete") => r \in backed
      BY DEF BackedInv, JobsBacked, SeenJob, JobsNamed
    <3> QED
      BY <2>1, <2>2, <3>1 DEF ReadJob
  <2>3. CASE Reconcile(r) \/ Peek(r) \/ Finish(r) \/ Kill(r)
    BY <2>1, <2>3 DEF Reconcile, Peek, Finish, Kill
  <2>4. CASE KillJob(r) \/ ReconcileParent(r) \/ ReconcilePrune(r)
    BY <2>1, <2>4 DEF KillJob, ReconcileParent, ReconcilePrune
  <2> QED
    BY <2>2, <2>3, <2>4 DEF RunReconcileTimer
<1>3. SuccessIsBacked'
  <2> USE DEF BackedInv
  <2>1. c[r] \in {"finish", "finishParent"} => r \in backed
    BY DEF ReconcilerKnows
  <2>2. \A p \in Phases : [run[r] EXCEPT !.phase = p] \in RunRecord
                          /\ [run[r] EXCEPT !.phase = p].phase = p
    <3>1. run[r] \in RunRecord
      BY DEF TypeOK
    <3>2. \A p \in Phases : [run[r] EXCEPT !.phase = p].phase = p
      BY <3>1 DEF RunRecord
    <3> QED
      BY <3>2, FieldsTyped
  <2>3. CASE Finish(r)
    BY <2>3, <2>1, <2>2, <1>0, PatchBacked DEF Finish, ReconcilerStep, Phases, Terminal
  <2>4. CASE Kill(r)
    BY <2>4, <2>2, <1>0, PatchBacked DEF Kill, Phases, Terminal
  <2>5. CASE ReconcileParent(r)
    <3>1. CASE \E x \in Results : Record(r, x) /\ (x = "failed" \/ r \in backed)
      BY <2>5, <3>1, <1>0, RecordBacked DEF ReconcileParent
    <3>2. CASE UNCHANGED entries
      BY <2>5, <3>2, <1>0 DEF ReconcileParent, SuccessIsBacked
    <3> QED
      BY <2>1, <2>5, <3>1, <3>2 DEF ReconcileParent, ReconcilerStep, Results
  <2>6. CASE ReconcilePrune(r)
    BY <2>6, <1>0, PruneBacked DEF ReconcilePrune
  <2>7. CASE Reconcile(r) \/ Peek(r) \/ ReadJob(r) \/ KillJob(r)
    BY <2>7, <1>0 DEF Reconcile, Peek, ReadJob, KillJob, SuccessIsBacked
  <2> QED
    BY <2>3, <2>4, <2>5, <2>6, <2>7 DEF RunReconcileTimer
<1> QED
  BY <1>0, <1>1, <1>2, <1>3 DEF BackedInv

\* A new run is not a success; a Job that ends, expires, or an operator that
\* dies makes no run one.
LEMMA BackedOthers ==
  ASSUME TypeOK, BackedInv,
         \/ \E r \in Runs : Deliver(r) \/ GrowOld(r)
         \/ TimerLook \/ TimerList \/ TimerCreate \/ UiList \/ UiCreate \/ Backfill
         \/ JobEnds \/ JobExpires \/ Crash \/ UNCHANGED vars
  PROVE  BackedInv'
<1> USE DEF BackedInv, JobsBacked, HandlerKnows, Succeeding, ReconcilerKnows, SuccessIsBacked
<1>1. ASSUME NEW r \in Runs, Deliver(r) \/ GrowOld(r) PROVE BackedInv'
  BY <1>1 DEF Deliver, GrowOld, api
<1>2. CASE TimerLook \/ TimerList \/ UiList \/ UNCHANGED vars
  BY <1>2 DEF TimerLook, TimerList, UiList, vars, api
<1>3. CASE TimerCreate \/ UiCreate \/ Backfill
  <2>1. PICK r \in Runs, by \in {"schedule", "manual", "backfill"} : CreateRun(r, by)
    BY <1>3 DEF TimerCreate, UiCreate, Backfill
  <2>2. \A q \in Runs : run'[q].phase = "Succeeded" => run[q].phase = "Succeeded"
    BY <2>1 DEF CreateRun, TypeOK
  <2> QED
    BY <1>3, <2>2 DEF TimerCreate, UiCreate, Backfill
<1>4. CASE JobEnds
  <2>1. PICK j \in jobs, s \in {"complete", "failed"} :
          /\ jobs' = (jobs \ {j}) \union {[j EXCEPT !.state = s]}
          /\ backed' = IF s = "complete" THEN backed \union {j.run} ELSE backed
    BY <1>4 DEF JobEnds
  <2>2. [j EXCEPT !.state = s].run = j.run /\ [j EXCEPT !.state = s].state = s
    BY <2>1 DEF TypeOK, JobRecord
  <2>3. backed \subseteq backed'
    BY <2>1
  <2>4. JobsBacked'
    BY <2>1, <2>2, <2>3
  <2> QED
    BY <1>4, <2>3, <2>4 DEF JobEnds
<1>5. CASE JobExpires
  BY <1>5 DEF JobExpires
<1>6. CASE Crash
  BY <1>6 DEF Crash, api
<1> QED
  BY <1>1, <1>2, <1>3, <1>4, <1>5, <1>6

LEMMA BackedNext == TypeOK /\ BackedInv /\ [Next]_vars => BackedInv'
  BY BackedHandler, BackedReconciler, BackedOthers DEF Next

\* Across crashes, lost patches, kills, re-invocations and pruning, no run is
\* ever shown or recorded as a success unless one of its Jobs completed.
THEOREM SuccessBacked == Spec => []SuccessIsBacked
<1>1. Spec => []BackedInv
  BY BackedInit, BackedNext, TypeCorrect, PTL DEF Spec
<1>2. BackedInv => SuccessIsBacked
  BY DEF BackedInv
<1> QED
  BY <1>1, <1>2, PTL

-----------------------------------------------------------------------------
(* One live Job                                                            *)

IsActive(j) == j.state = "active"
Pre == {"fetch", "mark", "park", "settle", "reset", "first", "prep", "name", "create"}
Watching == {"wait", "reap", "reapFailed"}
Ending == {"finish", "finishParent", "kill", "killJob", "killParent", "prune"}

\* What a step of on_run_create does to the run, its Jobs and their names when
\* no call fails.  At most the run itself is patched, and stays what it is.
Patched(r) == /\ \A q \in Runs \ {r} : run'[q] = run[q]
              /\ run'[r].by = run[r].by
              /\ (run'[r].phase = "absent") = (run[r].phase = "absent")
              /\ Exists(r) => Exists(r)'
Moves(r, to) ==
  \/ /\ h[r] = "idle" /\ Exists(r) /\ r \notin handled
     /\ to \in {"done", "reject", "check"} /\ (to # "done" => run[r].by # "backfill")
     /\ UNCHANGED <<run, jobs, attempt, handled>>
  \/ /\ h[r] = "check" /\ (to = "done" \/ (to = "fetch" /\ ~LiveJob(r)))
     /\ UNCHANGED <<run, jobs, attempt, handled>>
  \/ /\ h[r] \in Pre \ {"create"} /\ to \in (Pre \ {"create"}) \union {"recordFail"}
     /\ Patched(r) /\ UNCHANGED <<jobs, attempt, handled>>
  \/ /\ h[r] = "name" /\ to = "create"
     /\ attempt' = [attempt EXCEPT ![r] = attempt[r] + 1]
     /\ Patched(r) /\ UNCHANGED <<jobs, handled>>
     /\ Exists(r) => run'[r].phase = "Running" /\ run'[r].job = attempt[r] + 1
  \/ /\ h[r] = "create" /\ to = "wait"
     /\ jobs' = jobs \union {[run |-> r, no |-> attempt[r], state |-> "active"]}
     /\ UNCHANGED <<run, attempt, handled>>
  \/ /\ h[r] = "wait" /\ to \in {"reap", "reapFailed"}
     /\ UNCHANGED <<run, jobs, attempt, handled>>
  \/ /\ h[r] \in {"reap", "reapFailed"} /\ to \in {"clean", "recordFail"}
     /\ jobs' = jobs \ JobsNamed(r, attempt[r]) /\ UNCHANGED <<run, attempt, handled>>
  \/ /\ h[r] \in {"reject", "abort", "clean", "reread", "succeed", "recordOk", "recordFail",
                 "markFailed"}
     /\ to \in {"reread", "succeed", "recordOk", "markFailed", "prune", "done"}
     /\ Patched(r) /\ UNCHANGED <<jobs, attempt, handled>>
  \/ /\ h[r] = "prune" /\ to = "done" /\ PruneRuns /\ UNCHANGED <<jobs, attempt, handled>>
  \/ /\ h[r] = "done" /\ to = "idle" /\ handled' = handled \union {r}
     /\ UNCHANGED <<run, jobs, attempt>>

LEMMA NoFaults ==
  ASSUME TypeOK, faults' = 0
  PROVE  ~Fault /\ (NoFault => faults = 0)
BY DEF TypeOK, Fault, NoFault

LEMMA PatchedRun ==
  ASSUME TypeOK, faults' = 0, NEW r \in Runs, NEW f \in RunRecord, PatchRun(r, f),
         f.by = run[r].by, f.phase \in {run[r].phase} \union Active \union Terminal
  PROVE  Patched(r) /\ (Exists(r) => run'[r] = f) /\ faults = 0
<1>1. /\ run \in [Runs -> RunRecord] /\ faults = 0
      /\ run' = IF Exists(r) THEN [run EXCEPT ![r] = f] ELSE run
  BY NoFaults DEF TypeOK, PatchRun
<1> QED
  BY <1>1 DEF Patched, Exists, Active, Terminal

LEMMA HandlerMove ==
  ASSUME TypeOK, faults' = 0, NEW r \in Runs, OnRunCreate(r)
  PROVE  \E to \in HandlerPc : /\ h' = [h EXCEPT ![r] = to] /\ Moves(r, to)
                               /\ UNCHANGED <<c, cache, t, u, old, crashes>> /\ faults = 0
<1> DEFINE Step(to) == /\ h' = [h EXCEPT ![r] = to] /\ Moves(r, to)
                       /\ UNCHANGED <<c, cache, t, u, old, crashes>> /\ faults = 0
<1> USE DEF HandlerStep, HandlerPc, Guarding, Pre
<1>0. /\ run[r] \in RunRecord /\ attempt[r] \in Nat /\ attempt[r] + 1 \in Nat
      /\ ~Fault /\ (NoFault => faults = 0)
  BY NoFaults DEF TypeOK
<1>f. /\ [run[r] EXCEPT !.phase = "Failed"] \in RunRecord
      /\ [run[r] EXCEPT !.phase = "Queued"] \in RunRecord
      /\ [run[r] EXCEPT !.phase = "Queued", !.log = TRUE] \in RunRecord
      /\ [run[r] EXCEPT !.log = TRUE] \in RunRecord /\ [run[r] EXCEPT !.log = FALSE] \in RunRecord
      /\ [run[r] EXCEPT !.phase = "Running", !.job = attempt[r] + 1] \in RunRecord
      /\ [run[r] EXCEPT !.phase = "Succeeded", !.job = attempt[r]] \in RunRecord
  BY <1>0, FieldsTyped DEF Phases, Active, Terminal
<1>p. ASSUME UNCHANGED run PROVE Patched(r)
  BY <1>p DEF Patched, Exists
<1>1. CASE Enter(r)
  <2>1. \E to \in {"done", "reject", "check"} :
          h[r] = "idle" /\ h' = [h EXCEPT ![r] = to] /\ (to # "done" => run[r].by # "backfill")
    BY <1>1 DEF Enter
  <2> QED
    BY <1>1, <2>1 DEF Enter, Moves, api
<1>2. CASE Reject(r) \/ Abort(r)
  <2>1. Patched(r)
    BY <1>0, <1>2, <1>f, PatchedRun DEF Reject, Abort, RunRecord, Terminal
  <2>2. Step("done")
    BY <1>0, <1>2, <2>1 DEF Reject, Abort, Moves, PatchRun
  <2> QED
    BY <2>2
<1>3. CASE Check(r)
  <2>1. /\ h[r] = "check" /\ faults = 0 /\ UNCHANGED <<c, cache, t, u, old, crashes>>
        /\ UNCHANGED <<run, jobs, attempt, handled>>
        /\ \/ h' = [h EXCEPT ![r] = "done"]
           \/ h' = [h EXCEPT ![r] = "fetch"] /\ ~LiveJob(r)
    BY <1>0, <1>3 DEF Check, api
  <2>2. CASE h' = [h EXCEPT ![r] = "done"]
    <3>1. Moves(r, "done")
      BY <2>1 DEF Moves
    <3> QED
      BY <2>1, <2>2, <3>1
  <2>3. CASE h' = [h EXCEPT ![r] = "fetch"] /\ ~LiveJob(r)
    <3>1. Moves(r, "fetch")
      BY <2>1, <2>3 DEF Moves
    <3> QED
      BY <2>1, <2>3, <3>1
  <2> QED
    BY <2>1, <2>2, <2>3
<1>4. CASE FetchParent(r)
  BY <1>0, <1>4, <1>p DEF FetchParent, Moves, api
<1>5. CASE MarkQueued(r) \/ SettlePatch(r) \/ ResetLog(r)
  <2>1. Patched(r)
    BY <1>0, <1>5, <1>f, PatchedRun DEF MarkQueued, SettlePatch, ResetLog, RunRecord, Active
  <2>2. CASE MarkQueued(r)
    <3>1. Step("park")
      BY <1>0, <2>1, <2>2 DEF MarkQueued, Moves, PatchRun
    <3> QED
      BY <3>1
  <2>3. CASE SettlePatch(r)
    <3>1. Step("reset")
      BY <1>0, <2>1, <2>3 DEF SettlePatch, Moves, PatchRun
    <3> QED
      BY <3>1
  <2>4. CASE ResetLog(r)
    <3>1. Step("first")
      BY <1>0, <2>1, <2>4 DEF ResetLog, Moves, PatchRun
    <3> QED
      BY <3>1
  <2> QED
    BY <1>5, <2>2, <2>3, <2>4
<1>6. CASE Acquire(r)
  <2>1. \E to \in {"settle", "reset"} : h[r] = "park" /\ h' = [h EXCEPT ![r] = to]
    BY <1>6 DEF Acquire
  <2> QED
    BY <1>0, <1>6, <1>p, <2>1 DEF Acquire, Moves, api, TypeOK
<1>7. CASE FirstLog(r) \/ Prepare(r)
  <2>1. Patched(r)
    BY <1>0, <1>7, <1>f, PatchedRun DEF FirstLog, Prepare, RunRecord
  <2>2. CASE FirstLog(r)
    <3>1. Step("prep")
      BY <1>0, <2>1, <2>2 DEF FirstLog, Moves, PatchRun
    <3> QED
      BY <3>1
  <2>3. CASE Prepare(r)
    <3>1. Step("name") \/ Step("recordFail")
      BY <1>0, <2>1, <2>3 DEF Prepare, Moves, PatchRun
    <3> QED
      BY <3>1
  <2> QED
    BY <1>7, <2>2, <2>3
<1>8. CASE NameJob(r)
  <2>1. /\ Patched(r) /\ faults = 0
        /\ Exists(r) => run'[r] = [run[r] EXCEPT !.phase = "Running", !.job = attempt[r] + 1]
    BY <1>0, <1>8, <1>f, PatchedRun DEF NameJob, RunRecord, Active
  <2>2. Step("create")
    BY <1>0, <1>8, <2>1 DEF NameJob, Moves, RunRecord
  <2> QED
    BY <2>2
<1>9. CASE CreateJob(r)
  <2>1. Step("wait")
    BY <1>0, <1>9 DEF CreateJob, Moves
  <2> QED
    BY <2>1
<1>10. CASE AwaitJob(r)
  <2>1. Step("reap") \/ Step("reapFailed")
    BY <1>0, <1>10 DEF AwaitJob, Moves, api
  <2> QED
    BY <2>1
<1>11. CASE Reap(r)
  <2>1. Step("clean") \/ Step("recordFail")
    BY <1>0, <1>11 DEF Reap, Moves
  <2> QED
    BY <2>1
<1>12. CASE CleanUp(r) \/ Reread(r)
  <2>1. Step("reread") \/ Step("done") \/ Step("succeed")
    BY <1>0, <1>12, <1>p DEF CleanUp, Reread, Moves, api
  <2> QED
    BY <2>1
<1>13. CASE Succeed(r) \/ MarkFailed(r)
  <2>1. Patched(r)
    BY <1>0, <1>13, <1>f, PatchedRun DEF Succeed, MarkFailed, RunRecord, Terminal
  <2>2. Step("recordOk") \/ Step("prune")
    BY <1>0, <1>13, <2>1 DEF Succeed, MarkFailed, Moves, PatchRun
  <2> QED
    BY <2>2
<1>14. CASE RecordResult(r)
  <2>1. Step("prune") \/ Step("markFailed")
    BY <1>0, <1>14, <1>p DEF RecordResult, Record, Moves
  <2> QED
    BY <2>1
<1>15. CASE PruneAndRelease(r)
  <2>1. faults = 0
    BY <1>0, <1>15 DEF PruneAndRelease, PruneRuns
  <2>2. Step("done")
    BY <1>15, <2>1 DEF PruneAndRelease, Moves
  <2> QED
    BY <2>2
<1>16. CASE Return(r)
  <2>1. Step("idle")
    BY <1>16 DEF Return, Moves, api
  <2> QED
    BY <2>1
<1> QED
  BY <1>1, <1>2, <1>3, <1>4, <1>5, <1>6, <1>7, <1>8, <1>9, <1>10, <1>11, <1>12, <1>13, <1>14,
     <1>15, <1>16 DEF OnRunCreate

\* The same of run_reconcile_timer: it ends a run for its age or for a Job of the
\* run that has ended.
ReconcilerMoves(r, to) ==
  \/ /\ c[r] \in {"idle", "peek", "readJob"} /\ to \in {"idle", "peek", "readJob"}
     /\ UNCHANGED <<run, jobs>>
  \/ c[r] \in {"peek", "readJob"} /\ to = "kill" /\ r \in old /\ UNCHANGED <<run, jobs>>
  \/ /\ c[r] = "readJob" /\ to \in {"finish", "kill"}
     /\ (\E j \in SeenJob(r) : ~IsActive(j)) /\ UNCHANGED <<run, jobs>>
  \/ /\ c[r] \in {"finish", "kill"} /\ to \in {"finishParent", "killJob"}
     /\ Patched(r) /\ UNCHANGED jobs
  \/ /\ c[r] = "killJob" /\ to = "killParent" /\ jobs' \subseteq jobs /\ UNCHANGED run
  \/ c[r] \in {"finishParent", "killParent"} /\ to = "prune" /\ UNCHANGED <<run, jobs>>
  \/ c[r] = "prune" /\ to = "idle" /\ PruneRuns /\ UNCHANGED jobs

LEMMA ReconcilerMove ==
  ASSUME TypeOK, faults' = 0, NEW r \in Runs, RunReconcileTimer(r)
  PROVE  \E to \in ReconcilerPc :
           /\ c' = [c EXCEPT ![r] = to] /\ ReconcilerMoves(r, to)
           /\ UNCHANGED <<h, attempt, handled, cache, t, u, old, crashes>> /\ faults = 0
<1> DEFINE Step(to) == /\ c' = [c EXCEPT ![r] = to] /\ ReconcilerMoves(r, to)
                       /\ UNCHANGED <<h, attempt, handled, cache, t, u, old, crashes>>
                       /\ faults = 0
<1> USE DEF ReconcilerStep, ReconcilerPc
<1>0. run[r] \in RunRecord /\ ~Fault /\ (NoFault => faults = 0)
  BY NoFaults DEF TypeOK
<1>1. CASE Reconcile(r)
  <2>1. Step("peek") \/ Step("readJob")
    BY <1>1 DEF Reconcile, ReconcilerMoves
  <2> QED
    BY <2>1
<1>2. CASE Peek(r)
  <2>1. Step("idle") \/ Step("kill")
    BY <1>0, <1>2 DEF Peek, ReconcilerMoves
  <2> QED
    BY <2>1
<1>3. CASE ReadJob(r)
  <2>1. Step("finish") \/ Step("kill") \/ Step("idle")
    BY <1>0, <1>3 DEF ReadJob, ReconcilerMoves, IsActive
  <2> QED
    BY <2>1
<1>4. CASE Finish(r) \/ Kill(r)
  <2>1. /\ [run[r] EXCEPT !.phase = "Succeeded"] \in RunRecord
        /\ [run[r] EXCEPT !.phase = "Failed"] \in RunRecord
    BY FieldsTyped DEF Phases, Terminal
  <2>2. Patched(r)
    BY <1>0, <1>4, <2>1, PatchedRun DEF Finish, Kill, RunRecord, Terminal
  <2>3. Step("finishParent") \/ Step("killJob")
    BY <1>0, <1>4, <2>2 DEF Finish, Kill, PatchRun, ReconcilerMoves
  <2> QED
    BY <2>3
<1>5. CASE KillJob(r)
  <2>1. Step("killParent")
    BY <1>0, <1>5 DEF KillJob, ReconcilerMoves
  <2> QED
    BY <2>1
<1>6. CASE ReconcileParent(r)
  <2>1. Step("prune")
    BY <1>0, <1>6 DEF ReconcileParent, Record, ReconcilerMoves
  <2> QED
    BY <2>1
<1>7. CASE ReconcilePrune(r)
  <2>1. Step("idle")
    BY <1>0, <1>7 DEF ReconcilePrune, PruneRuns, ReconcilerMoves
  <2> QED
    BY <2>1
<1> QED
  BY <1>1, <1>2, <1>3, <1>4, <1>5, <1>6, <1>7 DEF RunReconcileTimer

LEMMA PruneMoves ==
  ASSUME TypeOK, PruneRuns, NEW q \in Runs
  PROVE  \/ run'[q] = run[q]
         \/ Exists(q) /\ run'[q].phase = "gone" /\ run'[q].by = run[q].by
<1>1. run[q] \in RunRecord /\ (q \in Outdated => Exists(q))
  BY DEF TypeOK, Outdated
<1> QED
  BY <1>1 DEF PruneRuns, RunRecord

LEMMA Onward ==
  ASSUME TypeOK, [Next]_vars, faults' = 0, NEW q \in Runs, Executed(q)
  PROVE  Executed(q)'
<1>0. run[q] \in RunRecord
  BY DEF TypeOK
<1>1. ASSUME NEW r \in Runs, Patched(r) PROVE Executed(q)'
  BY <1>1 DEF Patched, Executed
<1>2. ASSUME PruneRuns PROVE Executed(q)'
  BY <1>2, PruneMoves DEF Executed
<1>3. ASSUME UNCHANGED run PROVE Executed(q)'
  BY <1>3 DEF Executed
<1>4. ASSUME NEW r \in Runs, NEW by, CreateRun(r, by) PROVE Executed(q)'
  BY <1>4 DEF CreateRun, NextRun, Executed, TypeOK
<1>5. ASSUME NEW r \in Runs, OnRunCreate(r) PROVE Executed(q)'
  BY <1>1, <1>2, <1>3, <1>5, HandlerMove DEF Moves
<1>6. ASSUME NEW r \in Runs, RunReconcileTimer(r) PROVE Executed(q)'
  BY <1>1, <1>2, <1>3, <1>6, ReconcilerMove DEF ReconcilerMoves
<1>7. CASE TimerCreate \/ UiCreate \/ Backfill
  BY <1>4, <1>7 DEF TimerCreate, UiCreate, Backfill
<1>8. CASE TimerLook \/ TimerList \/ UiList \/ JobEnds \/ JobExpires \/ Crash \/ UNCHANGED vars
  BY <1>3, <1>8 DEF TimerLook, TimerList, UiList, JobEnds, JobExpires, Crash, vars, api
<1>9. ASSUME NEW r \in Runs, Deliver(r) \/ GrowOld(r) PROVE Executed(q)'
  BY <1>3, <1>9 DEF Deliver, GrowOld, api
<1> QED
  BY <1>5, <1>6, <1>7, <1>8, <1>9 DEF Next

\* A Job's name is given once, and to an execution of its run.
Names ==
  /\ \A j \in jobs : /\ j.no <= attempt[j.run] /\ Executed(j.run)
                     /\ h[j.run] = "create" => j.no < attempt[j.run]
  /\ \A j, k \in jobs : j.run = k.run /\ j.no = k.no => j = k
  /\ \A r \in Runs : h[r] \notin {"idle", "done"} => Executed(r)

\* Until the operator crashes an active Job is that of an on_run_create that
\* waits for it or is about to delete it.
Watched ==
  crashes = 0 =>
    \A j \in jobs : IsActive(j) => h[j.run] \in Watching /\ j.no = attempt[j.run]
JobsInv == faults = 0 => Names /\ Watched

\* Jobs go, and end; none is created and no handler moves.
LEMMA JobsDwindle ==
  ASSUME TypeOK, [Next]_vars, faults' = 0, Names, Watched, crashes' >= crashes,
         UNCHANGED attempt, h' = h \/ (crashes' # 0 /\ \A r \in Runs : h'[r] = "idle"),
         \A j \in jobs' : \E k \in jobs :
             j.run = k.run /\ j.no = k.no /\ (IsActive(j) => j = k)
                       /\ (\A i \in jobs' : i.run = k.run /\ i.no = k.no => i = j)
  PROVE  Names' /\ Watched'
<1>0. jobs \subseteq JobRecord /\ crashes \in Nat /\ attempt \in [Runs -> Nat]
  BY DEF TypeOK
<1>1. Names'
  BY <1>0, Onward DEF Names, JobRecord
<1>2. Watched'
  BY <1>0 DEF Watched, IsActive
<1> QED
  BY <1>1, <1>2

LEMMA HandlerJobs ==
  ASSUME TypeOK, JobsInv, faults' = 0, NEW r \in Runs, OnRunCreate(r)
  PROVE  Names' /\ Watched'
<1>1. PICK to \in HandlerPc : /\ h' = [h EXCEPT ![r] = to] /\ Moves(r, to)
                              /\ UNCHANGED <<c, cache, t, u, old, crashes>> /\ faults = 0
  BY HandlerMove
<1>2. /\ Names /\ Watched /\ jobs \subseteq JobRecord /\ attempt \in [Runs -> Nat]
      /\ h \in [Runs -> HandlerPc] /\ run[r] \in RunRecord
  BY <1>1 DEF JobsInv, TypeOK
<1>3. \A q \in Runs : Executed(q) => Executed(q)'
  BY Onward DEF Next
<1>4. to \notin {"idle", "done"} => Executed(r)'
  <2>1. CASE h[r] \notin {"idle", "done"}
    BY <1>2, <1>3, <2>1 DEF Names
  <2>2. CASE h[r] = "idle"
    <3>1. to # "done" => Exists(r) /\ run[r].by # "backfill" /\ UNCHANGED run
      BY <1>1, <2>2 DEF Moves, Pre
    <3> QED
      BY <3>1 DEF Exists, Executed
  <2>3. CASE h[r] = "done"
    BY <1>1, <2>3 DEF Moves, Pre
  <2> QED
    BY <2>1, <2>2, <2>3
<1>5. \A q \in Runs : h'[q] \notin {"idle", "done"} => Executed(q)'
  BY <1>1, <1>2, <1>3, <1>4 DEF Names
<1>6. CASE jobs' \subseteq jobs /\ UNCHANGED attempt /\ to # "create"
  <2>1. Names'
    BY <1>1, <1>2, <1>3, <1>5, <1>6 DEF Names, JobRecord
  <2>2. ASSUME NEW j \in jobs', IsActive(j), crashes = 0, j.run = r PROVE to \in Watching
    <3>1. h[r] \in Watching /\ j.no = attempt[r] /\ j \in jobs
      BY <1>2, <1>6, <2>2 DEF Watched
    <3>2. h[r] = "wait"
      BY <1>1, <3>1, <2>2 DEF Moves, JobsNamed, Watching, Pre
    <3> QED
      BY <1>1, <3>2 DEF Moves, Pre, Watching
  <2>3. Watched'
    BY <1>1, <1>2, <1>6, <2>2 DEF Watched, JobRecord
  <2> QED
    BY <2>1, <2>3
<1>7. CASE h[r] = "name" /\ to = "create" /\ attempt' = [attempt EXCEPT ![r] = attempt[r] + 1]
           /\ UNCHANGED jobs
  <2>1. ASSUME NEW j \in jobs
        PROVE  /\ j.no <= attempt'[j.run] /\ Executed(j.run)'
               /\ h'[j.run] = "create" => j.no < attempt'[j.run]
    <3>1. j.no \in Nat /\ j.run \in Runs /\ j.no <= attempt[j.run] /\ Executed(j.run)
      BY <1>2 DEF Names, JobRecord
    <3>2. attempt[j.run] \in Nat /\ (h[j.run] = "create" => j.no < attempt[j.run])
      BY <1>2, <3>1 DEF Names
    <3>3. CASE j.run = r
      BY <1>2, <1>3, <1>7, <3>1, <3>2, <3>3
    <3>4. CASE j.run # r
      BY <1>1, <1>2, <1>3, <1>7, <3>1, <3>2, <3>4
    <3> QED
      BY <3>3, <3>4
  <2>2. Names'
    BY <1>2, <1>5, <1>7, <2>1 DEF Names
  <2>3. Watched'
    BY <1>1, <1>2, <1>7 DEF Watched, Watching, JobRecord
  <2> QED
    BY <2>2, <2>3
<1>8. CASE /\ h[r] = "create" /\ to = "wait" /\ UNCHANGED attempt
           /\ jobs' = jobs \union {[run |-> r, no |-> attempt[r], state |-> "active"]}
  <2> DEFINE new == [run |-> r, no |-> attempt[r], state |-> "active"]
  <2>1. new.run = r /\ new.no = attempt[r] /\ attempt[r] \in Nat /\ h'[r] = "wait"
    BY <1>1, <1>2, <1>8
  <2>2. ASSUME NEW j \in jobs PROVE ~(j.run = r /\ j.no = attempt[r])
    BY <1>2, <1>8 DEF Names, JobRecord
  <2>3. \A j \in jobs' : j \in jobs \/ j = new
    BY <1>8
  <2> HIDE DEF new
  <2>4. ASSUME NEW j \in jobs'
        PROVE  /\ j.no <= attempt'[j.run] /\ Executed(j.run)'
               /\ h'[j.run] = "create" => j.no < attempt'[j.run]
    <3>1. CASE j \in jobs
      BY <1>1, <1>2, <1>3, <1>8, <3>1 DEF Names, JobRecord
    <3>2. CASE j = new
      BY <1>4, <1>8, <2>1, <3>2
    <3> QED
      BY <2>3, <3>1, <3>2
  <2>5. \A j, k \in jobs' : j.run = k.run /\ j.no = k.no => j = k
    BY <1>2, <2>1, <2>2, <2>3 DEF Names
  <2>6. Names'
    BY <1>5, <2>4, <2>5 DEF Names
  <2>7. ASSUME NEW j \in jobs', IsActive(j), crashes = 0
        PROVE  h'[j.run] \in Watching /\ j.no = attempt'[j.run]
    <3>1. CASE j \in jobs
      <4>1. h[j.run] \in Watching /\ j.no = attempt[j.run] /\ j.run \in Runs
        BY <1>2, <2>7, <3>1 DEF Watched, JobRecord
      <4> QED
        BY <1>1, <1>2, <1>8, <4>1 DEF Watching
    <3>2. CASE j = new
      BY <1>8, <2>1, <3>2 DEF Watching
    <3> QED
      BY <2>3, <3>1, <3>2
  <2>8. Watched'
    BY <1>1, <2>7 DEF Watched
  <2> QED
    BY <2>6, <2>8
<1> QED
  <2>1. h[r] # "name" \/ to # "create" => to # "create"
    BY <1>1 DEF Moves, Pre
  <2> QED
    BY <1>1, <1>6, <1>7, <1>8, <2>1 DEF Moves

\* The Job controller ends an active Job, which keeps its name.
LEMMA JobEnded ==
  ASSUME TypeOK, JobEnds
  PROVE  \E k \in jobs, i \in JobRecord :
           /\ IsActive(k) /\ ~IsActive(i) /\ i.run = k.run /\ i.no = k.no
           /\ jobs' = (jobs \ {k}) \union {i}
<1>1. PICK k \in {i \in jobs : i.state = "active"}, s \in {"complete", "failed"} :
        jobs' = (jobs \ {k}) \union {[k EXCEPT !.state = s]}
  BY DEF JobEnds
<1>2. k \in JobRecord /\ k.state = "active" /\ k \in jobs
  BY DEF TypeOK
<1> DEFINE i == [k EXCEPT !.state = s]
<1>3. i \in JobRecord /\ i.run = k.run /\ i.no = k.no /\ i.state = s
  BY <1>2 DEF JobRecord
<1>4. jobs' = (jobs \ {k}) \union {i}
  BY <1>1
<1> HIDE DEF i
<1>5. ~IsActive(i) /\ IsActive(k)
  BY <1>2, <1>3 DEF IsActive
<1> QED
  BY <1>2, <1>3, <1>4, <1>5

LEMMA JobsNext == TypeOK /\ JobsInv /\ [Next]_vars => JobsInv'
<1> SUFFICES ASSUME TypeOK, JobsInv, [Next]_vars, faults' = 0 PROVE Names' /\ Watched'
  BY DEF JobsInv
<1>0. ~Fault /\ (NoFault => faults = 0) /\ jobs \subseteq JobRecord /\ crashes \in Nat
  BY NoFaults DEF TypeOK
<1>1. ASSUME NEW r \in Runs, OnRunCreate(r) PROVE Names' /\ Watched'
  BY <1>1, HandlerJobs
<1>2. ASSUME faults = 0, crashes' >= crashes, UNCHANGED attempt, jobs' \subseteq jobs,
             h' = h \/ (crashes' # 0 /\ \A r \in Runs : h'[r] = "idle")
      PROVE  Names' /\ Watched'
  <2>1. Names /\ Watched
    BY <1>2 DEF JobsInv
  <2>2. ASSUME NEW j \in jobs'
        PROVE  \E k \in jobs : /\ j.run = k.run /\ j.no = k.no /\ (IsActive(j) => j = k)
                               /\ \A i \in jobs' : i.run = k.run /\ i.no = k.no => i = j
    BY <1>2, <2>1 DEF Names
  <2> QED
    BY <1>2, <2>1, <2>2, JobsDwindle
<1>3. ASSUME NEW r \in Runs, RunReconcileTimer(r) PROVE Names' /\ Watched'
  <2>1. PICK to \in ReconcilerPc :
          /\ c' = [c EXCEPT ![r] = to] /\ ReconcilerMoves(r, to)
          /\ UNCHANGED <<h, attempt, handled, cache, t, u, old, crashes>> /\ faults = 0
    BY <1>3, ReconcilerMove
  <2>2. jobs' \subseteq jobs
    BY <2>1 DEF ReconcilerMoves
  <2> QED
    BY <1>0, <1>2, <2>1, <2>2
<1>4. ASSUME NEW r \in Runs, Deliver(r) \/ GrowOld(r) PROVE Names' /\ Watched'
  BY <1>0, <1>2, <1>4 DEF Deliver, GrowOld, api
<1>5. CASE TimerLook \/ TimerList \/ TimerCreate \/ UiList \/ UiCreate \/ Backfill
  BY <1>0, <1>2, <1>5 DEF TimerLook, TimerList, TimerCreate, UiList, UiCreate, Backfill, api
<1>6. CASE JobEnds
  <2>1. PICK k \in jobs, i \in JobRecord :
          /\ IsActive(k) /\ ~IsActive(i) /\ i.run = k.run /\ i.no = k.no
          /\ jobs' = (jobs \ {k}) \union {i}
    BY <1>6, JobEnded
  <2>2. /\ faults = 0 /\ crashes' >= crashes /\ UNCHANGED <<attempt, h>>
    BY <1>0, <1>6 DEF JobEnds
  <2>3. Names /\ Watched
    BY <2>2 DEF JobsInv
  <2>4. ASSUME NEW j \in jobs'
        PROVE  \E m \in jobs : /\ j.run = m.run /\ j.no = m.no /\ (IsActive(j) => j = m)
                               /\ \A n \in jobs' : n.run = m.run /\ n.no = m.no => n = j
    BY <2>1, <2>3 DEF Names
  <2> QED
    BY <2>2, <2>3, <2>4, JobsDwindle
<1>7. CASE JobExpires \/ UNCHANGED vars
  BY <1>0, <1>2, <1>7 DEF JobExpires, vars
<1>8. CASE Crash
  BY <1>0, <1>2, <1>8 DEF Crash, api
<1> QED
  BY <1>1, <1>3, <1>4, <1>5, <1>6, <1>7, <1>8 DEF Next

LEMMA JobsInit == Init => JobsInv
BY DEF Init, JobsInv, Names, Watched

LEMMA Jobs == Spec => [](TypeOK /\ JobsInv)
<1>1. Init => TypeOK /\ JobsInv
  BY TypeInit, JobsInit
<1>2. TypeOK /\ JobsInv /\ [Next]_vars => (TypeOK /\ JobsInv)'
  BY TypeNext, JobsNext
<1> QED
  BY <1>1, <1>2, PTL DEF Spec

\* One active Job at the most is what OneLiveJob says.
LEMMA OneActive ==
  ASSUME TypeOK, \A j, k \in jobs : IsActive(j) /\ IsActive(k) => j = k
  PROVE  OneLiveJob
<1> DEFINE A == {j \in jobs : j.state = "active"}
<1>1. A = {} \/ \E j \in jobs : A = {j}
  BY DEF IsActive
<1>2. Cardinality(A) <= 1
  BY <1>1, FS_EmptySet, FS_Singleton
<1> QED
  BY <1>2 DEF OneLiveJob

\* While the operator lives and no call fails, an active Job belongs to the one
\* execution of its backup: where executions do not overlap, Jobs do not.
THEOREM OneJobPerExecution ==
  Spec => [](crashes = 0 /\ faults = 0 /\ OneExecution => OneLiveJob)
<1>1. ASSUME TypeOK, JobsInv, crashes = 0, faults = 0, OneExecution PROVE OneLiveJob
  <2>1. Names /\ Watched /\ jobs \subseteq JobRecord
    BY <1>1 DEF JobsInv, TypeOK
  <2>2. ASSUME NEW j \in jobs, NEW k \in jobs, IsActive(j), IsActive(k) PROVE j = k
    <3>1. /\ h[j.run] \in Watching /\ j.no = attempt[j.run] /\ j.run \in Runs
          /\ h[k.run] \in Watching /\ k.no = attempt[k.run] /\ k.run \in Runs
      BY <1>1, <2>1, <2>2 DEF Watched, JobRecord
    <3>2. j.run = k.run
      BY <1>1, <3>1 DEF OneExecution, Watching, Guarding
    <3> QED
      BY <2>1, <3>1, <3>2 DEF Names
  <2> QED
    BY <1>1, <2>2, OneActive
<1> QED
  BY <1>1, Jobs, PTL

-----------------------------------------------------------------------------
(* One live Job through a crash                                            *)

\* At most one run is ever executed; any number of others may be backfilled.
Lone == \A r, q \in Runs : Executed(r) /\ Executed(q) => r = q

\* on_run_create is past the point from which it could create a Job.
Past(r) == h[r] \notin Pre \union {"check"} /\ (h[r] = "idle" => r \in handled)

\* The run says what _run_has_live_job needs in order to find the Job.
Shown(j) == run[j.run].phase = "Running" /\ run[j.run].job = j.no
Idles(r) == \A j \in jobs : j.run = r => ~IsActive(j)
Sole(r) == \A j, k \in jobs : j.run = r /\ k.run = r /\ IsActive(j) /\ IsActive(k) => j = k

\* Before the crash: one Job per run, shown by it, and the reconciler ends the
\* run only after the Job.
First(r) ==
  /\ \A j \in jobs : j.run = r => Past(r) /\ j.no = attempt[r]
  /\ c[r] \in Ending => Past(r) /\ Idles(r)
  /\ \A j \in jobs : j.run = r /\ IsActive(j) => Shown(j)
  /\ h[r] = "create" => run[r].phase = "Running" /\ run[r].job = attempt[r]
  /\ h[r] \in Pre \union {"check"} => Exists(r)

\* After it: while the handler may be invoked again an active Job is shown by
\* the run, to it and to the reconciler; once it has found none there is none.
Second(r) ==
  /\ Again(r) => /\ \A j \in jobs : j.run = r /\ IsActive(j) => Shown(j) /\ cache[r].job = j.no
                 /\ c[r] \in Ending => Idles(r)
  /\ h[r] \in Pre => Idles(r)

Quiet == Lone /\ crashes <= 1 /\ faults = 0 /\ old = {}
Careful(r) == Sole(r) /\ (crashes = 0 => First(r)) /\ (crashes = 1 => Second(r))
LoneInv == Quiet => \A r \in Runs : (c[r] \in Ending => Executed(r)) /\ Careful(r)

\* Nothing that has happened is undone.
LEMMA Calm ==
  ASSUME TypeOK, [Next]_vars, Quiet'
  PROVE  Quiet /\ (crashes' = crashes \/ Crash)
<1>0. ~Fault /\ (NoFault => faults = 0) /\ crashes \in Nat /\ old \subseteq Runs
  BY NoFaults DEF TypeOK, Quiet
<1>1. Lone
  BY <1>0, Onward DEF Lone, Quiet
<1>2. ASSUME NEW r \in Runs, OnRunCreate(r) PROVE faults = 0 /\ UNCHANGED <<old, crashes>>
  BY <1>2, HandlerMove DEF Quiet
<1>3. ASSUME NEW r \in Runs, RunReconcileTimer(r) PROVE faults = 0 /\ UNCHANGED <<old, crashes>>
  BY <1>3, ReconcilerMove DEF Quiet
<1>4. ASSUME NEW r \in Runs, Deliver(r) \/ GrowOld(r)
      PROVE  faults = 0 /\ UNCHANGED crashes /\ old \subseteq old'
  BY <1>4 DEF Deliver, GrowOld, Quiet
<1>5. ASSUME \/ TimerLook \/ TimerList \/ TimerCreate \/ UiList \/ UiCreate \/ Backfill
             \/ JobEnds \/ JobExpires \/ UNCHANGED vars
      PROVE  faults = 0 /\ UNCHANGED <<old, crashes>>
  BY <1>0, <1>5 DEF TimerLook, TimerList, TimerCreate, UiList, UiCreate, Backfill, JobEnds,
                    JobExpires, vars, Quiet
<1>6. ASSUME Crash PROVE faults = 0 /\ UNCHANGED old
  BY <1>6 DEF Crash, Quiet
<1>7. faults = 0 /\ old \subseteq old' /\ (crashes' = crashes \/ Crash)
  BY <1>2, <1>3, <1>4, <1>5, <1>6 DEF Next, Crash, Quiet
<1>8. crashes <= 1
  BY <1>0, <1>7 DEF Crash, Quiet
<1> QED
  BY <1>1, <1>7, <1>8 DEF Quiet

\* A run that is not executed has no Job, no execution and no end.
LEMMA Idly ==
  ASSUME TypeOK, Names, NEW r \in Runs, ~Executed(r)
  PROVE  h[r] \in {"idle", "done"} /\ \A j \in jobs : j.run # r
BY DEF Names

LEMMA OthersCareful ==
  ASSUME TypeOK', Names', NEW r \in Runs, ~Executed(r)', c'[r] \notin Ending
  PROVE  Careful(r)'
<1>1. h'[r] \in {"idle", "done"} /\ \A j \in jobs' : j.run # r
  BY DEF Names
<1> QED
  BY <1>1 DEF Careful, Sole, First, Second, Pre

\* What leaves the run alone, or ends one of its Jobs.
LEMMA SameCareful ==
  ASSUME TypeOK, Names, NEW r \in Runs, Careful(r), UNCHANGED crashes,
         run'[r] = run[r], attempt'[r] = attempt[r], c'[r] = c[r],
         h'[r] = h[r], (r \in handled') = (r \in handled), cache'[r] \in {cache[r], run[r]},
         \A j \in jobs' : j.run = r => /\ IsActive(j) => j \in jobs
                                      /\ \E k \in jobs : k.run = r /\ k.no = j.no
  PROVE  Careful(r)'
<1>1. Past(r)' = Past(r) /\ Again(r)' = Again(r) /\ Exists(r)' = Exists(r)
  BY DEF Past, Again, Exists
<1>2. Idles(r) => Idles(r)'
  BY DEF Idles
<1>3. Sole(r)'
  BY DEF Sole, Careful
<1>4. ASSUME NEW j \in jobs', j.run = r, IsActive(j), Shown(j)
      PROVE  Shown(j)' /\ (cache[r].job = j.no => cache'[r].job = j.no)
  BY <1>4 DEF Shown
<1>5. First(r) => First(r)'
  BY <1>1, <1>2, <1>4 DEF First
<1>6. Second(r) => Second(r)'
  BY <1>1, <1>2, <1>4 DEF Second
<1> QED
  BY <1>3, <1>5, <1>6 DEF Careful

\* What on_run_create does to its own run.
LEMMA HandlerCareful ==
  ASSUME TypeOK, TypeOK', Names, Watched, faults' = 0, crashes <= 1, NEW r \in Runs,
         OnRunCreate(r), Careful(r)
  PROVE  Careful(r)'
<1>1. PICK to \in HandlerPc : /\ h' = [h EXCEPT ![r] = to] /\ Moves(r, to)
                              /\ UNCHANGED <<c, cache, t, u, old, crashes>> /\ faults = 0
  BY HandlerMove
<1>2. /\ jobs \subseteq JobRecord /\ attempt[r] \in Nat /\ h'[r] = to
      /\ h \in [Runs -> HandlerPc] /\ run[r] \in RunRecord /\ crashes \in Nat
  BY <1>1 DEF TypeOK
<1> USE DEF Pre
<1>3. CASE h[r] = "create" /\ to = "wait"
  <2> DEFINE new == [run |-> r, no |-> attempt[r], state |-> "active"]
  <2>1. /\ new.run = r /\ new.no = attempt[r]
        /\ \A j \in jobs' : j \in jobs \/ j = new
        /\ UNCHANGED <<run, attempt, handled>>
    BY <1>1, <1>3 DEF Moves
  <2> HIDE DEF new
  <2>2. CASE crashes = 0
    <3>1. First(r)
      BY <2>2 DEF Careful
    <3>2. \A j \in jobs : j.run # r
      BY <1>3, <3>1 DEF First, Past
    <3>3. \A j \in jobs' : j.run = r => j = new
      BY <2>1, <3>2
    <3>4. run'[r].phase = "Running" /\ run'[r].job = attempt[r] /\ c'[r] \notin Ending
      BY <1>1, <1>3, <2>1, <3>1 DEF First, Past
    <3>5. Past(r)'
      BY <1>2, <1>3 DEF Past
    <3>6. First(r)'
      BY <1>2, <1>3, <2>1, <3>3, <3>4, <3>5 DEF First, Shown
    <3> QED
      BY <1>1, <2>2, <3>3, <3>6 DEF Careful, Sole
  <2>3. CASE crashes = 1
    <3>1. \A j \in jobs' : j.run = r /\ IsActive(j) => j = new
      BY <1>3, <2>1, <2>3 DEF Careful, Second, Idles
    <3>2. Second(r)'
      BY <1>2, <1>3 DEF Second, Again
    <3> QED
      BY <1>1, <2>3, <3>1, <3>2 DEF Careful, Sole
  <2> QED
    BY <1>2, <2>2, <2>3
<1>4. CASE ~(h[r] = "create" /\ to = "wait")
  <2>1. jobs' \subseteq jobs /\ UNCHANGED <<c, cache, crashes>>
    BY <1>1, <1>4 DEF Moves
  <2>2. Sole(r)'
    BY <2>1 DEF Careful, Sole
  <2>3. CASE crashes = 0
    <3>1. First(r)
      BY <2>3 DEF Careful
    <3>2. CASE ~Past(r)
      <4>1. c'[r] \notin Ending /\ \A j \in jobs' : j.run # r
        BY <2>1, <3>1, <3>2 DEF First
      <4>2. h[r] \in Pre \union {"check"} => Exists(r)
        BY <3>1 DEF First
      <4>3. to = "create" => run'[r].phase = "Running" /\ run'[r].job = attempt'[r]
        BY <1>1, <1>2, <4>2, <3>2 DEF Moves, Past, TypeOK
      <4>4. to \in Pre \union {"check"} => Exists(r)'
        BY <1>1, <3>2, <4>2 DEF Moves, Past, Patched, Exists
      <4> QED
        BY <1>2, <2>1, <2>2, <2>3, <4>1, <4>3, <4>4 DEF First, Careful
    <3>3. CASE Past(r)
      <4>1. /\ to \notin Pre \union {"check"} /\ UNCHANGED attempt
            /\ h[r] \in Watching => UNCHANGED run
            /\ to = "idle" => r \in handled'
        BY <1>1, <3>3 DEF Moves, Past, Watching
      <4>2. Past(r)'
        BY <1>2, <4>1 DEF Past
      <4>3. ASSUME NEW j \in jobs', j.run = r, IsActive(j) PROVE Shown(j)'
        <5>1. j \in jobs /\ Shown(j) /\ h[r] \in Watching
          BY <2>1, <2>3, <3>1, <4>3 DEF First, Watched
        <5> QED
          BY <4>1, <5>1 DEF Shown
      <4>4. First(r)'
        BY <1>2, <2>1, <3>1, <4>1, <4>2, <4>3 DEF First, Idles
      <4> QED
        BY <2>1, <2>2, <2>3, <4>4 DEF Careful
    <3> QED
      BY <3>2, <3>3
  <2>4. CASE crashes = 1
    <3>1. Second(r)
      BY <2>4 DEF Careful
    <3>2. Again(r)' => Again(r) /\ UNCHANGED <<run, jobs>>
      BY <1>1, <1>2 DEF Moves, Again
    <3>3. ASSUME to \in Pre PROVE Idles(r)'
      <4>1. CASE h[r] \in Pre
        BY <2>1, <3>1, <4>1 DEF Second, Idles
      <4>2. CASE h[r] = "check"
        <5>1. ~LiveJob(r)
          BY <1>1, <3>3, <4>2 DEF Moves
        <5>2. ASSUME NEW j \in jobs, j.run = r, IsActive(j) PROVE FALSE
          <6>1. Shown(j)
            BY <3>1, <4>2, <5>2 DEF Second, Again
          <6>2. j \in JobsNamed(r, run[r].job)
            BY <5>2, <6>1 DEF Shown, JobsNamed
          <6> QED
            BY <5>1, <5>2, <6>1, <6>2 DEF LiveJob, Shown
        <5> QED
          BY <2>1, <5>2 DEF Idles
      <4> QED
        BY <1>1, <3>3, <4>1, <4>2 DEF Moves
    <3>4. Second(r)'
      <4>1. Again(r)' => /\ \A j \in jobs' : j.run = r /\ IsActive(j) =>
                                 Shown(j)' /\ cache'[r].job = j.no
                         /\ c'[r] \in Ending => Idles(r)'
        BY <2>1, <3>1, <3>2 DEF Second, Shown, Idles
      <4> QED
        BY <1>2, <3>3, <4>1 DEF Second
    <3> QED
      BY <2>1, <2>2, <2>4, <3>4 DEF Careful
  <2> QED
    BY <1>2, <2>3, <2>4
<1> QED
  BY <1>3, <1>4

\* What run_reconcile_timer does to its own run.
LEMMA ReconcilerCareful ==
  ASSUME TypeOK, TypeOK', Names, faults' = 0, old = {}, crashes <= 1, NEW r \in Runs,
         RunReconcileTimer(r), Careful(r)
  PROVE  Careful(r)'
<1>1. PICK to \in ReconcilerPc :
        /\ c' = [c EXCEPT ![r] = to] /\ ReconcilerMoves(r, to)
        /\ UNCHANGED <<h, attempt, handled, cache, t, u, old, crashes>> /\ faults = 0
  BY ReconcilerMove
<1>2. /\ jobs \subseteq JobRecord /\ c'[r] = to /\ jobs' \subseteq jobs /\ run[r] \in RunRecord
      /\ crashes \in Nat
  BY <1>1 DEF TypeOK, ReconcilerMoves
<1>3. Sole(r)' /\ Past(r)' = Past(r) /\ Again(r)' = Again(r) /\ (Idles(r) => Idles(r)')
  BY <1>1, <1>2 DEF Careful, Sole, Past, Again, Idles
\* It ends the run only when no Job of the run is active.
<1>4. ASSUME to \in Ending, c[r] \notin Ending
      PROVE  /\ crashes = 0 => Past(r) /\ Idles(r)
             /\ crashes = 1 => (Again(r) => Idles(r))
  <2>1. PICK j \in SeenJob(r) : ~IsActive(j)
    BY <1>1, <1>4 DEF ReconcilerMoves, Ending
  <2>2. j \in jobs /\ j.run = r /\ j.no = cache[r].job
    BY <2>1 DEF SeenJob, JobsNamed
  <2>3. ASSUME crashes = 0 PROVE Past(r) /\ Idles(r)
    <3>1. \A k \in jobs : k.run = r => Past(r) /\ k.no = attempt[r]
      BY <2>3 DEF Careful, First
    <3>2. \A k \in jobs : k.run = r => k = j
      BY <2>2, <3>1 DEF Names
    <3> QED
      BY <2>1, <2>2, <3>1, <3>2 DEF Idles
  <2>4. ASSUME crashes = 1, Again(r) PROVE Idles(r)
    <3>1. \A k \in jobs : k.run = r /\ IsActive(k) => cache[r].job = k.no
      BY <2>4 DEF Careful, Second
    <3>2. \A k \in jobs : k.run = r /\ IsActive(k) => k = j
      BY <2>2, <3>1 DEF Names
    <3> QED
      BY <2>1, <3>2 DEF Idles
  <2> QED
    BY <2>3, <2>4
<1>5. c[r] \notin Ending => UNCHANGED run
  BY <1>1 DEF ReconcilerMoves, Ending
<1>6. CASE crashes = 0
  <2>1. First(r)
    BY <1>6 DEF Careful
  <2>2. c'[r] \in Ending => Past(r)' /\ Idles(r)'
    BY <1>2, <1>3, <1>4, <1>6, <2>1 DEF First
  <2>3. CASE c[r] \in Ending
    <3>1. Past(r) /\ Past(r)' /\ Idles(r)'
      BY <1>3, <2>1, <2>3 DEF First
    <3>2. /\ h'[r] = h[r] /\ attempt'[r] = attempt[r]
          /\ h[r] \notin Pre \union {"check"} /\ h[r] # "create"
      BY <1>1, <3>1 DEF Past, Pre
    <3>3. First(r)'
      BY <1>2, <2>1, <2>2, <3>1, <3>2 DEF First, Idles
    <3> QED
      BY <1>1, <1>3, <1>6, <3>3 DEF Careful
  <2>4. CASE c[r] \notin Ending
    <3>1. UNCHANGED <<run, h, attempt>>
      BY <1>1, <1>5, <2>4
    <3>2. First(r)'
      BY <1>2, <1>3, <2>1, <2>2, <3>1 DEF First, Shown, Exists
    <3> QED
      BY <1>1, <1>3, <1>6, <3>2 DEF Careful
  <2> QED
    BY <2>3, <2>4
<1>7. CASE crashes = 1
  <2>1. Second(r)
    BY <1>7 DEF Careful
  <2>2. Again(r) /\ c'[r] \in Ending => Idles(r)'
    BY <1>2, <1>3, <1>4, <1>7, <2>1 DEF Second
  <2>3. ASSUME Again(r), NEW j \in jobs', j.run = r, IsActive(j)
        PROVE  Shown(j)' /\ cache'[r].job = j.no
    <3>1. c[r] \notin Ending
      BY <1>2, <2>1, <2>3 DEF Second, Idles
    <3> QED
      BY <1>1, <1>2, <1>5, <2>1, <2>3, <3>1 DEF Second, Shown
  <2>4. h'[r] \in Pre => Idles(r)'
    BY <1>1, <1>3, <2>1 DEF Second
  <2>5. Second(r)'
    BY <1>3, <2>2, <2>3, <2>4 DEF Second
  <2> QED
    BY <1>1, <1>3, <1>7, <2>5 DEF Careful
<1> QED
  BY <1>2, <1>6, <1>7

\* The reconciler ends executed runs only.
LEMMA EndingExecuted ==
  ASSUME TypeOK, Names, [Next]_vars, Quiet, Quiet', NEW r \in Runs,
         c[r] \in Ending => Executed(r), c'[r] \in Ending
  PROVE  Executed(r)'
<1>1. Executed(r) => Executed(r)'
  BY Onward DEF Quiet
<1>2. ASSUME NEW q \in Runs, RunReconcileTimer(q), c[r] \notin Ending PROVE Executed(r)
  <2>1. PICK to \in ReconcilerPc : c' = [c EXCEPT ![q] = to] /\ ReconcilerMoves(q, to)
    BY <1>2, ReconcilerMove DEF Quiet
  <2>2. q = r /\ to \in Ending
    BY <1>2, <2>1 DEF TypeOK
  <2>3. PICK j \in SeenJob(r) : TRUE
    BY <1>2, <2>1, <2>2 DEF ReconcilerMoves, Ending, Quiet
  <2> QED
    BY <2>3 DEF SeenJob, JobsNamed, Names
<1>3. ASSUME NEW q \in Runs, OnRunCreate(q) PROVE UNCHANGED c
  BY <1>3, HandlerMove DEF Quiet
<1>4. ASSUME NEW q \in Runs, Deliver(q) \/ GrowOld(q) PROVE UNCHANGED c
  BY <1>4 DEF Deliver, GrowOld
<1>5. ASSUME \/ TimerLook \/ TimerList \/ TimerCreate \/ UiList \/ UiCreate \/ Backfill
             \/ JobEnds \/ JobExpires \/ UNCHANGED vars
      PROVE  UNCHANGED c
  BY <1>5 DEF TimerLook, TimerList, TimerCreate, UiList, UiCreate, Backfill, JobEnds,
              JobExpires, vars
<1>6. ASSUME Crash PROVE FALSE
  BY <1>6 DEF Crash, Ending
<1> QED
  BY <1>1, <1>2, <1>3, <1>4, <1>5, <1>6 DEF Next

\* Another run's handler does nothing to the executed run, its Jobs or anything
\* it depends on.
LEMMA OtherHandler ==
  ASSUME TypeOK, Names, faults' = 0, NEW r \in Runs, Careful(r), NEW q \in Runs, q # r,
         ~Executed(q), OnRunCreate(q)
  PROVE  Careful(r)'
<1>1. PICK to \in HandlerPc : /\ h' = [h EXCEPT ![q] = to] /\ Moves(q, to)
                              /\ UNCHANGED <<c, cache, t, u, old, crashes>>
  BY HandlerMove
<1>2. h[q] \in {"idle", "done"}
  BY Idly
<1>3. UNCHANGED <<run, jobs, attempt>> /\ (r \in handled') = (r \in handled)
  BY <1>1, <1>2 DEF Moves, Pre
<1>4. h'[r] = h[r] /\ c'[r] = c[r] /\ cache'[r] = cache[r]
  BY <1>1 DEF TypeOK
<1> QED
  BY <1>1, <1>3, <1>4, SameCareful

LEMMA OtherReconciler ==
  ASSUME TypeOK, Names, faults' = 0, NEW r \in Runs, Careful(r), NEW q \in Runs, q # r,
         c[q] \notin Ending, RunReconcileTimer(q)
  PROVE  Careful(r)'
<1>1. PICK to \in ReconcilerPc :
        /\ c' = [c EXCEPT ![q] = to] /\ ReconcilerMoves(q, to)
        /\ UNCHANGED <<h, attempt, handled, cache, t, u, old, crashes>>
  BY ReconcilerMove
<1>2. UNCHANGED <<run, jobs>> /\ c'[r] = c[r]
  BY <1>1 DEF ReconcilerMoves, Ending, TypeOK
<1> QED
  BY <1>1, <1>2, SameCareful

LEMMA CrashCareful ==
  ASSUME TypeOK, crashes' <= 1, NEW r \in Runs, Careful(r), Crash
  PROVE  Careful(r)'
<1>1. /\ crashes = 0 /\ crashes' = 1 /\ h'[r] = "idle" /\ c'[r] = "idle" /\ cache' = run
      /\ UNCHANGED <<run, jobs, handled>>
  BY DEF Crash, api, TypeOK
<1>2. First(r) /\ Sole(r)
  BY <1>1 DEF Careful
<1>3. Sole(r)'
  BY <1>1, <1>2 DEF Sole
<1>4. \A j \in jobs : j.run = r /\ IsActive(j) => Shown(j)' /\ cache'[r].job = j.no
  BY <1>1, <1>2 DEF First, Shown
<1>5. Second(r)'
  BY <1>1, <1>4 DEF Second, Ending, Pre
<1> QED
  BY <1>1, <1>3, <1>5 DEF Careful

LEMMA LoneNext == TypeOK /\ TypeOK' /\ JobsInv /\ LoneInv /\ [Next]_vars => LoneInv'
<1> SUFFICES ASSUME TypeOK, TypeOK', JobsInv, LoneInv, [Next]_vars, Quiet', NEW r \in Runs
             PROVE  (c'[r] \in Ending => Executed(r)') /\ Careful(r)'
  BY DEF LoneInv
<1>1. Quiet /\ Names /\ Watched /\ Names'
  BY Calm, JobsNext DEF Quiet, JobsInv
<1>2. \A q \in Runs : (c[q] \in Ending => Executed(q)) /\ Careful(q)
  BY <1>1 DEF LoneInv
<1>3. c'[r] \in Ending => Executed(r)'
  BY <1>1, <1>2, EndingExecuted
<1>4. CASE ~Executed(r)'
  BY <1>1, <1>3, <1>4, OthersCareful
<1>5. CASE Executed(r)'
  <2>1. /\ crashes <= 1 /\ crashes' <= 1 /\ faults = 0 /\ faults' = 0 /\ old = {}
        /\ old' = {} /\ jobs \subseteq JobRecord
    BY <1>1 DEF Quiet, TypeOK
  <2>2. ASSUME NEW q \in Runs, q # r PROVE ~Executed(q) /\ c[q] \notin Ending
    <3>1. Executed(q) => Executed(q)'
      BY <2>1, Onward
    <3>2. ~Executed(q)
      BY <1>5, <2>2, <3>1 DEF Quiet, Lone
    <3> QED
      BY <1>2, <3>2
  <2>3. ASSUME NEW q \in Runs, OnRunCreate(q) PROVE Careful(r)'
    <3>1. CASE q = r
      BY <1>1, <1>2, <2>1, <2>3, <3>1, HandlerCareful
    <3>2. CASE q # r
      BY <1>1, <1>2, <2>1, <2>2, <2>3, <3>2, OtherHandler
    <3> QED
      BY <3>1, <3>2
  <2>4. ASSUME NEW q \in Runs, RunReconcileTimer(q) PROVE Careful(r)'
    <3>1. CASE q = r
      BY <1>1, <1>2, <2>1, <2>4, <3>1, ReconcilerCareful
    <3>2. CASE q # r
      BY <1>1, <1>2, <2>1, <2>2, <2>4, <3>2, OtherReconciler
    <3> QED
      BY <3>1, <3>2
  <2>5. ASSUME NEW q \in Runs, Deliver(q) PROVE Careful(r)'
    <3>1. /\ cache'[r] \in {cache[r], run[r]}
          /\ UNCHANGED <<run, jobs, attempt, h, c, handled, crashes>>
      BY <2>5 DEF Deliver, api, TypeOK
    <3> QED
      BY <1>1, <1>2, <3>1, SameCareful
  <2>6. ASSUME NEW q \in Runs, GrowOld(q) PROVE FALSE
    BY <2>1, <2>6 DEF GrowOld
  <2>7. ASSUME TimerCreate \/ UiCreate \/ Backfill PROVE Careful(r)'
    <3>1. PICK q \in Runs, by \in {"schedule", "manual", "backfill"} : CreateRun(q, by)
      BY <2>7 DEF TimerCreate, UiCreate, Backfill
    <3>2. UNCHANGED <<jobs, attempt, h, c, handled, cache, crashes>>
      BY <2>7 DEF TimerCreate, UiCreate, Backfill
    <3>3. CASE q # r
      <4>1. run'[r] = run[r]
        BY <3>1, <3>3 DEF CreateRun, TypeOK
      <4> QED
        BY <1>1, <1>2, <3>2, <4>1, SameCareful
    <3>4. CASE q = r
      <4>1. ~Executed(r)
        BY <3>1, <3>4 DEF CreateRun, NextRun, Executed
      <4>2. h'[r] \in {"idle", "done"} /\ (\A j \in jobs' : j.run # r) /\ c'[r] \notin Ending
        BY <1>1, <1>2, <3>2, <4>1, Idly
      <4> QED
        BY <4>2 DEF Careful, Sole, First, Second, Pre
    <3> QED
      BY <3>3, <3>4
  <2>8. ASSUME TimerLook \/ TimerList \/ UiList \/ UNCHANGED vars PROVE Careful(r)'
    <3>1. UNCHANGED <<run, jobs, attempt, h, c, handled, cache, crashes>>
      BY <2>8 DEF TimerLook, TimerList, UiList, vars, api
    <3> QED
      BY <1>1, <1>2, <3>1, SameCareful
  <2>9. ASSUME JobEnds PROVE Careful(r)'
    <3>1. PICK k \in jobs, i \in JobRecord :
            /\ IsActive(k) /\ ~IsActive(i) /\ i.run = k.run /\ i.no = k.no
            /\ jobs' = (jobs \ {k}) \union {i}
      BY <2>9, JobEnded
    <3>2. UNCHANGED <<run, attempt, h, c, handled, cache, crashes>>
      BY <2>9 DEF JobEnds
    <3> QED
      BY <1>1, <1>2, <3>1, <3>2, SameCareful
  <2>10. ASSUME JobExpires PROVE Careful(r)'
    <3>1. jobs' \subseteq jobs /\ UNCHANGED <<run, attempt, h, c, handled, cache, crashes>>
      BY <2>10 DEF JobExpires
    <3> QED
      BY <1>1, <1>2, <3>1, SameCareful
  <2>11. ASSUME Crash PROVE Careful(r)'
    BY <1>2, <2>1, <2>11, CrashCareful
  <2> QED
    BY <1>3, <2>3, <2>4, <2>5, <2>6, <2>7, <2>8, <2>9, <2>10, <2>11 DEF Next
<1> QED
  BY <1>3, <1>4, <1>5

LEMMA LoneInit == Init => LoneInv
<1> SUFFICES ASSUME Init, NEW r \in Runs PROVE c[r] \notin Ending /\ Careful(r)
  BY DEF LoneInv
<1> QED
  BY DEF Init, Ending, Careful, Sole, First, Second, Pre

\* A backup of which one run is executed has one active Job at the most, though
\* the operator dies at any point of that run, whoever else writes it, however
\* late kopf's view of it is, and whichever Jobs end or expire on the way.
THEOREM NoSecondJobAfterCrash ==
  Spec => [](Lone /\ crashes <= 1 /\ faults = 0 => OneLiveJob)
<1>1. Init => TypeOK /\ JobsInv /\ LoneInv
  BY TypeInit, JobsInit, LoneInit
<1>2. TypeOK /\ JobsInv /\ LoneInv /\ [Next]_vars => (TypeOK /\ JobsInv /\ LoneInv)'
  BY TypeNext, JobsNext, LoneNext
<1>3. ASSUME TypeOK, JobsInv, LoneInv, Lone, crashes <= 1, faults = 0 PROVE OneLiveJob
  <2>1. SUFFICES ASSUME old = {} PROVE OneLiveJob
    BY DEF OneLiveJob
  <2>2. /\ Names /\ jobs \subseteq JobRecord
        /\ \A r \in Runs : Careful(r)
    BY <1>3, <2>1 DEF JobsInv, LoneInv, Quiet, TypeOK
  <2>3. ASSUME NEW j \in jobs, NEW k \in jobs, IsActive(j), IsActive(k) PROVE j = k
    <3>1. j.run \in Runs /\ Executed(j.run) /\ k.run \in Runs /\ Executed(k.run)
      BY <2>2 DEF Names, JobRecord
    <3>2. j.run = k.run
      BY <1>3, <3>1 DEF Lone
    <3> QED
      BY <2>2, <2>3, <3>1, <3>2 DEF Careful, Sole
  <2> QED
    BY <1>3, <2>3, OneActive
<1> QED
  BY <1>1, <1>2, <1>3, PTL DEF Spec

-----------------------------------------------------------------------------
(* One run at a time                                                       *)

\* Until the operator dies, a call fails or a run gets old.
Undisturbed == crashes = 0 /\ faults = 0 /\ old = {}

LEMMA Since ==
  ASSUME TypeOK, [Next]_vars, Undisturbed'
  PROVE  Undisturbed /\ ~Crash
<1>0. ~Fault /\ (NoFault => faults = 0) /\ crashes \in Nat
  BY NoFaults DEF TypeOK, Undisturbed
<1>1. ASSUME NEW r \in Runs, OnRunCreate(r) \/ RunReconcileTimer(r) PROVE Undisturbed
  BY <1>1, HandlerMove, ReconcilerMove DEF Undisturbed
<1>2. ASSUME NEW r \in Runs, Deliver(r) \/ GrowOld(r) PROVE Undisturbed
  BY <1>2 DEF Deliver, GrowOld, Undisturbed
<1>3. CASE \/ TimerLook \/ TimerList \/ TimerCreate \/ UiList \/ UiCreate \/ Backfill
           \/ JobEnds \/ JobExpires \/ UNCHANGED vars
  BY <1>0, <1>3 DEF TimerLook, TimerList, TimerCreate, UiList, UiCreate, Backfill, JobEnds,
                    JobExpires, vars, Undisturbed, Crash
<1>4. ~Crash
  BY <1>0 DEF Crash, Undisturbed
<1> QED
  BY <1>1, <1>2, <1>3, <1>4 DEF Next

\* The way of on_run_create when no call fails.
Edges ==
  {<<"idle", "done">>, <<"idle", "reject">>, <<"idle", "check">>, <<"reject", "done">>,
   <<"check", "done">>, <<"check", "fetch">>, <<"fetch", "mark">>, <<"abort", "done">>,
   <<"mark", "park">>, <<"park", "settle">>, <<"park", "reset">>, <<"settle", "reset">>,
   <<"reset", "first">>, <<"first", "prep">>, <<"prep", "name">>, <<"prep", "recordFail">>,
   <<"name", "create">>, <<"create", "wait">>, <<"wait", "reap">>, <<"wait", "reapFailed">>,
   <<"reap", "clean">>, <<"reapFailed", "recordFail">>, <<"clean", "reread">>,
   <<"reread", "done">>, <<"reread", "succeed">>, <<"succeed", "recordOk">>,
   <<"recordOk", "prune">>, <<"recordFail", "markFailed">>, <<"markFailed", "prune">>,
   <<"prune", "done">>, <<"done", "idle">>}

\* The phase a place of the handler writes, over the phase that is there.
Written(at, phase) ==
  CASE at \in {"reject", "abort", "markFailed"} -> "Failed"
    [] at = "succeed" -> "Succeeded"
    [] at \in {"mark", "settle"} -> "Queued"
    [] at = "name" -> "Running"
    [] OTHER -> phase

LEMMA HandlerEdge ==
  ASSUME TypeOK, faults' = 0, NEW r \in Runs, OnRunCreate(r)
  PROVE  /\ <<h[r], h'[r]>> \in Edges
         /\ h[r] = "reread" /\ h'[r] = "done" => run[r].phase = "Failed"
<1>0. h \in [Runs -> HandlerPc] /\ ~Fault
  BY NoFaults DEF TypeOK
<1> USE DEF HandlerStep
<1>1. ASSUME NEW from, NEW to, HandlerStep(r, from, to) PROVE h[r] = from /\ h'[r] = to
  BY <1>0, <1>1
<1>2. CASE Enter(r) \/ Reject(r) \/ Check(r) \/ FetchParent(r) \/ Abort(r)
  BY <1>0, <1>2 DEF Enter, Reject, Check, FetchParent, Abort, Edges
<1>3. CASE MarkQueued(r) \/ Acquire(r) \/ SettlePatch(r) \/ ResetLog(r) \/ FirstLog(r)
  BY <1>0, <1>3 DEF MarkQueued, Acquire, SettlePatch, ResetLog, FirstLog, Edges
<1>4. CASE Prepare(r) \/ NameJob(r) \/ CreateJob(r) \/ AwaitJob(r)
  BY <1>0, <1>4 DEF Prepare, NameJob, CreateJob, AwaitJob, Edges
<1>5. CASE Reap(r) \/ CleanUp(r) \/ Succeed(r) \/ RecordResult(r)
  BY <1>0, <1>5 DEF Reap, CleanUp, Succeed, RecordResult, Edges
<1>6. CASE Reread(r)
  BY <1>0, <1>6 DEF Reread, Edges
<1>7. CASE MarkFailed(r) \/ PruneAndRelease(r) \/ Return(r)
  BY <1>0, <1>7 DEF MarkFailed, PruneAndRelease, Return, Edges
<1> QED
  BY <1>2, <1>3, <1>4, <1>5, <1>6, <1>7 DEF OnRunCreate

LEMMA FieldsSet ==
  ASSUME TypeOK, NEW r \in Runs, NEW p \in Phases, NEW l \in BOOLEAN, NEW n \in Nat
  PROVE  /\ [run[r] EXCEPT !.phase = p].phase = p
         /\ [run[r] EXCEPT !.log = l].phase = run[r].phase
         /\ [run[r] EXCEPT !.phase = p, !.log = l].phase = p
         /\ [run[r] EXCEPT !.phase = p, !.job = n].phase = p
<1>1. run[r] \in RunRecord
  BY DEF TypeOK
<1> QED
  BY <1>1 DEF RunRecord

LEMMA HandlerPhases ==
  ASSUME TypeOK, faults' = 0, NEW r \in Runs, OnRunCreate(r), h[r] # "prune"
  PROVE  run'[r].phase = IF Exists(r) THEN Written(h[r], run[r].phase) ELSE run[r].phase
<1>0. /\ run[r] \in RunRecord /\ attempt[r] \in Nat /\ attempt[r] + 1 \in Nat
      /\ ~Fault /\ h \in [Runs -> HandlerPc] /\ run \in [Runs -> RunRecord]
  BY NoFaults DEF TypeOK
<1> USE DEF HandlerStep
<1>p. {"Failed", "Queued", "Running", "Succeeded"} \subseteq Phases
  BY DEF Phases, Active, Terminal
<1>1. ASSUME NEW f \in RunRecord, PatchRun(r, f)
      PROVE  run'[r].phase = IF Exists(r) THEN f.phase ELSE run[r].phase
  BY <1>0, <1>1 DEF PatchRun
<1>a. ASSUME NEW p \in Phases, PatchRun(r, [run[r] EXCEPT !.phase = p])
      PROVE  run'[r].phase = IF Exists(r) THEN p ELSE run[r].phase
  <2>1. [run[r] EXCEPT !.phase = p] \in RunRecord /\ [run[r] EXCEPT !.phase = p].phase = p
    BY <1>0, FieldsTyped, FieldsSet
  <2> QED
    BY <1>1, <1>a, <2>1
<1>b. ASSUME NEW l \in BOOLEAN, PatchRun(r, [run[r] EXCEPT !.phase = "Queued", !.log = l])
      PROVE  run'[r].phase = IF Exists(r) THEN "Queued" ELSE run[r].phase
  <2>1. "Queued" \in Phases /\ 0 \in Nat
    BY <1>p
  <2>2. [run[r] EXCEPT !.phase = "Queued", !.log = l] \in RunRecord
    BY <2>1, FieldsTyped
  <2>3. [run[r] EXCEPT !.phase = "Queued", !.log = l].phase = "Queued"
    BY <2>1, FieldsSet
  <2> QED
    BY <1>1, <1>b, <2>2, <2>3
<1>c. ASSUME NEW p \in Phases, NEW n \in Nat,
             PatchRun(r, [run[r] EXCEPT !.phase = p, !.job = n])
      PROVE  run'[r].phase = IF Exists(r) THEN p ELSE run[r].phase
  <2>1. TRUE \in BOOLEAN
    OBVIOUS
  <2>2. [run[r] EXCEPT !.phase = p, !.job = n] \in RunRecord
    BY <2>1, FieldsTyped
  <2>3. [run[r] EXCEPT !.phase = p, !.job = n].phase = p
    BY <2>1, FieldsSet
  <2> QED
    BY <1>1, <1>c, <2>2, <2>3
<1>2. CASE UNCHANGED run /\ h[r] \notin {"reject", "abort", "markFailed", "succeed", "mark",
                                        "settle", "name"}
  BY <1>2 DEF Written
<1>3. CASE \/ Enter(r) \/ Check(r) \/ FetchParent(r) \/ Acquire(r) \/ CreateJob(r) \/ AwaitJob(r)
           \/ Reap(r) \/ CleanUp(r) \/ Reread(r) \/ RecordResult(r) \/ Return(r)
  BY <1>2, <1>3 DEF Enter, Check, FetchParent, Acquire, CreateJob, AwaitJob, Reap, CleanUp,
                    Reread, RecordResult, Return, api
<1>4. CASE Reject(r) \/ Abort(r) \/ MarkFailed(r)
  BY <1>a, <1>p, <1>4 DEF Reject, Abort, MarkFailed, Written
<1>5. CASE MarkQueued(r) \/ SettlePatch(r)
  BY <1>a, <1>b, <1>p, <1>5 DEF MarkQueued, SettlePatch, Written
<1>6. CASE ResetLog(r) \/ FirstLog(r) \/ Prepare(r)
  <2>1. ASSUME NEW l \in BOOLEAN
        PROVE  /\ [run[r] EXCEPT !.log = l] \in RunRecord
               /\ [run[r] EXCEPT !.log = l].phase = run[r].phase
    BY <1>0, FieldsTyped, FieldsSet DEF Phases
  <2> QED
    BY <1>0, <1>1, <1>6, <2>1 DEF ResetLog, FirstLog, Prepare, Written
<1>7. CASE NameJob(r)
  BY <1>0, <1>c, <1>p, <1>7 DEF NameJob, Written
<1>8. CASE Succeed(r)
  BY <1>0, <1>c, <1>p, <1>8 DEF Succeed, Written
<1> QED
  BY <1>3, <1>4, <1>5, <1>6, <1>7, <1>8 DEF OnRunCreate, PruneAndRelease

\* The key comes with "fetch", and goes with the guarded section.
LEMMA HandlerKey ==
  ASSUME TypeOK, faults' = 0, NEW r \in Runs, OnRunCreate(r)
  PROVE  \/ h[r] = "idle" /\ h'[r] = "check" /\ ~running /\ UNCHANGED running
         \/ /\ (h[r] \in Guarding) = (h'[r] \in Guarding) /\ h'[r] # "check"
            /\ UNCHANGED running
         \/ h[r] = "check" /\ h'[r] = "fetch" /\ running' = TRUE
         \/ h[r] \in Guarding /\ h'[r] \notin Guarding \union {"check"} /\ running' = FALSE
<1>0. h \in [Runs -> HandlerPc] /\ ~Fault
  BY NoFaults DEF TypeOK
<1> USE DEF HandlerStep, Guarding
<1>2. CASE Enter(r) \/ Reject(r) \/ Check(r) \/ FetchParent(r) \/ Abort(r)
  BY <1>0, <1>2 DEF Enter, Reject, Check, FetchParent, Abort
<1>3. CASE MarkQueued(r) \/ Acquire(r) \/ SettlePatch(r) \/ ResetLog(r) \/ FirstLog(r)
  BY <1>0, <1>3 DEF MarkQueued, Acquire, SettlePatch, ResetLog, FirstLog
<1>4. CASE Prepare(r) \/ NameJob(r) \/ CreateJob(r) \/ AwaitJob(r)
  BY <1>0, <1>4 DEF Prepare, NameJob, CreateJob, AwaitJob
<1>5. CASE Reap(r) \/ CleanUp(r) \/ Reread(r) \/ Succeed(r) \/ RecordResult(r)
  BY <1>0, <1>5 DEF Reap, CleanUp, Reread, Succeed, RecordResult
<1>6. CASE MarkFailed(r) \/ PruneAndRelease(r) \/ Return(r)
  BY <1>0, <1>6 DEF MarkFailed, PruneAndRelease, Return
<1> QED
  BY <1>2, <1>3, <1>4, <1>5, <1>6 DEF OnRunCreate

LEMMA HandlerRecords ==
  ASSUME TypeOK, faults' = 0, NEW r \in Runs, OnRunCreate(r)
  PROVE  \/ UNCHANGED entries /\ h[r] \notin {"recordOk", "recordFail"}
         \/ /\ h[r] \in {"recordOk", "recordFail"}
            /\ \E x \in Results : entries' = [entries EXCEPT ![r][x] = IF @ < 2 THEN @ + 1 ELSE 2]
<1>0. ~Fault
  BY NoFaults
<1> USE DEF HandlerStep, api
<1>1. CASE RecordResult(r)
  BY <1>0, <1>1 DEF RecordResult, Record, Results
<1>2. CASE Enter(r) \/ Reject(r) \/ Check(r) \/ FetchParent(r) \/ Abort(r)
  BY <1>2 DEF Enter, Reject, Check, FetchParent, Abort
<1>3. CASE MarkQueued(r) \/ Acquire(r) \/ SettlePatch(r) \/ ResetLog(r) \/ FirstLog(r)
  BY <1>3 DEF MarkQueued, Acquire, SettlePatch, ResetLog, FirstLog
<1>4. CASE Prepare(r) \/ NameJob(r) \/ CreateJob(r) \/ AwaitJob(r)
  BY <1>4 DEF Prepare, NameJob, CreateJob, AwaitJob
<1>5. CASE Reap(r) \/ CleanUp(r) \/ Reread(r) \/ Succeed(r)
  BY <1>5 DEF Reap, CleanUp, Reread, Succeed
<1>6. CASE MarkFailed(r) \/ PruneAndRelease(r) \/ Return(r)
  BY <1>6 DEF MarkFailed, PruneAndRelease, Return
<1> QED
  BY <1>1, <1>2, <1>3, <1>4, <1>5, <1>6 DEF OnRunCreate

\* Where no run is old and kopf has shown it no Running one the reconciler has
\* nothing to do.
Rests(r) == c[r] \in {"idle", "peek"} /\ cache[r].phase # "Running"

LEMMA ReconcilerRests ==
  ASSUME TypeOK, old = {}, faults' = 0, NEW r \in Runs, Rests(r), RunReconcileTimer(r)
  PROVE  /\ UNCHANGED <<run, jobs, entries, h, running, handled, cache, t, u>>
         /\ Rests(r)' /\ \A q \in Runs \ {r} : c'[q] = c[q]
<1>1. Reconcile(r) \/ Peek(r)
  BY DEF RunReconcileTimer, ReadJob, Finish, Kill, KillJob, ReconcileParent, ReconcilePrune,
         ReconcilerStep, Rests
<1> QED
  BY <1>1 DEF Reconcile, Peek, ReconcilerStep, Rests, TypeOK

-----------------------------------------------------------------------------
(* One entry per run                                                       *)

\* From where on_run_create has named a Job to where it has ended the run.
Busy == {"create", "wait", "reap", "reapFailed", "clean", "reread", "succeed", "recordFail",
         "markFailed"}

\* A run is recorded in the handler's last steps, which are taken once; it is
\* Running only before them, where kopf shows it to no timer.
Once(r) ==
  /\ r \in handled => h[r] = "idle"
  /\ h[r] \notin {"markFailed", "prune", "done"} /\ r \notin handled
       => entries[r]["success"] = 0 /\ entries[r]["failed"] = 0
  /\ entries[r]["success"] + entries[r]["failed"] <= 1
  /\ run[r].phase = "Running" => h[r] \in Busy
  /\ Rests(r)
OnceInv == Undisturbed => \A r \in Runs : Once(r)

LEMMA OnceHandler ==
  ASSUME TypeOK, Undisturbed, Undisturbed', \A q \in Runs : Once(q), NEW r \in Runs,
         OnRunCreate(r), NEW q \in Runs
  PROVE  Once(q)'
<1>1. PICK to \in HandlerPc : /\ h' = [h EXCEPT ![r] = to] /\ Moves(r, to)
                              /\ UNCHANGED <<c, cache, t, u, old, crashes>>
  BY HandlerMove DEF Undisturbed
<1>2. Rests(q)'
  BY <1>1 DEF Once, Rests
<1>3. /\ h \in [Runs -> HandlerPc] /\ h'[r] = to /\ run[q] \in RunRecord
      /\ entries \in [Runs -> [Results -> 0..2]]
  BY <1>1 DEF TypeOK
<1>4. \/ UNCHANGED entries /\ h[r] \notin {"recordOk", "recordFail"}
      \/ /\ h[r] \in {"recordOk", "recordFail"}
         /\ \E x \in Results : entries' = [entries EXCEPT ![r][x] = IF @ < 2 THEN @ + 1 ELSE 2]
  BY HandlerRecords DEF Undisturbed
<1>5. <<h[r], to>> \in Edges /\ (h[r] = "reread" /\ to = "done" => run[r].phase = "Failed")
  BY <1>3, HandlerEdge DEF Undisturbed
<1>6. handled' = IF h[r] = "done" THEN handled \union {r} ELSE handled
  BY <1>1, <1>5 DEF Moves, Pre, Edges
<1>7. CASE q # r
  <2>1. h'[q] = h[q] /\ entries'[q] = entries[q] /\ (q \in handled') = (q \in handled)
    BY <1>1, <1>3, <1>4, <1>6, <1>7
  <2>2. run'[q] = run[q] \/ run'[q].phase = "gone"
    BY <1>1, <1>7, PruneMoves DEF Moves, Patched
  <2> QED
    BY <1>2, <2>1, <2>2 DEF Once
<1>8. CASE q = r
  <2>1. r \in handled => h[r] = "idle" /\ ~(to # "idle")
    BY <1>1, <1>3, <1>5 DEF Moves, Once, Edges, Pre
  <2>2. r \in handled' => to = "idle"
    BY <1>5, <1>6, <2>1 DEF Edges
  <2>3. h[r] = "prune" => run'[r].phase \in {run[r].phase, "gone"}
    BY <1>1, PruneMoves DEF Moves, Pre
  <2>4. h[r] # "prune" =>
          run'[r].phase = IF Exists(r) THEN Written(h[r], run[r].phase) ELSE run[r].phase
    BY HandlerPhases DEF Undisturbed
  <2>5. run'[r].phase = "Running" => to \in Busy
    <3>1. run[r].phase = "Running" => h[r] \in Busy /\ Exists(r)
      BY DEF Once, Exists
    <3>2. CASE h[r] = "prune"
      BY <2>3, <3>1, <3>2 DEF Busy
    <3>3. CASE h[r] # "prune"
      <4>1. run'[r].phase = "Running" => h[r] = "name" \/ run[r].phase = "Running"
        BY <2>4, <3>3 DEF Written
      <4>2. run'[r].phase = "Running" /\ h[r] # "name" => h[r] \notin {"succeed", "markFailed"}
        BY <2>4, <3>1, <4>1 DEF Written
      <4>3. run'[r].phase = "Running" => ~(h[r] = "reread" /\ to = "done")
        BY <1>5, <4>1
      <4> QED
        BY <1>5, <3>1, <4>1, <4>2, <4>3 DEF Edges, Busy
    <3> QED
      BY <3>2, <3>3
  <2>6. /\ to \notin {"markFailed", "prune", "done"} /\ r \notin handled'
             => entries'[r]["success"] = 0 /\ entries'[r]["failed"] = 0
        /\ entries'[r]["success"] + entries'[r]["failed"] <= 1
    <3>1. /\ entries[r]["success"] \in 0..2 /\ entries[r]["failed"] \in 0..2
          /\ entries[r]["success"] + entries[r]["failed"] <= 1
      BY <1>3 DEF Once, Results
    <3>2. CASE UNCHANGED entries /\ h[r] \notin {"recordOk", "recordFail"}
      <4>1. to \notin {"markFailed", "prune", "done"} /\ r \notin handled'
              => h[r] \notin {"markFailed", "prune", "done"} /\ r \notin handled
        BY <1>5, <1>6 DEF Edges
      <4> QED
        BY <3>1, <3>2, <4>1 DEF Once
    <3>3. CASE h[r] \in {"recordOk", "recordFail"}
      <4>1. PICK x \in Results : entries' = [entries EXCEPT ![r][x] = IF @ < 2 THEN @ + 1 ELSE 2]
        BY <1>4, <3>3
      <4>2. entries[r]["success"] = 0 /\ entries[r]["failed"] = 0
        BY <2>1, <3>3 DEF Once
      <4>3. entries[r][x] = 0
        BY <4>2 DEF Results
      <4>4. entries'[r] = [entries[r] EXCEPT ![x] = 1]
        BY <1>3, <4>1, <4>3
      <4>5. entries'[r]["success"] + entries'[r]["failed"] <= 1
        BY <1>3, <4>2, <4>4 DEF Results
      <4>6. to \in {"markFailed", "prune", "done"}
        BY <1>5, <3>3 DEF Edges
      <4> QED
        BY <4>5, <4>6
    <3> QED
      BY <1>4, <3>2, <3>3
  <2> QED
    BY <1>2, <1>3, <1>8, <2>2, <2>5, <2>6 DEF Once
<1> QED
  BY <1>7, <1>8

LEMMA OnceNext ==
  ASSUME ~LiveCache, TypeOK, OnceInv, [Next]_vars
  PROVE  OnceInv'
<1> SUFFICES ASSUME Undisturbed', NEW q \in Runs PROVE Once(q)'
  BY DEF OnceInv
<1>1. Undisturbed /\ ~Crash /\ \A r \in Runs : Once(r)
  BY Since DEF OnceInv
<1>2. ASSUME UNCHANGED <<entries, handled, h>>, c'[q] = c[q], cache'[q].phase # "Running",
             run'[q].phase = "Running" => run[q].phase = "Running"
      PROVE  Once(q)'
  BY <1>1, <1>2 DEF Once, Rests
<1>3. cache[q].phase # "Running"
  BY <1>1 DEF Once, Rests
<1>4. ASSUME NEW r \in Runs, OnRunCreate(r) PROVE Once(q)'
  BY <1>1, <1>4, OnceHandler
<1>5. ASSUME NEW r \in Runs, RunReconcileTimer(r) PROVE Once(q)'
  <2>1. /\ UNCHANGED <<run, entries, h, handled, cache>>
        /\ Rests(r)' /\ (q # r => c'[q] = c[q])
    BY <1>1, <1>5, ReconcilerRests DEF Undisturbed, Once
  <2>2. Rests(q)'
    BY <1>1, <2>1 DEF Once, Rests
  <2> QED
    BY <1>1, <2>1, <2>2 DEF Once
<1>6. ASSUME NEW r \in Runs, Deliver(r) PROVE Once(q)'
  <2>1. /\ UNCHANGED <<run, entries, h, handled, c>> /\ h[r] = "idle"
        /\ cache'[q] = IF q = r THEN run[q] ELSE cache[q]
    BY <1>6 DEF Deliver, api, TypeOK
  <2>2. h[q] = "idle" => run[q].phase # "Running"
    BY <1>1 DEF Once, Busy
  <2> QED
    BY <1>2, <1>3, <2>1, <2>2
<1>7. ASSUME NEW r \in Runs, GrowOld(r) PROVE FALSE
  BY <1>7 DEF GrowOld, Undisturbed
<1>8. ASSUME TimerCreate \/ UiCreate \/ Backfill PROVE Once(q)'
  <2>1. PICK r \in Runs, by \in {"schedule", "manual", "backfill"} : CreateRun(r, by)
    BY <1>8 DEF TimerCreate, UiCreate, Backfill
  <2>2. run'[q].phase = "Running" => run[q].phase = "Running"
    BY <2>1 DEF CreateRun, TypeOK
  <2>3. UNCHANGED <<entries, handled, h, c, cache>>
    BY <1>8 DEF TimerCreate, UiCreate, Backfill
  <2> QED
    BY <1>2, <1>3, <2>2, <2>3
<1>9. ASSUME \/ TimerLook \/ TimerList \/ UiList \/ JobEnds \/ JobExpires \/ UNCHANGED vars
      PROVE  Once(q)'
  <2>1. UNCHANGED <<run, entries, handled, h, c, cache>>
    BY <1>9 DEF TimerLook, TimerList, UiList, JobEnds, JobExpires, vars, api
  <2> QED
    BY <1>2, <1>3, <2>1
<1> QED
  BY <1>1, <1>4, <1>5, <1>6, <1>7, <1>8, <1>9 DEF Next

LEMMA OnceInit == Init => OnceInv
<1> SUFFICES ASSUME Init, NEW r \in Runs PROVE Once(r)
  BY DEF OnceInv
<1> QED
  BY DEF Init, Once, Rests, Absent, Results

\* One run, one entry, whoever creates the runs and however many are executed at
\* once, as long as kopf's view of a run rests while its handler is at it: then
\* the reconciler never sees a run of the living operator Running.
THEOREM NeverRecordedTwice ==
  ASSUME ~LiveCache PROVE Spec => [](Undisturbed => RecordedOnce)
<1>1. TypeOK /\ OnceInv /\ [Next]_vars => OnceInv'
  BY OnceNext
<1>2. OnceInv => (Undisturbed => RecordedOnce)
  BY DEF OnceInv, Once, RecordedOnce
<1> QED
  BY <1>1, <1>2, OnceInit, TypeCorrect, PTL DEF Spec

-----------------------------------------------------------------------------
(* One execution                                                           *)

\* Of backup_timer and the dashboard's endpoint one creates runs.
OneCreator == ~({"timer", "ui"} \subseteq Creators)

\* A run that on_run_create may still begin to execute.
Fresh(r) == Executed(r) /\ Again(r)

\* Runs come in their order, and r is the last.
Order == \A p, q \in Runs : p < q /\ run[p].phase = "absent" => run[q].phase = "absent"
Last(q) == \A p \in Runs : p > q => run[p].phase = "absent"

\* Nobody ends a run that has not begun.
Unbegun == {"absent", "Pending", "gone"}
Waits(r) == ~Executed(r) \/ Fresh(r) => /\ run[r].phase \in Unbegun /\ cache[r].phase \in Unbegun
                                       /\ c[r] \in {"idle", "peek"}
Creates == (t # "idle" => "timer" \in Creators) /\ (u # "idle" => "ui" \in Creators)
Creating == t = "create" \/ u = "create"

\* A run that waits is the only one, and until its execution begins the last run
\* of all is Pending (it, or a backfill), which keeps the creators away.
Blocked(r) == \E q \in Runs : Last(q) /\ run[q].phase = "Pending" /\ (q = r \/ ~Executed(q))
ApartInv ==
  Undisturbed =>
    /\ Creates /\ Order /\ OneExecution
    /\ running = (\E r \in Runs : h[r] \in Guarding)
    /\ \A r \in Runs : Waits(r) /\ (h[r] = "check" => ~running)
    /\ \A r, q \in Runs : Fresh(r) /\ Fresh(q) => r = q
    /\ \A r \in Runs : Fresh(r) => ~Creating /\ Blocked(r)

\* The newest run is not outdated, and Keep is at least one.
LEMMA LastKept ==
  ASSUME TypeOK, NEW q \in Runs, Last(q), PruneRuns
  PROVE  run'[q] = run[q]
<1>1. {p \in Runs : p > q /\ Exists(p)} = {}
  BY DEF Last, Exists
<1>2. Cardinality({p \in Runs : p > q /\ Exists(p)}) = 0
  BY <1>1, FS_EmptySet
<1>3. q \notin Outdated
  BY <1>2, KeepAssumption DEF Outdated
<1> QED
  BY <1>3 DEF PruneRuns

\* What becomes of the runs in a step of on_run_create or of the reconciler.
Tended(r) == \/ Patched(r) \/ PruneRuns \/ UNCHANGED run

LEMMA TendedKept ==
  ASSUME TypeOK, NEW r \in Runs, Tended(r), NEW q \in Runs
  PROVE  /\ run'[q].by = run[q].by /\ (run'[q].phase = "absent") = (run[q].phase = "absent")
         /\ q # r => run'[q].phase \in {run[q].phase, "gone"}
         /\ q # r /\ Last(q) => run'[q] = run[q]
<1>1. run[q] \in RunRecord
  BY DEF TypeOK
<1>2. CASE PruneRuns
  <2>1. \/ run'[q] = run[q]
        \/ Exists(q) /\ run'[q].phase = "gone" /\ run'[q].by = run[q].by
    BY <1>2, PruneMoves
  <2> QED
    BY <1>2, <2>1, LastKept DEF Exists
<1>3. CASE Patched(r)
  BY <1>3 DEF Patched
<1>4. CASE UNCHANGED run
  BY <1>4
<1> QED
  BY <1>2, <1>3, <1>4 DEF Tended

\* Such a step keeps the order, and what blocks the creators, as long as it does
\* not write a run that has not begun.
LEMMA BlockedKept ==
  ASSUME TypeOK, NEW r \in Runs, Tended(r), NEW q \in Runs, Blocked(q),
         ~Executed(r) \/ r = q => run'[r] = run[r]
  PROVE  Blocked(q)'
<1>1. PICK p \in Runs : Last(p) /\ run[p].phase = "Pending" /\ (p = q \/ ~Executed(p))
  BY DEF Blocked
<1>2. run'[p] = run[p]
  BY <1>1, TendedKept
<1>3. Last(p)'
  BY <1>1, TendedKept DEF Last
<1>4. Executed(p)' = Executed(p)
  BY <1>2 DEF Executed
<1> QED
  BY <1>1, <1>2, <1>3, <1>4 DEF Blocked

LEMMA OrderKept ==
  ASSUME TypeOK, NEW r \in Runs, Tended(r), Order
  PROVE  Order'
BY TendedKept DEF Order

\* ApartInv, once it is known that no run becomes fresh.
LEMMA ApartStep ==
  ASSUME TypeOK, ApartInv, Undisturbed, NEW r \in Runs, Tended(r),
         UNCHANGED <<t, u>>, OneExecution', (running = (\E q \in Runs : h[q] \in Guarding))',
         \A q \in Runs : h'[q] = "check" => ~running',
         \A q \in Runs : Fresh(q)' => Fresh(q),
         ~Executed(r) \/ Fresh(r)' => run'[r] = run[r],
         \A q \in Runs : ~Executed(q) \/ Fresh(q)' =>
             cache'[q].phase \in Unbegun /\ c'[q] \in {"idle", "peek"}
  PROVE  ApartInv'
<1>0. \A q \in Runs : run[q] \in RunRecord
  BY DEF TypeOK
<1>1. Creates' /\ Creating' = Creating
  BY DEF ApartInv, Creates, Creating
<1>2. Order'
  BY OrderKept DEF ApartInv
<1>3. ASSUME NEW q \in Runs PROVE Executed(q)' = Executed(q)
  BY <1>0, TendedKept DEF Executed
<1>4. ASSUME NEW q \in Runs PROVE Waits(q)'
  <2>1. ASSUME ~Executed(q) \/ Fresh(q)' PROVE run'[q].phase \in Unbegun
    <3>1. run[q].phase \in Unbegun
      BY <2>1 DEF ApartInv, Waits
    <3>2. run'[q].phase \in {run[q].phase, "gone"}
      BY <2>1, TendedKept
    <3> QED
      BY <3>1, <3>2 DEF Unbegun
  <2> QED
    BY <1>3, <2>1 DEF Waits
<1>5. ASSUME NEW q \in Runs, Fresh(q)' PROVE ~Creating' /\ Blocked(q)'
  <2>1. Fresh(q) /\ Blocked(q) /\ ~Creating
    BY <1>5 DEF ApartInv
  <2> QED
    BY <1>1, <1>5, <2>1, BlockedKept
<1>6. \A q, p \in Runs : Fresh(q)' /\ Fresh(p)' => q = p
  BY DEF ApartInv
<1> QED
  BY <1>1, <1>2, <1>4, <1>5, <1>6 DEF ApartInv

LEMMA ApartHandler ==
  ASSUME TypeOK, Names, ApartInv, Undisturbed, Undisturbed', NEW r \in Runs, OnRunCreate(r)
  PROVE  ApartInv'
<1>1. PICK to \in HandlerPc : /\ h' = [h EXCEPT ![r] = to] /\ Moves(r, to)
                              /\ UNCHANGED <<c, cache, t, u, old, crashes>>
  BY HandlerMove DEF Undisturbed
<1>2. /\ h \in [Runs -> HandlerPc] /\ h'[r] = to /\ \A q \in Runs : q # r => h'[q] = h[q]
      /\ running \in BOOLEAN
  BY <1>1 DEF TypeOK
<1>3. Tended(r)
  BY <1>1 DEF Moves, Tended
<1>4. <<h[r], to>> \in Edges
  BY <1>2, HandlerEdge DEF Undisturbed
<1>5. h[r] \in {"idle", "done"} => UNCHANGED run
  BY <1>1 DEF Moves, Pre
<1>6. \/ h[r] = "idle" /\ to = "check" /\ ~running /\ UNCHANGED running
      \/ /\ (h[r] \in Guarding) = (to \in Guarding) /\ to # "check"
         /\ UNCHANGED running
      \/ h[r] = "check" /\ to = "fetch" /\ running' = TRUE
      \/ h[r] \in Guarding /\ to \notin Guarding \union {"check"} /\ running' = FALSE
  BY <1>2, HandlerKey DEF Undisturbed
<1>7. \A q \in Runs : Executed(q)' = Executed(q)
  BY <1>3, TendedKept DEF Executed
<1>8. ASSUME NEW q \in Runs, Fresh(q)' PROVE Fresh(q)
  <2>1. q # r => h'[q] = h[q] /\ (q \in handled') = (q \in handled)
    BY <1>1, <1>2 DEF Moves
  <2>2. CASE q # r
    BY <1>7, <1>8, <2>1, <2>2 DEF Fresh, Again
  <2>3. CASE q = r
    <3>1. to = "idle" => h[r] = "done"
      BY <1>4 DEF Edges
    <3>2. to = "idle" => r \in handled'
      BY <1>1, <3>1 DEF Moves, Pre
    <3>3. to = "check"
      BY <1>2, <1>8, <2>3, <3>2 DEF Fresh, Again
    <3>4. h[r] = "idle"
      BY <1>4, <3>3 DEF Edges
    <3>5. r \notin handled
      BY <1>1, <3>4 DEF Moves, Pre
    <3> QED
      BY <1>7, <1>8, <2>3, <3>4, <3>5 DEF Fresh, Again
  <2> QED
    BY <2>2, <2>3
<1>9. ~Executed(r) \/ Fresh(r)' => run'[r] = run[r]
  <2>1. ~Executed(r) => h[r] \in {"idle", "done"}
    BY Idly
  <2>2. Fresh(r)' => to \in {"idle", "check"}
    BY <1>2 DEF Fresh, Again
  <2>3. to \in {"idle", "check"} => h[r] \in {"idle", "done"}
    BY <1>4 DEF Edges
  <2> QED
    BY <1>5, <2>1, <2>2, <2>3
<1>10. \A q \in Runs : ~Executed(q) \/ Fresh(q)' =>
         cache'[q].phase \in Unbegun /\ c'[q] \in {"idle", "peek"}
  BY <1>1, <1>8 DEF ApartInv, Waits
\* The key.
<1>11. /\ OneExecution /\ running = (\E q \in Runs : h[q] \in Guarding)
       /\ \A q \in Runs : h[q] = "check" => ~running /\ Fresh(q)
       /\ \A q, p \in Runs : Fresh(q) /\ Fresh(p) => q = p
  BY DEF ApartInv, Names, Fresh, Again
<1>12. /\ OneExecution' /\ (running = (\E q \in Runs : h[q] \in Guarding))'
       /\ \A q \in Runs : h'[q] = "check" => ~running'
  <2>1. CASE h[r] = "idle" /\ to = "check" /\ ~running /\ UNCHANGED running
    <3>1. \A q \in Runs : h'[q] \in Guarding => h[q] \in Guarding
      BY <1>2, <2>1 DEF Guarding
    <3>2. \A q \in Runs : h'[q] \notin Guarding
      BY <1>11, <2>1, <3>1
    <3>3. running' = FALSE
      BY <1>2, <2>1
    <3> QED
      BY <3>2, <3>3 DEF OneExecution
  <2>2. CASE (h[r] \in Guarding) = (to \in Guarding) /\ to # "check" /\ UNCHANGED running
    BY <1>2, <1>11, <2>2 DEF OneExecution
  <2>3. CASE h[r] = "check" /\ to = "fetch" /\ running' = TRUE
    <3>1. \A q \in Runs : h[q] \notin Guarding
      BY <1>11, <2>3
    <3>2. \A q \in Runs : h[q] = "check" => q = r
      BY <1>11, <2>3
    <3> QED
      BY <1>2, <2>3, <3>1, <3>2 DEF OneExecution, Guarding
  <2>4. CASE h[r] \in Guarding /\ to \notin Guarding \union {"check"} /\ running' = FALSE
    <3>1. \A q \in Runs : h[q] \in Guarding => q = r
      BY <1>11, <2>4 DEF OneExecution
    <3> QED
      BY <1>2, <2>4, <3>1 DEF OneExecution
  <2> QED
    BY <1>6, <2>1, <2>2, <2>3, <2>4
<1> QED
  BY <1>1, <1>3, <1>8, <1>9, <1>10, <1>12, ApartStep

LEMMA ApartReconciler ==
  ASSUME TypeOK, ApartInv, Undisturbed, Undisturbed', NEW r \in Runs, RunReconcileTimer(r)
  PROVE  ApartInv'
<1>1. PICK to \in ReconcilerPc :
        /\ c' = [c EXCEPT ![r] = to] /\ ReconcilerMoves(r, to)
        /\ UNCHANGED <<h, attempt, handled, cache, t, u, old, crashes>>
  BY ReconcilerMove DEF Undisturbed
<1>2. Tended(r) /\ (\A q \in Runs : q # r => c'[q] = c[q]) /\ UNCHANGED running
  BY <1>1 DEF ReconcilerMoves, Tended, TypeOK, RunReconcileTimer, Reconcile, Peek, ReadJob, Finish,
              Kill, KillJob, ReconcileParent, ReconcilePrune, ReconcilerStep
<1>3. \A q \in Runs : Executed(q)' = Executed(q)
  BY <1>2, TendedKept DEF Executed
<1>4. \A q \in Runs : Fresh(q)' = Fresh(q)
  BY <1>1, <1>3 DEF Fresh, Again
<1>5. ~Executed(r) \/ Fresh(r) => run'[r] = run[r] /\ c'[r] \in {"idle", "peek"}
  <2>1. ~Executed(r) \/ Fresh(r) => Rests(r)
    BY DEF ApartInv, Waits, Rests, Unbegun
  <2>2. Rests(r) => UNCHANGED run /\ Rests(r)'
    BY ReconcilerRests DEF Undisturbed
  <2> QED
    BY <2>1, <2>2 DEF Rests
<1>6. \A q \in Runs : ~Executed(q) \/ Fresh(q)' =>
        cache'[q].phase \in Unbegun /\ c'[q] \in {"idle", "peek"}
  BY <1>1, <1>2, <1>4, <1>5 DEF ApartInv, Waits
<1>7. /\ OneExecution' /\ (running = (\E q \in Runs : h[q] \in Guarding))'
      /\ \A q \in Runs : h'[q] = "check" => ~running'
  BY <1>1, <1>2 DEF ApartInv, OneExecution
<1> QED
  BY <1>1, <1>2, <1>4, <1>5, <1>6, <1>7, ApartStep

\* A new run is the last; it is executed, if at all, after those that are now.
LEMMA ApartCreated ==
  ASSUME TypeOK, TypeOK', ApartInv, Undisturbed, NEW r \in Runs,
         NEW by \in {"schedule", "manual", "backfill"}, CreateRun(r, by),
         UNCHANGED <<running, h, handled, c, cache>>, Creates',
         by = "backfill" => UNCHANGED <<t, u>>,
         by # "backfill" => Creating /\ ~Creating'
  PROVE  ApartInv'
<1>1. /\ run[r].phase = "absent" /\ \A q \in Runs : q < r => run[q].phase # "absent"
      /\ run'[r].phase = "Pending" /\ run'[r].by = by /\ \A q \in Runs : q # r => run'[q] = run[q]
  BY DEF CreateRun, NextRun, TypeOK
<1>2. /\ Order /\ OneExecution /\ running = (\E q \in Runs : h[q] \in Guarding)
      /\ \A q \in Runs : Waits(q) /\ (h[q] = "check" => ~running)
      /\ \A q, p \in Runs : Fresh(q) /\ Fresh(p) => q = p
      /\ \A q \in Runs : Fresh(q) => ~Creating /\ Blocked(q)
  BY DEF ApartInv
<1>3. Order' /\ Last(r)'
  BY <1>1, <1>2 DEF Order, Last, Runs
<1>4. \A q \in Runs : q # r => Executed(q)' = Executed(q) /\ Fresh(q)' = Fresh(q)
  BY <1>1 DEF Executed, Fresh, Again
<1>5. Executed(r)' = (by # "backfill") /\ ~Executed(r)
  BY <1>1 DEF Executed
<1>6. \A q \in Runs : Waits(q)'
  <2>1. run'[r].phase \in Unbegun /\ cache'[r].phase \in Unbegun /\ c'[r] \in {"idle", "peek"}
    BY <1>1, <1>2, <1>5 DEF Waits, Unbegun
  <2> QED
    BY <1>1, <1>2, <1>4, <2>1 DEF Waits
<1>7. \A q, p \in Runs : Fresh(q)' /\ Fresh(p)' => q = p
  <2>1. CASE by = "backfill"
    BY <1>2, <1>4, <1>5, <2>1 DEF Fresh
  <2>2. CASE by # "backfill"
    BY <1>2, <1>4, <2>2
  <2> QED
    BY <2>1, <2>2
<1>8. ASSUME NEW q \in Runs, Fresh(q)' PROVE ~Creating' /\ Blocked(q)'
  <2>1. CASE by = "backfill"
    <3>1. q # r /\ ~Executed(r)'
      BY <1>5, <1>8, <2>1 DEF Fresh
    <3>2. ~Creating /\ Creating' = Creating
      BY <1>2, <1>4, <1>8, <2>1, <3>1 DEF Creating
    <3> QED
      BY <1>1, <1>3, <3>1, <3>2 DEF Blocked
  <2>2. CASE by # "backfill"
    <3>1. q = r
      BY <1>2, <1>4, <1>8, <2>2
    <3> QED
      BY <1>1, <1>3, <2>2, <3>1 DEF Blocked
  <2> QED
    BY <2>1, <2>2
<1>9. OneExecution' /\ (running = (\E q \in Runs : h[q] \in Guarding))'
      /\ \A q \in Runs : h'[q] = "check" => ~running'
  BY <1>2 DEF OneExecution
<1> QED
  BY <1>3, <1>6, <1>7, <1>8, <1>9 DEF ApartInv

LEMMA ApartNext ==
  ASSUME OneCreator, TypeOK, TypeOK', JobsInv, ApartInv, [Next]_vars
  PROVE  ApartInv'
<1> SUFFICES ASSUME Undisturbed' PROVE ApartInv'
  BY DEF ApartInv
<1>1. Undisturbed /\ ~Crash /\ Names /\ ~Fault /\ (NoFault => faults = 0)
  BY Since, NoFaults DEF Undisturbed, JobsInv
<1>2. /\ Creates /\ Order /\ OneExecution /\ running = (\E r \in Runs : h[r] \in Guarding)
      /\ \A r \in Runs : Waits(r) /\ (h[r] = "check" => ~running)
      /\ \A r, q \in Runs : Fresh(r) /\ Fresh(q) => r = q
      /\ \A r \in Runs : Fresh(r) => ~Creating /\ Blocked(r)
  BY <1>1 DEF ApartInv
<1>3. ASSUME NEW r \in Runs, OnRunCreate(r) PROVE ApartInv'
  BY <1>1, <1>3, ApartHandler
<1>4. ASSUME NEW r \in Runs, RunReconcileTimer(r) PROVE ApartInv'
  BY <1>1, <1>4, ApartReconciler
\* The runs, and what the handlers have of them, stay as they are.
<1>5. ASSUME UNCHANGED <<run, running, h, handled, c>>,
             \A r \in Runs : cache'[r] \in {cache[r], run[r]}, Creates',
             Creating' => Creating \/ ~ActiveExists
      PROVE  ApartInv'
  <2>1. /\ OneExecution' /\ Order' /\ (running = (\E r \in Runs : h[r] \in Guarding))'
        /\ \A r \in Runs : h'[r] = "check" => ~running'
    BY <1>2, <1>5 DEF OneExecution, Order
  <2>2. \A r \in Runs : /\ Executed(r)' = Executed(r) /\ Fresh(r)' = Fresh(r)
                        /\ Blocked(r)' = Blocked(r)
    BY <1>5 DEF Executed, Fresh, Again, Blocked, Last
  <2>3. \A r \in Runs : Waits(r)'
    BY <1>2, <1>5, <2>2 DEF Waits
  <2>4. \A r \in Runs : Blocked(r) => ActiveExists
    BY DEF Blocked, ActiveExists, Active
  <2>5. \A r \in Runs : Fresh(r)' => ~Creating' /\ Blocked(r)'
    BY <1>2, <1>5, <2>2, <2>4
  <2> QED
    BY <1>2, <1>5, <2>1, <2>2, <2>3, <2>5 DEF ApartInv
<1>6. ASSUME NEW r \in Runs, Deliver(r) PROVE ApartInv'
  <2>1. /\ UNCHANGED <<run, running, h, handled, c, t, u>>
        /\ \A q \in Runs : cache'[q] \in {cache[q], run[q]}
    BY <1>6 DEF Deliver, api, TypeOK
  <2> QED
    BY <1>2, <1>5, <2>1 DEF Creates, Creating
<1>7. ASSUME NEW r \in Runs, GrowOld(r) PROVE FALSE
  BY <1>1, <1>7 DEF GrowOld, Undisturbed
<1>8. ASSUME TimerLook \/ TimerList \/ UiList PROVE ApartInv'
  <2>1. UNCHANGED <<run, running, h, handled, c, cache>>
    BY <1>8 DEF TimerLook, TimerList, UiList, api
  <2>2. Creates' /\ (Creating' => Creating \/ ~ActiveExists)
    BY <1>1, <1>2, <1>8 DEF TimerLook, TimerList, UiList, Creates, Creating
  <2> QED
    BY <1>5, <2>1, <2>2
<1>9. ASSUME TimerCreate \/ UiCreate \/ Backfill PROVE ApartInv'
  <2>1. PICK r \in Runs, by \in {"schedule", "manual", "backfill"} :
          CreateRun(r, by) /\ (by = "backfill" => Backfill)
                           /\ (by # "backfill" => TimerCreate \/ UiCreate)
    BY <1>9 DEF TimerCreate, UiCreate, Backfill
  <2>2. UNCHANGED <<running, h, handled, c, cache>>
    BY <1>9 DEF TimerCreate, UiCreate, Backfill
  <2>3. Creates' /\ (Backfill => UNCHANGED <<t, u>>)
    BY <1>2, <1>9 DEF TimerCreate, UiCreate, Backfill, Creates
  <2>4. TimerCreate \/ UiCreate => Creating /\ ~Creating'
    BY <1>2 DEF TimerCreate, UiCreate, Creates, Creating, OneCreator
  <2> QED
    BY <1>1, <2>1, <2>2, <2>3, <2>4, ApartCreated
<1>10. ASSUME JobEnds \/ JobExpires \/ UNCHANGED vars PROVE ApartInv'
  <2>1. UNCHANGED <<run, running, h, handled, c, cache, t, u>>
    BY <1>10 DEF JobEnds, JobExpires, vars, api
  <2> QED
    BY <1>2, <1>5, <2>1 DEF Creates, Creating
<1> QED
  BY <1>1, <1>3, <1>4, <1>6, <1>7, <1>8, <1>9, <1>10 DEF Next

LEMMA ApartInit == Init => ApartInv
<1> SUFFICES ASSUME Init PROVE ApartInv
  OBVIOUS
<1>1. /\ t = "idle" /\ u = "idle" /\ running = FALSE
      /\ \A r \in Runs : /\ run[r].phase = "absent" /\ cache[r].phase = "absent"
                         /\ h[r] = "idle" /\ c[r] = "idle"
  BY DEF Init, Absent
<1>2. \A r \in Runs : ~Fresh(r) /\ Waits(r) /\ h[r] \notin Guarding
  BY <1>1 DEF Fresh, Executed, Waits, Unbegun, Guarding
<1> QED
  BY <1>1, <1>2 DEF ApartInv, Creates, Order, OneExecution

\* _running, the creator's look at the active runs and on_run_create's rejection
\* keep two runs of one backup apart, however late kopf starts the handlers and
\* whatever the reconciler makes of a view that is not up to date, if one of
\* backup_timer and the dashboard creates them.
THEOREM NeverTwice == ASSUME OneCreator PROVE Spec => [](Undisturbed => OneExecution)
<1>1. TypeOK /\ JobsInv /\ ApartInv /\ [Next]_vars => (TypeOK /\ JobsInv /\ ApartInv)'
  BY TypeNext, JobsNext, ApartNext
<1>2. ApartInv => (Undisturbed => OneExecution)
  BY DEF ApartInv
<1> QED
  BY <1>1, <1>2, TypeInit, JobsInit, ApartInit, PTL DEF Spec

\* So the backup does not have two active Jobs either.
THEOREM NeverTwoJobs == ASSUME OneCreator PROVE Spec => [](Undisturbed => OneLiveJob)
<1>1. Undisturbed => crashes = 0 /\ faults = 0
  BY DEF Undisturbed
<1> QED
  BY <1>1, OneJobPerExecution, NeverTwice, PTL

-----------------------------------------------------------------------------
(* Retention                                                               *)

\* An active run is the last, and keeps the creators away; it is ended once, after
\* its Jobs have been named, and nothing makes it active again.
PruneInv ==
  Undisturbed =>
    /\ Creates /\ Order
    /\ \A r \in Runs : /\ run[r].by # "backfill"
                       /\ run[r].phase \in Active => Last(r) /\ ~Creating
                       /\ ~Past(r) => run[r].phase \in Active \union {"absent", "gone"}
                       /\ c[r] \in Ending => Past(r)
    /\ \A j \in jobs : Past(j.run)

\* PruneInv, once it is known what becomes of the run r.
LEMMA PruneStep ==
  ASSUME TypeOK, PruneInv, Undisturbed, NEW r \in Runs, Tended(r), UNCHANGED <<t, u>>,
         run'[r].phase \in Active => run[r].phase \in Active,
         ~Past(r)' => run'[r].phase \in Active \union {"absent", "gone"},
         \A q \in Runs : Past(q) => Past(q)',
         \A q \in Runs \ {r} : Past(q)' = Past(q) /\ c'[q] = c[q],
         c'[r] \in Ending => Past(r)',
         \A j \in jobs' : j \in jobs \/ Past(j.run)',
         jobs \subseteq JobRecord
  PROVE  PruneInv'
<1>1. Creates' /\ Order' /\ Creating' = Creating
  BY OrderKept DEF PruneInv, Creates, Creating
<1>2. ASSUME NEW q \in Runs
      PROVE  /\ run'[q].by # "backfill"
             /\ run'[q].phase \in Active => Last(q)' /\ ~Creating'
  <2>1. run'[q].by = run[q].by
    BY TendedKept
  <2>2. run'[q].phase \in Active => run[q].phase \in Active
    <3>1. q # r => run'[q].phase \in {run[q].phase, "gone"}
      BY TendedKept
    <3> QED
      BY <3>1 DEF Active
  <2>3. Last(q) => Last(q)'
    BY TendedKept DEF Last
  <2> QED
    BY <1>1, <2>1, <2>2, <2>3 DEF PruneInv
<1>3. ASSUME NEW q \in Runs
      PROVE  /\ ~Past(q)' => run'[q].phase \in Active \union {"absent", "gone"}
             /\ c'[q] \in Ending => Past(q)'
  <2>1. q # r => run'[q].phase \in {run[q].phase, "gone"}
    BY TendedKept
  <2> QED
    BY <2>1 DEF PruneInv
<1>4. \A j \in jobs' : Past(j.run)'
  BY DEF PruneInv, JobRecord
<1> QED
  BY <1>1, <1>2, <1>3, <1>4 DEF PruneInv

LEMMA PruneHandler ==
  ASSUME TypeOK, PruneInv, Undisturbed, Undisturbed', NEW r \in Runs, OnRunCreate(r)
  PROVE  PruneInv' /\ Tended(r)
<1>1. PICK to \in HandlerPc : /\ h' = [h EXCEPT ![r] = to] /\ Moves(r, to)
                              /\ UNCHANGED <<c, cache, t, u, old, crashes>>
  BY HandlerMove DEF Undisturbed
<1>2. /\ h \in [Runs -> HandlerPc] /\ h'[r] = to /\ \A q \in Runs : q # r => h'[q] = h[q]
      /\ jobs \subseteq JobRecord /\ attempt[r] \in Nat /\ run[r] \in RunRecord
  BY <1>1 DEF TypeOK
<1>3. Tended(r)
  BY <1>1 DEF Moves, Tended
<1>4. <<h[r], to>> \in Edges
  BY <1>2, HandlerEdge DEF Undisturbed
<1>5. handled' = IF h[r] = "done" THEN handled \union {r} ELSE handled
  BY <1>1, <1>4 DEF Moves, Pre, Edges
<1>6. h[r] # "prune" =>
        run'[r].phase = IF Exists(r) THEN Written(h[r], run[r].phase) ELSE run[r].phase
  BY HandlerPhases DEF Undisturbed
<1>7. h[r] = "prune" => run'[r].phase \in {run[r].phase, "gone"} /\ to = "done"
  BY <1>1, <1>4, PruneMoves DEF Moves, Pre, Edges
<1>8. h[r] = "idle" => r \notin handled
  BY <1>1 DEF Moves, Pre
<1>9. ~Past(r)' => ~Past(r) /\ h[r] \in Pre \union {"check", "idle"}
  <2>1. to = "idle" => r \in handled'
    BY <1>4, <1>5 DEF Edges
  <2>2. ~Past(r)' => to \in Pre \union {"check"}
    BY <1>2, <2>1 DEF Past
  <2>3. to \in Pre \union {"check"} => h[r] \in Pre \union {"check", "idle"}
    BY <1>4 DEF Edges, Pre
  <2> QED
    BY <1>8, <2>2, <2>3 DEF Past
<1>10. ~Past(r) => run[r].phase \in Active \union {"absent", "gone"}
  BY DEF PruneInv
<1>11. run'[r].phase \in Active => run[r].phase \in Active
  <2>1. CASE h[r] \in {"mark", "settle", "name"} /\ Exists(r)
    BY <1>10, <2>1 DEF Past, Pre, Exists
  <2>2. CASE ~(h[r] \in {"mark", "settle", "name"} /\ Exists(r))
    BY <1>6, <1>7, <2>2 DEF Written, Active
  <2> QED
    BY <2>1, <2>2
<1>12. ~Past(r)' => run'[r].phase \in Active \union {"absent", "gone"}
  <2>1. h[r] \in Pre \union {"check", "idle"} =>
          h[r] \notin {"prune", "reject", "abort", "markFailed", "succeed"}
    BY DEF Pre
  <2> QED
    BY <1>6, <1>9, <1>10, <2>1 DEF Written, Active
<1>13. \A q \in Runs \ {r} : Past(q)' = Past(q) /\ c'[q] = c[q]
  BY <1>1, <1>2, <1>5 DEF Past
<1>14. \A j \in jobs' : j \in jobs \/ Past(j.run)'
  <2>1. ASSUME NEW j \in jobs', j \notin jobs PROVE j.run = r /\ to = "wait"
    BY <1>1, <2>1 DEF Moves
  <2>2. to = "wait" => Past(r)'
    BY <1>2 DEF Past, Pre
  <2> QED
    BY <2>1, <2>2
<1>15. PruneInv'
  <2>1. \A q \in Runs : Past(q) => Past(q)'
    BY <1>9, <1>13
  <2>2. c'[r] \in Ending => Past(r)'
    BY <1>1, <2>1 DEF PruneInv
  <2> QED
    BY <1>1, <1>2, <1>3, <1>11, <1>12, <1>13, <1>14, <2>1, <2>2, PruneStep
<1> QED
  BY <1>3, <1>15

LEMMA PruneReconciler ==
  ASSUME TypeOK, PruneInv, Undisturbed, Undisturbed', NEW r \in Runs, RunReconcileTimer(r)
  PROVE  PruneInv' /\ Tended(r)
<1>1. PICK to \in ReconcilerPc :
        /\ c' = [c EXCEPT ![r] = to] /\ ReconcilerMoves(r, to)
        /\ UNCHANGED <<h, attempt, handled, cache, t, u, old, crashes>>
  BY ReconcilerMove DEF Undisturbed
<1>2. /\ Tended(r) /\ (\A q \in Runs : q # r => c'[q] = c[q]) /\ c'[r] = to
      /\ jobs' \subseteq jobs /\ jobs \subseteq JobRecord
  BY <1>1 DEF ReconcilerMoves, Tended, TypeOK
<1>3. run'[r].phase \in Active => run[r].phase \in Active
  <2>1. CASE Finish(r) \/ Kill(r)
    <3>1. {"Failed", "Succeeded"} \subseteq Phases /\ run[r] \in RunRecord /\ ~Fault
      BY NoFaults DEF Phases, Terminal, TypeOK, Undisturbed
    <3>2. ASSUME NEW p \in {"Failed", "Succeeded"}, PatchRun(r, [run[r] EXCEPT !.phase = p])
          PROVE  run'[r].phase \in {run[r].phase, p}
      <4>1. [run[r] EXCEPT !.phase = p].phase = p
        BY <3>1 DEF RunRecord
      <4> QED
        BY <3>1, <3>2, <4>1 DEF PatchRun, TypeOK
    <3> QED
      BY <2>1, <3>2 DEF Finish, Kill, Active
  <2>2. CASE UNCHANGED run
    BY <2>2
  <2>3. CASE PruneRuns
    BY <2>3, PruneMoves DEF Active
  <2> QED
    BY <2>1, <2>2, <2>3 DEF RunReconcileTimer, Reconcile, Peek, ReadJob, KillJob, ReconcileParent,
                            ReconcilePrune
<1>4. \A q \in Runs : Past(q)' = Past(q)
  BY <1>1 DEF Past
<1>5. c'[r] \in Ending => Past(r)
  <2>1. CASE c[r] \in Ending
    BY <2>1 DEF PruneInv
  <2>2. CASE c[r] \notin Ending /\ to \in Ending
    <3>1. PICK j \in SeenJob(r) : TRUE
      BY <1>1, <2>2 DEF ReconcilerMoves, Ending, Undisturbed
    <3> QED
      BY <3>1 DEF SeenJob, JobsNamed, PruneInv
  <2> QED
    BY <1>2, <2>1, <2>2
<1>6. ~Past(r)' => run'[r].phase \in Active \union {"absent", "gone"}
  <2>1. ~Past(r) => UNCHANGED run
    <3>1. ~Past(r) => c[r] \notin Ending
      BY DEF PruneInv
    <3> QED
      BY <1>1, <3>1 DEF ReconcilerMoves, Ending
  <2> QED
    BY <1>4, <2>1 DEF PruneInv
<1> QED
  BY <1>1, <1>2, <1>3, <1>4, <1>5, <1>6, PruneStep

\* The run created is the last, and the only active one.
LEMMA PruneCreated ==
  ASSUME OneCreator, TypeOK, TypeOK', PruneInv, Undisturbed, NEW r \in Runs,
         NEW by \in {"schedule", "manual"}, CreateRun(r, by), TimerCreate \/ UiCreate
  PROVE  PruneInv' /\ \A q \in Runs : run[q].phase \in Active => run'[q].phase # "gone"
<1>1. /\ run[r].phase = "absent" /\ \A q \in Runs : q < r => run[q].phase # "absent"
      /\ run'[r].phase = "Pending" /\ run'[r].by = by /\ \A q \in Runs : q # r => run'[q] = run[q]
  BY DEF CreateRun, NextRun, TypeOK
<1>2. /\ Creates /\ Order
      /\ \A q \in Runs : /\ run[q].by # "backfill"
                         /\ run[q].phase \in Active => Last(q) /\ ~Creating
                         /\ ~Past(q) => run[q].phase \in Active \union {"absent", "gone"}
                         /\ c[q] \in Ending => Past(q)
      /\ \A j \in jobs : Past(j.run)
  BY DEF PruneInv
<1>3. UNCHANGED <<jobs, h, handled, c>> /\ Creating /\ ~Creating' /\ Creates'
  <2>1. UNCHANGED <<jobs, h, handled, c>>
    BY DEF TimerCreate, UiCreate
  <2>2. Creating /\ ~Creating' /\ Creates'
    BY <1>2 DEF TimerCreate, UiCreate, Creates, Creating, OneCreator
  <2> QED
    BY <2>1, <2>2
<1>4. \A q \in Runs : run[q].phase \notin Active
  BY <1>2, <1>3
<1>5. Order' /\ Last(r)'
  BY <1>1, <1>2 DEF Order, Last, Runs
<1>6. \A q \in Runs : Past(q)' = Past(q)
  BY <1>3 DEF Past
<1>7. \A j \in jobs' : Past(j.run)'
  BY <1>2, <1>3 DEF Past
<1>8. ASSUME NEW q \in Runs
      PROVE  /\ run'[q].by # "backfill"
             /\ run'[q].phase \in Active => Last(q)' /\ ~Creating'
             /\ ~Past(q)' => run'[q].phase \in Active \union {"absent", "gone"}
             /\ c'[q] \in Ending => Past(q)'
  <2>1. CASE q = r
    BY <1>1, <1>2, <1>3, <1>5, <1>6, <2>1 DEF Active
  <2>2. CASE q # r
    BY <1>1, <1>2, <1>3, <1>4, <1>6, <2>2
  <2> QED
    BY <2>1, <2>2
<1>9. PruneInv'
  BY <1>3, <1>5, <1>7, <1>8 DEF PruneInv
<1> QED
  BY <1>4, <1>9

\* The newest run survives every pruning.
LEMMA TendedSpares ==
  ASSUME TypeOK, PruneInv, Undisturbed, NEW r \in Runs, Tended(r)
  PROVE  \A q \in Runs : run[q].phase \in Active => run'[q].phase # "gone"
<1> SUFFICES ASSUME NEW q \in Runs, run[q].phase \in Active PROVE run'[q].phase # "gone"
  OBVIOUS
<1>1. Last(q) /\ Exists(q)
  BY DEF PruneInv, Active, Exists
<1>2. CASE Patched(r)
  <2>1. CASE q = r
    BY <1>1, <1>2, <2>1 DEF Patched, Exists
  <2>2. CASE q # r
    BY <1>2, <2>2 DEF Patched, Active
  <2> QED
    BY <2>1, <2>2
<1>3. CASE PruneRuns \/ UNCHANGED run
  BY <1>1, <1>3, LastKept DEF Active
<1> QED
  BY <1>2, <1>3 DEF Tended

LEMMA PruneNext ==
  ASSUME OneCreator, "user" \notin Creators, TypeOK, TypeOK', PruneInv, [Next]_vars, Undisturbed'
  PROVE  PruneInv' /\ \A q \in Runs : run[q].phase \in Active => run'[q].phase # "gone"
<1> DEFINE Spares == \A q \in Runs : run[q].phase \in Active => run'[q].phase # "gone"
<1>1. Undisturbed /\ ~Crash /\ ~Backfill
  BY Since DEF Backfill
<1>2. /\ Creates /\ Order
      /\ \A r \in Runs : /\ run[r].by # "backfill"
                         /\ run[r].phase \in Active => Last(r) /\ ~Creating
                         /\ ~Past(r) => run[r].phase \in Active \union {"absent", "gone"}
                         /\ c[r] \in Ending => Past(r)
      /\ \A j \in jobs : Past(j.run)
  BY <1>1 DEF PruneInv
<1>3. ASSUME NEW r \in Runs, OnRunCreate(r) PROVE PruneInv' /\ Spares
  BY <1>1, <1>3, PruneHandler, TendedSpares
<1>4. ASSUME NEW r \in Runs, RunReconcileTimer(r) PROVE PruneInv' /\ Spares
  BY <1>1, <1>4, PruneReconciler, TendedSpares
<1>5. ASSUME UNCHANGED <<run, h, handled, c>>, \A j \in jobs' : \E k \in jobs : k.run = j.run,
             Creates', Creating' => Creating \/ ~ActiveExists
      PROVE  PruneInv' /\ Spares
  <2>1. Order' /\ \A r \in Runs : Last(r)' = Last(r) /\ Past(r)' = Past(r)
    BY <1>2, <1>5 DEF Order, Last, Past
  <2>2. \A j \in jobs' : Past(j.run)'
    BY <1>2, <1>5 DEF Past
  <2>3. \A r \in Runs : run[r].phase \in Active => ~Creating'
    BY <1>2, <1>5 DEF ActiveExists
  <2>4. PruneInv'
    BY <1>2, <1>5, <2>1, <2>2, <2>3 DEF PruneInv
  <2> QED
    BY <1>5, <2>4 DEF Active
<1>6. ASSUME NEW r \in Runs, GrowOld(r) PROVE FALSE
  BY <1>1, <1>6 DEF GrowOld, Undisturbed
<1>7. ASSUME NEW r \in Runs, Deliver(r) PROVE PruneInv' /\ Spares
  <2>1. UNCHANGED <<run, h, handled, c, jobs, t, u>>
    BY <1>7 DEF Deliver, api
  <2> QED
    BY <1>2, <1>5, <2>1 DEF Creates, Creating
<1>8. ASSUME TimerLook \/ TimerList \/ UiList PROVE PruneInv' /\ Spares
  <2>1. UNCHANGED <<run, h, handled, c, jobs>>
    BY <1>8 DEF TimerLook, TimerList, UiList, api
  <2>2. ~Fault
    BY NoFaults DEF Undisturbed
  <2>3. Creates' /\ (Creating' => Creating \/ ~ActiveExists)
    BY <1>2, <1>8, <2>2 DEF TimerLook, TimerList, UiList, Creates, Creating
  <2> QED
    BY <1>5, <2>1, <2>3
<1>9. ASSUME TimerCreate \/ UiCreate PROVE PruneInv' /\ Spares
  <2>1. PICK r \in Runs, by \in {"schedule", "manual"} : CreateRun(r, by)
    BY <1>9 DEF TimerCreate, UiCreate
  <2> QED
    BY <1>1, <1>9, <2>1, PruneCreated
<1>10. ASSUME JobEnds \/ JobExpires \/ UNCHANGED vars PROVE PruneInv' /\ Spares
  <2>1. UNCHANGED <<run, h, handled, c, t, u>>
    BY <1>10 DEF JobEnds, JobExpires, vars, api
  <2>2. \A j \in jobs' : \E k \in jobs : k.run = j.run
    <3>1. CASE JobEnds
      BY <3>1, JobEnded
    <3>2. CASE JobExpires \/ UNCHANGED vars
      BY <3>2 DEF JobExpires, vars, api
    <3> QED
      BY <1>10, <3>1, <3>2
  <2> QED
    BY <1>2, <1>5, <2>1, <2>2 DEF Creates, Creating
<1> QED
  BY <1>1, <1>3, <1>4, <1>6, <1>7, <1>8, <1>9, <1>10 DEF Next

LEMMA PruneInit == Init => PruneInv
<1> SUFFICES ASSUME Init PROVE PruneInv
  OBVIOUS
<1>1. /\ t = "idle" /\ u = "idle" /\ jobs = {}
      /\ \A r \in Runs : /\ run[r].phase = "absent" /\ run[r].by = "schedule" /\ c[r] = "idle"
  BY DEF Init, Absent
<1> QED
  BY <1>1 DEF PruneInv, Creates, Order, Active, Ending

\* Retention sorts by age alone, whatever the phase: until something is disturbed
\* no step removes a run that is not over, if one of backup_timer and the
\* dashboard creates the runs and no user records backfills.
THEOREM PruneSparesActive ==
  ASSUME OneCreator, "user" \notin Creators
  PROVE  Spec => [][Undisturbed' => \A r \in Runs : run[r].phase \in Active
                                                      => run'[r].phase # "gone"]_vars
<1> DEFINE Spares == \A r \in Runs : run[r].phase \in Active => run'[r].phase # "gone"
<1>1. TypeOK /\ TypeOK' /\ PruneInv /\ [Next]_vars => PruneInv'
  BY PruneNext DEF PruneInv
<1>2. TypeOK /\ TypeOK' /\ PruneInv /\ [Next]_vars => [Undisturbed' => Spares]_vars
  BY PruneNext
<1> QED
  BY <1>1, <1>2, PruneInit, TypeCorrect, PTL DEF Spec

\* Where the bounds leave no room for it nothing is ever disturbed.
LEMMA NothingDisturbs ==
  ASSUME MaxCrashes = 0, MaxFaults = 0, MaxOld = 0
  PROVE  Spec => []Undisturbed
<1>1. Init => Undisturbed
  BY DEF Init, Undisturbed
<1>2. TypeOK /\ TypeOK' /\ Undisturbed /\ [Next]_vars => Undisturbed'
  <2> SUFFICES ASSUME TypeOK, TypeOK', Undisturbed, [Next]_vars PROVE Undisturbed'
    OBVIOUS
  <2>1. crashes' = 0 /\ faults' = 0
    BY DEF TypeOK
  <2>2. ASSUME NEW r \in Runs, GrowOld(r) PROVE FALSE
    <3>1. Cardinality(old) = 0
      BY FS_EmptySet DEF Undisturbed
    <3> QED
      BY <2>2, <3>1 DEF GrowOld
  <2>3. UNCHANGED old
    <3>1. ASSUME NEW r \in Runs, OnRunCreate(r) \/ RunReconcileTimer(r) PROVE UNCHANGED old
      BY <2>1, <3>1, HandlerMove, ReconcilerMove
    <3>2. ASSUME NEW r \in Runs, Deliver(r) PROVE UNCHANGED old
      BY <3>2 DEF Deliver
    <3>3. CASE \/ TimerLook \/ TimerList \/ TimerCreate \/ UiList \/ UiCreate \/ Backfill
               \/ JobEnds \/ JobExpires \/ Crash \/ UNCHANGED vars
      BY <3>3 DEF TimerLook, TimerList, TimerCreate, UiList, UiCreate, Backfill, JobEnds,
                  JobExpires, Crash, vars
    <3> QED
      BY <2>2, <3>1, <3>2, <3>3 DEF Next
  <2> QED
    BY <2>1, <2>3 DEF Undisturbed
<1> QED
  BY <1>1, <1>2, TypeCorrect, PTL DEF Spec

\* The same as the run lifecycle_timer checks it: nothing is ever disturbed.
THEOREM ActiveNeverPruned ==
  ASSUME OneCreator, "user" \notin Creators, MaxCrashes = 0, MaxFaults = 0, MaxOld = 0
  PROVE  Spec => OnlyFinishedPruned
<1>1. ASSUME Undisturbed', [Undisturbed' => \A r \in Runs : run[r].phase \in Active
                                                   => run'[r].phase # "gone"]_vars
      PROVE  [\A r \in Runs : run[r].phase \in Active => run'[r].phase # "gone"]_vars
  BY <1>1
<1> QED
  BY <1>1, NothingDisturbs, PruneSparesActive, PTL DEF OnlyFinishedPruned

-----------------------------------------------------------------------------
(* Runs take turns                                                         *)

\* What on_run_create has written of a run, and told the parent, by the place it
\* is at; an absent run has no handler.
Tells(r) ==
  /\ run[r].phase = "absent" => h[r] = "idle" /\ r \notin handled
  /\ h[r] \in Guarding \ {"recordOk", "prune"} => run[r].phase \notin Terminal
  /\ h[r] = "recordOk" => run[r].phase \in {"Succeeded", "gone"}
  /\ h[r] = "markFailed" => Entries(r) = <<0, 1>>
  /\ h[r] = "prune" => Agrees(r)
  /\ h[r] = "done" \/ r \in handled => Agrees(r) \/ Entries(r) = <<0, 0>>
TellInv == Undisturbed => \A r \in Runs : Tells(r)

\* Why a handler does not begin, and what it tells the parent.
LEMMA HandlerReasons ==
  ASSUME TypeOK, faults' = 0, NEW r \in Runs, OnRunCreate(r)
  PROVE  /\ h[r] = "idle" /\ h'[r] = "done" => run[r].by = "backfill"
         /\ h[r] = "idle" /\ h'[r] = "reject" => running
         /\ h[r] = "check" /\ h'[r] = "done" => LiveJob(r)
         /\ h[r] = "recordOk" =>
              entries' = [entries EXCEPT ![r]["success"] = IF @ < 2 THEN @ + 1 ELSE 2]
         /\ h[r] = "recordFail" =>
              entries' = [entries EXCEPT ![r]["failed"] = IF @ < 2 THEN @ + 1 ELSE 2]
<1>0. h \in [Runs -> HandlerPc] /\ ~Fault
  BY NoFaults DEF TypeOK
<1> USE DEF HandlerStep
<1>2. CASE Enter(r) \/ Reject(r) \/ Check(r) \/ FetchParent(r) \/ Abort(r)
  BY <1>0, <1>2 DEF Enter, Reject, Check, FetchParent, Abort
<1>3. CASE MarkQueued(r) \/ Acquire(r) \/ SettlePatch(r) \/ ResetLog(r) \/ FirstLog(r)
  BY <1>0, <1>3 DEF MarkQueued, Acquire, SettlePatch, ResetLog, FirstLog
<1>4. CASE Prepare(r) \/ NameJob(r) \/ CreateJob(r) \/ AwaitJob(r)
  BY <1>0, <1>4 DEF Prepare, NameJob, CreateJob, AwaitJob
<1>5. CASE Reap(r) \/ CleanUp(r) \/ Reread(r) \/ Succeed(r)
  BY <1>0, <1>5 DEF Reap, CleanUp, Reread, Succeed
<1>6. CASE RecordResult(r)
  BY <1>0, <1>6 DEF RecordResult, Record
<1>7. CASE MarkFailed(r) \/ PruneAndRelease(r) \/ Return(r)
  BY <1>0, <1>7 DEF MarkFailed, PruneAndRelease, Return
<1> QED
  BY <1>2, <1>3, <1>4, <1>5, <1>6, <1>7 DEF OnRunCreate

\* A run that another's step leaves alone, or prunes.
LEMMA TellsStill ==
  ASSUME TypeOK, NEW q \in Runs, Tells(q), h'[q] = h[q], (q \in handled') = (q \in handled),
         entries'[q] = entries[q], run'[q].phase \in {run[q].phase, "gone"},
         run[q].phase = "absent" => run'[q].phase = "absent"
  PROVE  Tells(q)' /\ (Agrees(q) => Agrees(q)') /\ Entries(q)' = Entries(q)
<1>1. Entries(q)' = Entries(q)
  BY DEF Entries
<1>2. Agrees(q) => Agrees(q)'
  BY <1>1 DEF Agrees
<1>3. run'[q].phase = "absent" => run[q].phase = "absent"
  OBVIOUS
<1>4. run'[q].phase \in Terminal => run[q].phase \in Terminal
  BY DEF Terminal
<1> QED
  BY <1>1, <1>2, <1>3, <1>4 DEF Tells

LEMMA TellsHandler ==
  ASSUME TypeOK, Names, Undisturbed, Undisturbed', NEW r \in Runs, OnRunCreate(r),
         Once(r), Waits(r), Tells(r)
  PROVE  Tells(r)'
<1>1. PICK to \in HandlerPc : /\ h' = [h EXCEPT ![r] = to] /\ Moves(r, to)
                              /\ UNCHANGED <<c, cache, t, u, old, crashes>>
  BY HandlerMove DEF Undisturbed
<1>2. /\ h \in [Runs -> HandlerPc] /\ h'[r] = to /\ run[r] \in RunRecord
      /\ entries \in [Runs -> [Results -> 0..2]]
  BY <1>1 DEF TypeOK
<1>3. Tended(r)
  BY <1>1 DEF Moves, Tended
<1>4. /\ <<h[r], to>> \in Edges
      /\ h[r] = "reread" /\ to = "done" => run[r].phase = "Failed"
      /\ h[r] = "check" /\ to = "done" => LiveJob(r)
      /\ h[r] = "idle" /\ to = "done" => run[r].by = "backfill"
  BY <1>2, HandlerEdge, HandlerReasons DEF Undisturbed
<1>5. /\ handled' = IF h[r] = "done" THEN handled \union {r} ELSE handled
      /\ h[r] = "idle" => Exists(r) /\ r \notin handled
  BY <1>1, <1>4 DEF Moves, Pre, Edges
<1>6. h[r] # "prune" =>
        run'[r].phase = IF Exists(r) THEN Written(h[r], run[r].phase) ELSE run[r].phase
  BY HandlerPhases DEF Undisturbed
<1>7. h[r] = "prune" => run'[r].phase \in {run[r].phase, "gone"} /\ to = "done"
  BY <1>1, <1>4, PruneMoves DEF Moves, Pre, Edges
<1>8. (run'[r].phase = "absent") = (run[r].phase = "absent")
  BY <1>3, TendedKept
<1>9. r \in handled => h[r] = "idle"
  BY DEF Once
<1>10. run[r].phase # "absent"
  BY <1>4, <1>5 DEF Tells, Edges, Exists
<1>11. h[r] \notin {"recordOk", "recordFail"} => Entries(r)' = Entries(r)
  BY HandlerRecords DEF Undisturbed, Entries
<1>12. h[r] \notin {"markFailed", "prune", "done"} /\ r \notin handled => Entries(r) = <<0, 0>>
  BY DEF Once, Entries
\* The places, one after the other.
<1>13. CASE h[r] \in {"idle", "check", "reject", "abort"}
  <2>1. Entries(r)' = <<0, 0>> /\ r \notin handled'
    BY <1>5, <1>9, <1>11, <1>12, <1>13
  <2>2. h[r] = "check" => run[r].phase \in Unbegun /\ to # "done"
    <3>1. h[r] = "check" => Fresh(r)
      BY DEF Names, Fresh, Again
    <3> QED
      BY <1>4, <3>1 DEF Waits, LiveJob, Unbegun
  <2>3. to = "fetch" => h[r] = "check"
    BY <1>4, <1>13 DEF Edges
  <2>4. to \in {"done", "reject", "check", "fetch"}
    BY <1>4, <1>13 DEF Edges
  <2>5. to = "fetch" => run'[r].phase \notin Terminal
    BY <1>6, <2>2, <2>3 DEF Written, Unbegun, Terminal
  <2> QED
    BY <1>2, <1>8, <1>10, <2>1, <2>4, <2>5 DEF Tells, Guarding
<1>14. CASE h[r] \in Guarding \ {"succeed", "recordOk", "recordFail", "markFailed", "prune"}
  <2>1. run[r].phase \notin Terminal
    BY <1>14 DEF Tells
  <2>2. to \in Guarding \ {"recordOk", "markFailed", "prune"}
    BY <1>4, <1>14, <2>1 DEF Edges, Guarding, Terminal
  <2>3. run'[r].phase \notin Terminal
    BY <1>6, <1>14, <2>1 DEF Written, Terminal, Guarding
  <2>4. r \notin handled'
    BY <1>5, <1>9, <1>14 DEF Guarding
  <2> QED
    BY <1>2, <1>8, <1>10, <2>2, <2>3, <2>4 DEF Tells, Guarding
<1>15. CASE h[r] = "succeed"
  <2>1. to = "recordOk" /\ r \notin handled'
    BY <1>4, <1>5, <1>9, <1>15 DEF Edges
  <2>2. run'[r].phase \in {"Succeeded", "gone"}
    BY <1>6, <1>10, <1>15 DEF Written, Exists
  <2> QED
    BY <1>2, <1>8, <1>10, <2>1, <2>2 DEF Tells, Guarding
<1>16. CASE h[r] = "recordOk"
  <2>1. to = "prune" /\ r \notin handled'
    BY <1>4, <1>5, <1>9, <1>16 DEF Edges
  <2>2. Entries(r)' = <<1, 0>>
    BY <1>2, <1>9, <1>12, <1>16, HandlerReasons DEF Undisturbed, Entries, Results
  <2>3. run'[r].phase \in {"Succeeded", "gone"}
    BY <1>6, <1>16 DEF Written, Tells
  <2> QED
    BY <1>2, <1>8, <1>10, <2>1, <2>2, <2>3 DEF Tells, Agrees, Guarding
<1>17. CASE h[r] = "recordFail"
  <2>1. to = "markFailed" /\ r \notin handled'
    BY <1>4, <1>5, <1>9, <1>17 DEF Edges
  <2>2. Entries(r)' = <<0, 1>>
    BY <1>2, <1>9, <1>12, <1>17, HandlerReasons DEF Undisturbed, Entries, Results
  <2>3. run'[r].phase \notin Terminal
    BY <1>6, <1>17 DEF Written, Tells, Guarding
  <2> QED
    BY <1>2, <1>8, <1>10, <2>1, <2>2, <2>3 DEF Tells
<1>18. CASE h[r] = "markFailed"
  <2>1. to = "prune" /\ r \notin handled'
    BY <1>4, <1>5, <1>9, <1>18 DEF Edges
  <2>2. Entries(r)' = <<0, 1>>
    BY <1>11, <1>18 DEF Tells
  <2>3. run'[r].phase \in {"Failed", "gone"}
    BY <1>6, <1>10, <1>18 DEF Written, Exists
  <2> QED
    BY <1>2, <1>8, <1>10, <2>1, <2>2, <2>3 DEF Tells, Agrees, Guarding
<1>19. CASE h[r] = "prune"
  <2>1. Agrees(r)'
    BY <1>7, <1>11, <1>19 DEF Tells, Agrees
  <2> QED
    BY <1>2, <1>7, <1>8, <1>10, <1>19, <2>1 DEF Tells, Guarding
<1>20. CASE h[r] = "done"
  <2>1. to = "idle" /\ run'[r].phase = run[r].phase
    BY <1>4, <1>6, <1>20 DEF Edges, Written
  <2>2. Entries(r)' = Entries(r)
    BY <1>11, <1>20
  <2>3. Agrees(r)' \/ Entries(r)' = <<0, 0>>
    BY <1>20, <2>1, <2>2 DEF Tells, Agrees
  <2> QED
    BY <1>2, <1>8, <1>10, <2>1, <2>3 DEF Tells, Guarding
<1> QED
  BY <1>2, <1>13, <1>14, <1>15, <1>16, <1>17, <1>18, <1>19, <1>20 DEF HandlerPc

\* What on_run_create leaves alone, or prunes, when it is at another run.
LEMMA OthersTold ==
  ASSUME TypeOK, Undisturbed, Undisturbed', NEW r \in Runs, OnRunCreate(r), NEW q \in Runs \ {r},
         Tells(q)
  PROVE  /\ Tells(q)' /\ (Agrees(q) => Agrees(q)') /\ Entries(q)' = Entries(q)
         /\ h'[q] = h[q] /\ (q \in handled') = (q \in handled) /\ Executed(q)' = Executed(q)
<1>1. PICK to \in HandlerPc : h' = [h EXCEPT ![r] = to] /\ Moves(r, to)
  BY HandlerMove DEF Undisturbed
<1>2. h'[q] = h[q] /\ (q \in handled') = (q \in handled)
  BY <1>1 DEF Moves, TypeOK
<1>3. Tended(r)
  BY <1>1 DEF Moves, Tended
<1>4. /\ run'[q].phase \in {run[q].phase, "gone"} /\ Executed(q)' = Executed(q)
      /\ run[q].phase = "absent" => run'[q].phase = "absent"
  BY <1>3, TendedKept DEF Executed
<1>5. entries'[q] = entries[q]
  BY HandlerRecords DEF Undisturbed, TypeOK
<1> QED
  BY <1>2, <1>4, <1>5, TellsStill

LEMMA TellNext ==
  ASSUME OneCreator, ~LiveCache, TypeOK, TypeOK', JobsInv, OnceInv, ApartInv, TellInv, [Next]_vars
  PROVE  TellInv'
<1> SUFFICES ASSUME Undisturbed', NEW q \in Runs PROVE Tells(q)'
  BY DEF TellInv
<1>1. Undisturbed /\ ~Crash /\ Names /\ \A r \in Runs : Tells(r) /\ Once(r) /\ Waits(r)
  BY Since DEF TellInv, OnceInv, ApartInv, JobsInv, Undisturbed
<1>2. ASSUME UNCHANGED <<h, handled, entries, run>> PROVE Tells(q)'
  BY <1>1, <1>2 DEF Tells, Agrees, Entries
<1>3. ASSUME NEW r \in Runs, OnRunCreate(r) PROVE Tells(q)'
  <2>1. CASE q = r
    BY <1>1, <1>3, <2>1, TellsHandler
  <2>2. CASE q # r
    BY <1>1, <1>3, <2>2, OthersTold
  <2> QED
    BY <2>1, <2>2
<1>4. ASSUME NEW r \in Runs, RunReconcileTimer(r) PROVE Tells(q)'
  BY <1>1, <1>2, <1>4, ReconcilerRests DEF Undisturbed, Once
<1>5. ASSUME NEW r \in Runs, Deliver(r) PROVE Tells(q)'
  BY <1>2, <1>5 DEF Deliver, api
<1>6. ASSUME NEW r \in Runs, GrowOld(r) PROVE FALSE
  BY <1>6 DEF GrowOld, Undisturbed
<1>7. ASSUME TimerCreate \/ UiCreate \/ Backfill PROVE Tells(q)'
  <2>1. PICK r \in Runs, by \in {"schedule", "manual", "backfill"} : CreateRun(r, by)
    BY <1>7 DEF TimerCreate, UiCreate, Backfill
  <2>2. UNCHANGED <<h, handled, entries>>
    BY <1>7 DEF TimerCreate, UiCreate, Backfill
  <2>3. /\ run[r].phase = "absent" /\ run'[r].phase = "Pending"
        /\ q # r => run'[q] = run[q]
    BY <2>1 DEF CreateRun, NextRun, TypeOK
  <2>4. CASE q # r
    BY <1>1, <2>2, <2>3, <2>4 DEF Tells, Agrees, Entries
  <2>5. CASE q = r
    BY <1>1, <2>2, <2>3, <2>5 DEF Tells, Guarding, Terminal
  <2> QED
    BY <2>4, <2>5
<1>8. ASSUME \/ TimerLook \/ TimerList \/ UiList \/ JobEnds \/ JobExpires \/ UNCHANGED vars
      PROVE  Tells(q)'
  <2>1. UNCHANGED <<h, handled, entries, run>>
    BY <1>8 DEF TimerLook, TimerList, UiList, JobEnds, JobExpires, vars, api
  <2> QED
    BY <1>2, <2>1
<1> QED
  BY <1>1, <1>3, <1>4, <1>5, <1>6, <1>7, <1>8 DEF Next

\* A step that moves one run, or none.
LEMMA OneMoves ==
  ASSUME NEW r \in Runs, NEW to, \A q \in Runs : PlaceOf(q)' = IF q = r THEN to ELSE PlaceOf(q)
  PROVE  [q \in Runs |-> PlaceOf(q)]' = [[q \in Runs |-> PlaceOf(q)] EXCEPT ![r] = to]
OBVIOUS

LEMMA NoneMoves ==
  ASSUME \A q \in Runs : PlaceOf(q)' = PlaceOf(q)
  PROVE  UNCHANGED [q \in Runs |-> PlaceOf(q)]
OBVIOUS

\* An execution is one in both views.
LEMMA FreeIsUnguarded ==
  ASSUME Names
  PROVE  Turns!Free = (\A q \in Runs : h[q] \notin Guarding)
<1>1. ASSUME NEW q \in Runs
      PROVE  (PlaceOf(q) \in {"executing", "recorded"}) = (h[q] \in Guarding)
  <2>1. h[q] \in Guarding => Executed(q) /\ ~Again(q)
    BY DEF Names, Again, Guarding
  <2> QED
    BY <2>1 DEF PlaceOf
<1> QED
  BY <1>1 DEF Turns!Free

\* What on_run_create's steps are to its run.
LEMMA TurnOfHandler ==
  ASSUME TypeOK, Names, Undisturbed, Undisturbed', NEW r \in Runs, OnRunCreate(r), Once(r),
         Waits(r), Tells(r), Tells(r)', Once(r)',
         running = (\E q \in Runs : h[q] \in Guarding), h[r] = "check" => ~running
  PROVE  \/ PlaceOf(r)' = PlaceOf(r)
         \/ PlaceOf(r) = "waiting" /\ PlaceOf(r)' = "executing" /\ Turns!Free
         \/ PlaceOf(r) = "waiting" /\ PlaceOf(r)' = "refused" /\ ~Turns!Free
         \/ PlaceOf(r) = "executing" /\ PlaceOf(r)' = "recorded"
         \/ PlaceOf(r) = "recorded" /\ PlaceOf(r)' = "over"
<1>1. PICK to \in HandlerPc : /\ h' = [h EXCEPT ![r] = to] /\ Moves(r, to)
                              /\ UNCHANGED <<c, cache, t, u, old, crashes>>
  BY HandlerMove DEF Undisturbed
<1>2. h'[r] = to /\ running \in BOOLEAN
  BY <1>1 DEF TypeOK
<1>3. Tended(r)
  BY <1>1 DEF Moves, Tended
<1>4. /\ <<h[r], to>> \in Edges
      /\ h[r] = "reread" /\ to = "done" => run[r].phase = "Failed"
      /\ h[r] = "check" /\ to = "done" => LiveJob(r)
      /\ h[r] = "idle" /\ to = "done" => run[r].by = "backfill"
      /\ h[r] = "idle" /\ to = "reject" => running
  BY <1>2, HandlerEdge, HandlerReasons DEF Undisturbed
<1>5. /\ handled' = IF h[r] = "done" THEN handled \union {r} ELSE handled
      /\ h[r] = "idle" => Exists(r) /\ r \notin handled
  BY <1>1, <1>4 DEF Moves, Pre, Edges
<1>6. Executed(r)' = Executed(r)
  BY <1>3, TendedKept DEF Executed
<1>7. CASE ~Executed(r)
  BY <1>6, <1>7 DEF PlaceOf
<1>8. h[r] \notin {"recordOk", "recordFail"} => Entries(r)' = Entries(r)
  BY HandlerRecords DEF Undisturbed, Entries
<1>9. h[r] \notin {"markFailed", "prune", "done"} /\ r \notin handled => Entries(r) = <<0, 0>>
  BY DEF Once, Entries
<1>10. r \in handled => h[r] = "idle"
  BY DEF Once
<1>11. Turns!Free = (~running)
  BY FreeIsUnguarded
<1>12. Entries(r) = <<0, 0>> => ~Agrees(r)
  BY DEF Agrees
<1>13. Entries(r)' = <<0, 0>> => ~Agrees(r)'
  BY DEF Agrees
<1>14. CASE Executed(r) /\ h[r] = "idle"
  <2>1. /\ to \in {"reject", "check"} /\ r \notin handled' /\ Entries(r)' = <<0, 0>>
        /\ to = "reject" => running
    BY <1>4, <1>5, <1>8, <1>9, <1>14 DEF Edges, Executed
  <2>2. PlaceOf(r) = "waiting"
    BY <1>5, <1>14 DEF PlaceOf, Again
  <2>3. to = "check" => PlaceOf(r)' = "waiting"
    BY <1>2, <1>6, <1>14 DEF PlaceOf, Again
  <2>4. to = "reject" => PlaceOf(r)' = "refused"
    BY <1>2, <1>6, <1>13, <1>14, <2>1 DEF PlaceOf, Again, Guarding
  <2> QED
    BY <1>11, <2>1, <2>2, <2>3, <2>4
<1>15. CASE Executed(r) /\ h[r] = "check"
  <2>1. run[r].phase \in Unbegun
    BY <1>15 DEF Waits, Fresh, Again
  <2>2. to = "fetch"
    BY <1>4, <1>15, <2>1 DEF Edges, LiveJob, Unbegun
  <2>3. r \notin handled /\ r \notin handled'
    BY <1>5, <1>10, <1>15
  <2>4. PlaceOf(r) = "waiting"
    BY <1>15 DEF PlaceOf, Again
  <2>5. PlaceOf(r)' = "executing"
    BY <1>2, <1>6, <1>8, <1>9, <1>15, <2>2, <2>3 DEF PlaceOf, Again, Guarding
  <2> QED
    BY <1>11, <1>15, <2>4, <2>5
<1>16. CASE Executed(r) /\ h[r] \in {"reject", "abort"}
  <2>1. to = "done" /\ Entries(r)' = <<0, 0>> /\ Entries(r) = <<0, 0>>
    BY <1>4, <1>8, <1>9, <1>10, <1>16 DEF Edges
  <2>2. PlaceOf(r) = "refused"
    BY <1>12, <1>16, <2>1 DEF PlaceOf, Again, Guarding
  <2>3. PlaceOf(r)' = "refused"
    BY <1>2, <1>6, <1>13, <1>16, <2>1 DEF PlaceOf, Again, Guarding
  <2> QED
    BY <2>2, <2>3
<1>17. CASE Executed(r) /\ h[r] \in Guarding \ {"recordOk", "recordFail", "prune"}
  <2>1. to \in Guarding
    BY <1>4, <1>17 DEF Edges, Guarding, Tells, Terminal
  <2> QED
    BY <1>2, <1>6, <1>8, <1>17, <2>1 DEF PlaceOf, Again, Guarding
<1>18. CASE Executed(r) /\ h[r] \in {"recordOk", "recordFail"}
  <2>1. to \in {"prune", "markFailed"} /\ Entries(r) = <<0, 0>>
    BY <1>4, <1>9, <1>10, <1>18 DEF Edges
  <2>2. Entries(r)' # <<0, 0>>
    BY <1>2, <2>1 DEF Tells, Agrees
  <2>3. PlaceOf(r) = "executing"
    BY <1>18, <2>1 DEF PlaceOf, Again, Guarding
  <2>4. PlaceOf(r)' = "recorded"
    BY <1>2, <1>6, <1>18, <2>1, <2>2 DEF PlaceOf, Again, Guarding
  <2> QED
    BY <2>3, <2>4
<1>19. CASE Executed(r) /\ h[r] = "prune"
  <2>1. to = "done" /\ Entries(r) # <<0, 0>> /\ Entries(r)' = Entries(r)
    BY <1>4, <1>8, <1>19 DEF Edges, Tells, Agrees
  <2>2. Agrees(r)'
    BY <1>2, <2>1 DEF Tells
  <2>3. PlaceOf(r) = "recorded"
    BY <1>19, <2>1 DEF PlaceOf, Again, Guarding
  <2>4. PlaceOf(r)' = "over"
    BY <1>2, <1>6, <1>19, <2>1, <2>2 DEF PlaceOf, Again, Guarding
  <2> QED
    BY <2>3, <2>4
<1>20. CASE Executed(r) /\ h[r] = "done"
  <2>1. to = "idle" /\ r \in handled' /\ Entries(r)' = Entries(r)
    BY <1>4, <1>5, <1>8, <1>20 DEF Edges
  <2>2. run'[r].phase = run[r].phase
    BY <1>20, HandlerPhases DEF Undisturbed, Written
  <2>3. Agrees(r)' = Agrees(r)
    BY <2>1, <2>2 DEF Agrees
  <2> QED
    BY <1>2, <1>6, <1>20, <2>1, <2>3 DEF PlaceOf, Again, Guarding
<1> QED
  BY <1>7, <1>14, <1>15, <1>16, <1>17, <1>18, <1>19, <1>20 DEF HandlerPc, TypeOK

\* The places of all runs.
Row == [r \in Runs |-> PlaceOf(r)]

LEMMA TurnNext ==
  ASSUME OneCreator, ~LiveCache, TypeOK, TypeOK', JobsInv, OnceInv, ApartInv, TellInv,
         OnceInv', TellInv', [Next]_vars, Undisturbed'
  PROVE  [Turns!Next]_Row
<1>1. /\ Undisturbed /\ ~Crash /\ Names
      /\ \A r \in Runs : /\ Tells(r) /\ Once(r) /\ Waits(r) /\ (h[r] = "check" => ~running)
                         /\ Tells(r)' /\ Once(r)' /\ (Fresh(r) => ~Creating)
      /\ running = (\E q \in Runs : h[q] \in Guarding) /\ Creates
  BY Since DEF TellInv, OnceInv, ApartInv, JobsInv, Undisturbed
<1>2. ASSUME UNCHANGED <<h, handled, entries, run>> PROVE UNCHANGED Row
  BY <1>2 DEF Row, PlaceOf, Executed, Again, Agrees, Entries
<1>3. ASSUME NEW r \in Runs, NEW to, \A q \in Runs : PlaceOf(q)' = IF q = r THEN to ELSE PlaceOf(q),
             to # PlaceOf(r)
      PROVE  Row' # Row /\ Row' = [Row EXCEPT ![r] = to] /\ Row[r] = PlaceOf(r)
  <2>1. Row' = [Row EXCEPT ![r] = to]
    BY <1>3, OneMoves DEF Row
  <2>2. Row[r] = PlaceOf(r) /\ Row'[r] = to
    BY <1>3 DEF Row
  <2> QED
    BY <1>3, <2>1, <2>2
<1>4. ASSUME NEW r \in Runs, OnRunCreate(r) PROVE [Turns!Next]_Row
  <2>1. \A q \in Runs \ {r} : PlaceOf(q)' = PlaceOf(q)
    <3> SUFFICES ASSUME NEW q \in Runs \ {r} PROVE PlaceOf(q)' = PlaceOf(q)
      OBVIOUS
    <3>1. /\ Agrees(q) => Agrees(q)'
          /\ Entries(q)' = Entries(q) /\ h'[q] = h[q] /\ (q \in handled') = (q \in handled)
          /\ Executed(q)' = Executed(q)
      BY <1>1, <1>4, OthersTold
    <3>2. Executed(q) /\ ~Again(q) /\ h[q] \notin Guarding /\ ~Agrees(q) => Entries(q) = <<0, 0>>
      BY <1>1 DEF Again, Tells, Once, Entries, Guarding
    <3>3. Entries(q)' = <<0, 0>> => ~Agrees(q)'
      BY DEF Agrees
    <3>4. Again(q)' = Again(q)
      BY <3>1 DEF Again
    <3> QED
      BY <3>1, <3>2, <3>3, <3>4 DEF PlaceOf
  <2>2. \/ PlaceOf(r)' = PlaceOf(r)
        \/ PlaceOf(r) = "waiting" /\ PlaceOf(r)' = "executing" /\ Turns!Free
        \/ PlaceOf(r) = "waiting" /\ PlaceOf(r)' = "refused" /\ ~Turns!Free
        \/ PlaceOf(r) = "executing" /\ PlaceOf(r)' = "recorded"
        \/ PlaceOf(r) = "recorded" /\ PlaceOf(r)' = "over"
    BY <1>1, <1>4, TurnOfHandler
  <2>3. CASE PlaceOf(r)' = PlaceOf(r)
    BY <2>1, <2>3, NoneMoves DEF Row
  <2>4. CASE PlaceOf(r)' # PlaceOf(r)
    <3>1. Row' # Row /\ Row' = [Row EXCEPT ![r] = PlaceOf(r)'] /\ Row[r] = PlaceOf(r)
      BY <1>3, <2>1, <2>4
    <3>2. Turns!Begin(r) \/ Turns!Refuse(r) \/ Turns!Record(r) \/ Turns!End(r)
      BY <2>2, <2>4, <3>1 DEF Turns!Begin, Turns!Refuse, Turns!Record, Turns!End, Turns!Goes, Row
    <3> QED
      BY <3>1, <3>2 DEF Turns!Next, Row
  <2> QED
    BY <2>3, <2>4
<1>5. ASSUME NEW r \in Runs, RunReconcileTimer(r) PROVE UNCHANGED Row
  BY <1>1, <1>2, <1>5, ReconcilerRests DEF Undisturbed, Once
<1>6. ASSUME NEW r \in Runs, Deliver(r) PROVE UNCHANGED Row
  BY <1>2, <1>6 DEF Deliver, api
<1>7. ASSUME NEW r \in Runs, GrowOld(r) PROVE FALSE
  BY <1>7 DEF GrowOld, Undisturbed
<1>8. ASSUME TimerCreate \/ UiCreate \/ Backfill PROVE [Turns!Next]_Row
  <2>1. PICK r \in Runs, by \in {"schedule", "manual", "backfill"} :
          CreateRun(r, by) /\ (by # "backfill" => TimerCreate \/ UiCreate)
    BY <1>8 DEF TimerCreate, UiCreate, Backfill
  <2>2. UNCHANGED <<h, handled, entries>>
    BY <1>8 DEF TimerCreate, UiCreate, Backfill
  <2>3. /\ run[r].phase = "absent" /\ run'[r].phase = "Pending" /\ run'[r].by = by
        /\ \A q \in Runs : q # r => run'[q] = run[q]
    BY <2>1 DEF CreateRun, NextRun, TypeOK
  <2>4. \A q \in Runs \ {r} : PlaceOf(q)' = PlaceOf(q)
    BY <2>2, <2>3 DEF PlaceOf, Executed, Again, Agrees, Entries
  <2>5. PlaceOf(r) = "new"
    BY <2>3 DEF PlaceOf, Executed
  <2>6. CASE by = "backfill"
    <3>1. PlaceOf(r)' = "new"
      BY <2>3, <2>6 DEF PlaceOf, Executed
    <3> QED
      BY <2>4, <2>5, <3>1, NoneMoves DEF Row
  <2>7. CASE by # "backfill"
    <3>1. PlaceOf(r)' = "waiting"
      <4>1. h'[r] = "idle" /\ r \notin handled'
        BY <1>1, <2>2, <2>3 DEF Tells
      <4>2. Executed(r)'
        BY <2>3, <2>7 DEF Executed
      <4> QED
        BY <4>1, <4>2 DEF PlaceOf, Again
    <3>2. \A q \in Runs : PlaceOf(q) # "waiting"
      <4>1. Creating
        BY <2>1, <2>7 DEF TimerCreate, UiCreate, Creating
      <4>2. \A q \in Runs : ~Fresh(q)
        BY <1>1, <4>1
      <4> QED
        BY <4>2 DEF PlaceOf, Fresh
    <3>3. Row' # Row /\ Row' = [Row EXCEPT ![r] = "waiting"] /\ Row[r] = "new"
      BY <1>3, <2>4, <2>5, <3>1
    <3>4. Turns!Ask(r)
      BY <3>2, <3>3 DEF Turns!Ask, Turns!Goes, Row
    <3> QED
      BY <3>3, <3>4 DEF Turns!Next, Row
  <2> QED
    BY <2>6, <2>7
<1>9. ASSUME \/ TimerLook \/ TimerList \/ UiList \/ JobEnds \/ JobExpires \/ UNCHANGED vars
      PROVE  UNCHANGED Row
  <2>1. UNCHANGED <<h, handled, entries, run>>
    BY <1>9 DEF TimerLook, TimerList, UiList, JobEnds, JobExpires, vars, api
  <2> QED
    BY <1>2, <2>1
<1> QED
  BY <1>1, <1>4, <1>5, <1>6, <1>7, <1>8, <1>9 DEF Next

LEMMA TellInit == Init => TellInv
<1> SUFFICES ASSUME Init, NEW r \in Runs PROVE Tells(r)
  BY DEF TellInv
<1>1. /\ run[r].phase = "absent" /\ h[r] = "idle" /\ handled = {}
  BY DEF Init, Absent
<1> QED
  BY <1>1 DEF Tells, Guarding

LEMMA TurnInit == Init => Turns!Init
<1> SUFFICES ASSUME Init, NEW r \in Runs PROVE PlaceOf(r) = "new"
  BY DEF Turns!Init
<1> QED
  BY DEF Init, Absent, PlaceOf, Executed

\* Until something is disturbed each step of the run life cycle is a step of the
\* abstract runs or none: one waits and one is executed at a time, each once, and
\* what has been executed is recorded once, for what its phase says -- if one of
\* backup_timer and the dashboard creates the runs (beside any backfills) and
\* kopf's view of a run rests while its handler is in progress.
THEOREM RunsTakeTurns ==
  ASSUME OneCreator, ~LiveCache
  PROVE  Spec => Turns!Init /\ [][Undisturbed' => [Turns!Next]_Row]_vars
<1> DEFINE Inv == TypeOK /\ JobsInv /\ OnceInv /\ ApartInv /\ TellInv
<1>1. Init => Inv
  BY TypeInit, JobsInit, OnceInit, ApartInit, TellInit
<1>2. Inv /\ [Next]_vars => Inv'
  BY TypeNext, JobsNext, OnceNext, ApartNext, TellNext
<1>3. Inv /\ Inv' /\ [Next]_vars => [Undisturbed' => [Turns!Next]_Row]_vars
  BY TurnNext
<1> QED
  BY <1>1, <1>2, <1>3, TurnInit, PTL DEF Spec

\* The same as the run lifecycle_timer checks it: where nothing is ever disturbed
\* the run life cycle implements RunTurns.
THEOREM LifecycleImplementsTurns ==
  ASSUME OneCreator, ~LiveCache, MaxCrashes = 0, MaxFaults = 0, MaxOld = 0
  PROVE  Spec => InTurn
<1>1. ASSUME Undisturbed', [Undisturbed' => [Turns!Next]_Row]_vars
      PROVE  [Turns!Next]_Row
  <2>1. UNCHANGED vars => UNCHANGED Row
    BY DEF vars, api, Row, PlaceOf, Executed, Again, Agrees, Entries
  <2> QED
    BY <1>1, <2>1
<1> QED
  BY <1>1, NothingDisturbs, RunsTakeTurns, PTL DEF InTurn, Turns!Spec, Row
=============================================================================
