---------------------------- MODULE RunLifecycle ----------------------------
(***************************************************************************)
(* The life of the K8siBackupRun objects of ONE K8siBackup: who creates    *)
(* them, which operator coroutines write them, and in which order.         *)
(*                                                                         *)
(* Processes: on_run_create (one instance per run object, started by       *)
(* kopf), run_reconcile_timer (one per run object), backup_timer, the      *)
(* dashboard's trigger endpoint, the Kubernetes Job controller.  The       *)
(* operator is one asyncio program: a coroutine runs undisturbed from one  *)
(* await to the next, so an action is the code between two awaits together *)
(* with the API call it awaits.                                            *)
(*                                                                         *)
(* Time is abstracted to the set of old runs: a run more than five minutes *)
(* old is in it, and may or may not be past the (longer) Running threshold. *)
(* An API call that can fail takes one of MaxFaults faults; the code's      *)
(* reaction is modelled.                                                   *)
(***************************************************************************)
EXTENDS Naturals, FiniteSets

CONSTANTS
  MaxRuns,        \* run objects ever created (a bound on the model)
  Keep,           \* K8SI_RUN_RETENTION
  MaxConcurrent,  \* K8SI_MAX_CONCURRENT_BACKUPS
  Settle,         \* BOOLEAN: K8SI_BACKUP_SETTLE_SECONDS > 0
  Creators,       \* who creates runs: a subset of {"timer", "ui", "user"}
  LiveCache,      \* BOOLEAN: kopf refreshes a timer's view of a run while
                  \* on_run_create of that run is still in progress
  MaxCrashes,     \* operator crashes (a bound on the model)
  MaxFaults,      \* failing API calls (a bound on the model)
  MaxOld          \* runs that get old before they are terminal (a bound)

ASSUME BoundsAssumption == /\ MaxRuns \in Nat
                           /\ MaxCrashes \in Nat
                           /\ MaxFaults \in Nat
                           /\ MaxOld \in Nat
ASSUME KeepAssumption == Keep \in Nat \ {0}              \* max(1, int(raw))
ASSUME ConcurrentAssumption == MaxConcurrent \in Nat \ {0}

Runs == 1..MaxRuns                \* in creation order (timestamp, then name)

\* "absent" and "gone" are the object's absence; "Pending" is what the code
\* reads when status.phase is not set.
Active == {"Pending", "Queued", "Running"}
Terminal == {"Succeeded", "Failed"}
Phases == Active \union Terminal \union {"absent", "gone"}

Results == {"success", "failed"}

VARIABLES
  run,      \* the run objects in the API server
  jobs,     \* the Job objects in the API server
  backed,   \* runs one of whose Jobs ran to completion (history variable)
  entries,  \* how often each run is in the parent's recentRuns, by result
  running,  \* is the backup's key in _running?
  h,        \* on_run_create: where each invocation is
  attempt,  \* Jobs on_run_create has named for each run so far
  handled,  \* runs whose on_run_create kopf has recorded as finished
  c,        \* run_reconcile_timer: where it is, per run
  cache,    \* the run status kopf hands to run_reconcile_timer
  t,        \* backup_timer
  u,        \* the dashboard's trigger endpoint
  old,      \* runs older than the reconciler's Pending threshold
  crashes, faults

api == <<run, jobs, backed, entries>>
vars == <<run, jobs, backed, entries, running, h, attempt, handled,
          c, cache, t, u, old, crashes, faults>>

RunRecord == [phase: Phases, log: BOOLEAN, job: Nat,
              by: {"schedule", "manual", "backfill"}]
JobRecord == [run: Runs, no: Nat, state: {"active", "complete", "failed"}]

Guarding == {"fetch", "mark", "park", "settle", "reset", "first", "prep",
             "name", "create", "wait", "reap", "reapFailed", "clean",
             "reread", "succeed", "recordOk", "recordFail", "markFailed",
             "prune"}             \* between _running.add and _running.discard
HandlerPc == Guarding \union {"idle", "reject", "check", "abort", "done"}
InSemaphore == {"settle", "reset", "first", "prep", "name", "create",
                "wait", "reap", "reapFailed", "clean"}
ReconcilerPc == {"idle", "peek", "readJob", "finish", "finishParent", "kill",
                 "killJob", "killParent", "prune"}

Absent == [phase |-> "absent", log |-> FALSE, job |-> 0, by |-> "schedule"]

Init == /\ run = [r \in Runs |-> Absent]
        /\ cache = [r \in Runs |-> Absent]
        /\ jobs = {}
        /\ backed = {}
        /\ entries = [r \in Runs |-> [x \in Results |-> 0]]
        /\ running = FALSE
        /\ h = [r \in Runs |-> "idle"]
        /\ attempt = [r \in Runs |-> 0]
        /\ handled = {}
        /\ c = [r \in Runs |-> "idle"]
        /\ t = "idle" /\ u = "idle"
        /\ old = {}
        /\ crashes = 0 /\ faults = 0

-----------------------------------------------------------------------------
(* The API server as the code uses it.                                     *)

Exists(r) == run[r].phase \notin {"absent", "gone"}
ActiveExists == \E r \in Runs : run[r].phase \in Active
JobsNamed(r, no) == {j \in jobs : j.run = r /\ j.no = no}

Fault == faults < MaxFaults /\ faults' = faults + 1
NoFault == faults' = faults

\* _patch_run_status: a merge patch without any precondition on the current
\* phase; an error (a pruned object's 404 too) is logged and swallowed.
PatchRun(r, fields) ==
  \/ /\ run' = IF Exists(r) THEN [run EXCEPT ![r] = fields] ELSE run
     /\ NoFault
  \/ /\ Exists(r) /\ Fault
     /\ UNCHANGED run

\* _update_parent_backup: one history entry per call.  The read-modify-write
\* inside is the subject of module ParentStatus; here it takes effect or not.
Record(r, result) ==
  \/ /\ entries' = [entries EXCEPT ![r][result] = IF @ < 2 THEN @ + 1 ELSE 2]
     /\ NoFault
  \/ Fault /\ UNCHANGED entries

\* _prune_old_runs: sorted by creation, everything but the newest Keep goes,
\* whatever its phase.
\* Mutant: one run too many is deleted.
OutdatedTooMany == {r \in Runs : /\ Exists(r)
                                 /\ Cardinality({q \in Runs : q > r /\ Exists(q)}) + 1 >= Keep}
Outdated == {r \in Runs : /\ Exists(r)
                          /\ Cardinality({q \in Runs : q > r /\ Exists(q)}) >= Keep}
\* A failing list keeps all of them, a failing delete keeps that one.
PruneRuns ==
  \E kept \in SUBSET Outdated :
    /\ run' = [r \in Runs |-> IF r \in Outdated \ kept THEN [run[r] EXCEPT !.phase = "gone"]
                                                        ELSE run[r]]
    /\ IF kept = {} THEN NoFault ELSE Fault

NextRun(r) == run[r].phase = "absent" /\ \A q \in Runs : q < r => run[q].phase # "absent"
CreateRun(r, by) ==
  /\ NextRun(r)
  /\ run' = [run EXCEPT ![r] = [phase |-> "Pending", log |-> FALSE, job |-> 0, by |-> by]]

-----------------------------------------------------------------------------
(* on_run_create                                                           *)

HandlerStep(r, from, to) ==
  /\ h[r] = from
  /\ h' = [h EXCEPT ![r] = to]
  /\ UNCHANGED <<c, cache, t, u, old, crashes>>

\* kopf invokes the handler for every run whose creation it has not yet
\* recorded as handled: a backfill returns, a busy backup's run is rejected.
Enter(r) ==
  /\ Exists(r) /\ r \notin handled
  /\ \/ run[r].by = "backfill" /\ HandlerStep(r, "idle", "done")
     \/ run[r].by # "backfill" /\ running /\ HandlerStep(r, "idle", "reject")
     \/ run[r].by # "backfill" /\ ~running /\ HandlerStep(r, "idle", "check")
  /\ UNCHANGED <<api, running, attempt, handled, faults>>

Reject(r) ==
  /\ HandlerStep(r, "reject", "done")
  /\ PatchRun(r, [run[r] EXCEPT !.phase = "Failed"])
  /\ UNCHANGED <<jobs, backed, entries, running, attempt, handled>>

\* Mutant: a restarted operator does not look for the Job of a Running run.
LiveJobUnchecked(r) == FALSE

\* _run_has_live_job, any error counting as "no"; the key is added to
\* _running only after this await.
LiveJob(r) == run[r].phase = "Running" /\ JobsNamed(r, run[r].job) # {}
Check(r) ==
  /\ \/ LiveJob(r) /\ HandlerStep(r, "check", "done") /\ NoFault /\ UNCHANGED running
     \/ /\ HandlerStep(r, "check", "fetch")
        /\ IF LiveJob(r) THEN Fault ELSE NoFault
        /\ running' = TRUE
  /\ UNCHANGED <<api, attempt, handled>>

\* Mutant: the early return forgets _running.discard.
FetchParentKeepsGuard(r) ==
  /\ \/ HandlerStep(r, "fetch", "mark") /\ NoFault
     \/ HandlerStep(r, "fetch", "abort") /\ Fault
  /\ UNCHANGED <<api, running, attempt, handled>>

FetchParent(r) ==
  /\ \/ HandlerStep(r, "fetch", "mark") /\ NoFault /\ UNCHANGED running
     \/ HandlerStep(r, "fetch", "abort") /\ Fault /\ running' = FALSE
  /\ UNCHANGED <<api, attempt, handled>>

Abort(r) ==
  /\ HandlerStep(r, "abort", "done")
  /\ PatchRun(r, [run[r] EXCEPT !.phase = "Failed"])
  /\ UNCHANGED <<jobs, backed, entries, running, attempt, handled>>

MarkQueued(r) ==
  /\ HandlerStep(r, "mark", "park")
  /\ PatchRun(r, [run[r] EXCEPT !.phase = "Queued"])
  /\ UNCHANGED <<jobs, backed, entries, running, attempt, handled>>

\* run_backup: `async with pool.SEMAPHORE`.  Other backups hold it too, so
\* the step may be arbitrarily late.
Acquire(r) ==
  /\ HandlerStep(r, "park", IF Settle THEN "settle" ELSE "reset")
  /\ Cardinality({q \in Runs : h[q] \in InSemaphore}) < MaxConcurrent
  /\ UNCHANGED <<api, running, attempt, handled, faults>>

\* _settle_before_start re-asserts Queued, whatever the phase is by now.
SettlePatch(r) ==
  /\ HandlerStep(r, "settle", "reset")
  /\ PatchRun(r, [run[r] EXCEPT !.phase = "Queued", !.log = TRUE])
  /\ UNCHANGED <<jobs, backed, entries, running, attempt, handled>>

\* _run_backup: {"log": []}, the orphan sweep, the first log entry.
ResetLog(r) ==
  /\ HandlerStep(r, "reset", "first")
  /\ PatchRun(r, [run[r] EXCEPT !.log = FALSE])
  /\ UNCHANGED <<jobs, backed, entries, running, attempt, handled>>

FirstLog(r) ==
  /\ \/ /\ HandlerStep(r, "first", "prep")
        /\ PatchRun(r, [run[r] EXCEPT !.log = TRUE])
     \/ HandlerStep(r, "first", "recordFail") /\ Fault /\ UNCHANGED run
  /\ UNCHANGED <<jobs, backed, entries, running, attempt, handled>>

\* Quiesce, hook, snapshot, ephemeral PVC (module Pipeline): done, or failed
\* and logged.
Prepare(r) ==
  /\ \/ HandlerStep(r, "prep", "name") \/ HandlerStep(r, "prep", "recordFail")
  /\ PatchRun(r, [run[r] EXCEPT !.log = TRUE])
  /\ UNCHANGED <<jobs, backed, entries, running, attempt, handled>>

\* _on_job_created, awaited BEFORE the Job is created.
NameJob(r) ==
  /\ HandlerStep(r, "name", "create")
  /\ attempt' = [attempt EXCEPT ![r] = @ + 1]
  /\ PatchRun(r, [run[r] EXCEPT !.phase = "Running", !.job = attempt[r] + 1])
  /\ UNCHANGED <<jobs, backed, entries, running, handled>>

CreateJob(r) ==
  /\ \/ /\ HandlerStep(r, "create", "wait") /\ NoFault
        /\ jobs' = jobs \union {[run |-> r, no |-> attempt[r], state |-> "active"]}
     \/ HandlerStep(r, "create", "recordFail") /\ Fault /\ UNCHANGED jobs
  /\ UNCHANGED <<run, backed, entries, running, attempt, handled>>

\* Mutant: a Job that has ended in any way counts as completed.
CompletedOrFailed(r) == \E j \in JobsNamed(r, attempt[r]) : j.state # "active"

\* _wait_job_complete_sync: success, or an exception: the Job failed, was
\* deleted under the poll (404), did not finish within jobTimeout; or a read
\* of a completed Job failed.
Completed(r) == \E j \in JobsNamed(r, attempt[r]) : j.state = "complete"
AwaitJob(r) ==
  /\ \/ Completed(r) /\ HandlerStep(r, "wait", "reap") /\ NoFault
     \/ /\ HandlerStep(r, "wait", "reapFailed")
        /\ IF Completed(r) THEN Fault ELSE NoFault
  /\ UNCHANGED <<api, running, attempt, handled>>

\* _run_job's finally: the Job is deleted, an error is swallowed.
Reap(r) ==
  /\ \/ HandlerStep(r, "reap", "clean") \/ HandlerStep(r, "reapFailed", "recordFail")
  /\ \/ jobs' = jobs \ JobsNamed(r, attempt[r]) /\ NoFault
     \/ Fault /\ UNCHANGED jobs
  /\ UNCHANGED <<run, backed, entries, running, attempt, handled>>

\* Snapshot and PVC are deleted; here an error turns the success into failure.
CleanUp(r) ==
  /\ \/ HandlerStep(r, "clean", "reread") /\ NoFault
     \/ HandlerStep(r, "clean", "recordFail") /\ Fault
  /\ UNCHANGED <<api, running, attempt, handled>>

\* "timer may have killed the run while backup was executing"
Reread(r) ==
  /\ \/ /\ run[r].phase = "Failed" /\ HandlerStep(r, "reread", "done") /\ NoFault
        /\ running' = FALSE
     \/ /\ HandlerStep(r, "reread", "succeed")
        /\ IF run[r].phase = "Failed" THEN Fault ELSE NoFault
        /\ UNCHANGED running
  /\ UNCHANGED <<api, attempt, handled>>

Succeed(r) ==
  /\ HandlerStep(r, "succeed", "recordOk")
  /\ PatchRun(r, [run[r] EXCEPT !.phase = "Succeeded", !.job = attempt[r]])
  /\ UNCHANGED <<jobs, backed, entries, running, attempt, handled>>

\* Mutant: the parent is not told of a failure.
RecordSuccessOnly(r) ==
  /\ \/ HandlerStep(r, "recordOk", "prune") /\ Record(r, "success")
     \/ HandlerStep(r, "recordFail", "markFailed") /\ NoFault /\ UNCHANGED entries
  /\ UNCHANGED <<run, jobs, backed, running, attempt, handled>>

\* The parent is updated after a success and BEFORE a failure is marked.
RecordResult(r) ==
  /\ \/ HandlerStep(r, "recordOk", "prune") /\ Record(r, "success")
     \/ HandlerStep(r, "recordFail", "markFailed") /\ Record(r, "failed")
  /\ UNCHANGED <<run, jobs, backed, running, attempt, handled>>

MarkFailed(r) ==
  /\ HandlerStep(r, "markFailed", "prune")
  /\ PatchRun(r, [run[r] EXCEPT !.phase = "Failed"])
  /\ UNCHANGED <<jobs, backed, entries, running, attempt, handled>>

PruneAndRelease(r) ==
  /\ HandlerStep(r, "prune", "done")
  /\ PruneRuns
  /\ running' = FALSE
  /\ UNCHANGED <<jobs, backed, entries, attempt, handled>>

\* Mutant: the handler ends with an exception, so kopf invokes it again.
ReturnRaises(r) ==
  /\ HandlerStep(r, "done", "idle")
  /\ UNCHANGED <<api, running, attempt, handled, faults>>

\* kopf records that the handler returned; a crash before this invokes it again.
Return(r) ==
  /\ HandlerStep(r, "done", "idle")
  /\ handled' = handled \union {r}
  /\ UNCHANGED <<api, running, attempt, faults>>

OnRunCreate(r) ==
  \/ Enter(r) \/ Reject(r) \/ Check(r) \/ FetchParent(r) \/ Abort(r)
  \/ MarkQueued(r) \/ Acquire(r) \/ SettlePatch(r) \/ ResetLog(r) \/ FirstLog(r)
  \/ Prepare(r) \/ NameJob(r) \/ CreateJob(r) \/ AwaitJob(r)
  \/ Reap(r) \/ CleanUp(r) \/ Reread(r) \/ Succeed(r) \/ RecordResult(r)
  \/ MarkFailed(r) \/ PruneAndRelease(r) \/ Return(r)

-----------------------------------------------------------------------------
(* run_reconcile_timer, on the status kopf hands it (cache[r])             *)

ReconcilerStep(r, from, to) ==
  /\ c[r] = from
  /\ c' = [c EXCEPT ![r] = to]
  /\ UNCHANGED <<backed, running, h, attempt, handled, cache, t, u, old, crashes>>

\* Mutant: only Pending runs are reconciled.
ReconcilePendingOnly(r) ==
  /\ Exists(r)
  /\ cache[r].phase = "Pending" /\ ~cache[r].log
  /\ ReconcilerStep(r, "idle", "peek")
  /\ UNCHANGED <<run, jobs, entries, faults>>

\* Terminal and Queued runs, and Pending ones with a log, are left alone.
Reconcile(r) ==
  /\ Exists(r)
  /\ \/ /\ cache[r].phase = "Pending" /\ ~cache[r].log
        /\ ReconcilerStep(r, "idle", "peek")
     \/ cache[r].phase = "Running" /\ ReconcilerStep(r, "idle", "readJob")
  /\ UNCHANGED <<run, jobs, entries, faults>>

\* Re-read from the API: terminal or logging runs are spared, a failing read
\* spares nobody; what is old then is killed.
Spared(r) == run[r].phase \in Terminal \/ run[r].log
Peek(r) ==
  /\ \/ /\ Spared(r) \/ r \notin old
        /\ ReconcilerStep(r, "peek", "idle") /\ NoFault
     \/ /\ r \in old
        /\ ReconcilerStep(r, "peek", "kill")
        /\ IF Spared(r) THEN Fault ELSE NoFault
  /\ UNCHANGED <<run, jobs, entries>>

\* Complete: finish the run; failed: kill it; otherwise (still active, gone,
\* or not readable) kill it when it is overdue.
SeenJob(r) == JobsNamed(r, cache[r].job)
ReadJob(r) ==
  /\ \/ /\ \E j \in SeenJob(r) : j.state = "complete"
        /\ ReconcilerStep(r, "readJob", "finish") /\ NoFault
     \/ /\ \E j \in SeenJob(r) : j.state = "failed"
        /\ ReconcilerStep(r, "readJob", "kill") /\ NoFault
     \/ /\ \/ ReconcilerStep(r, "readJob", "idle")
           \/ r \in old /\ ReconcilerStep(r, "readJob", "kill")
        /\ IF \A j \in SeenJob(r) : j.state = "active" THEN NoFault ELSE Fault
  /\ UNCHANGED <<run, jobs, entries>>

Finish(r) ==
  /\ ReconcilerStep(r, "finish", "finishParent")
  /\ PatchRun(r, [run[r] EXCEPT !.phase = "Succeeded"])
  /\ UNCHANGED <<jobs, entries>>

Kill(r) ==
  /\ ReconcilerStep(r, "kill", "killJob")
  /\ PatchRun(r, [run[r] EXCEPT !.phase = "Failed"])
  /\ UNCHANGED <<jobs, entries>>

KillJob(r) ==
  /\ ReconcilerStep(r, "killJob", "killParent")
  /\ \/ jobs' = jobs \ SeenJob(r) /\ NoFault
     \/ Fault /\ UNCHANGED jobs
  /\ UNCHANGED <<run, entries>>

\* Mutant: the run is finished, the parent is not told.
ReconcileRunOnly(r) ==
  /\ \/ ReconcilerStep(r, "finishParent", "prune") /\ NoFault /\ UNCHANGED entries
     \/ ReconcilerStep(r, "killParent", "prune") /\ Record(r, "failed")
  /\ UNCHANGED <<run, jobs>>

\* A parent that cannot be read ends the handler without a history entry.
ReconcileParent(r) ==
  /\ \/ ReconcilerStep(r, "finishParent", "prune") /\ Record(r, "success")
     \/ ReconcilerStep(r, "killParent", "prune") /\ Record(r, "failed")
     \/ /\ ReconcilerStep(r, "finishParent", "idle") \/ ReconcilerStep(r, "killParent", "idle")
        /\ Fault /\ UNCHANGED entries
  /\ UNCHANGED <<run, jobs>>

ReconcilePrune(r) ==
  /\ ReconcilerStep(r, "prune", "idle")
  /\ PruneRuns
  /\ UNCHANGED <<jobs, entries>>

RunReconcileTimer(r) == \/ Reconcile(r) \/ Peek(r) \/ ReadJob(r) \/ Finish(r) \/ Kill(r)
                        \/ KillJob(r) \/ ReconcileParent(r) \/ ReconcilePrune(r)

-----------------------------------------------------------------------------
(* The creators of runs                                                    *)

\* backup_timer: due or triggered, and the key is not in _running.
TimerLook ==
  /\ "timer" \in Creators /\ t = "idle" /\ ~running
  /\ t' = "list"
  /\ UNCHANGED <<api, running, h, attempt, handled, c, cache, u, old, crashes, faults>>

\* Mutant: backup_timer relies on the process-local guard alone.
TimerListUnchecked ==
  /\ t = "list"
  /\ t' = "create"
  /\ UNCHANGED <<api, running, h, attempt, handled, c, cache, u, old, crashes, faults>>

\* _has_active_run_sync: an error counts as "none".
TimerList ==
  /\ t = "list"
  /\ \/ ActiveExists /\ t' = "idle" /\ NoFault
     \/ t' = "create" /\ (IF ActiveExists THEN Fault ELSE NoFault)
  /\ UNCHANGED <<api, running, h, attempt, handled, c, cache, u, old, crashes>>

TimerCreate ==
  /\ t = "create"
  /\ \E r \in Runs : CreateRun(r, "schedule")
  /\ t' = "idle"
  /\ UNCHANGED <<jobs, backed, entries, running, h, attempt, handled, c,
                 cache, u, old, crashes, faults>>

\* trigger_backup in the dashboard's process: 409 while a run is active.
UiList ==
  /\ "ui" \in Creators /\ u = "idle" /\ ~ActiveExists
  /\ u' = "create"
  /\ UNCHANGED <<api, running, h, attempt, handled, c, cache, t, old, crashes, faults>>

UiCreate ==
  /\ u = "create"
  /\ \E r \in Runs : CreateRun(r, "manual")
  /\ u' = "idle"
  /\ UNCHANGED <<jobs, backed, entries, running, h, attempt, handled, c,
                 cache, t, old, crashes, faults>>

\* A user records a backfilled run.
Backfill ==
  /\ "user" \in Creators
  /\ \E r \in Runs : CreateRun(r, "backfill")
  /\ UNCHANGED <<jobs, backed, entries, running, h, attempt, handled, c,
                 cache, t, u, old, crashes, faults>>

-----------------------------------------------------------------------------
(* The environment                                                         *)

\* kopf handles the watch events of one object one after the other: the view
\* a timer gets lags, and stays as it was while on_run_create is in progress
\* unless LiveCache.
Deliver(r) ==
  /\ LiveCache \/ h[r] = "idle"
  /\ cache[r] # run[r]
  /\ cache' = [cache EXCEPT ![r] = run[r]]
  /\ UNCHANGED <<api, running, h, attempt, handled, c, t, u, old, crashes, faults>>

GrowOld(r) ==
  /\ run[r].phase \in Active /\ r \notin old /\ Cardinality(old) < MaxOld
  /\ old' = old \union {r}
  /\ UNCHANGED <<api, running, h, attempt, handled, c, cache, t, u, crashes, faults>>

\* The Job controller: backoffLimit 0, activeDeadlineSeconds bounds it.
JobEnds ==
  /\ \E j \in {i \in jobs : i.state = "active"}, s \in {"complete", "failed"} :
       /\ jobs' = (jobs \ {j}) \union {[j EXCEPT !.state = s]}
       /\ backed' = IF s = "complete" THEN backed \union {j.run} ELSE backed
  /\ UNCHANGED <<run, entries, running, h, attempt, handled, c, cache, t,
                 u, old, crashes, faults>>

\* ttlSecondsAfterFinished
JobExpires ==
  /\ \E j \in {i \in jobs : i.state # "active"} : jobs' = jobs \ {j}
  /\ UNCHANGED <<run, backed, entries, running, h, attempt, handled, c,
                 cache, t, u, old, crashes, faults>>

\* The operator dies and comes back: its memory is gone, the cluster's is not.
Crash ==
  /\ crashes < MaxCrashes
  /\ crashes' = crashes + 1
  /\ h' = [r \in Runs |-> "idle"]
  /\ c' = [r \in Runs |-> "idle"]
  /\ t' = "idle"
  /\ running' = FALSE
  /\ cache' = run
  /\ UNCHANGED <<api, attempt, handled, u, old, faults>>

Next == \/ \E r \in Runs : OnRunCreate(r) \/ RunReconcileTimer(r) \/ Deliver(r) \/ GrowOld(r)
        \/ TimerLook \/ TimerList \/ TimerCreate \/ UiList \/ UiCreate \/ Backfill
        \/ JobEnds \/ JobExpires \/ Crash

Spec == Init /\ [][Next]_vars

\* kopf runs every handler it started and fires the timers again and again, the
\* API server answers, a Job ends within its deadline; a run grows old, and one
\* that the reconciler sees Running again and again is overdue in the end.
Fairness == /\ \A r \in Runs : /\ WF_vars(OnRunCreate(r))
                               /\ WF_vars(RunReconcileTimer(r))
                               /\ WF_vars(Deliver(r))
                               /\ WF_vars(GrowOld(r))
                               /\ SF_vars(ReadJob(r) /\ c'[r] \in {"kill", "finish"})
            /\ WF_vars(JobEnds)
            /\ WF_vars(TimerList \/ TimerCreate)
            /\ WF_vars(UiCreate)
FairSpec == Spec /\ Fairness

-----------------------------------------------------------------------------
(* Properties                                                              *)

TypeOK == /\ run \in [Runs -> RunRecord]
          /\ jobs \subseteq JobRecord
          /\ backed \subseteq Runs
          /\ entries \in [Runs -> [Results -> 0..2]]
          /\ running \in BOOLEAN
          /\ h \in [Runs -> HandlerPc]
          /\ attempt \in [Runs -> Nat]
          /\ handled \subseteq Runs
          /\ c \in [Runs -> ReconcilerPc]
          /\ cache \in [Runs -> RunRecord]
          /\ t \in {"idle", "list", "create"}
          /\ u \in {"idle", "create"}
          /\ old \subseteq Runs
          /\ crashes \in 0..MaxCrashes
          /\ faults \in 0..MaxFaults

\* A run that counts as a success has a Job that ran to completion, whoever
\* wrote the phase or the history entry, and whatever was lost or restarted
\* on the way (on_run_create and run_reconcile_timer both write them).
SuccessIsBacked ==
  \A r \in Runs : run[r].phase = "Succeeded" \/ entries[r]["success"] > 0 => r \in backed

\* The key in _running always has an on_run_create that will still discard it:
\* a leaked key would skip and reject every later run until a restart.
GuardIsOwned == running => \E r \in Runs : h[r] \in Guarding

\* "Process-local guard against concurrent runs of the same backup" (main.py).
OneExecution == \A r, q \in Runs : h[r] \in Guarding /\ h[q] \in Guarding => r = q

\* A run that on_run_create executes, has executed or may execute; may begin to.
Executed(r) == run[r].phase # "absent" /\ run[r].by # "backfill"
Again(r) == h[r] = "check" \/ (h[r] = "idle" /\ r \notin handled)

\* Its one entry in the parent's history says what its phase says, if it is there.
Entries(r) == <<entries[r]["success"], entries[r]["failed"]>>
Agrees(r) == \/ Entries(r) = <<1, 0>> /\ run[r].phase \in {"Succeeded", "gone"}
             \/ Entries(r) = <<0, 1>> /\ run[r].phase \in {"Failed", "gone"}

\* on_run_create takes the runs one by one, each once, and ends none that is not
\* recorded for what it is, while nothing is disturbed and one of backup_timer and
\* the dashboard creates them: the abstract runs of RunTurns.
PlaceOf(r) == IF ~Executed(r) THEN "new"
              ELSE IF Again(r) THEN "waiting"
              ELSE IF h[r] \in Guarding
                   THEN IF Entries(r) = <<0, 0>> THEN "executing" ELSE "recorded"
              ELSE IF Agrees(r) THEN "over" ELSE "refused"
Turns == INSTANCE RunTurns WITH place <- [r \in Runs |-> PlaceOf(r)]
InTurn == Turns!Spec

\* A restarted operator never runs "a second Job against the same PVC/repo"
\* while the first Job of that run is alive (_run_has_live_job).  A run the
\* reconciler fails for its age is no longer Running, and not protected.
OneLiveJob == old = {} => Cardinality({j \in jobs : j.state = "active"}) <= 1

\* A run gets at most one entry in the parent's history, from on_run_create or
\* from the reconciler: the failures count against maxRetriesPerDay.
RecordedOnce == \A r \in Runs : entries[r]["success"] + entries[r]["failed"] <= 1

\* on_run_create: "if already Failed, don't overwrite".
FailedIsFinal ==
  [][\A r \in Runs : run[r].phase = "Failed" => run'[r].phase \in {"Failed", "gone"}]_vars

\* "backfill runs are recorded but deliberately not executed" (reference.md):
\* they are no failures of the backup.
BackfillIsNoFailure ==
  \A r \in Runs : run[r].by = "backfill" => entries[r]["failed"] = 0

\* Only runs that are over leave the retention window ("How many finished
\* K8siBackupRuns to keep per backup").
OnlyFinishedPruned ==
  [][\A r \in Runs : run[r].phase \in Active => run'[r].phase # "gone"]_vars

\* Every run ends: on_run_create, its re-invocation or the reconciler makes it
\* terminal.  An active run blocks all later ones.
EveryRunEnds == \A r \in Runs : run[r].phase \in Active ~> run[r].phase \notin Active

\* What ended, and not for its age, is in the parent's history in the end,
\* though the operator dies between the run's last patch and the parent's.
EndIsRecorded ==
  \A r \in Runs : run[r].phase \in Terminal /\ r \notin old /\ run[r].by # "backfill"
                    ~> \E x \in Results : entries[r][x] > 0
=============================================================================
