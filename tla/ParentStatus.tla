---------------------------- MODULE ParentStatus ----------------------------
(***************************************************************************)
(* The status of ONE K8siBackup and the processes that read and write it:  *)
(* backup_timer, whose patch kopf applies when the handler has returned;   *)
(* on_run_create and run_reconcile_timer, which both record a run with     *)
(* _update_parent_backup, a read-modify-write; the dashboard's trigger      *)
(* endpoint; the user, who sets triggeredAt.                               *)
(*                                                                         *)
(* RunLifecycle has every step of a run.  Here the steps of a run that do   *)
(* not touch the parent are taken together, and the run's outcome is free.  *)
(* Timestamps are readings of a clock that each reading advances; the whole *)
(* behaviour is within one UTC day.                                        *)
(***************************************************************************)
EXTENDS Naturals, Sequences, FiniteSets

CONSTANTS
  MaxRuns,           \* run objects ever created (a bound on the model)
  MaxRetriesPerDay,  \* spec.maxRetriesPerDay
  HistoryLength,     \* entries recentRuns and recentBackups keep (30)
  EarlierFailures,   \* scheduled runs that failed before, on the same day
  MaxTriggers,       \* times the user sets triggeredAt (a bound on the model)
  MaxTicks,          \* times the schedule comes up again (a bound on the model)
  Upsets, MaxUpsets  \* which of the upsets below may happen, each once, and
                     \* how many of them together (a bound on the model)

ASSUME RetriesAssumption == MaxRetriesPerDay \in Nat
ASSUME HistoryAssumption == HistoryLength \in Nat \ {0}
ASSUME EarlierAssumption == EarlierFailures \in 0..HistoryLength
ASSUME ParentBounds == {MaxRuns, MaxTriggers, MaxTicks, MaxUpsets} \subseteq Nat
\* An operator crash, a failing API call, a run the dashboard creates, a run
\* the reconciler ends while its handler is at it.
ASSUME UpsetsAssumption == Upsets \subseteq {"crash", "fault", "dashboard", "reconciler"}

Runs == 1..MaxRuns                   \* in creation order
Recorders == Runs \X {"handler", "reconciler"}

VARIABLES
  badge,    \* status.lastBackupResult
  last,     \* status.lastBackupTime, 0 if absent
  trig,     \* status.triggeredAt, 0 if absent
  history,  \* status.recentRuns; recentBackups is written along with it
  clock,    \* the latest timestamp
  tick,     \* the latest time the cron schedule names
  run,      \* the runs: phase, creator, the triggeredAt it was created for
            \* (a history variable)
  executed, \* runs that on_run_create has executed (a history variable)
  jobs,     \* runs that are Running with a Job
  running,  \* is the backup's key in _running?
  h,        \* on_run_create of each run
  handled,  \* runs whose on_run_create kopf has recorded as finished
  rec,      \* _update_parent_backup, per caller
  t,        \* backup_timer: where it is, and the trigger it serves (0: none)
  u,        \* the dashboard's endpoint, and the run it has created
  triggers, ticks,
  upsets    \* the upsets there have been

status == <<badge, last, trig, history>>
times == <<clock, tick>>
bounds == <<triggers, ticks>>
vars == <<status, times, run, executed, jobs, running, h, handled, rec, t, u, bounds, upsets>>

HandlerPc == {"idle", "check", "fetch", "queued", "working", "record", "done"}
NoRecord == [at |-> "none", result |-> "failed", time |-> 0, base |-> <<>>, caller |-> <<>>]
TimerIdle == [at |-> "idle", trig |-> 0, run |-> 0]
UiIdle == [at |-> "idle", run |-> 0]

Init == /\ badge = "pending" /\ last = 0 /\ trig = 0
        /\ history = [i \in 1..EarlierFailures |-> [run |-> 0, result |-> "failed"]]
        /\ clock = 0 /\ tick = 0
        /\ run = [r \in Runs |-> [phase |-> "absent", by |-> "schedule", served |-> 0]]
        /\ executed = {} /\ jobs = {} /\ running = FALSE
        /\ h = [r \in Runs |-> "idle"]
        /\ handled = {}
        /\ rec = [w \in Recorders |-> NoRecord]
        /\ t = TimerIdle /\ u = UiIdle
        /\ triggers = 0 /\ ticks = 0 /\ upsets = {}

Upset(kind) == /\ kind \in Upsets \ upsets /\ Cardinality(upsets) < MaxUpsets
               /\ upsets' = upsets \union {kind}
Fault == Upset("fault")
NoFault == upsets' = upsets

ActiveExists == \E r \in Runs : run[r].phase = "active"
End(r, result) == [run EXCEPT ![r].phase = result]

\* The name of a run is its creation time: the runs of one second are one.
NextRun(r) == run[r].phase = "absent" /\ \A q \in Runs : q < r => run[q].phase # "absent"
CreateRun(r, by, served) ==
  /\ NextRun(r)
  /\ run' = [run EXCEPT ![r] = [phase |-> "active", by |-> by, served |-> served]]

-----------------------------------------------------------------------------
(* _update_parent_backup                                                   *)

\* Mutant: the history is not read back.
InsertAlone(entry, base) == <<entry>>
\* list.insert(0, ...), [:30]
Insert(entry, base) == SubSeq(<<entry>> \o base, 1,
                              IF Len(base) < HistoryLength THEN Len(base) + 1 ELSE HistoryLength)

\* now_iso is taken on entry (only a success's matters here); `caller` is the
\* parent as the caller has read it.
StartRecord(w, result, caller) ==
  /\ clock' = IF result = "succeeded" THEN clock + 1 ELSE clock
  /\ rec' = [rec EXCEPT ![w] = [at |-> "read", result |-> result,
                                time |-> IF result = "succeeded" THEN clock + 1 ELSE 0,
                                base |-> <<>>, caller |-> caller]]

\* The parent is re-read; when that fails the caller's copy has to do.
ReadParent(w) ==
  /\ rec[w].at = "read"
  /\ \/ /\ rec' = [rec EXCEPT ![w].at = "patch", ![w].base = history]
        /\ NoFault
     \/ /\ rec' = [rec EXCEPT ![w].at = "patch", ![w].base = rec[w].caller]
        /\ Fault
  /\ UNCHANGED <<status, times, run, executed, jobs, running, h, handled, t, u, bounds>>

Over(w) == [rec EXCEPT ![w] = [NoRecord EXCEPT !.result = rec[w].result]]

\* A merge patch without a resourceVersion: whatever is there is overwritten.
\* On a 409 it starts over (three attempts), on another error it gives up.
PatchParent(w) ==
  /\ rec[w].at = "patch"
  /\ \/ /\ history' = Insert([run |-> w[1], result |-> rec[w].result], rec[w].base)
        /\ badge' = IF rec[w].result = "succeeded" THEN "success" ELSE "failed"
        /\ last' = IF rec[w].result = "succeeded" THEN rec[w].time ELSE last
        /\ rec' = Over(w)
        /\ NoFault
     \/ /\ rec' = [rec EXCEPT ![w].at = "read"] \/ rec' = Over(w)
        /\ Fault
        /\ UNCHANGED <<history, badge, last>>
  /\ UNCHANGED <<trig, times, run, executed, jobs, running, h, handled, t, u, bounds>>

-----------------------------------------------------------------------------
(* on_run_create                                                           *)

HandlerStep(r, from, to) ==
  /\ h[r] = from
  /\ h' = [h EXCEPT ![r] = to]
  /\ UNCHANGED <<last, trig, history, tick, t, u, bounds>>

\* A run of a busy backup is rejected; the parent is not told.
Enter(r) ==
  /\ run[r].phase # "absent" /\ r \notin handled
  /\ \/ ~running /\ HandlerStep(r, "idle", "check") /\ UNCHANGED run
     \/ running /\ HandlerStep(r, "idle", "done") /\ run' = End(r, "failed")
  /\ UNCHANGED <<badge, clock, executed, jobs, running, handled, rec, upsets>>

\* _run_has_live_job; the key is added after that await.
Check(r) ==
  /\ IF run[r].phase = "active" /\ r \in jobs
     THEN HandlerStep(r, "check", "done") /\ UNCHANGED running
     ELSE HandlerStep(r, "check", "fetch") /\ running' = TRUE
  /\ UNCHANGED <<badge, clock, run, executed, jobs, handled, rec, upsets>>

\* An abort, too, leaves the parent as it is.
FetchParent(r) ==
  /\ \/ /\ HandlerStep(r, "fetch", "queued") /\ NoFault
        /\ rec' = [rec EXCEPT ![<<r, "handler">>].caller = history]
        /\ executed' = executed \union {r}
        /\ UNCHANGED <<run, running>>
     \/ /\ HandlerStep(r, "fetch", "done") /\ Fault
        /\ run' = End(r, "failed")
        /\ running' = FALSE
        /\ UNCHANGED <<executed, rec>>
  /\ UNCHANGED <<badge, clock, jobs, handled>>

\* _on_job_created flips the parent to running.
StartJob(r) ==
  /\ HandlerStep(r, "queued", "working")
  /\ \/ badge' = "running" /\ NoFault
     \/ Fault /\ UNCHANGED badge
  /\ jobs' = jobs \union {r}
  /\ UNCHANGED <<clock, run, executed, running, handled, rec>>

\* run_backup returned: unless the run has been killed it is a success now.
FinishRun(r) ==
  /\ \/ /\ run[r].phase = "failed" /\ HandlerStep(r, "working", "done")
        /\ running' = FALSE
        /\ UNCHANGED <<clock, run, rec>>
     \/ /\ run[r].phase # "failed" /\ HandlerStep(r, "working", "record")
        /\ run' = End(r, "succeeded")
        /\ StartRecord(<<r, "handler">>, "succeeded", rec[<<r, "handler">>].caller)
        /\ UNCHANGED running
  /\ jobs' = jobs \ {r}
  /\ UNCHANGED <<badge, executed, handled, upsets>>

\* run_backup raised, with or without a Job.
FailRun(r) ==
  /\ HandlerStep(r, "queued", "record") \/ HandlerStep(r, "working", "record")
  /\ StartRecord(<<r, "handler">>, "failed", rec[<<r, "handler">>].caller)
  /\ jobs' = jobs \ {r}
  /\ UNCHANGED <<badge, run, executed, running, handled, upsets>>

\* "Update parent BEFORE marking run Failed"; then the key is discarded.
Close(r) ==
  /\ rec[<<r, "handler">>].at = "none"
  /\ HandlerStep(r, "record", "done")
  /\ run' = IF rec[<<r, "handler">>].result = "succeeded" THEN run ELSE End(r, "failed")
  /\ rec' = [rec EXCEPT ![<<r, "handler">>] = NoRecord]
  /\ running' = FALSE
  /\ UNCHANGED <<badge, clock, executed, jobs, handled, upsets>>

Return(r) ==
  /\ HandlerStep(r, "done", "idle")
  /\ handled' = handled \union {r}
  /\ UNCHANGED <<badge, clock, run, executed, jobs, running, rec, upsets>>

OnRunCreate(r) == \/ Enter(r) \/ Check(r) \/ FetchParent(r) \/ StartJob(r) \/ FinishRun(r)
                  \/ FailRun(r) \/ ReadParent(<<r, "handler">>) \/ PatchParent(<<r, "handler">>)
                  \/ Close(r) \/ Return(r)

-----------------------------------------------------------------------------
(* run_reconcile_timer                                                     *)

\* The Job of a Running run has ended, or the run is overdue: the run is ended
\* first, the parent told later, or never when it cannot be read.
Reconcile(r) ==
  /\ run[r].phase = "active" /\ r \in jobs /\ rec[<<r, "reconciler">>].at = "none"
  /\ \E result \in {"succeeded", "failed"} :
       /\ run' = End(r, result)
       /\ jobs' = IF result = "succeeded" THEN jobs ELSE jobs \ {r}
       /\ \/ /\ StartRecord(<<r, "reconciler">>, result, history)
             /\ IF r \in handled THEN NoFault ELSE Upset("reconciler")
          \/ r \in handled /\ Fault /\ UNCHANGED <<clock, rec>>
  /\ UNCHANGED <<status, tick, executed, running, h, handled, t, u, bounds>>

RunReconcileTimer(r) == \/ Reconcile(r) \/ ReadParent(<<r, "reconciler">>)
                        \/ PatchParent(<<r, "reconciler">>)

-----------------------------------------------------------------------------
(* backup_timer                                                            *)

IsManualTrigger == trig # 0 /\ trig > last
IsDue == last = 0 \/ tick > last

\* _daily_failure_count
Failures == {i \in 1..Len(history) : history[i].result = "failed"}

\* Mutant: the cap is off by one.
OneFailureMore == Cardinality(Failures) > MaxRetriesPerDay
CapReached == Cardinality(Failures) >= MaxRetriesPerDay

\* Not paused, in the window if it is a scheduled run, and due.
TimerLook ==
  /\ t.at = "idle" /\ ~running
  /\ IsManualTrigger \/ IsDue
  /\ t' = [at |-> "list", trig |-> IF IsManualTrigger THEN trig ELSE 0, run |-> 0]
  /\ UNCHANGED <<status, times, run, executed, jobs, running, h, handled, rec, u, bounds, upsets>>

\* Mutant: the daily cap holds for triggers, too.
TimerListCapsAll ==
  /\ t.at = "list"
  /\ t' = IF ActiveExists \/ CapReached THEN TimerIdle ELSE [t EXCEPT !.at = "create"]
  /\ NoFault
  /\ UNCHANGED <<status, times, run, executed, jobs, running, h, handled, rec, u, bounds>>

\* The daily cap is checked after the list: on the status of that moment.
TimerList ==
  /\ t.at = "list"
  /\ \/ /\ ActiveExists \/ (t.trig = 0 /\ CapReached)
        /\ t' = TimerIdle /\ NoFault
     \/ /\ t.trig # 0 \/ ~CapReached
        /\ t' = [t EXCEPT !.at = "create"]
        /\ IF ActiveExists THEN Fault ELSE NoFault
  /\ UNCHANGED <<status, times, run, executed, jobs, running, h, handled, rec, u, bounds>>

\* A failing create is logged; triggeredAt is going to be cleared all the same.
TimerCreate ==
  /\ t.at = "create"
  /\ \/ \E r \in Runs : /\ CreateRun(r, IF t.trig # 0 THEN "manual" ELSE "schedule", t.trig)
                        /\ t' = [t EXCEPT !.at = "patch", !.run = r]
                        /\ NoFault
     \/ t' = [t EXCEPT !.at = "patch"] /\ Fault /\ UNCHANGED run
  /\ UNCHANGED <<status, times, executed, jobs, running, h, handled, rec, u, bounds>>

\* kopf applies `patch` after the handler has returned.
TimerPatch ==
  /\ t.at = "patch"
  /\ trig' = IF t.trig # 0 THEN 0 ELSE trig
  /\ badge' = IF t.run # 0 THEN "queued" ELSE badge
  /\ t' = TimerIdle
  /\ UNCHANGED <<last, history, times, run, executed, jobs, running, h, handled, rec, u,
                 bounds, upsets>>

-----------------------------------------------------------------------------
(* The dashboard, the user, time                                           *)

UiList ==
  /\ u.at = "idle" /\ ~ActiveExists
  /\ u' = [u EXCEPT !.at = "create"]
  /\ Upset("dashboard")
  /\ UNCHANGED <<status, times, run, executed, jobs, running, h, handled, rec, t, bounds>>

UiCreate ==
  /\ u.at = "create"
  /\ \E r \in Runs : CreateRun(r, "manual", 0) /\ u' = [at |-> "patch", run |-> r]
  /\ UNCHANGED <<status, times, executed, jobs, running, h, handled, rec, t, bounds, upsets>>

\* "immediately mark parent as running"; an error is ignored.
UiPatch ==
  /\ u.at = "patch"
  /\ \/ badge' = "running" /\ NoFault
     \/ Fault /\ UNCHANGED badge
  /\ u' = UiIdle
  /\ UNCHANGED <<last, trig, history, times, run, executed, jobs, running, h, handled, rec, t,
                 bounds>>

SetTriggeredAt ==
  /\ triggers < MaxTriggers
  /\ triggers' = triggers + 1
  /\ clock' = clock + 1 /\ trig' = clock + 1
  /\ UNCHANGED <<badge, last, history, tick, run, executed, jobs, running, h, handled, rec, t, u,
                 ticks, upsets>>

\* The schedule comes up; once more changes nothing before the next success.
CronTick ==
  /\ tick < last /\ ticks < MaxTicks
  /\ ticks' = ticks + 1
  /\ clock' = clock + 1 /\ tick' = clock + 1
  /\ UNCHANGED <<status, run, executed, jobs, running, h, handled, rec, t, u, triggers, upsets>>

Crash ==
  /\ Upset("crash")
  /\ h' = [r \in Runs |-> "idle"]
  /\ rec' = [w \in Recorders |-> NoRecord]
  /\ t' = TimerIdle /\ running' = FALSE
  /\ UNCHANGED <<status, times, run, executed, jobs, handled, u, bounds>>

Next == \/ \E r \in Runs : OnRunCreate(r) \/ RunReconcileTimer(r)
        \/ TimerLook \/ TimerList \/ TimerCreate \/ TimerPatch
        \/ UiList \/ UiCreate \/ UiPatch \/ SetTriggeredAt \/ CronTick \/ Crash

Spec == Init /\ [][Next]_vars

\* The handlers run, the timers fire again and again, a Job comes to its end.
Fairness == /\ \A r \in Runs : WF_vars(OnRunCreate(r)) /\ WF_vars(RunReconcileTimer(r))
            /\ SF_vars(TimerLook)
            /\ WF_vars(TimerList \/ TimerCreate \/ TimerPatch)
            /\ WF_vars(UiCreate \/ UiPatch)
FairSpec == Spec /\ Fairness

-----------------------------------------------------------------------------
(* Properties                                                              *)

Entry == [run : Runs \union {0}, result : {"succeeded", "failed"}]

TypeOK == /\ badge \in {"pending", "queued", "running", "success", "failed"}
          /\ {last, trig, clock, tick} \subseteq Nat
          /\ history \in Seq(Entry) /\ Len(history) <= HistoryLength
          /\ run \in [Runs -> [phase : {"absent", "active", "succeeded", "failed"},
                               by : {"schedule", "manual"}, served : Nat]]
          /\ executed \subseteq Runs
          /\ jobs \subseteq Runs /\ running \in BOOLEAN
          /\ h \in [Runs -> HandlerPc] /\ handled \subseteq Runs
          /\ rec \in [Recorders -> [at : {"none", "read", "patch"},
                                    result : {"succeeded", "failed"}, time : Nat,
                                    base : Seq(Entry), caller : Seq(Entry)]]
          /\ t \in [at : {"idle", "list", "create", "patch"}, trig : Nat, run : Runs \union {0}]
          /\ u \in [at : {"idle", "create", "patch"}, run : Runs \union {0}]
          /\ triggers \in 0..MaxTriggers /\ ticks \in 0..MaxTicks
          /\ upsets \subseteq Upsets

\* _update_parent_backup re-reads the parent and retries, for "otherwise a
\* concurrently finished run's history entries are silently dropped": while
\* nothing makes for a second recorder at the same time, a run leaves the history
\* only when that is full.
InHistory == {history[i].run : i \in 1..Len(history)}
NoRunDropped ==
  [][\/ InHistory \subseteq InHistory' \/ Len(history) = HistoryLength
     \/ upsets # {}]_vars
\* The same whatever happens: the comment read strictly.
NoRunEverDropped ==
  [][InHistory \subseteq InHistory' \/ Len(history) = HistoryLength]_vars

\* "maxRetriesPerDay: failed scheduled runs per UTC day" (reference.md)
FailuresAreCapped ==
  EarlierFailures + Cardinality({r \in Runs : run[r].by = "schedule" /\ run[r].phase = "failed"})
    <= MaxRetriesPerDay

\* Without an upset maxRetriesPerDay caps the failed scheduled runs of the day
\* that were executed.  (A failing call hides one failure from the history on
\* which the next run is decided, a late second recorder any number; a crash
\* revives rejected runs; what HistoryLength ended runs push out of the history
\* is in Schedule.)
ExecutionsAreCapped ==
  upsets = {} =>
    EarlierFailures + Cardinality({r \in Runs : /\ run[r].by = "schedule"
                                                /\ run[r].phase = "failed"
                                                /\ r \in executed}) <= MaxRetriesPerDay

\* A trigger is picked up in the end, the daily cap reached or not: it leads
\* to a run that clears it, or to a success that is newer.  (With no run object
\* left to create the model says nothing.)
TriggerIsServed ==
  trig # 0 ~> \/ trig = 0 \/ last > trig
              \/ \A r \in Runs : run[r].phase # "absent"

\* "Set to trigger a manual backup; cleared when the run is created"
\* (reference.md): triggeredAt is cleared by the creation of a run for it.
ClearedByRun ==
  [][trig # 0 /\ trig' = 0 => \E r \in Runs : run[r].served = trig]_vars

\* "the badge must not lie" (main.py): with no run active and nobody about to
\* write it, lastBackupResult names a result.
Quiet == /\ t.at = "idle" /\ u.at = "idle" /\ ~ActiveExists /\ ~running
         /\ \A w \in Recorders : rec[w].at = "none"
BadgeNamesResult == Quiet => badge \notin {"queued", "running"}
=============================================================================
