-------------------------------- MODULE Pool --------------------------------
(***************************************************************************)
(* pool.py and the part of workflow.run_backup that uses it: the semaphore *)
(* that caps concurrent backups, the settle gap between them, the bounded  *)
(* thread pool on which their long waits run.                              *)
(*                                                                         *)
(* asyncio.Semaphore is external: a counter and a FIFO queue of waiters,   *)
(* where a release hands the slot to the first waiter.  So is the          *)
(* ThreadPoolExecutor: a task runs at once if a worker is idle and is put  *)
(* in the backlog otherwise.                                               *)
(*                                                                         *)
(* The code compares _last_finish_monotonic + BACKUP_SETTLE_SECONDS with   *)
(* time.monotonic(): only the time since the last finish matters, and no   *)
(* more of it than the settle time.                                        *)
(***************************************************************************)
EXTENDS Integers, Sequences, FiniteSets

CONSTANTS
  Backups,        \* the executions of run_backup
  MaxConcurrent,  \* K8SI_MAX_CONCURRENT_BACKUPS, at least 1 (_env_int)
  SettleSeconds   \* K8SI_BACKUP_SETTLE_SECONDS, 0 is off

ASSUME BackupsAssumption == IsFiniteSet(Backups)
ASSUME ConcurrentAssumption == MaxConcurrent \in Nat \ {0}
ASSUME SettleAssumption == SettleSeconds \in Nat

\* Mutant: a pool that does not grow with the cap.
WorkersFixed == 1

\* max_workers = max(4, MAX_CONCURRENT_BACKUPS + 2)
Workers == IF MaxConcurrent + 2 > 4 THEN MaxConcurrent + 2 ELSE 4

VARIABLES
  st,           \* where each run_backup is
  value,        \* the semaphore's counter
  waiters,      \* the semaphore's queue
  left,         \* what is left of a settling backup's sleep
  since,        \* time since note_backup_finished, up to SettleSeconds
  overtaken     \* backups during whose sleep another one ended (history)

vars == <<st, value, waiters, left, since, overtaken>>

\* "held" .. "backlog" are inside `async with pool.SEMAPHORE`.
Holding == {"held", "settling", "working", "onWorker", "backlog"}
States == Holding \union {"new", "waiting", "done"}

Holders == {b \in Backups : st[b] \in Holding}
Busy == {b \in Backups : st[b] = "onWorker"}
Settling == {b \in Backups : st[b] = "settling"}
Done == {b \in Backups : st[b] = "done"}
Goto(b, from, to) == st[b] = from /\ st' = [st EXCEPT ![b] = to]

Init == /\ st = [b \in Backups |-> "new"]
        /\ value = MaxConcurrent
        /\ waiters = <<>>
        /\ left = [b \in Backups |-> 0]
        /\ overtaken = {}
        /\ since \in 0..SettleSeconds   \* the clock is not zero at start-up

-----------------------------------------------------------------------------

\* SEMAPHORE.acquire
Acquire(b) ==
  /\ \/ /\ value > 0 /\ waiters = <<>>
        /\ Goto(b, "new", "held")
        /\ value' = value - 1
        /\ UNCHANGED waiters
     \/ /\ value = 0 \/ waiters # <<>>
        /\ Goto(b, "new", "waiting")
        /\ waiters' = Append(waiters, b)
        /\ UNCHANGED value
  /\ UNCHANGED <<left, since, overtaken>>

\* Mutant: the sleep is one second short.
SettleShort(b) ==
  /\ \/ /\ since + 1 >= SettleSeconds
        /\ Goto(b, "held", "working")
        /\ UNCHANGED left
     \/ /\ since + 1 < SettleSeconds
        /\ Goto(b, "held", "settling")
        /\ left' = [left EXCEPT ![b] = SettleSeconds - since - 1]
  /\ UNCHANGED <<value, waiters, since, overtaken>>

\* settle_gap: the remaining time is computed once, before the sleep.
SettleGap(b) ==
  /\ \/ /\ since >= SettleSeconds
        /\ Goto(b, "held", "working")
        /\ UNCHANGED left
     \/ /\ since < SettleSeconds
        /\ Goto(b, "held", "settling")
        /\ left' = [left EXCEPT ![b] = SettleSeconds - since]
  /\ UNCHANGED <<value, waiters, since, overtaken>>

Wake(b) == /\ left[b] = 0
           /\ Goto(b, "settling", "working")
           /\ UNCHANGED <<value, waiters, left, since, overtaken>>

\* to_pool: the long waits of a backup run on the executor, one at a time
\* (_run_backup awaits each of them).
ToPool(b) == /\ Goto(b, "working", IF Cardinality(Busy) < Workers THEN "onWorker" ELSE "backlog")
             /\ UNCHANGED <<value, waiters, left, since, overtaken>>

\* The wait is over; an idle worker takes a task from the backlog.
WorkerDone(b) ==
  /\ st[b] = "onWorker"
  /\ IF \A q \in Backups : st[q] # "backlog"
     THEN st' = [st EXCEPT ![b] = "working"]
     ELSE \E q \in Backups : st[q] = "backlog" /\ st' = [st EXCEPT ![b] = "working", ![q] = "onWorker"]
  /\ UNCHANGED <<value, waiters, left, since, overtaken>>

\* Mutant: a release does not wake the first waiter.
FinishWithoutWakeup(b) ==
  /\ Goto(b, "working", "done")
  /\ since' = 0
  /\ value' = value + 1
  /\ UNCHANGED <<waiters, left, overtaken>>

\* Mutant: the slot is handed over and given back as well.
FinishReleasesTwice(b) ==
  /\ st[b] = "working"
  /\ since' = 0
  /\ overtaken' = overtaken \union Settling
  /\ value' = value + 1
  /\ IF waiters = <<>>
     THEN /\ st' = [st EXCEPT ![b] = "done"]
          /\ UNCHANGED waiters
     ELSE /\ st' = [st EXCEPT ![b] = "done", ![Head(waiters)] = "held"]
          /\ waiters' = Tail(waiters)
  /\ UNCHANGED left

\* The backup returned or raised: note_backup_finished, then the semaphore is
\* released, without an await in between.
FinishBackup(b) ==
  /\ st[b] = "working"
  /\ since' = 0
  /\ overtaken' = overtaken \union Settling
  /\ IF waiters = <<>>
     THEN /\ st' = [st EXCEPT ![b] = "done"]
          /\ value' = value + 1
          /\ UNCHANGED waiters
     ELSE /\ st' = [st EXCEPT ![b] = "done", ![Head(waiters)] = "held"]
          /\ waiters' = Tail(waiters)
          /\ UNCHANGED value
  /\ UNCHANGED left

Tick == /\ since' = IF since < SettleSeconds THEN since + 1 ELSE since
        /\ left' = [b \in Backups |-> IF left[b] > 0 THEN left[b] - 1 ELSE 0]
        /\ UNCHANGED <<st, value, waiters, overtaken>>

Next == \/ \E b \in Backups : \/ Acquire(b) \/ SettleGap(b) \/ Wake(b) \/ ToPool(b)
                              \/ WorkerDone(b) \/ FinishBackup(b)
        \/ Tick

Spec == Init /\ [][Next]_vars

\* A coroutine that can go on does; every wait on the executor has a timeout
\* (jobTimeout, 1800 s, 300 s, 120 s), and there are finitely many of them, so a
\* backup that is working again and again comes to its end; time passes.
Fairness == /\ \A b \in Backups : /\ WF_vars(SettleGap(b))
                                  /\ WF_vars(Wake(b))
                                  /\ WF_vars(WorkerDone(b))
                                  /\ SF_vars(FinishBackup(b))
            /\ WF_vars(Tick)
FairSpec == Spec /\ Fairness

-----------------------------------------------------------------------------
(* Properties                                                              *)

TypeOK == /\ st \in [Backups -> States]
          /\ value \in Nat
          /\ waiters \in Seq(Backups)
          /\ left \in [Backups -> Nat]
          /\ since \in 0..SettleSeconds
          /\ overtaken \subseteq Backups

\* The slots are never lost and never multiplied, so that at most
\* MaxConcurrent backups hold one: "unbounded parallel backups froze the
\* operator" (run_backup).
SlotsAreCounted == value + Cardinality(Holders) = MaxConcurrent

\* A free slot has no one waiting for it: no wakeup is lost.
NoIdleSlot == waiters # <<>> => value = 0

\* A wait never queues behind other backups' hour-long waits: the executor's
\* backlog stays empty (the scheduler-hang bug, pool.py).
NoBacklog == \A b \in Backups : st[b] # "backlog"

\* No backup starts before SettleSeconds have passed since the last one ended
\* -- unless that one ended during its sleep, beside it.
QuietGap ==
  [][\A b \in Backups : st[b] \in {"held", "settling"} /\ st'[b] = "working"
                          => since >= SettleSeconds \/ b \in overtaken]_vars

\* "quiet time between the end of one backup and the start of the next"
QuietAlways ==
  [][\A b \in Backups : st[b] \in {"held", "settling"} /\ st'[b] = "working"
                          => since >= SettleSeconds]_vars

\* Every backup that waits for a slot gets one and comes to its end.
EveryBackupEnds == \A b \in Backups : st[b] = "waiting" ~> st[b] = "done"

\* The pool implements the promise.
Promise == INSTANCE Slots WITH executing <- Holders, finished <- Done, N <- MaxConcurrent
Implements == Promise!Spec
=============================================================================
