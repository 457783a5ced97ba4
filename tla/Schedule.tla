------------------------------ MODULE Schedule ------------------------------
(***************************************************************************)
(* When a backup runs: backup_timer's decision from the wall clock, the    *)
(* cron schedule, the backup window, status.lastBackupTime, triggeredAt     *)
(* and the failures of the day, over any number of days and under changes   *)
(* of the spec.  RunLifecycle and ParentStatus have the steps inside a run  *)
(* and inside the timer; here a run is created and recorded in one step     *)
(* each.                                                                   *)
(*                                                                         *)
(* A day is a ring of slots.  A slot is the unit of schedules and windows   *)
(* and longer than the timer's interval, so the timer looks in every slot;  *)
(* a cron occurrence and the edges of a window are the beginnings of slots. *)
(* Times are kept as ages, so time is unbounded and the states are finite.  *)
(***************************************************************************)
EXTENDS Integers, FiniteSets, Sequences

CONSTANTS
  Day,               \* slots of a day
  Crons,             \* the schedules there are: sets of slots, daily
  Starts, Ends,      \* the starts and ends that windows have
  MaxRetriesPerDay,  \* spec.maxRetriesPerDay
  HistoryLength      \* entries recentBackups keeps (30)

ASSUME DayAssumption == Day \in Nat \ {0}
ASSUME CronsAssumption == Crons # {} /\ \A c \in Crons : c # {} /\ c \subseteq 0..(Day - 1)
ASSUME WindowsAssumption == Starts \union Ends \subseteq 0..(Day - 1)
ASSUME LimitsAssumption == MaxRetriesPerDay \in Nat /\ HistoryLength \in Nat \ {0}

VARIABLES
  now,      \* the slot of the day
  cron, window, paused,  \* the spec
  age,      \* slots since lastBackupTime, Day for any more; Never
  trig,     \* triggeredAt: "none", "new" or, older than the last success, "stale"
  recent,   \* recentBackups: "failed" today or "other", padded with "other"
  promise,  \* nextBackupTime: slots till then, and what has computed it
  run,      \* the active run: "none", "schedule", "manual"
  looked,   \* has the timer looked in this slot?
  failed,   \* scheduled runs that failed today, one more than the cap for more
  ended     \* runs that ended today, one more than recentBackups keeps
             \* for more (both are history variables)

spec == <<cron, window, paused>>
today == <<failed, ended>>
vars == <<now, spec, age, trig, recent, promise, run, looked, today>>

Never == Day + 1
NoWindow == <<-1, -1>>            \* absent or invalid: always open
Windows == (Starts \X Ends) \union {NoWindow}
Least(a, b) == IF a < b THEN a ELSE b

\* compute_next_backup: the first occurrence after now.
NextIn(c) == CHOOSE n \in 1..Day : /\ (now + n) % Day \in c
                                   /\ \A m \in 1..(n - 1) : (now + m) % Day \notin c

\* on_create
Init == /\ now \in 0..(Day - 1)
        /\ cron \in Crons /\ window \in Windows /\ paused = FALSE
        /\ age = Never /\ trig = "none"
        /\ recent = [i \in 1..HistoryLength |-> "other"]
        /\ promise = [in |-> NextIn(cron), by |-> "create"]
        /\ run = "none" /\ looked = FALSE
        /\ failed = 0 /\ ended = 0

-----------------------------------------------------------------------------
(* The timer                                                               *)

\* Mutant: a window does not wrap midnight.
IsInWindowOfDay == window = NoWindow \/ (window[1] <= now /\ now < window[2])

\* [start, end), over midnight if it ends before it starts.
IsInWindow ==
  \/ window = NoWindow
  \/ window[1] <= window[2] /\ window[1] <= now /\ now < window[2]
  \/ window[1] > window[2] /\ (now >= window[1] \/ now < window[2])

\* Mutant: an occurrence is due again after its success.
IsDueInclusive == age = Never \/ \E n \in 0..Least(age, Day - 1) : (now - n) % Day \in cron

\* There has been an occurrence after the last success.
IsDue == age = Never \/ \E n \in 0..(age - 1) : (now - n) % Day \in cron

\* _daily_failure_count: whoever has triggered the runs.
Failures == {i \in 1..HistoryLength : recent[i] = "failed"}

\* Mutant: an off-by-one.
OneFailureMore == Cardinality(Failures) > MaxRetriesPerDay
CapReached == Cardinality(Failures) >= MaxRetriesPerDay

IsManualTrigger == trig = "new"

\* backup_timer looks: a pause stops it whatever happens, a trigger is stopped
\* by nothing else but an active run.
BackupTimer ==
  /\ looked' = TRUE
  /\ \/ /\ ~paused /\ run = "none" /\ IsManualTrigger
        /\ run' = "manual" /\ trig' = "none"
     \/ /\ ~paused /\ run = "none" /\ ~IsManualTrigger
        /\ IsInWindow /\ IsDue /\ ~CapReached
        /\ run' = "schedule"
        /\ UNCHANGED trig
     \/ /\ \/ paused \/ run # "none"
           \/ ~IsManualTrigger /\ (~IsInWindow \/ ~IsDue \/ CapReached)
        /\ UNCHANGED <<run, trig>>
  /\ UNCHANGED <<now, spec, age, recent, promise, today>>

-----------------------------------------------------------------------------
(* The run, the user, time                                                 *)

\* The run ends and _update_parent_backup records it.
EndRun ==
  /\ run # "none"
  /\ \E ok \in BOOLEAN :
       /\ recent' = <<IF ok THEN "other" ELSE "failed">> \o SubSeq(recent, 1, HistoryLength - 1)
       /\ age' = IF ok THEN 0 ELSE age
       /\ trig' = IF ok /\ trig = "new" THEN "stale" ELSE trig
       /\ promise' = [in |-> NextIn(cron), by |-> IF ok THEN "success" ELSE "failure"]
       /\ failed' = IF ~ok /\ run = "schedule" THEN Least(failed + 1, MaxRetriesPerDay + 1)
                                                ELSE failed
  /\ ended' = Least(ended + 1, HistoryLength + 1)
  /\ run' = "none"
  /\ UNCHANGED <<now, spec, looked>>

\* on_update, for a pause as for a new schedule.
Update ==
  /\ paused' \in BOOLEAN /\ cron' \in Crons /\ window' \in Windows
  /\ spec' # spec
  /\ promise' = [in |-> NextIn(cron'), by |-> "update"]
  /\ UNCHANGED <<now, age, trig, recent, run, looked, today>>

SetTriggeredAt ==
  /\ trig' = "new"
  /\ UNCHANGED <<now, spec, age, recent, promise, run, looked, today>>

\* The dashboard's trigger_backup asks neither for a pause nor for a window.
TriggerBackup ==
  /\ run = "none" /\ run' = "manual"
  /\ UNCHANGED <<now, spec, age, trig, recent, promise, looked, today>>

Tick ==
  /\ looked
  /\ now' = (now + 1) % Day
  /\ looked' = FALSE
  /\ age' = IF age = Never THEN Never ELSE Least(age + 1, Day)
  /\ promise' = [promise EXCEPT !.in = IF @ > 0 THEN @ - 1 ELSE 0]
  /\ IF now' = 0
     THEN /\ recent' = [i \in 1..HistoryLength |-> "other"]
          /\ failed' = 0 /\ ended' = 0
     ELSE UNCHANGED <<recent, today>>
  /\ UNCHANGED <<spec, trig, run>>

User == Update \/ SetTriggeredAt \/ TriggerBackup

Next == BackupTimer \/ EndRun \/ User \/ Tick

Spec == Init /\ [][Next]_vars

\* Time passes, the timer looks in every slot, a run comes to its end.
FairSpec == Spec /\ WF_vars(BackupTimer) /\ WF_vars(EndRun) /\ WF_vars(Tick)

-----------------------------------------------------------------------------
(* Properties                                                              *)

TypeOK == /\ now \in 0..(Day - 1)
          /\ cron \in Crons /\ window \in Windows /\ paused \in BOOLEAN
          /\ age \in 0..Never /\ trig \in {"none", "new", "stale"}
          /\ recent \in [1..HistoryLength -> {"failed", "other"}]
          /\ promise \in [in : 0..Day, by : {"create", "update", "success", "failure"}]
          /\ run \in {"none", "schedule", "manual"} /\ looked \in BOOLEAN
          /\ failed \in 0..(MaxRetriesPerDay + 1) /\ ended \in 0..(HistoryLength + 1)

\* "Stop retrying after this many failures in a calendar day (UTC) to prevent
\* retry storms" (crd.yaml): with a retry in the next minute after every failure,
\* around midnight, and with a run that began the day before, the scheduled
\* failures of a day stay within the cap, for a day whose runs the history holds.
RetriesAreCapped == ended <= HistoryLength => failed <= MaxRetriesPerDay

\* The same of every day: 30 ended runs push a failure out of the history.
RetriesAreAlwaysCapped == failed <= MaxRetriesPerDay

\* "failed scheduled runs per UTC day (manual triggers bypass the cap)"
\* (reference.md): it is scheduled failures that reach the cap.
ScheduledFailuresCount == CapReached => failed >= MaxRetriesPerDay

\* "Next scheduled run" (reference.md): the time recorded with a success comes
\* from now, the decision from the time of the success and the spec of that
\* moment; still no scheduled run starts before it.  (The first run, a retry
\* and a run after a change of the spec do not wait for nextBackupTime.)
RunsAt(p) == run = "none" /\ run' = "schedule" => p = 0
PromiseKept == [][promise.by = "success" => RunsAt(promise.in)]_vars

\* The documented meaning, whoever has computed the time.
AlwaysPromised == [][RunsAt(promise.in)]_vars

\* A due backup is attempted again and again, through windows over midnight,
\* failures on every day and old triggers, once the user leaves it alone: unless
\* it is paused, its window is empty or it may not fail at all.
DueIsServed ==
  <>[][~User]_vars =>
    []<>(run # "none" \/ ~IsDue \/ paused \/ MaxRetriesPerDay = 0
         \/ (window # NoWindow /\ window[1] = window[2]))

\* A window from an hour to the same hour, read as the whole day.
EveryWindowOpens ==
  <>[][~User]_vars => []<>(run # "none" \/ ~IsDue \/ paused \/ MaxRetriesPerDay = 0)
=============================================================================
