--------------------------- MODULE ScheduleProofs ---------------------------
(***************************************************************************)
(* For every length of a day, every set of schedules and windows, every cap *)
(* and every length of the history: the scheduled failures of a day stay    *)
(* within the cap, and no scheduled run starts before the time that was     *)
(* recorded with a success.                                                 *)
(***************************************************************************)
EXTENDS Schedule, FiniteSetTheorems, WellFoundedInduction, TLAPS

\* While the history holds the day, it holds every scheduled failure of the
\* day, has no failure behind the newest `ended' entries, and a scheduled run is
\* active only below the cap.
Counted == /\ ended <= HistoryLength =>
                /\ failed <= MaxRetriesPerDay
                /\ failed <= Cardinality(Failures)
                /\ \A i \in 1..HistoryLength : i > ended => recent[i] = "other"
           /\ run = "schedule" => Cardinality(Failures) < MaxRetriesPerDay

\* Until the time recorded with a success there is no occurrence, neither since
\* the success nor ahead.
Quiet == promise.by = "success" /\ promise.in > 0 =>
           /\ age + promise.in <= Day
           /\ \A n \in 0..(age - 1) : (now - n) % Day \notin cron
           /\ \A m \in 1..(promise.in - 1) : (now + m) % Day \notin cron

Inv == TypeOK /\ Counted /\ Quiet

-----------------------------------------------------------------------------
(* A ring of slots                                                         *)

LEMMA Mod == ASSUME NEW a \in (-Day)..(2 * Day - 1)
             PROVE  a % Day = IF a < 0 THEN a + Day ELSE IF a < Day THEN a ELSE a - Day
<1>1. CASE a < 0
  BY <1>1, DayAssumption
<1>2. CASE a \in 0..(Day - 1)
  BY <1>2, DayAssumption
<1>3. CASE a >= Day
  BY <1>3, DayAssumption
<1> QED
  BY <1>1, <1>2, <1>3, DayAssumption

\* The next slot sees the others one slot farther or nearer.
LEMMA Turn ==
  ASSUME NEW t \in 0..(Day - 1)
  PROVE  /\ (t + 1) % Day \in 0..(Day - 1)
         /\ \A n \in 1..Day : (((t + 1) % Day) - n) % Day = (t - (n - 1)) % Day
         /\ \A m \in 1..(Day - 1) : (((t + 1) % Day) + m) % Day = (t + (m + 1)) % Day
<1> DEFINE u == (t + 1) % Day
<1>1. u = (IF t + 1 = Day THEN 0 ELSE t + 1) /\ u \in 0..(Day - 1)
  BY Mod, DayAssumption
<1>2. ASSUME NEW n \in 1..Day PROVE (u - n) % Day = (t - (n - 1)) % Day
  <2>1. /\ u - n \in (-Day)..(2 * Day - 1) /\ t - (n - 1) \in (-Day)..(2 * Day - 1)
    BY <1>1, DayAssumption
  <2> HIDE DEF u
  <2> QED
    BY <1>1, <2>1, Mod, DayAssumption
<1>3. ASSUME NEW m \in 1..(Day - 1) PROVE (u + m) % Day = (t + (m + 1)) % Day
  <2>1. /\ u + m \in (-Day)..(2 * Day - 1) /\ t + (m + 1) \in (-Day)..(2 * Day - 1)
    BY <1>1, DayAssumption
  <2> HIDE DEF u
  <2> QED
    BY <1>1, <2>1, Mod, DayAssumption
<1> QED
  BY <1>1, <1>2, <1>3

LEMMA LeastNat == ASSUME NEW T, T \subseteq Nat, T # {}
                  PROVE  \E n \in T : \A m \in T : ~ (m < n)
<1>1. PICK n \in T : \A m \in T : ~ (<<m, n>> \in OpToRel(<, Nat))
  BY NatLessThanWellFounded, WFMin, Zenon
<1>2. \A m \in T : ~ (m < n)
  BY <1>1, Zenon DEF OpToRel
<1> QED
  BY <1>2

\* A schedule has a next occurrence, and compute_next_backup finds it.
LEMMA NextOccurrence ==
  ASSUME now \in 0..(Day - 1), NEW c \in Crons
  PROVE  /\ NextIn(c) \in 1..Day
         /\ \A m \in 1..(NextIn(c) - 1) : (now + m) % Day \notin c
<1> DEFINE T == {n \in 1..Day : (now + n) % Day \in c}
<1>1. PICK x \in 0..(Day - 1) : x \in c
  BY CronsAssumption
<1>2. now \in 0..(Day - 1)
  OBVIOUS
<1>3. T # {}
  <2> DEFINE n == IF x > now THEN x - now ELSE x - now + Day
  <2>1. n \in 1..Day /\ now + n \in (-Day)..(2 * Day - 1)
    BY <1>1, <1>2, DayAssumption
  <2>2. (now + n) % Day = x
    BY <1>1, <1>2, <2>1, Mod, DayAssumption
  <2> QED
    BY <1>1, <2>1, <2>2
<1>4. PICK n \in T : \A m \in T : ~ (m < n)
  <2>1. T \subseteq Nat
    BY DayAssumption
  <2> HIDE DEF T
  <2> QED
    BY <1>3, <2>1, LeastNat
<1>6. /\ n \in 1..Day /\ (now + n) % Day \in c
      /\ \A m \in 1..(n - 1) : (now + m) % Day \notin c
  <2>1. n \in 1..Day /\ (now + n) % Day \in c
    BY <1>4
  <2>2. ASSUME NEW m \in 1..(n - 1) PROVE (now + m) % Day \notin c
    <3>1. m \in 1..Day /\ m < n
      BY <2>1, DayAssumption
    <3> QED
      BY <1>4, <3>1
  <2> QED
    BY <2>1, <2>2
<1> QED
  BY <1>6 DEF NextIn

-----------------------------------------------------------------------------
(* The failures of the day                                                 *)

LEMMA FailuresFinite == IsFiniteSet(Failures) /\ Cardinality(Failures) \in Nat
<1>1. Failures \subseteq 1..HistoryLength
  BY DEF Failures
<1>2. IsFiniteSet(1..HistoryLength)
  BY LimitsAssumption, FS_Interval
<1> QED
  BY <1>1, <1>2, FS_Subset, FS_CardinalityType

\* A shifted set is as large.
LEMMA Shifted == ASSUME NEW S \in SUBSET Int, IsFiniteSet(S)
                 PROVE  /\ IsFiniteSet({i + 1 : i \in S})
                        /\ Cardinality({i + 1 : i \in S}) = Cardinality(S)
<1> DEFINE T == {i + 1 : i \in S}
           f == [i \in S |-> i + 1]
<1>1. f \in [S -> T]
  OBVIOUS
<1>2. \A a, b \in S : f[a] = f[b] => a = b
  OBVIOUS
<1>3. \A t \in T : \E s \in S : f[s] = t
  OBVIOUS
<1>4. ExistsBijection(S, T)
  BY <1>1, <1>2, <1>3 DEF ExistsBijection, Bijection, Injection, Surjection, IsInjective
<1> QED
  BY <1>4, FS_Bijection

\* A new entry in front of the history moves the others on by one.
LEMMA NewEntry ==
  ASSUME TypeOK, NEW x \in {"failed", "other"}
  PROVE  /\ <<x>> \o SubSeq(recent, 1, HistoryLength - 1)
               \in [1..HistoryLength -> {"failed", "other"}]
         /\ \A i \in 1..HistoryLength :
              (<<x>> \o SubSeq(recent, 1, HistoryLength - 1))[i] = IF i = 1 THEN x ELSE recent[i - 1]
<1> DEFINE s == SubSeq(recent, 1, HistoryLength - 1)
<1>1. HistoryLength \in Nat \ {0} /\ recent \in Seq({"failed", "other"}) /\ Len(recent) = HistoryLength
  BY LimitsAssumption DEF TypeOK
<1>2. /\ s \in Seq({"failed", "other"}) /\ Len(s) = HistoryLength - 1
      /\ \A i \in 1..(HistoryLength - 1) : s[i] = recent[i]
  BY <1>1
<1>3. /\ Len(<<x>> \o s) = HistoryLength
      /\ <<x>> \o s \in Seq({"failed", "other"})
      /\ \A i \in 1..HistoryLength : (<<x>> \o s)[i] = IF i = 1 THEN x ELSE s[i - 1]
  BY <1>1, <1>2
<1>4. ASSUME NEW i \in 1..HistoryLength
      PROVE  (<<x>> \o s)[i] = IF i = 1 THEN x ELSE recent[i - 1]
  <2>1. CASE i = 1
    BY <1>3, <2>1
  <2>2. CASE i # 1
    <3>1. i - 1 \in 1..(HistoryLength - 1)
      BY <1>1, <2>2
    <3> QED
      BY <1>2, <1>3, <2>2, <3>1
  <2> QED
    BY <2>1, <2>2
<1>5. <<x>> \o s \in [1..HistoryLength -> {"failed", "other"}]
  <2> DEFINE r == <<x>> \o s
  <2>1. r \in Seq({"failed", "other"}) /\ Len(r) = HistoryLength
    BY <1>3
  <2> HIDE DEF r
  <2>2. r \in [1..HistoryLength -> {"failed", "other"}]
    BY <2>1
  <2> QED
    BY <2>2 DEF r
<1> QED
  BY <1>4, <1>5
\* What EndRun makes of the history.
LEMMA Recorded ==
  ASSUME TypeOK, NEW x \in {"failed", "other"},
         recent' = <<x>> \o SubSeq(recent, 1, HistoryLength - 1)
  PROVE  /\ recent' \in [1..HistoryLength -> {"failed", "other"}]
         /\ \A i \in 1..HistoryLength : recent'[i] = IF i = 1 THEN x ELSE recent[i - 1]
         /\ recent[HistoryLength] = "other" =>
              /\ x = "failed" => Cardinality(Failures') = Cardinality(Failures) + 1
              /\ x = "other" => Cardinality(Failures') = Cardinality(Failures)
<1>1. /\ recent' \in [1..HistoryLength -> {"failed", "other"}]
      /\ \A i \in 1..HistoryLength : recent'[i] = IF i = 1 THEN x ELSE recent[i - 1]
  BY NewEntry
<1>2. ASSUME recent[HistoryLength] = "other"
      PROVE  /\ x = "failed" => Cardinality(Failures') = Cardinality(Failures) + 1
             /\ x = "other" => Cardinality(Failures') = Cardinality(Failures)
  <2> DEFINE T == {i + 1 : i \in Failures}
  <2>1. Failures \subseteq 1..(HistoryLength - 1)
    BY <1>2, LimitsAssumption DEF Failures
  <2>2. IsFiniteSet(T) /\ Cardinality(T) = Cardinality(Failures)
    BY <2>1, FailuresFinite, Shifted
  <2>3. 1 \notin T
    BY <2>1
  <2>4. \A i \in 2..HistoryLength : i \in T <=> recent[i - 1] = "failed"
    <3>1. ASSUME NEW i \in 2..HistoryLength, recent[i - 1] = "failed" PROVE i \in T
      <4>1. i - 1 \in Failures /\ i = (i - 1) + 1
        BY <3>1, LimitsAssumption DEF Failures
      <4> QED
        BY <4>1
    <3>2. ASSUME NEW i \in 2..HistoryLength, i \in T PROVE recent[i - 1] = "failed"
      BY <2>1, <3>2 DEF Failures
    <3> QED
      BY <3>1, <3>2
  <2>5. T \subseteq 2..HistoryLength
    BY <2>1, LimitsAssumption
  <2>6. CASE x = "failed"
    <3>1. Failures' = T \union {1}
      BY <1>1, <2>4, <2>5, <2>6, LimitsAssumption DEF Failures
    <3> QED
      BY <2>2, <2>3, <2>6, <3>1, FS_AddElement
  <2>7. CASE x = "other"
    <3>1. Failures' = T
      BY <1>1, <2>4, <2>5, <2>7, LimitsAssumption DEF Failures
    <3> QED
      BY <2>2, <2>7, <3>1, FailuresFinite
  <2> QED
    BY <2>6, <2>7
<1> QED
  BY <1>1, <1>2

LEMMA NoFailures == ASSUME recent = [i \in 1..HistoryLength |-> "other"]
                    PROVE  Cardinality(Failures) = 0
<1>1. Failures = {}
  BY DEF Failures
<1> QED
  BY <1>1, FS_EmptySet

-----------------------------------------------------------------------------
(* The invariant                                                           *)

LEMMA InitInv == Init => Inv
<1> SUFFICES ASSUME Init PROVE Inv
  OBVIOUS
<1>1. now \in 0..(Day - 1) /\ cron \in Crons
  BY DEF Init
<1>2. Cardinality(Failures) = 0
  BY NoFailures DEF Init
<1>3. NextIn(cron) \in 1..Day
  BY <1>1, NextOccurrence
<1>4. TypeOK
  <2>1. recent \in [1..HistoryLength -> {"failed", "other"}]
    BY DEF Init
  <2>2. promise \in [in : 0..Day, by : {"create", "update", "success", "failure"}]
    BY <1>3, DayAssumption DEF Init
  <2>3. age \in 0..Never
    BY DayAssumption DEF Init, Never
  <2>4. failed \in 0..(MaxRetriesPerDay + 1) /\ ended \in 0..(HistoryLength + 1)
    BY LimitsAssumption DEF Init
  <2>5. paused \in BOOLEAN /\ looked \in BOOLEAN /\ window \in Windows
    BY DEF Init
  <2>6. trig \in {"none", "new", "stale"} /\ run \in {"none", "schedule", "manual"}
    BY DEF Init
  <2> QED
    BY <1>1, <2>1, <2>2, <2>3, <2>4, <2>5, <2>6 DEF TypeOK
<1>5. Counted
  BY <1>2, LimitsAssumption DEF Init, Counted
<1>6. Quiet
  BY DEF Init, Quiet
<1> QED
  BY <1>4, <1>5, <1>6 DEF Inv

\* The failures of the day do not change unless a run ends or the day does.
LEMMA SameHistory == ASSUME UNCHANGED recent PROVE Cardinality(Failures') = Cardinality(Failures)
  BY DEF Failures

LEMMA TimerKeeps == ASSUME Inv, BackupTimer PROVE Inv'
<1>1. /\ run' \in {"none", "schedule", "manual"} /\ trig' \in {"none", "new", "stale"}
      /\ run' = "schedule" => run = "schedule" \/ ~CapReached
  BY DEF Inv, TypeOK, BackupTimer
<1>2. TypeOK'
  BY <1>1 DEF Inv, TypeOK, BackupTimer, spec, today, Windows
<1>3. run' = "schedule" => Cardinality(Failures) < MaxRetriesPerDay
  BY <1>1, FailuresFinite, LimitsAssumption DEF Inv, Counted, CapReached
<1>4. Counted'
  BY <1>3, SameHistory DEF Inv, Counted, BackupTimer, today
<1>5. Quiet'
  BY DEF Inv, Quiet, BackupTimer, spec
<1> QED
  BY <1>2, <1>4, <1>5 DEF Inv

LEMMA UserKeeps == ASSUME Inv, User PROVE Inv'
<1>1. CASE Update
  <2>1. now \in 0..(Day - 1) /\ cron' \in Crons
    BY <1>1 DEF Inv, TypeOK, Update
  <2>2. NextIn(cron') \in 1..Day
    BY <2>1, NextOccurrence
  <2>3. promise' \in [in : 0..Day, by : {"create", "update", "success", "failure"}]
    BY <1>1, <2>2, DayAssumption DEF Update
  <2>4. TypeOK'
    BY <1>1, <2>3 DEF Inv, TypeOK, Update, today, Windows
  <2>5. Counted'
    BY <1>1, SameHistory DEF Inv, Counted, Update, today
  <2>6. Quiet'
    BY <1>1 DEF Quiet, Update
  <2> QED
    BY <2>4, <2>5, <2>6 DEF Inv
<1>2. CASE SetTriggeredAt
  <2>1. TypeOK'
    BY <1>2 DEF Inv, TypeOK, SetTriggeredAt, spec, today, Windows
  <2>2. Counted'
    BY <1>2, SameHistory DEF Inv, Counted, SetTriggeredAt, today
  <2>3. Quiet'
    BY <1>2 DEF Inv, Quiet, SetTriggeredAt, spec
  <2> QED
    BY <2>1, <2>2, <2>3 DEF Inv
<1>3. CASE TriggerBackup
  <2>1. TypeOK'
    BY <1>3 DEF Inv, TypeOK, TriggerBackup, spec, today, Windows
  <2>2. Counted'
    BY <1>3, SameHistory DEF Inv, Counted, TriggerBackup, today
  <2>3. Quiet'
    BY <1>3 DEF Inv, Quiet, TriggerBackup, spec
  <2> QED
    BY <2>1, <2>2, <2>3 DEF Inv
<1> QED
  BY <1>1, <1>2, <1>3 DEF User

\* What a run that ends leaves, by its result.
Ended(ok) ==
  /\ recent' = <<IF ok THEN "other" ELSE "failed">> \o SubSeq(recent, 1, HistoryLength - 1)
  /\ age' = IF ok THEN 0 ELSE age
  /\ trig' = IF ok /\ trig = "new" THEN "stale" ELSE trig
  /\ promise' = [in |-> NextIn(cron), by |-> IF ok THEN "success" ELSE "failure"]
  /\ failed' = IF ~ok /\ run = "schedule" THEN Least(failed + 1, MaxRetriesPerDay + 1)
                                          ELSE failed
  /\ ended' = Least(ended + 1, HistoryLength + 1)
  /\ run # "none" /\ run' = "none"
  /\ UNCHANGED <<now, spec, looked>>

LEMMA SuccessKeeps == ASSUME Inv, Ended(TRUE) PROVE Inv'
<1>1. recent' = <<"other">> \o SubSeq(recent, 1, HistoryLength - 1)
  BY DEF Ended
<1>2. /\ recent' \in [1..HistoryLength -> {"failed", "other"}]
      /\ \A i \in 1..HistoryLength : recent'[i] = IF i = 1 THEN "other" ELSE recent[i - 1]
      /\ recent[HistoryLength] = "other" => Cardinality(Failures') = Cardinality(Failures)
  BY <1>1, Recorded, FailuresFinite DEF Inv
<1>3. NextIn(cron) \in 1..Day /\ \A m \in 1..(NextIn(cron) - 1) : (now + m) % Day \notin cron
  BY NextOccurrence DEF Inv, TypeOK
<1>4. promise' = [in |-> NextIn(cron), by |-> "success"] /\ age' = 0
  BY DEF Ended
<1>5. ended' = Least(ended + 1, HistoryLength + 1) /\ failed' = failed /\ run' = "none"
  BY DEF Ended
<1>6. TypeOK'
  <2>1. promise' \in [in : 0..Day, by : {"create", "update", "success", "failure"}]
    BY <1>3, <1>4, DayAssumption
  <2>2. age' \in 0..Never /\ trig' \in {"none", "new", "stale"}
    BY <1>4, DayAssumption DEF Inv, TypeOK, Ended, Never
  <2>3. failed' \in 0..(MaxRetriesPerDay + 1) /\ ended' \in 0..(HistoryLength + 1)
    BY <1>5, LimitsAssumption DEF Inv, TypeOK, Least
  <2> QED
    BY <1>2, <1>5, <2>1, <2>2, <2>3 DEF Inv, TypeOK, Ended, spec, Windows
<1>7. Counted'
  <2>1. SUFFICES ASSUME ended' <= HistoryLength
                 PROVE  /\ failed' <= MaxRetriesPerDay
                        /\ failed' <= Cardinality(Failures')
                        /\ \A i \in 1..HistoryLength : i > ended' => recent'[i] = "other"
    BY <1>5 DEF Counted
  <2>2. ended' = ended + 1 /\ ended < HistoryLength /\ ended \in Nat
    BY <1>5, <2>1, LimitsAssumption DEF Inv, TypeOK, Least
  <2>3. /\ failed <= MaxRetriesPerDay /\ failed <= Cardinality(Failures)
        /\ \A i \in 1..HistoryLength : i > ended => recent[i] = "other"
    BY <2>2, LimitsAssumption DEF Inv, Counted
  <2>4. recent[HistoryLength] = "other"
    BY <2>2, <2>3, LimitsAssumption
  <2>5. ASSUME NEW i \in 1..HistoryLength, i > ended' PROVE recent'[i] = "other"
    <3>1. i - 1 \in 1..HistoryLength /\ i - 1 > ended /\ i # 1
      BY <2>2, <2>5, LimitsAssumption
    <3> QED
      BY <1>2, <2>3, <3>1
  <2> QED
    BY <1>2, <1>5, <2>3, <2>4, <2>5
<1>8. Quiet'
  BY <1>3, <1>4, DayAssumption DEF Quiet, Ended, spec
<1> QED
  BY <1>6, <1>7, <1>8 DEF Inv

LEMMA FailureKeeps == ASSUME Inv, Ended(FALSE) PROVE Inv'
<1>1. recent' = <<"failed">> \o SubSeq(recent, 1, HistoryLength - 1)
  BY DEF Ended
<1>2. /\ recent' \in [1..HistoryLength -> {"failed", "other"}]
      /\ \A i \in 1..HistoryLength : recent'[i] = IF i = 1 THEN "failed" ELSE recent[i - 1]
      /\ recent[HistoryLength] = "other" => Cardinality(Failures') = Cardinality(Failures) + 1
  BY <1>1, Recorded, FailuresFinite DEF Inv
<1>3. NextIn(cron) \in 1..Day
  BY NextOccurrence DEF Inv, TypeOK
<1>4. /\ promise' = [in |-> NextIn(cron), by |-> "failure"] /\ age' = age /\ trig' = trig
      /\ ended' = Least(ended + 1, HistoryLength + 1) /\ run' = "none"
      /\ run = "schedule" => failed' = Least(failed + 1, MaxRetriesPerDay + 1)
      /\ run # "schedule" => failed' = failed
  BY DEF Ended
<1>5. failed \in 0..(MaxRetriesPerDay + 1) /\ ended \in 0..(HistoryLength + 1)
  BY DEF Inv, TypeOK
<1>6. TypeOK'
  <2>1. promise' \in [in : 0..Day, by : {"create", "update", "success", "failure"}]
    BY <1>3, <1>4, DayAssumption
  <2>2. failed' \in 0..(MaxRetriesPerDay + 1) /\ ended' \in 0..(HistoryLength + 1)
    BY <1>4, <1>5, LimitsAssumption DEF Least
  <2> QED
    BY <1>2, <1>4, <2>1, <2>2 DEF Inv, TypeOK, Ended, spec, Windows, Never
<1>7. Counted'
  <2>1. SUFFICES ASSUME ended' <= HistoryLength
                 PROVE  /\ failed' <= MaxRetriesPerDay
                        /\ failed' <= Cardinality(Failures')
                        /\ \A i \in 1..HistoryLength : i > ended' => recent'[i] = "other"
    BY <1>4 DEF Counted
  <2>2. ended' = ended + 1 /\ ended < HistoryLength
    BY <1>4, <1>5, <2>1, LimitsAssumption DEF Least
  <2>3. /\ failed <= MaxRetriesPerDay /\ failed <= Cardinality(Failures)
        /\ \A i \in 1..HistoryLength : i > ended => recent[i] = "other"
    BY <1>5, <2>2, LimitsAssumption DEF Inv, Counted
  <2>4. recent[HistoryLength] = "other"
    BY <1>5, <2>2, <2>3, LimitsAssumption
  <2>5. ASSUME NEW i \in 1..HistoryLength, i > ended' PROVE recent'[i] = "other"
    <3>1. i - 1 \in 1..HistoryLength /\ i - 1 > ended /\ i # 1
      BY <1>5, <2>2, <2>5, LimitsAssumption
    <3> QED
      BY <1>2, <2>3, <3>1
  <2>6. run = "schedule" => Cardinality(Failures) < MaxRetriesPerDay
    BY DEF Inv, Counted
  <2>7. failed' <= MaxRetriesPerDay /\ failed' <= Cardinality(Failures')
    BY <1>2, <1>4, <1>5, <2>3, <2>4, <2>6, FailuresFinite, LimitsAssumption DEF Least
  <2> QED
    BY <2>5, <2>7
<1>8. Quiet'
  BY <1>4 DEF Quiet
<1> QED
  BY <1>6, <1>7, <1>8 DEF Inv

LEMMA EndKeeps == ASSUME Inv, EndRun PROVE Inv'
<1>1. PICK ok \in BOOLEAN : Ended(ok)
  BY DEF EndRun, Ended
<1>2. CASE ok = TRUE
  BY <1>1, <1>2, SuccessKeeps
<1>3. CASE ok = FALSE
  BY <1>1, <1>3, FailureKeeps
<1> QED
  BY <1>2, <1>3

LEMMA TickKeeps == ASSUME Inv, Tick PROVE Inv'
<1>1. now \in 0..(Day - 1) /\ now' = (now + 1) % Day /\ now' \in 0..(Day - 1)
  BY Turn DEF Inv, TypeOK, Tick
<1>2. age \in 0..Never /\ age' = (IF age = Never THEN Never ELSE Least(age + 1, Day))
  BY DEF Inv, TypeOK, Tick
<1>3. /\ promise \in [in : 0..Day, by : {"create", "update", "success", "failure"}]
      /\ promise' = [promise EXCEPT !.in = IF @ > 0 THEN @ - 1 ELSE 0]
  BY DEF Inv, TypeOK, Tick
<1>4. /\ promise'.by = promise.by
      /\ promise'.in = IF promise.in > 0 THEN promise.in - 1 ELSE 0
  BY <1>3
<1>5. ASSUME now' = 0
      PROVE  /\ Counted' /\ recent' \in [1..HistoryLength -> {"failed", "other"}]
             /\ failed' \in 0..(MaxRetriesPerDay + 1) /\ ended' \in 0..(HistoryLength + 1)
  <2>1. recent' = [i \in 1..HistoryLength |-> "other"] /\ failed' = 0 /\ ended' = 0
    BY <1>5 DEF Tick
  <2>2. Cardinality(Failures') = 0
    <3>1. Failures' = {}
      BY <2>1 DEF Failures
    <3> QED
      BY <3>1, FS_EmptySet
  <2>3. Counted'
    BY <2>1, <2>2, FailuresFinite, LimitsAssumption DEF Inv, Counted, Tick
  <2>4. recent' \in [1..HistoryLength -> {"failed", "other"}]
    BY <2>1
  <2>5. failed' \in 0..(MaxRetriesPerDay + 1) /\ ended' \in 0..(HistoryLength + 1)
    BY <2>1, LimitsAssumption
  <2> QED
    BY <2>3, <2>4, <2>5
<1>6. ASSUME now' # 0
      PROVE  /\ Counted' /\ recent' \in [1..HistoryLength -> {"failed", "other"}]
             /\ failed' \in 0..(MaxRetriesPerDay + 1) /\ ended' \in 0..(HistoryLength + 1)
  <2>1. UNCHANGED <<recent, failed, ended>>
    BY <1>6 DEF Tick, today
  <2> QED
    BY <2>1, SameHistory DEF Inv, TypeOK, Counted, Tick
<1>7. TypeOK'
  <2>1. age' \in 0..Never
    BY <1>2, DayAssumption DEF Never, Least
  <2>2. promise' \in [in : 0..Day, by : {"create", "update", "success", "failure"}]
    BY <1>3, <1>4, DayAssumption
  <2>3. UNCHANGED <<cron, window, paused, trig, run>> /\ looked' = FALSE
    BY DEF Tick, spec
  <2> QED
    BY <1>1, <1>5, <1>6, <2>1, <2>2, <2>3 DEF Inv, TypeOK, Windows
<1>8. Quiet'
  <2>1. SUFFICES ASSUME promise'.by = "success", promise'.in > 0
                 PROVE  /\ age' + promise'.in <= Day
                        /\ \A n \in 0..(age' - 1) : (now' - n) % Day \notin cron
                        /\ \A m \in 1..(promise'.in - 1) : (now' + m) % Day \notin cron
    BY DEF Quiet, Tick, spec
  <2>2. promise.in \in 2..Day /\ promise'.in = promise.in - 1 /\ promise.by = "success"
    BY <1>3, <1>4, <2>1, DayAssumption
  <2>3. /\ age + promise.in <= Day
        /\ \A n \in 0..(age - 1) : (now - n) % Day \notin cron
        /\ \A m \in 1..(promise.in - 1) : (now + m) % Day \notin cron
    BY <2>2 DEF Inv, Quiet
  <2>4. age' = age + 1 /\ age \in 0..(Day - 2)
    BY <1>2, <2>2, <2>3, DayAssumption DEF Never, Least
  <2>5. ASSUME NEW n \in 0..age PROVE (now' - n) % Day \notin cron
    <3>1. CASE n = 0
      <4>1. now' \in (-Day)..(2 * Day - 1)
        BY <1>1, DayAssumption
      <4>2. now' % Day = now' /\ now' - n = now'
        BY <1>1, <3>1, <4>1, Mod, DayAssumption
      <4>3. (now + 1) % Day \notin cron
        BY <2>2, <2>3
      <4> QED
        BY <1>1, <4>2, <4>3
    <3>2. CASE n # 0
      <4>1. n \in 1..Day /\ n - 1 \in 0..(age - 1)
        BY <2>4, <3>2, DayAssumption
      <4>2. (now' - n) % Day = (now - (n - 1)) % Day
        BY <1>1, <4>1, Turn
      <4> QED
        BY <2>3, <4>1, <4>2
    <3> QED
      BY <3>1, <3>2
  <2>6. ASSUME NEW m \in 1..(promise'.in - 1) PROVE (now' + m) % Day \notin cron
    <3>1. m \in 1..(Day - 1) /\ m + 1 \in 1..(promise.in - 1)
      BY <2>2, DayAssumption
    <3>2. (now' + m) % Day = (now + (m + 1)) % Day
      BY <1>1, <3>1, Turn
    <3> QED
      BY <2>3, <3>1, <3>2
  <2> QED
    BY <2>2, <2>3, <2>4, <2>5, <2>6
<1> QED
  BY <1>5, <1>6, <1>7, <1>8 DEF Inv

\* Inv is inductive: at the turn of the day the history is empty of today's
\* failures and so is the count, and a run that began the day before is still
\* below the cap.
THEOREM Invariant == Spec => []Inv
<1>1. Inv /\ [Next]_vars => Inv'
  <2> SUFFICES ASSUME Inv, [Next]_vars PROVE Inv'
    OBVIOUS
  <2>1. CASE UNCHANGED vars
    BY <2>1, SameHistory
       DEF Inv, TypeOK, Counted, Quiet, vars, spec, today, Windows
  <2> QED
    BY <2>1, TimerKeeps, EndKeeps, UserKeeps, TickKeeps DEF Next
<1> QED
  BY <1>1, InitInv, PTL DEF Spec

\* RetriesAreCapped (backup_timer, _daily_failure_count): the scheduled failures
\* of a day stay within the cap while the history holds the day's runs.
THEOREM CapHolds == Spec => []RetriesAreCapped
<1>1. Inv => RetriesAreCapped
  BY DEF Inv, Counted, RetriesAreCapped
<1> QED
  BY <1>1, Invariant, PTL

\* PromiseKept (_is_due, compute_next_backup): no scheduled run starts before the
\* time that was recorded with the last success.
THEOREM PromiseHolds == Spec => PromiseKept
<1>1. Inv /\ [Next]_vars => [promise.by = "success" => RunsAt(promise.in)]_vars
  <2> SUFFICES ASSUME Inv, Next, promise.by = "success", run = "none", run' = "schedule"
               PROVE  promise.in = 0
    BY DEF RunsAt
  <2>1. IsDue
    BY DEF Next, BackupTimer, EndRun, User, Update, SetTriggeredAt, TriggerBackup, Tick
  <2>2. promise.in \in 0..Day /\ age \in 0..Never
    BY DEF Inv, TypeOK
  <2>3. SUFFICES ASSUME promise.in > 0 PROVE FALSE
    BY <2>2
  <2>4. age + promise.in <= Day /\ \A n \in 0..(age - 1) : (now - n) % Day \notin cron
    BY <2>3 DEF Inv, Quiet
  <2> QED
    BY <2>1, <2>2, <2>3, <2>4, DayAssumption DEF IsDue, Never
<1> QED
  BY <1>1, Invariant, PTL DEF Spec, PromiseKept

\* The types of every variable.
THEOREM TypeCorrect == Spec => []TypeOK
  BY Invariant, PTL DEF Inv
=============================================================================
