------------------------- MODULE ParentStatusProofs -------------------------
(***************************************************************************)
(* For every number of runs, every cap, every length of the history and    *)
(* every set of upsets: the types hold, the history keeps to its length.    *)
(* As long as there has been no upset, no run is dropped from the history,  *)
(* and the daily cap counts what it should.                                 *)
(*                                                                         *)
(* Both rest on Serial: without an upset at most one run is active, at most *)
(* one handler at work, and nobody but that handler records anything, on    *)
(* the history as it is.                                                    *)
(***************************************************************************)
EXTENDS ParentStatus, FiniteSetTheorems, SequenceTheorems, TLAPS

Results == {"succeeded", "failed"}
RunRecord == [phase : {"absent", "active"} \union Results, by : {"schedule", "manual"}, served : Nat]
Record == [at : {"none", "read", "patch"}, result : Results, time : Nat,
           base : Seq(Entry), caller : Seq(Entry)]

\* TypeOK does not say that what is going to be written is no longer than the
\* history.
Short(q) == q \in Seq(Entry) /\ Len(q) <= HistoryLength
StatusTyped == /\ badge \in {"pending", "queued", "running", "success", "failed"}
               /\ last \in Nat /\ trig \in Nat /\ Short(history)
TimesTyped == clock \in Nat /\ tick \in Nat
RunsTyped == run \in [Runs -> RunRecord] /\ executed \subseteq Runs /\ jobs \subseteq Runs
HandlersTyped == h \in [Runs -> HandlerPc] /\ handled \subseteq Runs /\ running \in BOOLEAN
RecordsTyped == /\ rec \in [Recorders -> Record]
                /\ \A w \in Recorders : Short(rec[w].base) /\ Short(rec[w].caller)
CreatorsTyped ==
  /\ t \in [at : {"idle", "list", "create", "patch"}, trig : Nat, run : Runs \union {0}]
  /\ u \in [at : {"idle", "create", "patch"}, run : Runs \union {0}]
BoundsTyped == triggers \in 0..MaxTriggers /\ ticks \in 0..MaxTicks /\ upsets \subseteq Upsets

Types == /\ StatusTyped /\ TimesTyped /\ RunsTyped /\ HandlersTyped /\ RecordsTyped
         /\ CreatorsTyped /\ BoundsTyped

LEMMA TypesGive == Types => TypeOK
  BY DEF Types, StatusTyped, TimesTyped, RunsTyped, HandlersTyped, RecordsTyped, CreatorsTyped,
         BoundsTyped, TypeOK, Short, RunRecord, Record, Results

LEMMA InsertTyped ==
  ASSUME NEW e \in Entry, NEW b, Short(b)
  PROVE  Short(Insert(e, b))
<1> DEFINE n == IF Len(b) < HistoryLength THEN Len(b) + 1 ELSE HistoryLength
           c == <<e>> \o b
<1>1. c \in Seq(Entry) /\ Len(c) = Len(b) + 1
  BY DEF Short
<1>2. n \in 1..Len(c) /\ n <= HistoryLength
  BY <1>1, HistoryAssumption DEF Short
<1> HIDE DEF n, c
<1>3. SubSeq(c, 1, n) \in Seq(Entry) /\ Len(SubSeq(c, 1, n)) = n
  BY <1>1, <1>2
<1> QED
  BY <1>2, <1>3 DEF Insert, n, c, Short

LEMMA EndTyped == ASSUME Types, NEW r \in Runs, NEW result \in Results
                  PROVE  End(r, result) \in [Runs -> RunRecord]
  BY DEF Types, RunsTyped, End, RunRecord, Results

LEMMA EmptyShort == Short(<<>>)
  BY HistoryAssumption DEF Short

LEMMA RecordFields ==
  ASSUME Types, NEW w \in Recorders
  PROVE  /\ rec[w] \in Record /\ Short(rec[w].base) /\ Short(rec[w].caller)
         /\ rec \in [Recorders -> Record]
  BY DEF Types, RecordsTyped

\* A recorder's record is replaced.
LEMMA RecordTyped ==
  ASSUME Types, NEW w \in Recorders, NEW x \in Record, Short(x.base), Short(x.caller),
         rec' = [rec EXCEPT ![w] = x]
  PROVE  RecordsTyped'
  BY DEF Types, RecordsTyped

LEMMA StartRecordTyped ==
  ASSUME Types, NEW w \in Recorders, NEW result \in Results, NEW caller,
         Short(caller), StartRecord(w, result, caller)
  PROVE  clock' \in Nat /\ RecordsTyped'
<1> DEFINE x == [at |-> "read", result |-> result,
                 time |-> IF result = "succeeded" THEN clock + 1 ELSE 0,
                 base |-> <<>>, caller |-> caller]
<1>1. clock \in Nat
  BY DEF Types, TimesTyped
<1>2. x \in Record /\ Short(x.base) /\ Short(x.caller)
  BY <1>1, EmptyShort DEF Record, Short
<1>3. rec' = [rec EXCEPT ![w] = x] /\ clock' \in Nat
  BY <1>1 DEF StartRecord
<1> HIDE DEF x
<1> QED
  BY <1>2, <1>3, RecordTyped

\* An upset is one of those that may happen.
LEMMA UpsetTyped ==
  ASSUME Types, NEW kind, Upset(kind) \/ NoFault, UNCHANGED bounds
  PROVE  BoundsTyped'
  BY DEF Types, BoundsTyped, Upset, NoFault, bounds

LEMMA ReadTyped == ASSUME Types, NEW w \in Recorders, ReadParent(w) PROVE Types'
<1>1. PICK b \in {history, rec[w].caller} :
        rec' = [rec EXCEPT ![w].at = "patch", ![w].base = b]
  BY DEF ReadParent
<1>2. Short(b)
  BY RecordFields DEF Types, StatusTyped
<1> DEFINE x == [rec[w] EXCEPT !.at = "patch", !.base = b]
<1>3. rec' = [rec EXCEPT ![w] = x]
  BY <1>1, RecordFields
<1>4. x \in Record /\ Short(x.base) /\ Short(x.caller)
  BY <1>2, RecordFields DEF Record, Short
<1> HIDE DEF x
<1>5. RecordsTyped'
  BY <1>3, <1>4, RecordTyped
<1>6. BoundsTyped'
  BY UpsetTyped DEF ReadParent, Fault
<1> QED
  BY <1>5, <1>6 DEF Types, StatusTyped, TimesTyped, RunsTyped, HandlersTyped, CreatorsTyped,
                    ReadParent, status, times

LEMMA PatchTyped == ASSUME Types, NEW w \in Recorders, PatchParent(w) PROVE Types'
<1> DEFINE over == [NoRecord EXCEPT !.result = rec[w].result]
           again == [rec[w] EXCEPT !.at = "read"]
<1>1. /\ over \in Record /\ Short(over.base) /\ Short(over.caller)
      /\ again \in Record /\ Short(again.base) /\ Short(again.caller)
  BY RecordFields, EmptyShort DEF Record, Short, NoRecord
<1>2. rec' = [rec EXCEPT ![w] = over] \/ rec' = [rec EXCEPT ![w] = again]
  BY RecordFields DEF PatchParent, Over
<1> HIDE DEF over, again
<1>3. RecordsTyped'
  BY <1>1, <1>2, RecordTyped
<1>4. [run |-> w[1], result |-> rec[w].result] \in Entry
  BY RecordFields DEF Entry, Record, Results, Recorders
<1>5. Short(Insert([run |-> w[1], result |-> rec[w].result], rec[w].base))
  BY <1>4, RecordFields, InsertTyped
<1>6. StatusTyped'
  BY <1>5, RecordFields DEF Types, StatusTyped, PatchParent, Record
<1>7. BoundsTyped'
  BY UpsetTyped DEF PatchParent, Fault
<1> QED
  BY <1>3, <1>6, <1>7 DEF Types, TimesTyped, RunsTyped, HandlersTyped, CreatorsTyped,
                          PatchParent, times

LEMMA RunRecorder == ASSUME NEW r \in Runs
                     PROVE  <<r, "handler">> \in Recorders /\ <<r, "reconciler">> \in Recorders
  BY DEF Recorders

\* What HandlerStep changes and leaves.
LEMMA StepTyped ==
  ASSUME Types, NEW r \in Runs, NEW from, NEW to \in HandlerPc, HandlerStep(r, from, to)
  PROVE  /\ h' \in [Runs -> HandlerPc] /\ CreatorsTyped'
         /\ UNCHANGED <<last, trig, history, tick, bounds>>
  BY DEF Types, HandlersTyped, CreatorsTyped, HandlerStep

LEMMA HandlerTyped == ASSUME Types, NEW r \in Runs, OnRunCreate(r) PROVE Types'
<1> DEFINE w == <<r, "handler">>
           Steps == \E to \in HandlerPc, from \in HandlerPc : HandlerStep(r, from, to)
<1>0. w \in Recorders
  BY RunRecorder
<1>9. \A result \in Results : End(r, result) \in [Runs -> RunRecord]
  BY EndTyped
<1>10. /\ StatusTyped /\ TimesTyped /\ RunsTyped /\ HandlersTyped /\ RecordsTyped
       /\ CreatorsTyped /\ BoundsTyped
  BY DEF Types
<1>11. ASSUME Steps PROVE /\ h' \in [Runs -> HandlerPc] /\ CreatorsTyped'
                          /\ UNCHANGED <<last, trig, history, tick, bounds>>
  BY <1>11, StepTyped
<1>1. CASE Enter(r)
  <2>1. \/ HandlerStep(r, "idle", "check") /\ run' = run
        \/ HandlerStep(r, "idle", "done") /\ run' = End(r, "failed")
    BY <1>1, Zenon DEF Enter
  <2>2. UNCHANGED <<badge, clock, jobs, running, handled, rec, upsets, executed>>
    BY <1>1, Zenon DEF Enter
  <2>3. Steps
    BY <2>1 DEF HandlerPc
  <2>4. run' \in [Runs -> RunRecord]
    BY <1>9, <1>10, <2>1 DEF RunsTyped, Results
  <2> QED
    BY <1>10, <1>11, <2>2, <2>3, <2>4
       DEF Types, StatusTyped, TimesTyped, RunsTyped, HandlersTyped, RecordsTyped, BoundsTyped, bounds
<1>2. CASE Check(r)
  <2>1. Steps
    BY <1>2 DEF Check, HandlerPc
  <2>2. running' \in BOOLEAN
    BY <1>2, <1>10 DEF Check, HandlersTyped
  <2> QED
    BY <1>2, <1>10, <1>11, <2>1, <2>2
       DEF Types, StatusTyped, TimesTyped, RunsTyped, HandlersTyped, RecordsTyped, BoundsTyped, bounds,
           Check
<1>3. CASE FetchParent(r)
  <2>1. Steps
    BY <1>3 DEF FetchParent, HandlerPc
  <2>2. RecordsTyped'
    <3> DEFINE x == [rec[w] EXCEPT !.caller = history]
    <3>1. x \in Record /\ Short(x.base) /\ Short(x.caller)
      BY <1>0, <1>10, RecordFields DEF Record, Short, StatusTyped
    <3>2. rec' = [rec EXCEPT ![w] = x] \/ rec' = rec
      BY <1>0, <1>3, RecordFields DEF FetchParent
    <3>3. CASE rec' = [rec EXCEPT ![w] = x]
      <4> HIDE DEF x, w
      <4> QED
        BY <1>0, <3>1, <3>3, RecordTyped
    <3>4. CASE rec' = rec
      BY <1>10, <3>4 DEF RecordsTyped
    <3> QED
      BY <3>2, <3>3, <3>4
  <2>3. run' \in [Runs -> RunRecord] /\ executed' \subseteq Runs
    BY <1>3, <1>9, <1>10 DEF RunsTyped, FetchParent, Results
  <2>4. running' \in BOOLEAN
    BY <1>3, <1>10 DEF HandlersTyped, FetchParent
  <2>5. BoundsTyped'
    BY <1>3, <1>11, <2>1, UpsetTyped DEF FetchParent, Fault
  <2> QED
    BY <1>3, <1>10, <1>11, <2>1, <2>2, <2>3, <2>4, <2>5
       DEF Types, StatusTyped, TimesTyped, RunsTyped, HandlersTyped, FetchParent
<1>4. CASE StartJob(r)
  <2>1. Steps
    BY <1>4 DEF StartJob, HandlerPc
  <2>2. BoundsTyped'
    BY <1>4, <1>11, <2>1, UpsetTyped DEF StartJob, Fault
  <2> QED
    BY <1>4, <1>10, <1>11, <2>1, <2>2
       DEF Types, StatusTyped, TimesTyped, RunsTyped, HandlersTyped, RecordsTyped, StartJob
<1>5. CASE FinishRun(r)
  <2>1. Steps
    BY <1>5 DEF FinishRun, HandlerPc
  <2>2. run' \in [Runs -> RunRecord] /\ jobs' \subseteq Runs
    BY <1>5, <1>9, <1>10 DEF RunsTyped, FinishRun, Results
  <2>3. clock' \in Nat /\ RecordsTyped'
    <3>1. CASE StartRecord(w, "succeeded", rec[w].caller)
      BY <1>0, <3>1, RecordFields, StartRecordTyped DEF Results
    <3>2. CASE UNCHANGED <<clock, rec>>
      BY <1>10, <3>2 DEF TimesTyped, RecordsTyped
    <3> QED
      BY <1>5, <3>1, <3>2 DEF FinishRun
  <2>4. running' \in BOOLEAN
    BY <1>5, <1>10 DEF HandlersTyped, FinishRun
  <2> QED
    BY <1>5, <1>10, <1>11, <2>1, <2>2, <2>3, <2>4
       DEF Types, StatusTyped, TimesTyped, RunsTyped, HandlersTyped, BoundsTyped, bounds, FinishRun
<1>6. CASE FailRun(r)
  <2>1. Steps
    BY <1>6 DEF FailRun, HandlerPc
  <2>2. clock' \in Nat /\ RecordsTyped'
    BY <1>0, <1>6, RecordFields, StartRecordTyped DEF FailRun, Results
  <2> QED
    BY <1>6, <1>10, <1>11, <2>1, <2>2
       DEF Types, StatusTyped, TimesTyped, RunsTyped, HandlersTyped, BoundsTyped, bounds, FailRun
<1>7. CASE Close(r)
  <2>1. Steps
    BY <1>7 DEF Close, HandlerPc
  <2>2. run' \in [Runs -> RunRecord]
    BY <1>7, <1>9, <1>10 DEF RunsTyped, Close, Results
  <2>3. RecordsTyped'
    <3>1. NoRecord \in Record /\ Short(NoRecord.base) /\ Short(NoRecord.caller)
      BY EmptyShort DEF NoRecord, Record, Results, Short
    <3> QED
      BY <1>0, <1>7, <3>1, RecordTyped DEF Close
  <2> QED
    BY <1>7, <1>10, <1>11, <2>1, <2>2, <2>3
       DEF Types, StatusTyped, TimesTyped, RunsTyped, HandlersTyped, BoundsTyped, bounds, Close
<1>8. CASE Return(r)
  <2>1. Steps
    BY <1>8 DEF Return, HandlerPc
  <2> QED
    BY <1>8, <1>10, <1>11, <2>1
       DEF Types, StatusTyped, TimesTyped, RunsTyped, HandlersTyped, RecordsTyped, BoundsTyped,
           bounds, Return
<1> QED
  BY <1>0, <1>1, <1>2, <1>3, <1>4, <1>5, <1>6, <1>7, <1>8, ReadTyped, PatchTyped DEF OnRunCreate

LEMMA ReconcilerTyped == ASSUME Types, NEW r \in Runs, RunReconcileTimer(r) PROVE Types'
<1> DEFINE w == <<r, "reconciler">>
<1>0. w \in Recorders
  BY RunRecorder
<1>1. CASE Reconcile(r)
  <2>1. PICK result \in Results :
          /\ run' = End(r, result)
          /\ jobs' = IF result = "succeeded" THEN jobs ELSE jobs \ {r}
          /\ \/ /\ StartRecord(w, result, history)
                /\ IF r \in handled THEN NoFault ELSE Upset("reconciler")
             \/ r \in handled /\ Fault /\ UNCHANGED <<clock, rec>>
    BY <1>1 DEF Reconcile, Results
  <2>2. UNCHANGED <<status, tick, executed, running, h, handled, t, u, bounds>>
    BY <1>1 DEF Reconcile
  <2>3. run' \in [Runs -> RunRecord] /\ jobs' \subseteq Runs
    BY <2>1, EndTyped DEF Types, RunsTyped
  <2>4. BoundsTyped'
    BY <2>1, <2>2, UpsetTyped DEF Fault
  <2>5. clock' \in Nat /\ RecordsTyped'
    <3>1. CASE StartRecord(w, result, history)
      BY <1>0, <3>1, StartRecordTyped DEF Types, StatusTyped
    <3>2. CASE UNCHANGED <<clock, rec>>
      BY <3>2 DEF Types, TimesTyped, RecordsTyped
    <3> QED
      BY <2>1, <3>1, <3>2
  <2> QED
    BY <2>2, <2>3, <2>4, <2>5
       DEF Types, StatusTyped, TimesTyped, RunsTyped, HandlersTyped, CreatorsTyped, status
<1> QED
  BY <1>0, <1>1, ReadTyped, PatchTyped DEF RunReconcileTimer

LEMMA CreateTyped ==
  ASSUME Types, NEW r \in Runs, NEW by \in {"schedule", "manual"}, NEW served \in Nat,
         CreateRun(r, by, served)
  PROVE  run' \in [Runs -> RunRecord]
  BY DEF Types, RunsTyped, CreateRun, RunRecord

LEMMA TimerTyped ==
  ASSUME Types, TimerLook \/ TimerList \/ TimerCreate \/ TimerPatch
  PROVE  Types'
<1>0. /\ t \in [at : {"idle", "list", "create", "patch"}, trig : Nat, run : Runs \union {0}]
      /\ TimerIdle \in [at : {"idle", "list", "create", "patch"}, trig : Nat, run : Runs \union {0}]
      /\ trig \in Nat
  BY DEF Types, CreatorsTyped, StatusTyped, TimerIdle
<1>1. CASE TimerLook
  <2>1. t' \in [at : {"idle", "list", "create", "patch"}, trig : Nat, run : Runs \union {0}]
    BY <1>0, <1>1 DEF TimerLook
  <2> QED
    BY <1>1, <2>1 DEF Types, StatusTyped, TimesTyped, RunsTyped, HandlersTyped, RecordsTyped,
                      CreatorsTyped, BoundsTyped, TimerLook, status, times, bounds
<1>2. CASE TimerList
  <2>1. t' \in [at : {"idle", "list", "create", "patch"}, trig : Nat, run : Runs \union {0}]
    BY <1>0, <1>2 DEF TimerList
  <2>2. NoFault \/ Fault
    BY <1>2, Zenon DEF TimerList
  <2>3. UNCHANGED <<status, times, run, executed, jobs, running, h, handled, rec, u, bounds>>
    BY <1>2, Zenon DEF TimerList
  <2>4. BoundsTyped'
    BY <2>2, <2>3, UpsetTyped DEF Fault
  <2> QED
    BY <2>1, <2>3, <2>4 DEF Types, StatusTyped, TimesTyped, RunsTyped, HandlersTyped,
                            RecordsTyped, CreatorsTyped, status, times
<1>3. CASE TimerCreate
  <2>1. NoFault \/ Fault
    BY <1>3 DEF TimerCreate
  <2>2. t' \in [at : {"idle", "list", "create", "patch"}, trig : Nat, run : Runs \union {0}]
    BY <1>0, <1>3 DEF TimerCreate
  <2>3. run' \in [Runs -> RunRecord]
    <3>1. ASSUME NEW r \in Runs, CreateRun(r, IF t.trig # 0 THEN "manual" ELSE "schedule", t.trig)
          PROVE  run' \in [Runs -> RunRecord]
      BY <1>0, <3>1, CreateTyped
    <3>2. CASE UNCHANGED run
      BY <3>2 DEF Types, RunsTyped
    <3> QED
      BY <1>3, <3>1, <3>2 DEF TimerCreate
  <2>4. UNCHANGED <<status, times, executed, jobs, running, h, handled, rec, u, bounds>>
    BY <1>3 DEF TimerCreate
  <2>5. BoundsTyped'
    BY <2>1, <2>4, UpsetTyped DEF Fault
  <2> QED
    BY <2>2, <2>3, <2>4, <2>5 DEF Types, StatusTyped, TimesTyped, RunsTyped, HandlersTyped,
                                  RecordsTyped, CreatorsTyped, status, times
<1>4. CASE TimerPatch
  BY <1>0, <1>4 DEF Types, StatusTyped, TimesTyped, RunsTyped, HandlersTyped, RecordsTyped,
                    CreatorsTyped, BoundsTyped, TimerPatch, times, bounds
<1> QED
  BY <1>1, <1>2, <1>3, <1>4

LEMMA OthersTyped ==
  ASSUME Types, UiList \/ UiCreate \/ UiPatch \/ SetTriggeredAt \/ CronTick \/ Crash
  PROVE  Types'
<1>0. u \in [at : {"idle", "create", "patch"}, run : Runs \union {0}]
  BY DEF Types, CreatorsTyped
<1>1. CASE UiList
  <2>1. u' \in [at : {"idle", "create", "patch"}, run : Runs \union {0}] /\ BoundsTyped'
    BY <1>0, <1>1, UpsetTyped DEF UiList
  <2> QED
    BY <1>1, <2>1 DEF Types, StatusTyped, TimesTyped, RunsTyped, HandlersTyped, RecordsTyped,
                      CreatorsTyped, UiList, status, times
<1>2. CASE UiCreate
  <2>1. PICK r \in Runs : CreateRun(r, "manual", 0) /\ u' = [at |-> "patch", run |-> r]
    BY <1>2 DEF UiCreate
  <2>2. run' \in [Runs -> RunRecord]
    BY <2>1, CreateTyped
  <2> QED
    BY <1>2, <2>1, <2>2 DEF Types, StatusTyped, TimesTyped, RunsTyped, HandlersTyped,
                            RecordsTyped, CreatorsTyped, BoundsTyped, UiCreate, status, times, bounds
<1>3. CASE UiPatch
  <2>1. BoundsTyped'
    BY <1>3, UpsetTyped DEF UiPatch, Fault
  <2> QED
    BY <1>3, <2>1 DEF Types, StatusTyped, TimesTyped, RunsTyped, HandlersTyped, RecordsTyped,
                      CreatorsTyped, UiPatch, UiIdle, times
<1>4. CASE SetTriggeredAt
  BY <1>4, ParentBounds DEF Types, StatusTyped, TimesTyped, RunsTyped, HandlersTyped,
                            RecordsTyped, CreatorsTyped, BoundsTyped, SetTriggeredAt
<1>5. CASE CronTick
  BY <1>5, ParentBounds DEF Types, StatusTyped, TimesTyped, RunsTyped, HandlersTyped,
                            RecordsTyped, CreatorsTyped, BoundsTyped, CronTick, status
<1>6. CASE Crash
  <2>1. NoRecord \in Record /\ Short(NoRecord.base) /\ Short(NoRecord.caller)
    BY EmptyShort DEF NoRecord, Record, Results, Short
  <2>2. RecordsTyped'
    BY <1>6, <2>1 DEF Crash, RecordsTyped
  <2>3. HandlersTyped' /\ CreatorsTyped'
    BY <1>6 DEF Types, HandlersTyped, CreatorsTyped, Crash, HandlerPc, TimerIdle
  <2>4. BoundsTyped'
    BY <1>6, UpsetTyped DEF Crash
  <2> QED
    BY <1>6, <2>2, <2>3, <2>4 DEF Types, StatusTyped, TimesTyped, RunsTyped, Crash, status, times
<1> QED
  BY <1>1, <1>2, <1>3, <1>4, <1>5, <1>6

LEMMA InitTyped == Init => Types
<1> SUFFICES ASSUME Init PROVE Types
  OBVIOUS
<1>1. Short(history)
  <2> DEFINE q == [i \in 1..EarlierFailures |-> [run |-> 0, result |-> "failed"]]
  <2>1. \A i \in 1..EarlierFailures : q[i] \in Entry
    BY DEF Entry
  <2>2. EarlierFailures \in Nat /\ EarlierFailures <= HistoryLength
    BY EarlierAssumption, HistoryAssumption
  <2>3. q \in Seq(Entry) /\ Len(q) = EarlierFailures
    BY <2>1, <2>2
  <2> QED
    BY <2>2, <2>3 DEF Init, Short
<1>2. NoRecord \in Record /\ Short(NoRecord.base) /\ Short(NoRecord.caller)
  BY EmptyShort DEF NoRecord, Record, Results, Short
<1>3. RecordsTyped
  BY <1>2 DEF Init, RecordsTyped
<1>4. RunsTyped /\ HandlersTyped
  BY DEF Init, RunsTyped, RunRecord, HandlersTyped, HandlerPc
<1>5. CreatorsTyped /\ BoundsTyped
  BY ParentBounds DEF Init, CreatorsTyped, TimerIdle, UiIdle, BoundsTyped
<1> QED
  BY <1>1, <1>3, <1>4, <1>5 DEF Types, StatusTyped, TimesTyped, Init

LEMMA NextTyped == ASSUME Types, [Next]_vars PROVE Types'
<1>1. CASE UNCHANGED vars
  BY <1>1 DEF Types, StatusTyped, TimesTyped, RunsTyped, HandlersTyped, RecordsTyped,
              CreatorsTyped, BoundsTyped, vars, status, times, bounds
<1> QED
  BY <1>1, HandlerTyped, ReconcilerTyped, TimerTyped, OthersTyped DEF Next

\* The parent, the runs and whatever writes them keep their types; the history
\* stays within its length, however many writers overlap.
THEOREM TypeCorrect == Spec => []TypeOK
<1>1. Spec => []Types
  BY InitTyped, NextTyped, PTL DEF Spec
<1> QED
  BY <1>1, TypesGive, PTL

-----------------------------------------------------------------------------
(* Without an upset one run at a time is executed, and recorded            *)

Active(r) == run[r].phase = "active"
Busy == {"check", "fetch", "queued", "working", "record"}
Mine(r) == rec[<<r, "handler">>]

\* What a run's handler, its phase and its record have to do with each other.
Stage(r) ==
  /\ rec[<<r, "reconciler">>].at = "none"
  /\ r \in jobs => h[r] = "working"
  /\ r \in handled => h[r] = "idle"
  /\ Mine(r).at # "none" => h[r] = "record"
  /\ Mine(r).at = "patch" => Mine(r).base = history
  /\ h[r] = "idle" /\ r \notin handled =>
       run[r].phase \in {"absent", "active"} /\ r \notin executed
  /\ h[r] \in Busy \ {"record"} => Active(r)
  /\ h[r] = "record" => \/ Active(r) /\ Mine(r).result = "failed"
                        \/ run[r].phase = "succeeded" /\ Mine(r).result = "succeeded"
  /\ h[r] = "done" \/ r \in handled => run[r].phase \in Results
  /\ h[r] \in Busy \ {"check"} => running = TRUE

OneActive == \A r, q \in Runs : Active(r) /\ Active(q) => r = q
OneBusy == \A r, q \in Runs : h[r] \in Busy /\ h[q] \in Busy => r = q
Alone == t.at = "create" => \A r \in Runs : ~Active(r)

Serial == upsets = {} => /\ u.at = "idle"
                         /\ \A r \in Runs : Stage(r)
                         /\ OneActive /\ OneBusy /\ Alone

\* A step without an upset, of a state without one.
LEMMA StillNone == ASSUME Serial, upsets' = {}, NoFault
                   PROVE  u.at = "idle" /\ (\A r \in Runs : Stage(r)) /\ OneActive /\ OneBusy /\ Alone
  BY DEF Serial, NoFault

LEMMA NoUpset == ASSUME upsets' = {}, NEW kind PROVE ~Upset(kind)
  BY DEF Upset

\* A run that a step leaves alone stays in its stage.
LEMMA Untouched ==
  ASSUME NEW q \in Runs, Stage(q),
         run'[q] = run[q], h'[q] = h[q], Mine(q)' = Mine(q),
         rec'[<<q, "reconciler">>] = rec[<<q, "reconciler">>],
         q \in jobs' <=> q \in jobs, q \in handled' <=> q \in handled,
         q \in executed' <=> q \in executed,
         h[q] \in Busy \ {"check"} => running' = running,
         Mine(q).at = "patch" => history' = history
  PROVE  Stage(q)'
  BY DEF Stage, Active, Busy, Mine

LEMMA EnterSerial == ASSUME Types, Serial, NEW r \in Runs, Enter(r) PROVE Serial'
<1> SUFFICES ASSUME upsets' = {}
             PROVE  /\ u'.at = "idle" /\ \A q \in Runs : Stage(q)'
                    /\ OneActive' /\ OneBusy' /\ Alone'
  BY DEF Serial
<1>1. UNCHANGED <<badge, clock, executed, jobs, running, handled, rec, upsets, history, t, u>>
  BY Zenon DEF Enter, HandlerStep
<1>2. NoFault /\ u.at = "idle" /\ (\A q \in Runs : Stage(q)) /\ OneActive /\ OneBusy /\ Alone
  BY <1>1, StillNone DEF NoFault
<1>3. h[r] = "idle" /\ r \notin handled /\ run[r].phase # "absent"
  BY DEF Enter, HandlerStep
<1>4. Active(r) /\ r \notin executed
  BY <1>2, <1>3 DEF Stage, Active
<1>5. run \in [Runs -> RunRecord] /\ h \in [Runs -> HandlerPc] /\ running \in BOOLEAN
  BY DEF Types, RunsTyped, HandlersTyped
<1>6. CASE running = FALSE
  <2>1. h' = [h EXCEPT ![r] = "check"] /\ run' = run
    BY <1>6, Zenon DEF Enter, HandlerStep
  <2>2. \A q \in Runs : h[q] \notin Busy
    BY <1>2, <1>3, <1>4, <1>6 DEF Stage, OneActive, Busy
  <2>3. Stage(r)'
    BY <1>1, <1>2, <1>3, <1>4, <1>5, <1>6, <2>1 DEF Stage, Active, Busy, Mine
  <2>4. \A q \in Runs \ {r} : Stage(q)'
    BY <1>1, <1>2, <1>5, <2>1, Untouched DEF Mine
  <2>5. OneActive' /\ OneBusy' /\ Alone'
    BY <1>1, <1>2, <1>5, <2>1, <2>2 DEF OneActive, OneBusy, Alone, Active, Busy
  <2> QED
    BY <1>1, <1>2, <2>3, <2>4, <2>5
<1>7. CASE running = TRUE
  <2>1. h' = [h EXCEPT ![r] = "done"] /\ run' = End(r, "failed")
    BY <1>7, Zenon DEF Enter, HandlerStep
  <2>2. Stage(r)'
    BY <1>1, <1>2, <1>3, <1>5, <2>1 DEF Stage, Active, Busy, Mine, End, RunRecord, Results
  <2>3. \A q \in Runs \ {r} : Stage(q)'
    BY <1>1, <1>2, <1>5, <2>1, Untouched DEF Mine, End
  <2>4. OneActive' /\ OneBusy' /\ Alone'
    BY <1>1, <1>2, <1>5, <2>1
       DEF OneActive, OneBusy, Alone, Active, Busy, End, RunRecord
  <2> QED
    BY <1>1, <1>2, <2>2, <2>3, <2>4
<1> QED
  BY <1>5, <1>6, <1>7

LEMMA CheckSerial == ASSUME Types, Serial, NEW r \in Runs, Check(r) PROVE Serial'
<1> SUFFICES ASSUME upsets' = {}
             PROVE  /\ u'.at = "idle" /\ \A q \in Runs : Stage(q)'
                    /\ OneActive' /\ OneBusy' /\ Alone'
  BY DEF Serial
<1>1. /\ UNCHANGED <<clock, run, executed, jobs, handled, rec, upsets, history, t, u>>
      /\ h[r] = "check"
  BY DEF Check, HandlerStep
<1>2. NoFault /\ u.at = "idle" /\ (\A q \in Runs : Stage(q)) /\ OneActive /\ OneBusy /\ Alone
  BY <1>1, StillNone DEF NoFault
<1>3. /\ run \in [Runs -> RunRecord] /\ h \in [Runs -> HandlerPc] /\ running \in BOOLEAN
      /\ rec \in [Recorders -> Record]
      /\ <<r, "handler">> \in Recorders /\ <<r, "reconciler">> \in Recorders
  BY RunRecorder DEF Types, RunsTyped, HandlersTyped, RecordsTyped
<1>4. r \notin jobs
  BY <1>1, <1>2 DEF Stage
<1>5. h' = [h EXCEPT ![r] = "fetch"] /\ running' = TRUE
  BY <1>4, Zenon DEF Check, HandlerStep
<1>6. Stage(r)'
  BY <1>1, <1>2, <1>3, <1>5 DEF Stage, Active, Busy, Mine
<1>7. \A q \in Runs \ {r} : Stage(q)'
  BY <1>1, <1>2, <1>3, <1>5 DEF Stage, Active, Busy, Mine, OneBusy
<1>8. OneActive' /\ OneBusy' /\ Alone'
  BY <1>1, <1>2, <1>3, <1>5 DEF OneActive, OneBusy, Alone, Active, Busy
<1> QED
  BY <1>1, <1>2, <1>6, <1>7, <1>8

LEMMA FetchSerial == ASSUME Types, Serial, NEW r \in Runs, FetchParent(r) PROVE Serial'
<1> SUFFICES ASSUME upsets' = {}
             PROVE  /\ u'.at = "idle" /\ \A q \in Runs : Stage(q)'
                    /\ OneActive' /\ OneBusy' /\ Alone'
  BY DEF Serial
<1>1. /\ HandlerStep(r, "fetch", "queued") /\ NoFault
      /\ rec' = [rec EXCEPT ![<<r, "handler">>].caller = history]
      /\ executed' = executed \union {r}
      /\ UNCHANGED <<run, running, jobs, handled>>
  BY NoUpset DEF FetchParent, Fault
<1>2. u.at = "idle" /\ (\A q \in Runs : Stage(q)) /\ OneActive /\ OneBusy /\ Alone
  BY <1>1, StillNone
<1>3. /\ run \in [Runs -> RunRecord] /\ h \in [Runs -> HandlerPc] /\ running \in BOOLEAN
      /\ rec \in [Recorders -> Record]
      /\ <<r, "handler">> \in Recorders /\ <<r, "reconciler">> \in Recorders
  BY RunRecorder DEF Types, RunsTyped, HandlersTyped, RecordsTyped
<1>4. /\ h[r] = "fetch" /\ h' = [h EXCEPT ![r] = "queued"]
      /\ UNCHANGED <<history, t, u>>
  BY <1>1 DEF HandlerStep
<1>5. /\ Mine(r)'.at = Mine(r).at /\ Mine(r)'.base = Mine(r).base
      /\ \A w \in Recorders : w # <<r, "handler">> => rec'[w] = rec[w]
  BY <1>1, <1>3 DEF Mine, Record
<1>6. Stage(r)'
  BY <1>1, <1>2, <1>3, <1>4, <1>5 DEF Stage, Active, Busy, Mine
<1>7. \A q \in Runs \ {r} : Stage(q)'
  BY <1>1, <1>2, <1>3, <1>4, <1>5, RunRecorder, Untouched DEF Mine
<1>8. OneActive' /\ OneBusy' /\ Alone'
  BY <1>1, <1>2, <1>3, <1>4 DEF OneActive, OneBusy, Alone, Active, Busy
<1> QED
  BY <1>2, <1>4, <1>6, <1>7, <1>8

LEMMA JobSerial == ASSUME Types, Serial, NEW r \in Runs, StartJob(r) PROVE Serial'
<1> SUFFICES ASSUME upsets' = {}
             PROVE  /\ u'.at = "idle" /\ \A q \in Runs : Stage(q)'
                    /\ OneActive' /\ OneBusy' /\ Alone'
  BY DEF Serial
<1>1. /\ HandlerStep(r, "queued", "working") /\ NoFault /\ jobs' = jobs \union {r}
      /\ UNCHANGED <<run, executed, running, handled, rec>>
  BY NoUpset DEF StartJob, Fault
<1>2. u.at = "idle" /\ (\A q \in Runs : Stage(q)) /\ OneActive /\ OneBusy /\ Alone
  BY <1>1, StillNone
<1>3. /\ run \in [Runs -> RunRecord] /\ h \in [Runs -> HandlerPc] /\ running \in BOOLEAN
      /\ rec \in [Recorders -> Record]
      /\ <<r, "handler">> \in Recorders /\ <<r, "reconciler">> \in Recorders
  BY RunRecorder DEF Types, RunsTyped, HandlersTyped, RecordsTyped
<1>4. /\ h[r] = "queued" /\ h' = [h EXCEPT ![r] = "working"]
      /\ UNCHANGED <<history, t, u>>
  BY <1>1 DEF HandlerStep
<1>6. Stage(r)'
  BY <1>1, <1>2, <1>3, <1>4 DEF Stage, Active, Busy, Mine
<1>7. \A q \in Runs \ {r} : Stage(q)'
  BY <1>1, <1>2, <1>3, <1>4, Untouched DEF Mine
<1>8. OneActive' /\ OneBusy' /\ Alone'
  BY <1>1, <1>2, <1>3, <1>4 DEF OneActive, OneBusy, Alone, Active, Busy
<1> QED
  BY <1>2, <1>4, <1>6, <1>7, <1>8

\* A run that is recorded now.
LEMMA RecordSerial ==
  ASSUME Types, Serial, upsets' = {}, NoFault, NEW r \in Runs,
         h[r] \in {"queued", "working"}, h' = [h EXCEPT ![r] = "record"],
         \/ Mine(r)'.result = "succeeded" /\ run' = [run EXCEPT ![r].phase = "succeeded"]
         \/ Mine(r)'.result = "failed" /\ run' = run,
         Mine(r)'.at = "read",
         \A w \in Recorders : w # <<r, "handler">> => rec'[w] = rec[w],
         jobs' = jobs \ {r},
         UNCHANGED <<history, t, u, executed, running, handled>>
  PROVE  Serial'
<1>2. u.at = "idle" /\ (\A q \in Runs : Stage(q)) /\ OneActive /\ OneBusy /\ Alone
  BY StillNone
<1>3. /\ run \in [Runs -> RunRecord] /\ h \in [Runs -> HandlerPc] /\ running \in BOOLEAN
      /\ <<r, "handler">> \in Recorders /\ <<r, "reconciler">> \in Recorders
  BY RunRecorder DEF Types, RunsTyped, HandlersTyped
<1>5. run' \in [Runs -> RunRecord] /\ \A q \in Runs \ {r} : run'[q] = run[q]
  BY <1>3 DEF RunRecord, Results
<1>6. \/ Mine(r)'.result = "succeeded" /\ run'[r].phase = "succeeded"
      \/ Mine(r)'.result = "failed" /\ run'[r] = run[r]
  BY <1>3 DEF RunRecord, Results
<1>7. Active(r)
  BY <1>2 DEF Stage, Busy
<1>8. Stage(r)'
  BY <1>2, <1>3, <1>6, <1>7 DEF Stage, Active, Busy, Mine
<1>9. \A q \in Runs \ {r} : Stage(q)'
  BY <1>2, <1>3, <1>5, RunRecorder, Untouched DEF Mine
<1>10. OneActive' /\ OneBusy' /\ Alone'
  BY <1>2, <1>3, <1>5, <1>7 DEF OneActive, OneBusy, Alone, Active, Busy
<1> QED
  BY <1>2, <1>8, <1>9, <1>10 DEF Serial

\* What StartRecord makes of a handler's record.
LEMMA Started ==
  ASSUME Types, NEW r \in Runs, NEW result, NEW caller,
         StartRecord(<<r, "handler">>, result, caller)
  PROVE  /\ Mine(r)'.at = "read" /\ Mine(r)'.result = result
         /\ \A w \in Recorders : w # <<r, "handler">> => rec'[w] = rec[w]
  BY RunRecorder DEF StartRecord, Mine, Types, RecordsTyped

LEMMA FinishSerial == ASSUME Types, Serial, NEW r \in Runs, FinishRun(r) PROVE Serial'
<1> SUFFICES ASSUME upsets' = {}
             PROVE  Serial'
  BY DEF Serial
<1>1. UNCHANGED <<executed, handled, upsets, history, t, u>> /\ h[r] = "working" /\ jobs' = jobs \ {r}
  BY DEF FinishRun, HandlerStep
<1>2. NoFault /\ \A q \in Runs : Stage(q)
  BY <1>1, StillNone DEF NoFault
<1>3. run[r].phase = "active"
  BY <1>1, <1>2 DEF Stage, Busy, Active
<1>4. /\ h' = [h EXCEPT ![r] = "record"] /\ run' = [run EXCEPT ![r].phase = "succeeded"]
      /\ StartRecord(<<r, "handler">>, "succeeded", rec[<<r, "handler">>].caller)
      /\ running' = running
  BY <1>3 DEF FinishRun, HandlerStep, End
<1>5. /\ Mine(r)'.at = "read" /\ Mine(r)'.result = "succeeded"
      /\ \A w \in Recorders : w # <<r, "handler">> => rec'[w] = rec[w]
  BY <1>4, Started
<1> QED
  BY <1>1, <1>2, <1>4, <1>5, RecordSerial

LEMMA FailSerial == ASSUME Types, Serial, NEW r \in Runs, FailRun(r) PROVE Serial'
<1> SUFFICES ASSUME upsets' = {}
             PROVE  Serial'
  BY DEF Serial
<1>1. /\ UNCHANGED <<run, running, executed, handled, upsets, history, t, u>>
      /\ h[r] \in {"queued", "working"} /\ jobs' = jobs \ {r}
      /\ h' = [h EXCEPT ![r] = "record"]
      /\ StartRecord(<<r, "handler">>, "failed", rec[<<r, "handler">>].caller)
  BY DEF FailRun, HandlerStep
<1>2. NoFault
  BY <1>1 DEF NoFault
<1>3. /\ Mine(r)'.at = "read" /\ Mine(r)'.result = "failed"
      /\ \A w \in Recorders : w # <<r, "handler">> => rec'[w] = rec[w]
  BY <1>1, Started
<1> QED
  BY <1>1, <1>2, <1>3, RecordSerial

LEMMA ReadSerial == ASSUME Types, Serial, NEW w \in Recorders, ReadParent(w) PROVE Serial'
<1> SUFFICES ASSUME upsets' = {}
             PROVE  /\ u'.at = "idle" /\ \A q \in Runs : Stage(q)'
                    /\ OneActive' /\ OneBusy' /\ Alone'
  BY DEF Serial
<1>1. /\ rec[w].at = "read" /\ NoFault
      /\ rec' = [rec EXCEPT ![w].at = "patch", ![w].base = history]
      /\ UNCHANGED <<run, executed, jobs, running, h, handled, t, u, history>>
  BY NoUpset DEF ReadParent, Fault, status
<1>2. u.at = "idle" /\ (\A q \in Runs : Stage(q)) /\ OneActive /\ OneBusy /\ Alone
  BY <1>1, StillNone
<1>3. PICK r \in Runs : w = <<r, "handler">>
  BY <1>1, <1>2 DEF Stage, Recorders
<1>4. /\ run \in [Runs -> RunRecord] /\ h \in [Runs -> HandlerPc] /\ running \in BOOLEAN
      /\ rec \in [Recorders -> Record]
      /\ <<r, "handler">> \in Recorders /\ <<r, "reconciler">> \in Recorders
  BY RunRecorder DEF Types, RunsTyped, HandlersTyped, RecordsTyped
<1>5. /\ Mine(r)'.at = "patch" /\ Mine(r)'.base = history /\ Mine(r)'.result = Mine(r).result
      /\ \A v \in Recorders : v # w => rec'[v] = rec[v]
  BY <1>1, <1>3, <1>4 DEF Mine, Record
<1>6. Stage(r)'
  BY <1>1, <1>2, <1>3, <1>4, <1>5 DEF Stage, Active, Busy, Mine
<1>7. \A q \in Runs \ {r} : Stage(q)'
  BY <1>1, <1>2, <1>3, <1>5, RunRecorder, Untouched DEF Mine
<1>8. OneActive' /\ OneBusy' /\ Alone'
  BY <1>1, <1>2 DEF OneActive, OneBusy, Alone, Active
<1> QED
  BY <1>1, <1>2, <1>6, <1>7, <1>8

\* Only the one handler that is at it patches the parent, with what it has read.
LEMMA PatchStep ==
  ASSUME Types, Serial, NEW w \in Recorders, PatchParent(w), upsets' = {}
  PROVE  \E r \in Runs :
           /\ w = <<r, "handler">> /\ Stage(r) /\ h[r] = "record" /\ NoFault
           /\ Mine(r).at = "patch"
           /\ history' = Insert([run |-> r, result |-> Mine(r).result], history)
           /\ rec' = Over(w)
           /\ UNCHANGED <<run, executed, jobs, running, h, handled, t, u>>
<1>1. /\ rec[w].at = "patch" /\ NoFault
      /\ history' = Insert([run |-> w[1], result |-> rec[w].result], rec[w].base)
      /\ rec' = Over(w)
      /\ UNCHANGED <<run, executed, jobs, running, h, handled, t, u>>
  BY NoUpset DEF PatchParent, Fault
<1>2. \A q \in Runs : Stage(q)
  BY <1>1, StillNone
<1>3. PICK r \in Runs : w = <<r, "handler">>
  BY <1>1, <1>2 DEF Stage, Recorders
<1>4. Stage(r) /\ h[r] = "record" /\ Mine(r).at = "patch" /\ Mine(r).base = history
  BY <1>1, <1>2, <1>3 DEF Stage, Mine
<1> QED
  BY <1>1, <1>3, <1>4 DEF Mine

LEMMA PatchSerial == ASSUME Types, Serial, NEW w \in Recorders, PatchParent(w) PROVE Serial'
<1> SUFFICES ASSUME upsets' = {}
             PROVE  /\ u'.at = "idle" /\ \A q \in Runs : Stage(q)'
                    /\ OneActive' /\ OneBusy' /\ Alone'
  BY DEF Serial
<1>1. PICK r \in Runs :
        /\ w = <<r, "handler">> /\ h[r] = "record" /\ NoFault
        /\ rec' = Over(w)
        /\ UNCHANGED <<run, executed, jobs, running, h, handled, t, u>>
  BY PatchStep
<1>2. u.at = "idle" /\ (\A q \in Runs : Stage(q)) /\ OneActive /\ OneBusy /\ Alone
  BY <1>1, StillNone
<1>3. /\ run \in [Runs -> RunRecord] /\ h \in [Runs -> HandlerPc] /\ running \in BOOLEAN
      /\ rec \in [Recorders -> Record]
      /\ <<r, "handler">> \in Recorders /\ <<r, "reconciler">> \in Recorders
  BY RunRecorder DEF Types, RunsTyped, HandlersTyped, RecordsTyped
<1>4. /\ Mine(r)'.at = "none" /\ Mine(r)'.result = Mine(r).result
      /\ \A v \in Recorders : v # w => rec'[v] = rec[v]
  BY <1>1, <1>3 DEF Mine, Over, NoRecord
<1>5. \A q \in Runs \ {r} : Mine(q).at # "patch"
  BY <1>1, <1>2 DEF Stage, OneBusy, Busy
<1>6. Stage(r)'
  BY <1>1, <1>2, <1>3, <1>4 DEF Stage, Active, Busy, Mine
<1>7. \A q \in Runs \ {r} : Stage(q)'
  BY <1>1, <1>2, <1>4, <1>5, RunRecorder, Untouched DEF Mine
<1>8. OneActive' /\ OneBusy' /\ Alone'
  BY <1>1, <1>2 DEF OneActive, OneBusy, Alone, Active
<1> QED
  BY <1>1, <1>2, <1>6, <1>7, <1>8

LEMMA CloseSerial == ASSUME Types, Serial, NEW r \in Runs, Close(r) PROVE Serial'
<1> SUFFICES ASSUME upsets' = {}
             PROVE  /\ u'.at = "idle" /\ \A q \in Runs : Stage(q)'
                    /\ OneActive' /\ OneBusy' /\ Alone'
  BY DEF Serial
<1>1. /\ UNCHANGED <<executed, jobs, handled, upsets, history, t, u>>
      /\ h[r] = "record" /\ h' = [h EXCEPT ![r] = "done"] /\ running' = FALSE
      /\ run' = IF Mine(r).result = "succeeded" THEN run ELSE End(r, "failed")
      /\ rec' = [rec EXCEPT ![<<r, "handler">>] = NoRecord]
  BY DEF Close, HandlerStep, Mine
<1>2. NoFault /\ u.at = "idle" /\ (\A q \in Runs : Stage(q)) /\ OneActive /\ OneBusy /\ Alone
  BY <1>1, StillNone DEF NoFault
<1>3. /\ run \in [Runs -> RunRecord] /\ h \in [Runs -> HandlerPc] /\ running \in BOOLEAN
      /\ rec \in [Recorders -> Record]
      /\ <<r, "handler">> \in Recorders /\ <<r, "reconciler">> \in Recorders
  BY RunRecorder DEF Types, RunsTyped, HandlersTyped, RecordsTyped
<1>4. /\ Mine(r)'.at = "none" /\ \A v \in Recorders : v # <<r, "handler">> => rec'[v] = rec[v]
  BY <1>1, <1>3 DEF Mine, NoRecord
<1>5. run'[r].phase \in Results /\ \A q \in Runs \ {r} : run'[q] = run[q]
  BY <1>1, <1>2, <1>3 DEF Stage, End, RunRecord, Results
<1>6. \A q \in Runs \ {r} : h[q] \notin Busy
  BY <1>1, <1>2 DEF OneBusy, Busy
<1>7. Stage(r)'
  BY <1>1, <1>2, <1>3, <1>4, <1>5 DEF Stage, Active, Busy, Mine, Results
<1>8. \A q \in Runs \ {r} : Stage(q)'
  BY <1>1, <1>2, <1>3, <1>4, <1>5, <1>6, RunRecorder, Untouched DEF Mine, Busy
<1>9. OneActive' /\ OneBusy' /\ Alone'
  BY <1>1, <1>2, <1>3, <1>5 DEF OneActive, OneBusy, Alone, Active, Busy, Results
<1> QED
  BY <1>1, <1>2, <1>7, <1>8, <1>9

LEMMA ReturnSerial == ASSUME Types, Serial, NEW r \in Runs, Return(r) PROVE Serial'
<1> SUFFICES ASSUME upsets' = {}
             PROVE  /\ u'.at = "idle" /\ \A q \in Runs : Stage(q)'
                    /\ OneActive' /\ OneBusy' /\ Alone'
  BY DEF Serial
<1>1. /\ UNCHANGED <<run, executed, jobs, running, rec, upsets, history, t, u>>
      /\ h[r] = "done" /\ h' = [h EXCEPT ![r] = "idle"] /\ handled' = handled \union {r}
  BY DEF Return, HandlerStep
<1>2. NoFault /\ u.at = "idle" /\ (\A q \in Runs : Stage(q)) /\ OneActive /\ OneBusy /\ Alone
  BY <1>1, StillNone DEF NoFault
<1>3. /\ run \in [Runs -> RunRecord] /\ h \in [Runs -> HandlerPc] /\ running \in BOOLEAN
      /\ rec \in [Recorders -> Record]
      /\ <<r, "handler">> \in Recorders /\ <<r, "reconciler">> \in Recorders
  BY RunRecorder DEF Types, RunsTyped, HandlersTyped, RecordsTyped
<1>4. Stage(r)'
  BY <1>1, <1>2, <1>3 DEF Stage, Active, Busy, Mine, Results
<1>5. \A q \in Runs \ {r} : Stage(q)'
  BY <1>1, <1>2, <1>3, Untouched DEF Mine
<1>6. OneActive' /\ OneBusy' /\ Alone'
  BY <1>1, <1>2, <1>3 DEF OneActive, OneBusy, Alone, Active, Busy
<1> QED
  BY <1>1, <1>2, <1>4, <1>5, <1>6

\* The reconciler finds nothing to do: the Job of a run is its handler's.
LEMMA ReconcileNever == ASSUME Types, Serial, NEW r \in Runs, Reconcile(r) PROVE upsets' # {}
<1> SUFFICES ASSUME upsets' = {} PROVE FALSE
  OBVIOUS
<1>1. run[r].phase = "active" /\ r \in jobs /\ r \in handled /\ NoFault
  BY NoUpset DEF Reconcile, Fault
<1> QED
  BY <1>1, StillNone DEF Stage

LEMMA TimerSerial ==
  ASSUME Types, Serial, TimerLook \/ TimerList \/ TimerCreate \/ TimerPatch
  PROVE  Serial'
<1> SUFFICES ASSUME upsets' = {}
             PROVE  /\ u'.at = "idle" /\ \A q \in Runs : Stage(q)'
                    /\ OneActive' /\ OneBusy' /\ Alone'
  BY DEF Serial
<1>1. NoFault /\ UNCHANGED <<executed, jobs, running, h, handled, rec, u, history>>
  <2>1. CASE TimerLook
    BY <2>1 DEF TimerLook, status, NoFault
  <2>2. CASE TimerList
    BY <2>2, NoUpset, Zenon DEF TimerList, Fault, status
  <2>3. CASE TimerCreate
    BY <2>3, NoUpset DEF TimerCreate, Fault, status
  <2>4. CASE TimerPatch
    BY <2>4 DEF TimerPatch, NoFault
  <2> QED
    BY <2>1, <2>2, <2>3, <2>4
<1>2. u.at = "idle" /\ (\A q \in Runs : Stage(q)) /\ OneActive /\ OneBusy /\ Alone
  BY <1>1, StillNone
<1>3. run \in [Runs -> RunRecord] /\ h \in [Runs -> HandlerPc]
  BY DEF Types, RunsTyped, HandlersTyped
<1>4. t \in [at : {"idle", "list", "create", "patch"}, trig : Nat, run : Runs \union {0}]
  BY DEF Types, CreatorsTyped
<1>5. OneBusy'
  BY <1>1, <1>2 DEF OneBusy
<1>6. CASE UNCHANGED run /\ t'.at # "create"
  <2>1. \A q \in Runs : Stage(q)'
    BY <1>1, <1>2, <1>6, Untouched DEF Mine
  <2> QED
    BY <1>1, <1>2, <1>5, <1>6, <2>1 DEF OneActive, Alone, Active
<1>7. CASE UNCHANGED run /\ ~ActiveExists
  <2>1. \A q \in Runs : Stage(q)'
    BY <1>1, <1>2, <1>7, Untouched DEF Mine
  <2> QED
    BY <1>1, <1>2, <1>5, <1>7, <2>1 DEF OneActive, Alone, Active, ActiveExists
<1>8. ASSUME NEW r \in Runs, NEW by, NEW served, CreateRun(r, by, served),
             t.at = "create", t'.at = "patch"
      PROVE  (\A q \in Runs : Stage(q)') /\ OneActive' /\ Alone'
  <2>1. /\ run[r].phase = "absent" /\ run'[r].phase = "active"
        /\ \A q \in Runs \ {r} : run'[q] = run[q]
    BY <1>3, <1>8 DEF CreateRun, NextRun
  <2>2. h[r] = "idle" /\ r \notin handled
    BY <1>2, <1>3, <2>1 DEF Stage, Active, Busy, HandlerPc, Results
  <2>3. Stage(r)'
    BY <1>1, <1>2, <2>1, <2>2 DEF Stage, Active, Busy, Mine
  <2>4. \A q \in Runs \ {r} : Stage(q)'
    BY <1>1, <1>2, <2>1, Untouched DEF Mine
  <2>5. \A q \in Runs : ~Active(q)
    BY <1>2, <1>8 DEF Alone
  <2> QED
    BY <1>8, <2>1, <2>3, <2>4, <2>5 DEF OneActive, Alone, Active
<1>9. CASE TimerList
  <2>1. UNCHANGED run /\ (t' = TimerIdle \/ ~ActiveExists)
    BY <1>9, NoUpset, Zenon DEF TimerList, Fault
  <2> QED
    BY <1>6, <1>7, <2>1 DEF TimerIdle
<1>10. CASE TimerCreate
  <2>1. PICK r \in Runs : /\ CreateRun(r, IF t.trig # 0 THEN "manual" ELSE "schedule", t.trig)
                          /\ t' = [t EXCEPT !.at = "patch", !.run = r] /\ t.at = "create"
    BY <1>10, NoUpset DEF TimerCreate, Fault
  <2>2. t'.at = "patch"
    BY <1>4, <2>1
  <2> QED
    BY <1>1, <1>2, <1>5, <1>8, <2>1, <2>2
<1>11. CASE TimerLook \/ TimerPatch
  <2>1. UNCHANGED run /\ t'.at # "create"
    BY <1>11 DEF TimerLook, TimerPatch, TimerIdle
  <2> QED
    BY <1>6, <2>1
<1> QED
  BY <1>9, <1>10, <1>11

LEMMA OthersSerial ==
  ASSUME Types, Serial, UiList \/ UiCreate \/ UiPatch \/ SetTriggeredAt \/ CronTick \/ Crash
  PROVE  Serial'
<1> SUFFICES ASSUME upsets' = {}
             PROVE  /\ u'.at = "idle" /\ \A q \in Runs : Stage(q)'
                    /\ OneActive' /\ OneBusy' /\ Alone'
  BY DEF Serial
<1>1. ~UiList /\ ~Crash
  BY NoUpset DEF UiList, Crash
<1>2. upsets = {}
  BY DEF UiCreate, UiPatch, SetTriggeredAt, CronTick, Fault, NoFault, Upset, UiList, Crash
<1>3. u.at = "idle" /\ (\A q \in Runs : Stage(q)) /\ OneActive /\ OneBusy /\ Alone
  BY <1>2 DEF Serial
<1>4. UNCHANGED <<run, executed, jobs, running, h, handled, rec, t, u, history>>
  BY <1>1, <1>3 DEF UiCreate, UiPatch, SetTriggeredAt, CronTick, status
<1>5. \A q \in Runs : Stage(q)'
  BY <1>3, <1>4, Untouched DEF Mine
<1> QED
  BY <1>3, <1>4, <1>5 DEF OneActive, OneBusy, Alone, Active

LEMMA HandlerSerial == ASSUME Types, Serial, NEW r \in Runs, OnRunCreate(r) PROVE Serial'
<1>1. <<r, "handler">> \in Recorders
  BY RunRecorder
<1> QED
  BY <1>1, EnterSerial, CheckSerial, FetchSerial, JobSerial, FinishSerial, FailSerial, ReadSerial,
     PatchSerial, CloseSerial, ReturnSerial DEF OnRunCreate

LEMMA ReconcilerSerial == ASSUME Types, Serial, NEW r \in Runs, RunReconcileTimer(r) PROVE Serial'
<1>1. <<r, "reconciler">> \in Recorders
  BY RunRecorder
<1>2. CASE Reconcile(r)
  BY <1>2, ReconcileNever DEF Serial
<1> QED
  BY <1>1, <1>2, ReadSerial, PatchSerial DEF RunReconcileTimer

LEMMA InitSerial == Init => Serial
<1> SUFFICES ASSUME Init
             PROVE  u.at = "idle" /\ (\A r \in Runs : Stage(r)) /\ OneActive /\ OneBusy /\ Alone
  BY DEF Serial
<1>1. \A r \in Runs : Stage(r)
  BY RunRecorder DEF Init, Stage, Active, Busy, Mine, NoRecord
<1> QED
  BY <1>1 DEF Init, OneActive, OneBusy, Alone, Active, Busy, UiIdle, TimerIdle

LEMMA NextSerial == ASSUME Types, Serial, [Next]_vars PROVE Serial'
<1>1. CASE UNCHANGED vars
  <2>1. UNCHANGED <<run, executed, jobs, running, h, handled, rec, t, u, upsets, history>>
    BY <1>1 DEF vars, status
  <2>2. ASSUME upsets = {} PROVE \A r \in Runs : Stage(r)'
    BY <2>1, <2>2, Untouched DEF Serial, Mine
  <2> QED
    BY <2>1, <2>2 DEF Serial, OneActive, OneBusy, Alone, Active
<1> QED
  BY <1>1, HandlerSerial, ReconcilerSerial, TimerSerial, OthersSerial DEF Next

LEMMA Invariants == Spec => [](Types /\ Serial)
<1>1. Init => Types /\ Serial
  BY InitTyped, InitSerial
<1>2. Types /\ Serial /\ [Next]_vars => Types' /\ Serial'
  BY NextTyped, NextSerial
<1> QED
  BY <1>1, <1>2, PTL DEF Spec

-----------------------------------------------------------------------------
(* The history                                                             *)

\* An entry is put in front; one falls out only of a full history.
LEMMA InsertFront ==
  ASSUME NEW e \in Entry, NEW b, Short(b)
  PROVE  /\ Insert(e, b) \in Seq(Entry)
         /\ Len(Insert(e, b)) = IF Len(b) < HistoryLength THEN Len(b) + 1 ELSE HistoryLength
         /\ \A i \in 1..Len(Insert(e, b)) : Insert(e, b)[i] = IF i = 1 THEN e ELSE b[i - 1]
<1> DEFINE n == IF Len(b) < HistoryLength THEN Len(b) + 1 ELSE HistoryLength
           c == <<e>> \o b
<1>1. /\ c \in Seq(Entry) /\ Len(c) = Len(b) + 1
      /\ \A i \in 1..Len(c) : c[i] = IF i = 1 THEN e ELSE b[i - 1]
  BY DEF Short
<1>2. n \in 1..Len(c) /\ n <= HistoryLength
  BY <1>1, HistoryAssumption DEF Short
<1> HIDE DEF n, c
<1>3. /\ SubSeq(c, 1, n) \in Seq(Entry) /\ Len(SubSeq(c, 1, n)) = n
      /\ \A i \in 1..n : SubSeq(c, 1, n)[i] = c[i]
  BY <1>1, <1>2
<1>4. Insert(e, b) = SubSeq(c, 1, n)
  BY DEF Insert, n, c
<1>5. \A i \in 1..n : SubSeq(c, 1, n)[i] = IF i = 1 THEN e ELSE b[i - 1]
  BY <1>1, <1>2, <1>3
<1> QED
  BY <1>3, <1>4, <1>5 DEF n

\* Only a patch writes the history.
LEMMA HistoryStep ==
  ASSUME [Next]_vars
  PROVE  \/ UNCHANGED history
         \/ \E w \in Recorders : PatchParent(w)
<1>1. ASSUME NEW r \in Runs, OnRunCreate(r)
      PROVE  UNCHANGED history \/ \E w \in Recorders : PatchParent(w)
  <2>1. <<r, "handler">> \in Recorders
    BY RunRecorder
  <2> QED
    BY <1>1, <2>1 DEF OnRunCreate, HandlerStep, Enter, Check, FetchParent, StartJob, FinishRun,
                      FailRun, ReadParent, Close, Return, status
<1>2. ASSUME NEW r \in Runs, RunReconcileTimer(r)
      PROVE  UNCHANGED history \/ \E w \in Recorders : PatchParent(w)
  <2>1. <<r, "reconciler">> \in Recorders
    BY RunRecorder
  <2> QED
    BY <1>2, <2>1 DEF RunReconcileTimer, Reconcile, ReadParent, status
<1>3. CASE TimerLook \/ TimerList \/ TimerCreate \/ TimerPatch
  BY <1>3 DEF TimerLook, TimerList, TimerCreate, TimerPatch, status
<1>4. CASE UiList \/ UiCreate \/ UiPatch \/ SetTriggeredAt \/ CronTick \/ Crash
  BY <1>4 DEF UiList, UiCreate, UiPatch, SetTriggeredAt, CronTick, Crash, status
<1>5. CASE UNCHANGED vars
  BY <1>5 DEF vars, status
<1> QED
  BY <1>1, <1>2, <1>3, <1>4, <1>5 DEF Next

LEMMA DropsNothing ==
  ASSUME Types, Serial, [Next]_vars, upsets = {}, Len(history) # HistoryLength
  PROVE  InHistory \subseteq InHistory'
<1>1. CASE UNCHANGED history
  BY <1>1 DEF InHistory
<1>2. ASSUME NEW w \in Recorders, PatchParent(w), history' # history
      PROVE  InHistory \subseteq InHistory'
  <2>1. upsets' = {}
    BY <1>2 DEF PatchParent, NoFault
  <2>2. PICK r \in Runs : history' = Insert([run |-> r, result |-> Mine(r).result], history)
    BY <1>2, <2>1, PatchStep
  <2> DEFINE e == [run |-> r, result |-> Mine(r).result]
  <2>3. e \in Entry /\ Short(history) /\ Len(history) < HistoryLength
    <3>1. Mine(r).result \in Results
      BY RunRecorder DEF Types, RecordsTyped, Mine, Record
    <3>2. Short(history) /\ Len(history) \in Nat
      BY DEF Types, StatusTyped, Short
    <3> QED
      BY <3>1, <3>2, HistoryAssumption DEF Results, Entry, Short
  <2>4. /\ Len(history') = Len(history) + 1
        /\ \A i \in 1..Len(history') : history'[i] = IF i = 1 THEN e ELSE history[i - 1]
    BY <2>2, <2>3, InsertFront
  <2>5. ASSUME NEW i \in 1..Len(history) PROVE history[i].run \in InHistory'
    <3>1. Len(history) \in Nat
      BY <2>3 DEF Short
    <3>2. i + 1 \in 1..Len(history') /\ history'[i + 1] = history[i]
      BY <2>4, <3>1
    <3> QED
      BY <3>2 DEF InHistory
  <2> QED
    BY <2>5 DEF InHistory
<1> QED
  BY <1>1, <1>2, HistoryStep

\* _update_parent_backup: as long as nothing makes for a second recorder at the
\* same time, a run leaves the history only when that is full.
THEOREM NothingDropped == Spec => NoRunDropped
<1>1. Types /\ Serial /\ [Next]_vars =>
        [InHistory \subseteq InHistory' \/ Len(history) = HistoryLength \/ upsets # {}]_vars
  BY DropsNothing
<1> QED
  BY <1>1, Invariants, PTL DEF Spec, NoRunDropped

-----------------------------------------------------------------------------
(* The daily cap                                                           *)

\* A run that needs no entry in the history any more; a failed one whose entry
\* is there; a scheduled one that counts against the cap; one that is going to.
Recorded(r) == h[r] = "done" \/ r \in handled \/ (h[r] = "record" /\ Mine(r).at = "none")
Filed(r) == h[r] = "record" /\ Mine(r).at = "none" /\ Mine(r).result = "failed"
Charged(r) == /\ run[r].by = "schedule" /\ r \in executed
              /\ run[r].phase = "failed" \/ Filed(r)
Ahead(r) == Active(r) /\ run[r].by = "schedule" /\ ~Filed(r)

AllRecorded == {r \in Runs : Recorded(r)}
AllCharged == {r \in Runs : Charged(r)}
Below == Cardinality(Failures) < MaxRetriesPerDay

\* The history is no longer than what has been recorded; each charged run is a
\* failure in it; a scheduled run is begun only below the cap.
Counted ==
  upsets = {} =>
    /\ Len(history) <= EarlierFailures + Cardinality(AllRecorded)
    /\ EarlierFailures + Cardinality(AllCharged) <= Cardinality(Failures)
    /\ EarlierFailures + Cardinality(AllCharged) <= MaxRetriesPerDay
    /\ (\E r \in Runs : Ahead(r)) => Below
    /\ t.at = "create" /\ t.trig = 0 => Below

LEMMA Finite ==
  /\ IsFiniteSet(Runs) /\ Cardinality(Runs) = MaxRuns /\ MaxRuns \in Nat
  /\ EarlierFailures \in Nat /\ MaxRetriesPerDay \in Nat
<1>1. MaxRuns \in Nat
  BY ParentBounds
<1> QED
  BY <1>1, FS_Interval, EarlierAssumption, RetriesAssumption, HistoryAssumption DEF Runs

LEMMA FiniteRuns ==
  ASSUME NEW S \in SUBSET Runs
  PROVE  IsFiniteSet(S) /\ Cardinality(S) \in Nat /\ Cardinality(S) <= MaxRuns
  BY Finite, FS_Subset, FS_CardinalityType

LEMMA FiniteFailures ==
  ASSUME Types PROVE IsFiniteSet(Failures) /\ Cardinality(Failures) \in Nat
<1>1. Len(history) \in Nat
  BY DEF Types, StatusTyped, Short
<1>2. IsFiniteSet(1..Len(history)) /\ Failures \subseteq 1..Len(history)
  BY <1>1, FS_Interval DEF Failures
<1> QED
  BY <1>2, FS_Subset, FS_CardinalityType

\* What a step does to a run with regard to the cap.
Keeps(r) == /\ Recorded(r) => Recorded(r)'
            /\ Charged(r)' => Charged(r)
            /\ Ahead(r)' => Ahead(r)

\* A run that a step leaves alone.
Alike(q) == /\ run'[q] = run[q] /\ h'[q] = h[q] /\ Mine(q)' = Mine(q)
            /\ q \in handled' <=> q \in handled
            /\ q \in executed' <=> q \in executed

LEMMA AlikeKeeps == ASSUME NEW q \in Runs, Alike(q) PROVE Keeps(q)
  BY DEF Alike, Keeps, Recorded, Charged, Ahead, Filed, Active

\* A step that leaves the history alone and brings up no new scheduled run.
LEMMA KeepsCounted ==
  ASSUME Types, Counted, upsets = {}, UNCHANGED history, \A r \in Runs : Keeps(r),
         t'.at = "create" /\ t'.trig = 0 => Below \/ (t.at = "create" /\ t.trig = 0)
  PROVE  Counted'
<1>1. UNCHANGED Failures
  BY DEF Failures
<1>2. AllRecorded \subseteq AllRecorded'
  BY DEF AllRecorded, Keeps
<1>3. AllCharged' \subseteq AllCharged
  BY DEF AllCharged, Keeps
<1>4. AllRecorded' \subseteq Runs /\ AllCharged \subseteq Runs
  BY DEF AllRecorded, AllCharged
<1>5. /\ Cardinality(AllRecorded) <= Cardinality(AllRecorded') /\ Cardinality(AllRecorded') \in Nat
      /\ Cardinality(AllCharged') <= Cardinality(AllCharged) /\ Cardinality(AllCharged) \in Nat
      /\ Cardinality(AllRecorded) \in Nat /\ Cardinality(AllCharged') \in Nat
  BY <1>2, <1>3, <1>4, FiniteRuns, FS_Subset
<1>6. (\E r \in Runs : Ahead(r)') => Below
  BY DEF Keeps, Counted
<1>7. Len(history) \in Nat /\ Cardinality(Failures) \in Nat
  BY FiniteFailures DEF Types, StatusTyped, Short
<1>8. /\ Len(history') <= EarlierFailures + Cardinality(AllRecorded')
      /\ EarlierFailures + Cardinality(AllCharged') <= Cardinality(Failures')
      /\ EarlierFailures + Cardinality(AllCharged') <= MaxRetriesPerDay
  <2>1. /\ Len(history) <= EarlierFailures + Cardinality(AllRecorded)
        /\ EarlierFailures + Cardinality(AllCharged) <= Cardinality(Failures)
        /\ EarlierFailures + Cardinality(AllCharged) <= MaxRetriesPerDay
    BY DEF Counted
  <2> QED
    BY <1>1, <1>5, <1>7, <2>1, Finite
<1>9. Below' <=> Below
  BY <1>1 DEF Below
<1>10. t'.at = "create" /\ t'.trig = 0 => Below'
  BY <1>9 DEF Counted
<1> QED
  BY <1>6, <1>8, <1>9, <1>10 DEF Counted

LEMMA NoneBefore == ASSUME [Next]_vars, upsets' = {} PROVE upsets = {} /\ NoFault
<1>1. ASSUME NEW kind PROVE ~Upset(kind)
  BY NoUpset
<1>2. ASSUME NEW r \in Runs, OnRunCreate(r) PROVE NoFault
  BY <1>1, <1>2, Zenon DEF OnRunCreate, Enter, Check, FetchParent, StartJob, FinishRun,
                    FailRun, ReadParent, PatchParent, Close, Return, NoFault, Fault
<1>3. ASSUME NEW r \in Runs, RunReconcileTimer(r) PROVE NoFault
  BY <1>1, <1>3, Zenon DEF RunReconcileTimer, Reconcile, ReadParent, PatchParent, NoFault, Fault
<1>4. CASE TimerLook \/ TimerList \/ TimerCreate \/ TimerPatch
  BY <1>1, <1>4, Zenon DEF TimerLook, TimerList, TimerCreate, TimerPatch, NoFault, Fault
<1>5. CASE UiList \/ UiCreate \/ UiPatch \/ SetTriggeredAt \/ CronTick \/ Crash
  BY <1>1, <1>5, Zenon DEF UiList, UiCreate, UiPatch, SetTriggeredAt, CronTick, Crash, NoFault, Fault
<1>6. CASE UNCHANGED vars
  BY <1>6 DEF vars, NoFault
<1> QED
  BY <1>2, <1>3, <1>4, <1>5, <1>6 DEF Next, NoFault

\* What a step of the handler of one run, other than the patch, means for all.
LEMMA HandlerKeeps ==
  ASSUME Types, Serial, upsets = {}, upsets' = {}, NEW r \in Runs, OnRunCreate(r),
         ~PatchParent(<<r, "handler">>)
  PROVE  UNCHANGED <<history, t>> /\ \A q \in Runs : Keeps(q)
<1>1. Stage(r)
  BY DEF Serial
<1>2. /\ run \in [Runs -> RunRecord] /\ h \in [Runs -> HandlerPc]
      /\ rec \in [Recorders -> Record] /\ rec[<<r, "handler">>] \in Record
      /\ \A q \in Runs : <<q, "handler">> \in Recorders
  BY RunRecorder DEF Types, RunsTyped, HandlersTyped, RecordsTyped
<1>3. ASSUME UNCHANGED <<history, t>>, Keeps(r), \A q \in Runs \ {r} : Alike(q)
      PROVE  UNCHANGED <<history, t>> /\ \A q \in Runs : Keeps(q)
  BY <1>3, AlikeKeeps
<1>4. CASE Enter(r)
  <2>1. /\ UNCHANGED <<history, t, handled, executed, rec>> /\ h[r] = "idle" /\ r \notin handled
        /\ \/ run' = run /\ h' = [h EXCEPT ![r] = "check"]
           \/ run' = End(r, "failed") /\ h' = [h EXCEPT ![r] = "done"]
    <3>1. CASE running
      BY <1>4, <3>1, Zenon DEF Enter, HandlerStep
    <3>2. CASE ~running
      BY <1>4, <3>2, Zenon DEF Enter, HandlerStep
    <3> QED
      BY <3>1, <3>2
  <2>2. r \notin executed
    BY <1>1, <2>1 DEF Stage
  <2>3. Keeps(r)
    BY <1>2, <2>1, <2>2 DEF Keeps, Recorded, Charged, Ahead, Filed, Active, Mine, End, RunRecord
  <2>4. \A q \in Runs \ {r} : Alike(q)
    BY <1>2, <2>1 DEF Alike, Mine, End
  <2> QED
    BY <1>3, <2>1, <2>3, <2>4
<1>5. CASE Check(r)
  <2>1. /\ UNCHANGED <<history, t, handled, executed, rec, run>> /\ h[r] = "check"
        /\ h' = [h EXCEPT ![r] = "done"] \/ h' = [h EXCEPT ![r] = "fetch"]
    BY <1>5, Zenon DEF Check, HandlerStep
  <2>2. Keeps(r)
    BY <1>2, <2>1 DEF Keeps, Recorded, Charged, Ahead, Filed, Active, Mine
  <2>3. \A q \in Runs \ {r} : Alike(q)
    BY <1>2, <2>1 DEF Alike, Mine
  <2> QED
    BY <1>3, <2>1, <2>2, <2>3
<1>6. CASE FetchParent(r)
  <2>1. /\ UNCHANGED <<history, t, handled, run>> /\ h[r] = "fetch"
        /\ h' = [h EXCEPT ![r] = "queued"] /\ executed' = executed \union {r}
        /\ rec' = [rec EXCEPT ![<<r, "handler">>].caller = history]
    BY <1>6, NoUpset, Zenon DEF FetchParent, HandlerStep, Fault
  <2>2. run[r].phase = "active"
    BY <1>1, <2>1 DEF Stage, Busy, Active
  <2>3. Keeps(r)
    BY <1>2, <2>1, <2>2 DEF Keeps, Recorded, Charged, Ahead, Filed, Active, Mine
  <2>4. \A q \in Runs \ {r} : Alike(q)
    BY <1>2, <2>1 DEF Alike, Mine
  <2> QED
    BY <1>3, <2>1, <2>3, <2>4
<1>7. CASE StartJob(r)
  <2>1. /\ UNCHANGED <<history, t, handled, executed, run, rec>> /\ h[r] = "queued"
        /\ h' = [h EXCEPT ![r] = "working"]
    BY <1>7, Zenon DEF StartJob, HandlerStep
  <2>2. Keeps(r)
    BY <1>2, <2>1 DEF Keeps, Recorded, Charged, Ahead, Filed, Active, Mine
  <2>3. \A q \in Runs \ {r} : Alike(q)
    BY <1>2, <2>1 DEF Alike, Mine
  <2> QED
    BY <1>3, <2>1, <2>2, <2>3
<1>8. CASE FinishRun(r)
  <2>1. UNCHANGED <<history, t, handled, executed>> /\ h[r] = "working"
    BY <1>8, Zenon DEF FinishRun, HandlerStep
  <2>2. run[r].phase = "active"
    BY <1>1, <2>1 DEF Stage, Busy, Active
  <2>3. /\ h' = [h EXCEPT ![r] = "record"] /\ run' = [run EXCEPT ![r].phase = "succeeded"]
        /\ StartRecord(<<r, "handler">>, "succeeded", rec[<<r, "handler">>].caller)
    BY <1>8, <2>2 DEF FinishRun, HandlerStep, End
  <2>4. Mine(r)'.at = "read" /\ \A w \in Recorders : w # <<r, "handler">> => rec'[w] = rec[w]
    BY <2>3, Started
  <2>5. Keeps(r)
    BY <1>2, <2>1, <2>2, <2>3, <2>4 DEF Keeps, Recorded, Charged, Ahead, Filed, Active, RunRecord
  <2>6. \A q \in Runs \ {r} : Alike(q)
    BY <1>2, <2>1, <2>3, <2>4 DEF Alike, Mine
  <2> QED
    BY <1>3, <2>1, <2>5, <2>6
<1>9. CASE FailRun(r)
  <2>1. /\ UNCHANGED <<history, t, handled, executed, run>> /\ h[r] \in {"queued", "working"}
        /\ h' = [h EXCEPT ![r] = "record"]
        /\ StartRecord(<<r, "handler">>, "failed", rec[<<r, "handler">>].caller)
    BY <1>9 DEF FailRun, HandlerStep
  <2>2. Mine(r)'.at = "read" /\ \A w \in Recorders : w # <<r, "handler">> => rec'[w] = rec[w]
    BY <2>1, Started
  <2>3. Keeps(r)
    <3>1. r \notin handled
      BY <1>1, <2>1 DEF Stage
    <3> QED
      BY <1>2, <2>1, <2>2, <3>1 DEF Keeps, Recorded, Charged, Ahead, Filed, Active
  <2>4. \A q \in Runs \ {r} : Alike(q)
    BY <1>2, <2>1, <2>2 DEF Alike, Mine
  <2> QED
    BY <1>3, <2>1, <2>3, <2>4
<1>10. CASE ReadParent(<<r, "handler">>)
  <2>1. /\ UNCHANGED <<history, t, handled, executed, run, h>> /\ Mine(r).at = "read"
        /\ rec' = [rec EXCEPT ![<<r, "handler">>].at = "patch", ![<<r, "handler">>].base = history]
    BY <1>10, NoUpset, Zenon DEF ReadParent, Fault, Mine, status
  <2>2. Mine(r)'.at = "patch" /\ \A w \in Recorders : w # <<r, "handler">> => rec'[w] = rec[w]
    BY <1>2, <2>1 DEF Mine, Record
  <2>3. Keeps(r)
    BY <1>2, <2>1, <2>2 DEF Keeps, Recorded, Charged, Ahead, Filed, Active
  <2>4. \A q \in Runs \ {r} : Alike(q)
    BY <1>2, <2>1, <2>2 DEF Alike, Mine
  <2> QED
    BY <1>3, <2>1, <2>3, <2>4
<1>11. CASE Close(r)
  <2>1. /\ UNCHANGED <<history, t, handled, executed>> /\ h[r] = "record" /\ Mine(r).at = "none"
        /\ h' = [h EXCEPT ![r] = "done"]
        /\ run' = IF Mine(r).result = "succeeded" THEN run ELSE End(r, "failed")
        /\ rec' = [rec EXCEPT ![<<r, "handler">>] = NoRecord]
    BY <1>11, Zenon DEF Close, HandlerStep, Mine
  <2>2. Mine(r).result = "failed" \/ (Mine(r).result = "succeeded" /\ run[r].phase = "succeeded")
    BY <1>1, <2>1 DEF Stage
  <2>3. Keeps(r)
    BY <1>2, <2>1, <2>2 DEF Keeps, Recorded, Charged, Ahead, Filed, Active, End, RunRecord
  <2>4. \A q \in Runs \ {r} : Alike(q)
    BY <1>2, <2>1 DEF Alike, Mine, End
  <2> QED
    BY <1>3, <2>1, <2>3, <2>4
<1>12. CASE Return(r)
  <2>1. /\ UNCHANGED <<history, t, executed, run, rec>> /\ h[r] = "done"
        /\ h' = [h EXCEPT ![r] = "idle"] /\ handled' = handled \union {r}
    BY <1>12, Zenon DEF Return, HandlerStep
  <2>2. Keeps(r)
    BY <1>2, <2>1 DEF Keeps, Recorded, Charged, Ahead, Filed, Active, Mine
  <2>3. \A q \in Runs \ {r} : Alike(q)
    BY <1>2, <2>1 DEF Alike, Mine
  <2> QED
    BY <1>3, <2>1, <2>2, <2>3
<1> QED
  BY <1>4, <1>5, <1>6, <1>7, <1>8, <1>9, <1>10, <1>11, <1>12 DEF OnRunCreate

\* A shifted set is as large.
LEMMA Shifted == ASSUME NEW S \in SUBSET Int, IsFiniteSet(S)
                 PROVE  /\ IsFiniteSet({i + 1 : i \in S})
                        /\ Cardinality({i + 1 : i \in S}) = Cardinality(S)
<1> DEFINE T == {i + 1 : i \in S}
           f == [i \in S |-> i + 1]
<1>1. f \in [S -> T]
  OBVIOUS
<1>2. \A a, b \in S : f[a] = f[b] => a = b
  OBVIOUS
<1>3. \A n \in T : \E m \in S : f[m] = n
  OBVIOUS
<1>4. ExistsBijection(S, T)
  BY <1>1, <1>2, <1>3 DEF ExistsBijection, Bijection, Injection, Surjection, IsInjective
<1> QED
  BY <1>4, FS_Bijection

\* An entry more: the failures before it move on by one.
LEMMA FailuresMove ==
  ASSUME Types, NEW e \in Entry, Len(history) < HistoryLength, history' = Insert(e, history)
  PROVE  /\ e.result = "failed" => Cardinality(Failures') = Cardinality(Failures) + 1
         /\ e.result = "succeeded" => Cardinality(Failures') = Cardinality(Failures)
<1> DEFINE T == {i + 1 : i \in Failures}
<1>1. Short(history) /\ Len(history) \in Nat
  BY DEF Types, StatusTyped, Short
<1>2. /\ Len(history') = Len(history) + 1
      /\ \A i \in 1..Len(history') : history'[i] = IF i = 1 THEN e ELSE history[i - 1]
  BY <1>1, InsertFront
<1>3. IsFiniteSet(T) /\ Cardinality(T) = Cardinality(Failures)
  <2>1. Failures \in SUBSET Int
    BY <1>1 DEF Failures
  <2> QED
    BY <2>1, FiniteFailures, Shifted
<1>4. T \subseteq 2..Len(history')
  BY <1>1, <1>2 DEF Failures
<1>5. ASSUME NEW i \in 2..Len(history') PROVE i \in T <=> history[i - 1].result = "failed"
  <2>1. i - 1 \in 1..Len(history) /\ i = (i - 1) + 1
    BY <1>1, <1>2
  <2>2. i \in T => i - 1 \in Failures
    BY <1>1 DEF Failures
  <2>3. i - 1 \in Failures => i \in T
    BY <2>1
  <2> QED
    BY <2>1, <2>2, <2>3 DEF Failures
<1>6. ASSUME NEW i \in 2..Len(history') PROVE i \in T <=> history'[i].result = "failed"
  BY <1>1, <1>2, <1>5
<1>7. 1 \notin T
  BY <1>1 DEF Failures
<1> HIDE DEF T
<1>8. /\ 1 \in Failures' <=> e.result = "failed"
      /\ \A i \in 2..Len(history') : i \in Failures' <=> i \in T
      /\ \A i \in Failures' : i = 1 \/ i \in 2..Len(history')
  BY <1>1, <1>2, <1>6 DEF Failures
<1>9. CASE e.result = "failed"
  <2>1. Failures' = T \union {1}
    BY <1>4, <1>9, <1>8
  <2> QED
    BY <1>3, <1>7, <1>9, <2>1, FiniteFailures, FS_AddElement
<1>10. CASE e.result = "succeeded"
  <2>1. Failures' = T
    BY <1>4, <1>7, <1>10, <1>8
  <2> QED
    BY <1>3, <1>10, <2>1
<1> QED
  BY <1>9, <1>10

\* The day and the runs of the model fit into the history.
Fits == EarlierFailures <= MaxRetriesPerDay /\ EarlierFailures + MaxRuns <= HistoryLength

LEMMA PatchCounted ==
  ASSUME Fits, Types, Serial, Counted, upsets = {}, upsets' = {},
         NEW w \in Recorders, PatchParent(w)
  PROVE  Counted'
<1>1. PICK r \in Runs :
        /\ w = <<r, "handler">> /\ Stage(r) /\ h[r] = "record" /\ Mine(r).at = "patch"
        /\ history' = Insert([run |-> r, result |-> Mine(r).result], history)
        /\ rec' = Over(w)
        /\ UNCHANGED <<run, executed, jobs, running, h, handled, t, u>>
  BY PatchStep
<1>2. OneActive /\ Alone
  BY DEF Serial
<1>3. /\ rec \in [Recorders -> Record] /\ Mine(r).result \in Results
      /\ \A q \in Runs : <<q, "handler">> \in Recorders
  BY RunRecorder DEF Types, RecordsTyped, Mine, Record
<1>4. /\ Mine(r)'.at = "none" /\ Mine(r)'.result = Mine(r).result
      /\ \A q \in Runs \ {r} : Mine(q)' = Mine(q)
  BY <1>1, <1>3 DEF Mine, Over, NoRecord
<1>5. \A q \in Runs \ {r} : Alike(q)
  BY <1>1, <1>4 DEF Alike
<1>6. r \notin AllRecorded /\ AllRecorded' = AllRecorded \union {r}
  BY <1>1, <1>4, <1>5 DEF AllRecorded, Recorded, Stage, Alike
<1>7. /\ AllRecorded \in SUBSET Runs /\ AllCharged \in SUBSET Runs
      /\ AllCharged' \in SUBSET Runs
  BY DEF AllRecorded, AllCharged
<1>8. /\ IsFiniteSet(AllRecorded) /\ Cardinality(AllRecorded) \in Nat
      /\ Cardinality(AllRecorded') = Cardinality(AllRecorded) + 1
      /\ Cardinality(AllRecorded') <= MaxRuns
  <2>1. IsFiniteSet(AllRecorded) /\ Cardinality(AllRecorded) \in Nat
    BY <1>7, FiniteRuns
  <2>2. AllRecorded' \in SUBSET Runs
    BY DEF AllRecorded
  <2> QED
    BY <1>6, <2>1, <2>2, FiniteRuns, FS_AddElement
<1>9. /\ Len(history) <= EarlierFailures + Cardinality(AllRecorded)
      /\ EarlierFailures + Cardinality(AllCharged) <= Cardinality(Failures)
      /\ EarlierFailures + Cardinality(AllCharged) <= MaxRetriesPerDay
      /\ (\E q \in Runs : Ahead(q)) => Below
      /\ t.at = "create" /\ t.trig = 0 => Below
  BY DEF Counted
<1>10. Short(history) /\ Len(history) \in Nat /\ Len(history) < HistoryLength
  BY <1>8, <1>9, Finite, HistoryAssumption DEF Fits, Types, StatusTyped, Short
<1> DEFINE e == [run |-> r, result |-> Mine(r).result]
<1>11. e \in Entry /\ e.result = Mine(r).result
  BY <1>3 DEF Entry, Results
<1>12. /\ Mine(r).result = "failed" => Cardinality(Failures') = Cardinality(Failures) + 1
       /\ Mine(r).result = "succeeded" => Cardinality(Failures') = Cardinality(Failures)
  BY <1>1, <1>10, <1>11, FailuresMove
<1>13. Len(history') = Len(history) + 1
  BY <1>1, <1>10, <1>11, InsertFront
<1>14. Len(history') <= EarlierFailures + Cardinality(AllRecorded')
  BY <1>8, <1>9, <1>10, <1>13, Finite
<1>15. /\ Cardinality(Failures) \in Nat /\ IsFiniteSet(AllCharged)
       /\ Cardinality(AllCharged) \in Nat /\ Cardinality(AllCharged') \in Nat
  BY <1>7, FiniteFailures, FiniteRuns
<1>16. CASE Mine(r).result = "succeeded"
  <2>1. run[r].phase = "succeeded"
    BY <1>1, <1>16 DEF Stage
  <2>2. ~Charged(r)' /\ ~Ahead(r)'
    BY <1>1, <1>4, <1>16, <2>1 DEF Charged, Filed, Ahead, Active
  <2>3. \A q \in Runs : Keeps(q)
    BY <1>1, <1>4, <1>5, <2>2, AlikeKeeps DEF Keeps, Recorded
  <2>4. AllCharged' \subseteq AllCharged
    BY <2>3 DEF AllCharged, Keeps
  <2>5. Cardinality(AllCharged') <= Cardinality(AllCharged)
    BY <1>15, <2>4, FS_Subset
  <2>6. Below' <=> Below
    BY <1>12, <1>16 DEF Below
  <2>7. (\E q \in Runs : Ahead(q)') => Below
    BY <1>9, <2>3 DEF Keeps
  <2>8. /\ EarlierFailures + Cardinality(AllCharged') <= Cardinality(Failures')
        /\ EarlierFailures + Cardinality(AllCharged') <= MaxRetriesPerDay
    BY <1>9, <1>12, <1>15, <1>16, <2>5, Finite
  <2>9. t'.at = "create" /\ t'.trig = 0 => Below'
    BY <1>1, <1>9, <2>6
  <2> QED
    BY <1>14, <2>6, <2>7, <2>8, <2>9 DEF Counted
<1>17. CASE Mine(r).result = "failed"
  <2>1. Active(r)
    BY <1>1, <1>17 DEF Stage
  <2>2. \A q \in Runs : ~Ahead(q)'
    BY <1>1, <1>2, <1>4, <1>5, <1>17, <2>1 DEF Ahead, Filed, OneActive, Active, Alike
  <2>3. t'.at # "create"
    BY <1>1, <1>2, <2>1 DEF Alone
  <2>4. AllCharged' \subseteq AllCharged \union {r}
    BY <1>5, AlikeKeeps DEF AllCharged, Keeps
  <2>5. run[r].by = "schedule" => Below
    BY <1>1, <1>9, <2>1 DEF Ahead, Filed
  <2>6. run[r].by # "schedule" => AllCharged' \subseteq AllCharged
    BY <1>1, <2>4 DEF AllCharged, Charged
  <2>7. /\ Cardinality(AllCharged') <= Cardinality(AllCharged) + 1
        /\ run[r].by # "schedule" => Cardinality(AllCharged') <= Cardinality(AllCharged)
    <3>1. IsFiniteSet(AllCharged \union {r})
          /\ Cardinality(AllCharged \union {r}) <= Cardinality(AllCharged) + 1
          /\ Cardinality(AllCharged \union {r}) \in Nat
      <4>1. /\ IsFiniteSet(AllCharged \union {r})
            /\ \/ Cardinality(AllCharged \union {r}) = Cardinality(AllCharged)
               \/ Cardinality(AllCharged \union {r}) = Cardinality(AllCharged) + 1
        BY <1>15, FS_AddElement
      <4> HIDE DEF e
      <4> QED
        BY <1>15, <4>1
    <3>2. Cardinality(AllCharged') <= Cardinality(AllCharged \union {r})
      BY <2>4, <3>1, FS_Subset
    <3>3. run[r].by # "schedule" => Cardinality(AllCharged') <= Cardinality(AllCharged)
      BY <1>15, <2>6, FS_Subset
    <3> QED
      BY <1>15, <3>1, <3>2, <3>3
  <2>8. /\ EarlierFailures + Cardinality(AllCharged') <= Cardinality(Failures')
        /\ EarlierFailures + Cardinality(AllCharged') <= MaxRetriesPerDay
    BY <1>9, <1>12, <1>15, <1>17, <2>5, <2>7, Finite DEF Below
  <2> QED
    BY <1>14, <2>2, <2>3, <2>8 DEF Counted
<1> QED
  BY <1>3, <1>16, <1>17 DEF Results

LEMMA CreatorsCounted ==
  ASSUME Types, Serial, Counted, upsets = {}, upsets' = {},
         \/ TimerLook \/ TimerList \/ TimerCreate \/ TimerPatch
         \/ UiList \/ UiCreate \/ UiPatch \/ SetTriggeredAt \/ CronTick \/ Crash
  PROVE  Counted'
<1>0. t \in [at : {"idle", "list", "create", "patch"}, trig : Nat, run : Runs \union {0}]
  BY DEF Types, CreatorsTyped
<1>1. ASSUME UNCHANGED <<history, run, h, rec, handled, executed>>,
             t'.at = "create" /\ t'.trig = 0 => Below \/ (t.at = "create" /\ t.trig = 0)
      PROVE  Counted'
  <2>1. \A r \in Runs : Alike(r)
    BY <1>1 DEF Alike, Mine
  <2> QED
    BY <1>1, <2>1, AlikeKeeps, KeepsCounted
<1>2. CASE TimerLook \/ TimerPatch
  BY <1>1, <1>2 DEF TimerLook, TimerPatch, TimerIdle, status
<1>3. CASE TimerList
  <2>1. /\ UNCHANGED <<history, run, h, rec, handled, executed>>
        /\ t' = TimerIdle \/ (t' = [t EXCEPT !.at = "create"] /\ (t.trig # 0 \/ ~CapReached))
    BY <1>3, Zenon DEF TimerList, status
  <2>2. ~CapReached => Below
    BY FiniteFailures, Finite DEF CapReached, Below
  <2> QED
    BY <1>0, <1>1, <2>1, <2>2 DEF TimerIdle
<1>4. CASE TimerCreate
  <2>1. PICK r \in Runs :
          /\ CreateRun(r, IF t.trig # 0 THEN "manual" ELSE "schedule", t.trig)
          /\ t' = [t EXCEPT !.at = "patch", !.run = r]
    BY <1>4, NoUpset DEF TimerCreate, Fault
  <2>2. t.at = "create" /\ UNCHANGED <<history, h, rec, handled, executed>>
    BY <1>4 DEF TimerCreate, status
  <2>3. /\ run' = [run EXCEPT ![r] = [phase |-> "active", served |-> t.trig,
                                      by |-> IF t.trig # 0 THEN "manual" ELSE "schedule"]]
        /\ run[r].phase = "absent" /\ run \in [Runs -> RunRecord]
    BY <2>1 DEF CreateRun, NextRun, Types, RunsTyped
  <2>4. \A q \in Runs \ {r} : Keeps(q)
    BY <2>2, <2>3, AlikeKeeps DEF Alike, Mine
  <2>5. (Recorded(r) => Recorded(r)') /\ (Charged(r)' => Charged(r))
    <3>1. Stage(r)
      BY DEF Serial
    <3>2. h[r] = "idle" /\ r \notin handled
      <4>1. h[r] \in HandlerPc
        BY DEF Types, HandlersTyped
      <4> QED
        BY <2>3, <3>1, <4>1 DEF Stage, Active, Busy, HandlerPc, Results
    <3> QED
      BY <2>2, <2>3, <3>2 DEF Recorded, Charged, Filed, Mine
  <2>6. (Ahead(r)' => t.trig = 0) /\ (t.trig = 0 => Below)
    BY <2>2, <2>3 DEF Ahead, Counted
  <2>7. CASE Ahead(r)'
    <3>1. Below
      BY <2>6, <2>7
    <3>2. AllRecorded \subseteq AllRecorded' /\ AllCharged' \subseteq AllCharged
      BY <2>4, <2>5 DEF Keeps, AllRecorded, AllCharged
    <3>3. /\ Cardinality(AllRecorded) <= Cardinality(AllRecorded') /\ Cardinality(AllRecorded') \in Nat
          /\ Cardinality(AllCharged') <= Cardinality(AllCharged) /\ Cardinality(AllCharged) \in Nat
          /\ Cardinality(AllRecorded) \in Nat /\ Cardinality(AllCharged') \in Nat
      <4>1. AllRecorded' \in SUBSET Runs /\ AllCharged \in SUBSET Runs
        BY DEF AllRecorded, AllCharged
      <4> QED
        BY <3>2, <4>1, FiniteRuns, FS_Subset
    <3>4. UNCHANGED Failures /\ Cardinality(Failures) \in Nat /\ Len(history) \in Nat
      BY <2>2, FiniteFailures DEF Failures, Types, StatusTyped, Short
    <3>5. /\ Len(history) <= EarlierFailures + Cardinality(AllRecorded)
          /\ EarlierFailures + Cardinality(AllCharged) <= Cardinality(Failures)
          /\ EarlierFailures + Cardinality(AllCharged) <= MaxRetriesPerDay
      BY DEF Counted
    <3>6. /\ Len(history') <= EarlierFailures + Cardinality(AllRecorded')
          /\ EarlierFailures + Cardinality(AllCharged') <= Cardinality(Failures')
          /\ EarlierFailures + Cardinality(AllCharged') <= MaxRetriesPerDay
      BY <2>2, <3>3, <3>4, <3>5, Finite
    <3> QED
      BY <3>1, <3>4, <3>6 DEF Counted, Below
  <2>8. CASE ~Ahead(r)'
    <3>1. \A q \in Runs : Keeps(q)
      BY <2>4, <2>5, <2>8 DEF Keeps
    <3>2. t'.at # "create"
      BY <1>0, <2>1
    <3> QED
      BY <2>2, <3>1, <3>2, KeepsCounted
  <2> QED
    BY <2>7, <2>8
<1>5. CASE UiCreate
  BY <1>5 DEF UiCreate, Serial
<1>6. CASE UiList \/ UiPatch \/ SetTriggeredAt \/ CronTick \/ Crash
  <2>1. ~UiList /\ ~Crash
    BY NoUpset DEF UiList, Crash
  <2> QED
    BY <1>1, <1>6, <2>1 DEF UiPatch, SetTriggeredAt, CronTick, status
<1> QED
  BY <1>2, <1>3, <1>4, <1>5, <1>6

LEMMA NextCounted ==
  ASSUME Fits, Types, Serial, Counted, [Next]_vars
  PROVE  Counted'
<1> SUFFICES ASSUME upsets' = {} PROVE Counted'
  BY DEF Counted
<1>1. upsets = {}
  BY NoneBefore
<1>2. ASSUME NEW r \in Runs, OnRunCreate(r) PROVE Counted'
  <2>1. <<r, "handler">> \in Recorders
    BY RunRecorder
  <2>2. CASE PatchParent(<<r, "handler">>)
    BY <1>1, <2>1, <2>2, PatchCounted
  <2>3. CASE ~PatchParent(<<r, "handler">>)
    <3>1. UNCHANGED <<history, t>> /\ \A q \in Runs : Keeps(q)
      BY <1>1, <1>2, <2>3, HandlerKeeps
    <3> QED
      BY <1>1, <3>1, KeepsCounted
  <2> QED
    BY <2>2, <2>3
<1>3. ASSUME NEW r \in Runs, RunReconcileTimer(r) PROVE Counted'
  <2>1. ~Reconcile(r)
    BY ReconcileNever
  <2>2. rec[<<r, "reconciler">>].at = "none"
    BY <1>1 DEF Serial, Stage
  <2> QED
    BY <1>3, <2>1, <2>2 DEF RunReconcileTimer, ReadParent, PatchParent
<1>4. CASE UNCHANGED vars
  <2>1. UNCHANGED <<history, run, h, rec, handled, executed, t>>
    BY <1>4 DEF vars, status
  <2>2. \A r \in Runs : Keeps(r)
    BY <2>1, AlikeKeeps DEF Alike, Mine
  <2> QED
    BY <1>1, <2>1, <2>2, KeepsCounted
<1> QED
  BY <1>1, <1>2, <1>3, <1>4, CreatorsCounted DEF Next

LEMMA InitCounted == ASSUME Fits, Init PROVE Counted
<1>1. Failures = 1..EarlierFailures /\ Len(history) = EarlierFailures
  BY Finite DEF Init, Failures
<1>2. Cardinality(Failures) = EarlierFailures
  BY <1>1, Finite, FS_Interval
<1>3. AllCharged = {} /\ \A r \in Runs : ~Ahead(r)
  BY DEF Init, AllCharged, Charged, Ahead, Active
<1>4. AllRecorded \in SUBSET Runs
  BY DEF AllRecorded
<1>5. Cardinality(AllCharged) = 0 /\ Cardinality(AllRecorded) \in Nat
  BY <1>3, <1>4, FS_EmptySet, FiniteRuns
<1>6. t.at = "idle"
  BY DEF Init, TimerIdle
<1> QED
  BY <1>1, <1>2, <1>3, <1>5, <1>6, Finite DEF Fits, Counted

LEMMA CountedCaps == Types /\ Counted => ExecutionsAreCapped
<1> SUFFICES ASSUME Types, Counted, upsets = {}
             PROVE  EarlierFailures + Cardinality({r \in Runs : /\ run[r].by = "schedule"
                                                                /\ run[r].phase = "failed"
                                                                /\ r \in executed})
                       <= MaxRetriesPerDay
  BY DEF ExecutionsAreCapped
<1> DEFINE S == {r \in Runs : /\ run[r].by = "schedule"
                              /\ run[r].phase = "failed"
                              /\ r \in executed}
<1>1. S \subseteq AllCharged /\ AllCharged \in SUBSET Runs
  BY DEF AllCharged, Charged
<1>2. /\ Cardinality(S) <= Cardinality(AllCharged)
      /\ Cardinality(S) \in Nat /\ Cardinality(AllCharged) \in Nat
  BY <1>1, FiniteRuns, FS_Subset
<1>3. EarlierFailures + Cardinality(AllCharged) <= MaxRetriesPerDay
  BY DEF Counted
<1> HIDE DEF S
<1>4. EarlierFailures + Cardinality(S) <= MaxRetriesPerDay
  BY <1>2, <1>3, Finite
<1> QED
  BY <1>4 DEF S

\* maxRetriesPerDay, counted over recentRuns, caps the failed scheduled runs of
\* the day that were executed, as long as the day fits into the history and
\* there is no upset: what the timer decides on after its await is complete.
THEOREM CapHolds ==
  ASSUME Fits
  PROVE  Spec => []ExecutionsAreCapped
<1>1. Init => Counted
  BY InitCounted
<1>2. Types /\ Serial /\ Counted /\ [Next]_vars => Counted'
  BY NextCounted
<1>3. Spec => []Counted
  BY <1>1, <1>2, Invariants, PTL DEF Spec
<1> QED
  BY <1>3, Invariants, CountedCaps, PTL
=============================================================================
