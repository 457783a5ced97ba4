----------------------------- MODULE PoolProofs -----------------------------
(***************************************************************************)
(* For every number of backups, every cap and every settle time: the slots *)
(* are counted, no wait queues behind another backup's, Pool implements    *)
(* Slots, and the settle gap is kept.                                      *)
(***************************************************************************)
EXTENDS Pool, FiniteSetTheorems, SequenceTheorems, TLAPS

\* The semaphore's queue holds each waiting backup once, and only those.
QueueOK == /\ \A i \in DOMAIN waiters : st[waiters[i]] = "waiting"
           /\ \A i, j \in DOMAIN waiters : waiters[i] = waiters[j] => i = j

Inv == TypeOK /\ SlotsAreCounted /\ NoIdleSlot /\ NoBacklog /\ QueueOK

LEMMA HoldersFinite == IsFiniteSet(Holders) /\ Cardinality(Holders) \in Nat
<1>1. Holders \subseteq Backups
  BY DEF Holders
<1> QED
  BY <1>1, BackupsAssumption, FS_Subset, FS_CardinalityType

\* The executor always has an idle worker for a holder of the semaphore.
LEMMA IdleWorker ==
  ASSUME TypeOK, SlotsAreCounted
  PROVE  Cardinality(Busy) < Workers
<1>1. Busy \subseteq Holders
  BY DEF Busy, Holders, Holding
<1>2. Cardinality(Busy) <= Cardinality(Holders) /\ Cardinality(Busy) \in Nat
  BY <1>1, HoldersFinite, FS_Subset, FS_CardinalityType
<1>3. Cardinality(Holders) <= MaxConcurrent
  BY HoldersFinite, ConcurrentAssumption DEF TypeOK, SlotsAreCounted
<1> QED
  BY <1>2, <1>3, HoldersFinite, ConcurrentAssumption DEF Workers

\* A backup that takes a slot, gives one up, or passes it on.
LEMMA HolderAdded ==
  ASSUME TypeOK, NEW b \in Backups, NEW s \in Holding,
         st[b] \notin Holding, st' = [st EXCEPT ![b] = s]
  PROVE  /\ Holders' = Holders \union {b}
         /\ Cardinality(Holders') = Cardinality(Holders) + 1
<1>1. Holders' = Holders \union {b}
  BY DEF Holders, TypeOK
<1>2. b \notin Holders
  BY DEF Holders
<1> QED
  BY <1>1, <1>2, HoldersFinite, FS_AddElement

LEMMA HolderRemoved ==
  ASSUME TypeOK, NEW b \in Backups, NEW s \in States \ Holding,
         st[b] \in Holding, st' = [st EXCEPT ![b] = s]
  PROVE  /\ Holders' = Holders \ {b}
         /\ Cardinality(Holders') = Cardinality(Holders) - 1
<1>1. Holders' = Holders \ {b}
  BY DEF Holders, TypeOK
<1>2. b \in Holders
  BY DEF Holders
<1> QED
  BY <1>1, <1>2, HoldersFinite, FS_RemoveElement

LEMMA HolderReplaced ==
  ASSUME TypeOK, NEW b \in Backups, NEW q \in Backups, b # q,
         st[b] = "working", st[q] = "waiting",
         st' = [st EXCEPT ![b] = "done", ![q] = "held"]
  PROVE  /\ Holders' = (Holders \ {b}) \union {q}
         /\ Cardinality(Holders') = Cardinality(Holders)
<1>1. Holders' = (Holders \ {b}) \union {q}
  BY DEF Holders, TypeOK, Holding
<1>2. b \in Holders /\ q \notin Holders
  BY DEF Holders, Holding
<1>3. /\ IsFiniteSet(Holders \ {b})
      /\ Cardinality(Holders \ {b}) = Cardinality(Holders) - 1
  BY <1>2, HoldersFinite, FS_RemoveElement
<1>4. Cardinality((Holders \ {b}) \union {q}) = Cardinality(Holders \ {b}) + 1
  BY <1>2, <1>3, FS_AddElement
<1> QED
  BY <1>1, <1>3, <1>4, HoldersFinite

\* The head of the queue leaves it; what stays is still a queue of waiters.
LEMMA QueueHead ==
  ASSUME TypeOK, QueueOK, waiters # <<>>
  PROVE  /\ Head(waiters) \in Backups
         /\ st[Head(waiters)] = "waiting"
         /\ Tail(waiters) \in Seq(Backups)
         /\ \A i \in DOMAIN Tail(waiters) : /\ Tail(waiters)[i] = waiters[i + 1]
                                            /\ i + 1 \in DOMAIN waiters
                                            /\ Tail(waiters)[i] # Head(waiters)
<1>1. Len(waiters) \in Nat \ {0} /\ DOMAIN waiters = 1..Len(waiters) /\ Head(waiters) = waiters[1]
  BY DEF TypeOK
<1>2. 1 \in DOMAIN waiters
  BY <1>1
<1>3. Tail(waiters) \in Seq(Backups) /\ Len(Tail(waiters)) = Len(waiters) - 1
  BY <1>1 DEF TypeOK
<1>4. ASSUME NEW i \in DOMAIN Tail(waiters)
      PROVE  /\ Tail(waiters)[i] = waiters[i + 1]
             /\ i + 1 \in DOMAIN waiters
             /\ Tail(waiters)[i] # Head(waiters)
  <2>1. i \in 1..(Len(waiters) - 1)
    BY <1>3, <1>4
  <2>2. Tail(waiters)[i] = waiters[i + 1]
    BY <2>1, <1>1 DEF TypeOK
  <2>3. i + 1 \in DOMAIN waiters /\ i + 1 # 1
    BY <2>1, <1>1
  <2> QED
    BY <2>2, <2>3, <1>1, <1>2 DEF QueueOK
<1> QED
  BY <1>1, <1>2, <1>3, <1>4 DEF TypeOK, QueueOK

LEMMA InvInit == Init => Inv
<1> SUFFICES ASSUME Init PROVE Inv
  OBVIOUS
<1>1. TypeOK
  BY ConcurrentAssumption, SettleAssumption DEF Init, TypeOK, States
<1>2. Holders = {} /\ Cardinality(Holders) = 0
  BY FS_EmptySet DEF Init, Holders, Holding
<1>3. SlotsAreCounted
  BY <1>2, ConcurrentAssumption DEF Init, SlotsAreCounted
<1> QED
  BY <1>1, <1>3 DEF Init, Inv, NoIdleSlot, NoBacklog, QueueOK

\* A step of a backup that keeps its slot, or keeps waiting for none.
LEMMA InvSameHolders ==
  ASSUME Inv, TypeOK', NEW b \in Backups, NEW s \in {"working", "settling", "onWorker"},
         st[b] \in Holding, st' = [st EXCEPT ![b] = s], UNCHANGED <<value, waiters>>
  PROVE  Inv'
<1>1. Holders' = Holders
  BY DEF Inv, TypeOK, Holders, Holding
<1>2. QueueOK'
  BY DEF Inv, TypeOK, QueueOK, Holding
<1>3. NoBacklog'
  BY DEF Inv, TypeOK, NoBacklog
<1> QED
  BY <1>1, <1>2, <1>3 DEF Inv, SlotsAreCounted, NoIdleSlot

LEMMA InvNext == Inv /\ [Next]_vars => Inv'
<1> SUFFICES ASSUME Inv, [Next]_vars PROVE Inv'
  OBVIOUS
<1> USE DEF Inv
<1>1. ASSUME NEW b \in Backups, Acquire(b) PROVE Inv'
  <2>1. CASE value > 0 /\ waiters = <<>> /\ Goto(b, "new", "held") /\ value' = value - 1
             /\ UNCHANGED <<waiters, left, since, overtaken>>
    <3>1. TypeOK'
      BY <2>1 DEF TypeOK, Goto, States, Holding
    <3>2. Cardinality(Holders') = Cardinality(Holders) + 1
      BY <2>1, HolderAdded DEF Goto, Holding
    <3>3. SlotsAreCounted'
      BY <2>1, <3>2, HoldersFinite DEF SlotsAreCounted, TypeOK
    <3>4. NoIdleSlot' /\ NoBacklog' /\ QueueOK'
      BY <2>1 DEF NoIdleSlot, NoBacklog, QueueOK, Goto, TypeOK
    <3> QED
      BY <3>1, <3>3, <3>4
  <2>2. CASE (value = 0 \/ waiters # <<>>) /\ Goto(b, "new", "waiting")
             /\ waiters' = Append(waiters, b) /\ UNCHANGED <<value, left, since, overtaken>>
    <3>1. TypeOK'
      BY <2>2 DEF TypeOK, Goto, States, Holding
    <3>2. Holders' = Holders
      BY <2>2 DEF TypeOK, Goto, Holders, Holding
    <3>3. SlotsAreCounted' /\ NoIdleSlot' /\ NoBacklog'
      BY <2>2, <3>2 DEF SlotsAreCounted, NoIdleSlot, NoBacklog, Goto, TypeOK
    <3>4. QueueOK'
      <4>1. DOMAIN waiters = 1..Len(waiters) /\ Len(waiters) \in Nat
        BY DEF TypeOK
      <4>2. DOMAIN waiters' = 1..(Len(waiters) + 1) /\ waiters'[Len(waiters) + 1] = b
        BY <2>2, <4>1 DEF TypeOK
      <4>3. \A i \in DOMAIN waiters : waiters'[i] = waiters[i] /\ waiters[i] \in Backups
        BY <2>2, <4>1 DEF TypeOK
      <4>4. \A i \in DOMAIN waiters : waiters[i] # b /\ st'[waiters[i]] = "waiting"
        BY <2>2, <4>3 DEF QueueOK, Goto, TypeOK
      <4>5. st'[b] = "waiting"
        BY <2>2 DEF Goto, TypeOK
      <4>6. \A i \in DOMAIN waiters' : i \in DOMAIN waiters \/ i = Len(waiters) + 1
        BY <4>1, <4>2
      <4> QED
        BY <4>2, <4>3, <4>4, <4>5, <4>6 DEF QueueOK
    <3> QED
      BY <3>1, <3>3, <3>4
  <2> QED
    BY <1>1, <2>1, <2>2 DEF Acquire
<1>2. ASSUME NEW b \in Backups, SettleGap(b) PROVE Inv'
  <2>1. TypeOK'
    BY <1>2, SettleAssumption DEF SettleGap, TypeOK, Goto, States, Holding
  <2> QED
    BY <1>2, <2>1, InvSameHolders DEF SettleGap, Goto, Holding
<1>3. ASSUME NEW b \in Backups, Wake(b) PROVE Inv'
  <2>1. TypeOK'
    BY <1>3 DEF Wake, TypeOK, Goto, States, Holding
  <2> QED
    BY <1>3, <2>1, InvSameHolders DEF Wake, Goto, Holding
<1>4. ASSUME NEW b \in Backups, ToPool(b) PROVE Inv'
  <2>1. Goto(b, "working", "onWorker")
    BY <1>4, IdleWorker DEF ToPool
  <2>2. TypeOK'
    BY <1>4, <2>1 DEF ToPool, TypeOK, Goto, States, Holding
  <2> QED
    BY <1>4, <2>1, <2>2, InvSameHolders DEF ToPool, Goto, Holding
<1>5. ASSUME NEW b \in Backups, WorkerDone(b) PROVE Inv'
  <2>1. st[b] = "onWorker" /\ st' = [st EXCEPT ![b] = "working"]
    BY <1>5 DEF WorkerDone, NoBacklog
  <2>2. TypeOK'
    BY <1>5, <2>1 DEF WorkerDone, TypeOK, States, Holding
  <2> QED
    BY <1>5, <2>1, <2>2, InvSameHolders DEF WorkerDone, Holding
<1>6. ASSUME NEW b \in Backups, FinishBackup(b) PROVE Inv'
  <2>1. CASE waiters = <<>>
    <3>1. st' = [st EXCEPT ![b] = "done"] /\ value' = value + 1 /\ UNCHANGED <<waiters, left>>
          /\ since' = 0 /\ st[b] = "working" /\ overtaken' \subseteq Backups
      BY <1>6, <2>1 DEF FinishBackup, Settling, TypeOK
    <3>2. TypeOK'
      BY <3>1, SettleAssumption DEF TypeOK, States, Holding
    <3>3. Cardinality(Holders') = Cardinality(Holders) - 1
      BY <3>1, HolderRemoved DEF Holding, States
    <3>4. SlotsAreCounted'
      BY <3>1, <3>3, HoldersFinite DEF SlotsAreCounted, TypeOK
    <3>5. NoIdleSlot' /\ NoBacklog' /\ QueueOK'
      BY <2>1, <3>1 DEF NoIdleSlot, NoBacklog, QueueOK, TypeOK
    <3> QED
      BY <3>2, <3>4, <3>5
  <2>2. CASE waiters # <<>>
    <3> DEFINE q == Head(waiters)
    <3>1. st' = [st EXCEPT ![b] = "done", ![q] = "held"] /\ waiters' = Tail(waiters)
          /\ UNCHANGED <<value, left>> /\ since' = 0 /\ st[b] = "working"
          /\ overtaken' \subseteq Backups
      BY <1>6, <2>2 DEF FinishBackup, Settling, TypeOK
    <3>2. q \in Backups /\ st[q] = "waiting" /\ b # q /\ Tail(waiters) \in Seq(Backups)
      BY <2>2, <3>1, QueueHead
    <3>3. TypeOK'
      <4> HIDE DEF q
      <4>1. st' \in [Backups -> States]
        BY <3>1, <3>2 DEF TypeOK, States, Holding
      <4>2. since' \in 0..SettleSeconds
        BY <3>1, SettleAssumption
      <4> QED
        BY <3>1, <3>2, <4>1, <4>2 DEF TypeOK
    <3>4. Cardinality(Holders') = Cardinality(Holders)
      BY <3>1, <3>2, HolderReplaced
    <3>5. SlotsAreCounted' /\ NoIdleSlot'
      BY <2>2, <3>1, <3>4 DEF SlotsAreCounted, NoIdleSlot
    <3>6. NoBacklog'
      BY <3>1, <3>2 DEF NoBacklog, TypeOK
    <3>7. QueueOK'
      <4> HIDE DEF q
      <4>1. \A i \in DOMAIN waiters' : /\ waiters'[i] = waiters[i + 1]
                                       /\ i + 1 \in DOMAIN waiters
                                       /\ waiters'[i] # q
        BY <2>2, <3>1, QueueHead DEF q
      <4>2. \A i \in DOMAIN waiters' : /\ waiters'[i] \in Backups
                                       /\ st[waiters'[i]] = "waiting"
        BY <4>1 DEF QueueOK, TypeOK
      <4>3. \A i \in DOMAIN waiters' : st'[waiters'[i]] = "waiting"
        BY <3>1, <3>2, <4>1, <4>2 DEF TypeOK
      <4>4. DOMAIN waiters' \subseteq Nat
        BY <3>1, <3>2
      <4>5. \A i, j \in DOMAIN waiters' : waiters'[i] = waiters'[j] => i = j
        <5> SUFFICES ASSUME NEW i \in DOMAIN waiters', NEW j \in DOMAIN waiters',
                            waiters'[i] = waiters'[j]
                     PROVE  i = j
          OBVIOUS
        <5>1. i + 1 = j + 1
          BY <4>1 DEF QueueOK
        <5> QED
          BY <4>4, <5>1
      <4> QED
        BY <4>3, <4>5 DEF QueueOK
    <3> QED
      BY <3>3, <3>5, <3>6, <3>7
  <2> QED
    BY <2>1, <2>2
<1>7. CASE Tick
  <2>1. TypeOK'
    BY <1>7, SettleAssumption DEF Tick, TypeOK
  <2> QED
    BY <1>7, <2>1 DEF Tick, SlotsAreCounted, Holders, NoIdleSlot, NoBacklog, QueueOK
<1>8. CASE UNCHANGED vars
  BY <1>8 DEF vars, TypeOK, SlotsAreCounted, Holders, NoIdleSlot, NoBacklog, QueueOK
<1> QED
  BY <1>1, <1>2, <1>3, <1>4, <1>5, <1>6, <1>7, <1>8 DEF Next

\* Inv is the inductive invariant the theorems below rest on.
THEOREM Invariance == Spec => []Inv
  BY InvInit, InvNext, PTL DEF Spec

\* pool.py: slots are neither lost nor multiplied, so at most MaxConcurrent
\* backups are inside `async with pool.SEMAPHORE`.
THEOREM SlotsCounted == Spec => []SlotsAreCounted
<1>1. Inv => SlotsAreCounted
  BY DEF Inv
<1> QED
  BY <1>1, Invariance, PTL

\* pool.py: no release is lost while a backup waits for a slot.
THEOREM NoLostWakeup == Spec => []NoIdleSlot
<1>1. Inv => NoIdleSlot
  BY DEF Inv
<1> QED
  BY <1>1, Invariance, PTL

\* pool.py: max(4, MAX_CONCURRENT_BACKUPS + 2) workers are enough: no backup's
\* wait is ever queued behind another one's.
THEOREM NoWaitIsQueued == Spec => []NoBacklog
<1>1. Inv => NoBacklog
  BY DEF Inv
<1> QED
  BY <1>1, Invariance, PTL

-----------------------------------------------------------------------------
(* Pool implements Slots                                                   *)

LEMMA PromiseInit == Init => Promise!Init
  BY DEF Init, Promise!Init, Holders, Holding, Done

\* A step from one state to another outside of Holders and Done, or within
\* Holders, is a stutter of the promise.
LEMMA PromiseStutter ==
  ASSUME TypeOK, NEW b \in Backups, NEW s \in States,
         st' = [st EXCEPT ![b] = s],
         \/ st[b] \in Holding /\ s \in Holding
         \/ st[b] = "new" /\ s = "waiting"
  PROVE  Holders' = Holders /\ Done' = Done
BY DEF TypeOK, Holders, Done, Holding, States

LEMMA PromiseNext == Inv /\ [Next]_vars => [Promise!Next]_<<Holders, Done>>
<1> SUFFICES ASSUME Inv, [Next]_vars PROVE [Promise!Next]_<<Holders, Done>>
  OBVIOUS
<1> USE DEF Inv
<1>1. ASSUME NEW b \in Backups, Acquire(b) PROVE [Promise!Next]_<<Holders, Done>>
  <2>1. CASE value > 0 /\ Goto(b, "new", "held")
    <3>1. Holders' = Holders \union {b}
      BY <2>1, HolderAdded DEF Goto, Holding
    <3>2. Done' = Done /\ b \notin Holders \union Done
      BY <2>1 DEF Goto, Done, Holders, Holding, TypeOK
    <3>3. Cardinality(Holders) < MaxConcurrent
      BY <2>1, HoldersFinite, ConcurrentAssumption DEF SlotsAreCounted, TypeOK
    <3>4. Promise!Cardinality(Holders) = Cardinality(Holders)
      BY DEF Promise!Cardinality, Cardinality
    <3>5. Promise!Start(b)
      BY <3>1, <3>2, <3>3, <3>4 DEF Promise!Start
    <3> QED
      BY <3>5 DEF Promise!Next
  <2>2. CASE Goto(b, "new", "waiting")
    BY <2>2, PromiseStutter DEF Goto, States
  <2> QED
    BY <1>1, <2>1, <2>2 DEF Acquire
<1>2. ASSUME NEW b \in Backups, SettleGap(b) \/ Wake(b) \/ ToPool(b) \/ WorkerDone(b)
      PROVE  [Promise!Next]_<<Holders, Done>>
  <2>1. \E s \in Holding : st[b] \in Holding /\ st' = [st EXCEPT ![b] = s]
    BY <1>2 DEF SettleGap, Wake, ToPool, WorkerDone, Goto, Holding, NoBacklog
  <2> QED
    BY <2>1, PromiseStutter DEF States
<1>3. ASSUME NEW b \in Backups, FinishBackup(b) PROVE [Promise!Next]_<<Holders, Done>>
  <2>1. CASE waiters = <<>>
    <3>1. st[b] = "working" /\ st' = [st EXCEPT ![b] = "done"]
      BY <1>3, <2>1 DEF FinishBackup
    <3>2. Holders' = Holders \ {b} /\ b \in Holders /\ Done' = Done \union {b}
      BY <3>1 DEF TypeOK, Holders, Holding, Done
    <3>3. Promise!Finish(b)
      BY <3>2 DEF Promise!Finish
    <3> QED
      BY <3>3 DEF Promise!Next
  <2>2. CASE waiters # <<>>
    <3> DEFINE q == Head(waiters)
    <3>1. st[b] = "working" /\ st' = [st EXCEPT ![b] = "done", ![q] = "held"]
      BY <1>3, <2>2 DEF FinishBackup
    <3>2. q \in Backups /\ st[q] = "waiting" /\ b # q
      BY <2>2, <3>1, QueueHead
    <3> HIDE DEF q
    <3>3. Holders' = (Holders \ {b}) \union {q}
      BY <3>1, <3>2, HolderReplaced
    <3>4. Done' = Done \union {b} /\ b \in Holders /\ q \notin Holders \union Done
      BY <3>1, <3>2 DEF TypeOK, Done, Holders, Holding
    <3>5. Promise!HandOver(b, q)
      BY <3>3, <3>4 DEF Promise!HandOver
    <3> QED
      BY <3>2, <3>5 DEF Promise!Next
  <2> QED
    BY <2>1, <2>2
<1>4. CASE Tick \/ UNCHANGED vars
  BY <1>4 DEF Tick, vars, Holders, Done
<1> QED
  BY <1>1, <1>2, <1>3, <1>4 DEF Next

\* run_backup with pool.py keeps the promise of Slots: never more than
\* MaxConcurrent backups at once, each executed once.
THEOREM PoolImplementsSlots == Spec => Implements
  BY PromiseInit, PromiseNext, Invariance, PTL DEF Spec, Implements, Promise!Spec

-----------------------------------------------------------------------------
(* The settle gap                                                          *)

\* The sleep that is left covers the part of the gap that has not passed,
\* unless another backup has ended meanwhile.
GapOK == \A b \in Backups :
           st[b] = "settling" /\ b \notin overtaken => left[b] + since >= SettleSeconds

LEMMA GapNext == Inv /\ GapOK /\ [Next]_vars => GapOK'
<1> SUFFICES ASSUME Inv, GapOK, [Next]_vars, NEW q \in Backups,
                    st'[q] = "settling", q \notin overtaken'
             PROVE  left'[q] + since' >= SettleSeconds
  BY DEF GapOK
<1>t. TypeOK
  BY DEF Inv
<1>1. ASSUME NEW b \in Backups, Acquire(b) PROVE left'[q] + since' >= SettleSeconds
  BY <1>1, <1>t DEF Acquire, Goto, TypeOK, GapOK
<1>2. ASSUME NEW b \in Backups, SettleGap(b) PROVE left'[q] + since' >= SettleSeconds
  BY <1>2, <1>t, SettleAssumption DEF SettleGap, Goto, TypeOK, GapOK
<1>3. ASSUME NEW b \in Backups, Wake(b) \/ ToPool(b) \/ WorkerDone(b)
      PROVE  left'[q] + since' >= SettleSeconds
  BY <1>3, <1>t DEF Wake, ToPool, WorkerDone, Goto, TypeOK, GapOK, Inv, NoBacklog
<1>4. ASSUME NEW b \in Backups, FinishBackup(b) PROVE FALSE
  \* Whoever sleeps now is overtaken; whoever gets the slot does not sleep.
  <2>1. st[q] = "settling"
    BY <1>4, <1>t DEF FinishBackup, TypeOK
  <2> QED
    BY <1>4, <2>1 DEF FinishBackup, Settling
<1>5. CASE Tick
  <2>1. left[q] + since >= SettleSeconds
    BY <1>5 DEF Tick, GapOK
  <2> QED
    BY <1>5, <1>t, <2>1, SettleAssumption DEF Tick, TypeOK
<1>6. CASE UNCHANGED vars
  BY <1>6 DEF vars, GapOK
<1> QED
  BY <1>1, <1>2, <1>3, <1>4, <1>5, <1>6 DEF Next

LEMMA GapStep ==
  ASSUME Inv, GapOK, [Next]_vars, NEW b \in Backups,
         st[b] \in {"held", "settling"}, st'[b] = "working"
  PROVE  since >= SettleSeconds \/ b \in overtaken
<1>t. TypeOK
  BY DEF Inv
<1>1. ASSUME NEW a \in Backups, Acquire(a) \/ ToPool(a) \/ WorkerDone(a) \/ FinishBackup(a)
      PROVE  FALSE
  <2>1. CASE Acquire(a) \/ ToPool(a) \/ WorkerDone(a)
    BY <2>1, <1>t DEF Acquire, ToPool, WorkerDone, Goto, TypeOK, Inv, NoBacklog
  <2>2. CASE FinishBackup(a)
    <3>1. CASE waiters = <<>>
      BY <2>2, <3>1, <1>t DEF FinishBackup, TypeOK
    <3>2. CASE waiters # <<>>
      BY <2>2, <3>2, <1>t DEF FinishBackup, TypeOK
    <3> QED
      BY <3>1, <3>2
  <2> QED
    BY <1>1, <2>1, <2>2
<1>2. ASSUME NEW a \in Backups, SettleGap(a) PROVE since >= SettleSeconds
  BY <1>2, <1>t, SettleAssumption DEF SettleGap, Goto, TypeOK
<1>3. ASSUME NEW a \in Backups, Wake(a) PROVE since >= SettleSeconds \/ b \in overtaken
  <2>1. a = b
    BY <1>3, <1>t DEF Wake, Goto, TypeOK
  <2> QED
    BY <1>3, <1>t, <2>1, SettleAssumption DEF Wake, Goto, TypeOK, GapOK
<1>4. CASE Tick \/ UNCHANGED vars
  BY <1>4 DEF Tick, vars
<1> QED
  BY <1>1, <1>2, <1>3, <1>4 DEF Next

\* workflow.run_backup and pool.settle_gap, for every cap: a backup starts
\* early only if another one ended while it slept.
THEOREM GapKept == Spec => QuietGap
<1>1. Init => GapOK
  BY DEF Init, GapOK
<1>2. Inv /\ GapOK /\ [Next]_vars
        => [\A b \in Backups : st[b] \in {"held", "settling"} /\ st'[b] = "working"
                                 => since >= SettleSeconds \/ b \in overtaken]_vars
  BY GapStep
<1> QED
  BY <1>1, <1>2, GapNext, Invariance, PTL DEF Spec, QuietGap

LEMMA SingleHolder ==
  ASSUME Inv, MaxConcurrent = 1, NEW a \in Holders, NEW b \in Holders
  PROVE  a = b
<1>1. Cardinality(Holders) <= 1
  BY HoldersFinite DEF Inv, SlotsAreCounted, TypeOK
<1>2. IsFiniteSet(Holders \ {a}) /\ Cardinality(Holders \ {a}) = Cardinality(Holders) - 1
  BY HoldersFinite, FS_RemoveElement
<1>3. Cardinality(Holders \ {a}) = 0
  BY <1>1, <1>2, HoldersFinite, FS_CardinalityType
<1>4. Holders \ {a} = {}
  BY <1>2, <1>3, FS_EmptySet
<1> QED
  BY <1>4

\* With one slot nobody ends while another sleeps.
Alone == overtaken = {}

LEMMA NeverOvertaken ==
  ASSUME MaxConcurrent = 1
  PROVE  Inv /\ Alone /\ [Next]_vars => Alone'
<1> SUFFICES ASSUME Inv, overtaken = {}, [Next]_vars PROVE overtaken' = {}
  BY DEF Alone
<1>1. ASSUME NEW b \in Backups, FinishBackup(b) PROVE overtaken' = {}
  <2>1. b \in Holders /\ st[b] = "working"
    BY <1>1 DEF FinishBackup, Holders, Holding
  <2>2. \A q \in Settling : q \in Holders
    BY DEF Settling, Holders, Holding
  <2>3. Settling = {}
    BY <2>1, <2>2, SingleHolder DEF Settling
  <2> QED
    BY <1>1, <2>3 DEF FinishBackup
<1>2. ASSUME NEW b \in Backups,
             Acquire(b) \/ SettleGap(b) \/ Wake(b) \/ ToPool(b) \/ WorkerDone(b)
      PROVE  overtaken' = {}
  BY <1>2 DEF Acquire, SettleGap, Wake, ToPool, WorkerDone
<1>3. CASE Tick \/ UNCHANGED vars
  BY <1>3 DEF Tick, vars
<1> QED
  BY <1>1, <1>2, <1>3 DEF Next

\* pool.py: "quiet time between the end of one backup and the start of the
\* next" holds without exception with the default cap of one.
THEOREM SerialQuietGap == ASSUME MaxConcurrent = 1 PROVE Spec => QuietAlways
<1>1. Init => GapOK /\ Alone
  BY DEF Init, GapOK, Alone
<1>2. Inv /\ Alone /\ [Next]_vars => Alone'
  BY NeverOvertaken
<1>3. Inv /\ GapOK /\ Alone /\ [Next]_vars
        => [\A b \in Backups : st[b] \in {"held", "settling"} /\ st'[b] = "working"
                                 => since >= SettleSeconds]_vars
  BY GapStep DEF Alone
<1> QED
  BY <1>1, <1>2, <1>3, GapNext, Invariance, PTL DEF Spec, QuietAlways
=============================================================================
