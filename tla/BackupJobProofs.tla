-------------------------- MODULE BackupJobProofs --------------------------
(***************************************************************************)
(* Proofs about BackupJob, for every number of Jobs, restores, faults and   *)
(* killed clients, where one Job at a time runs on the repository.          *)
(***************************************************************************)
EXTENDS BackupJob, FiniteSetTheorems, TLAPS

(* Types *)

LEMMA Fields == /\ \A l \in RepoLock : l.by \in Clients /\ l.kind \in {"shared", "exclusive"}
                                      /\ l.age \in {"young", "old"}
                /\ \A s \in Snapshot : s.by \in Jobs /\ s.begun \in Nat /\ s.state \in {"whole", "partial"}
  BY DEF RepoLock, Snapshot

LEMMA SnapshotTyped ==
  ASSUME NEW j \in Jobs, NEW n \in Nat
  PROVE  /\ [by |-> j, begun |-> n, state |-> "whole"] \in Snapshot
         /\ [by |-> j, begun |-> n, state |-> "partial"] \in Snapshot
  BY DEF Snapshot

LEMMA CallTyped == \A j \in Jobs : <<j, "backup">> \in Calls /\ <<j, "forget">> \in Calls
  BY DEF Calls

LEMMA InitTyped == Init => TypeOK
  BY DEF Init, TypeOK, JobPc

LEMMA LocksTyped ==
  ASSUME TypeOK, NEW c \in Clients,
         \/ Lock(c, "exclusive") \/ Lock(c, "shared") \/ Release(c) \/ RemoveStale(c) \/ UNCHANGED locks
  PROVE  locks' \subseteq RepoLock
<1>1. locks \subseteq RepoLock
  BY DEF TypeOK
<1>2. CASE Lock(c, "exclusive") \/ Lock(c, "shared")
  <2>1. /\ [by |-> c, kind |-> "exclusive", age |-> "young"] \in RepoLock
        /\ [by |-> c, kind |-> "shared", age |-> "young"] \in RepoLock
    BY DEF RepoLock
  <2> QED
    BY <1>1, <1>2, <2>1 DEF Lock
<1>3. CASE Release(c) \/ RemoveStale(c) \/ UNCHANGED locks
  BY <1>1, <1>3 DEF Release, RemoveStale
<1> QED
  BY <1>2, <1>3

LEMMA MoveTyped ==
  ASSUME TypeOK, NEW j \in Jobs, NEW from, NEW to \in JobPc, NEW status \in {"ok", "failed"},
         Goto(j, from, to) \/ Exit(j, from, status)
  PROVE  /\ pc' \in [Jobs -> JobPc]
         /\ exit' \in [Jobs -> {"none", "ok", "failed", "killed"}]
         /\ backend' \in {"restic", "kopia"}
         /\ reader' \in [Restorers -> {"off", "on", "done"}]
         /\ kills' \in Nat
  BY DEF TypeOK, Goto, Exit, JobPc

LEMMA ErrorTyped ==
  ASSUME TypeOK, NEW j \in Jobs, NEW from, NEW call,
         Error(j, from, call) \/ Locked(j, from, call)
  PROVE  /\ pc' \in [Jobs -> JobPc]
         /\ exit' \in [Jobs -> {"none", "ok", "failed", "killed"}]
         /\ backend' \in {"restic", "kopia"}
         /\ reader' \in [Restorers -> {"off", "on", "done"}]
         /\ kills' \in Nat
         /\ retried' = retried
  BY DEF TypeOK, Error, Locked, Goto, Exit, JobPc

LEMMA FaultTyped ==
  ASSUME TypeOK, Fault \/ NoFault
  PROVE  faults' \in Nat
  BY DEF TypeOK, Fault, NoFault

LEMMA CycleTyped ==
  ASSUME TypeOK, NEW j \in Jobs, RunCycle(j)
  PROVE  TypeOK'
<1> USE DEF repository
<1>0. j \in Clients
  BY DEF Clients
<1>1. CASE Unlock(j)
  BY <1>0, <1>1, LocksTyped, MoveTyped, FaultTyped DEF Unlock, TypeOK, JobPc
<1>2. CASE StartBackup(j)
  <2>1. CASE Goto(j, "backup", "reading") /\ Lock(j, "shared") /\ NoFault
             /\ clock' = clock + 1 /\ since' = [since EXCEPT ![j] = clock + 1]
             /\ UNCHANGED <<repo, snaps, retried, artifact>>
    <3>1. since' \in [Jobs -> Nat] /\ clock' \in Nat
      BY <2>1 DEF TypeOK
    <3> QED
      BY <1>0, <2>1, <3>1, LocksTyped, MoveTyped, FaultTyped DEF TypeOK, JobPc
  <2>2. CASE UNCHANGED <<repository, since, artifact>>
    BY <1>2, <2>2, MoveTyped, ErrorTyped, FaultTyped DEF StartBackup, TypeOK, JobPc
  <2> QED
    BY <1>2, <2>1, <2>2 DEF StartBackup
<1>3. CASE EndBackup(j)
  <2>1. snaps' \subseteq Snapshot
    <3>1. snaps \subseteq Snapshot /\ since[j] \in Nat
      BY DEF TypeOK
    <3>2. /\ [by |-> j, begun |-> since[j], state |-> "whole"] \in Snapshot
          /\ [by |-> j, begun |-> since[j], state |-> "partial"] \in Snapshot
      BY <3>1, SnapshotTyped
    <3> QED
      BY <1>3, <3>1, <3>2 DEF EndBackup
  <2> QED
    BY <1>0, <1>3, <2>1, LocksTyped, MoveTyped, ErrorTyped, FaultTyped DEF EndBackup, TypeOK, JobPc
<1>4. CASE InitRepository(j)
  BY <1>4, CallTyped, MoveTyped, FaultTyped DEF InitRepository, TypeOK, JobPc
<1>5. CASE Retry(j)
  BY <1>0, <1>5, LocksTyped, CallTyped, MoveTyped, FaultTyped DEF Retry, UnlockFor, TypeOK, JobPc
<1>6. CASE EmitArtifact(j)
  <2>1. LatestListed \subseteq Jobs
    BY Fields DEF LatestListed, TypeOK
  <2>2. artifact' \in [Jobs -> SUBSET Jobs]
    BY <1>6, <2>1 DEF EmitArtifact, Emit, ParseArtifact, TypeOK
  <2> QED
    BY <1>6, <2>2, MoveTyped, FaultTyped DEF EmitArtifact, TypeOK, JobPc
<1>7. CASE StartForget(j)
  BY <1>0, <1>7, LocksTyped, MoveTyped, ErrorTyped, FaultTyped DEF StartForget, TypeOK, JobPc
<1>8. CASE EndForget(j)
  BY <1>0, <1>8, LocksTyped, MoveTyped, ErrorTyped, FaultTyped DEF EndForget, Kept, TypeOK, JobPc
<1>9. CASE StartCheck(j) \/ EndCheck(j)
  BY <1>0, <1>9, LocksTyped, MoveTyped DEF StartCheck, EndCheck, TypeOK, JobPc
<1> QED
  BY <1>1, <1>2, <1>3, <1>4, <1>5, <1>6, <1>7, <1>8, <1>9 DEF RunCycle

LEMMA StepTyped == TypeOK /\ [Next]_vars => TypeOK'
<1> SUFFICES ASSUME TypeOK, [Next]_vars
             PROVE  TypeOK'
  OBVIOUS
<1> USE DEF repository
<1>1. ASSUME NEW j \in Jobs, Start(j) \/ Kill(j)
      PROVE  TypeOK'
  <2>1. snaps' \subseteq Snapshot
    <3>1. snaps \subseteq Snapshot /\ since[j] \in Nat
      BY DEF TypeOK
    <3>2. [by |-> j, begun |-> since[j], state |-> "whole"] \in Snapshot
      BY <3>1, SnapshotTyped
    <3> QED
      BY <1>1, <3>1, <3>2 DEF Start, Kill, Kept
  <2> QED
    <3>1. CASE Start(j)
      BY <2>1, <3>1 DEF Start, Goto, TypeOK, JobPc
    <3>2. CASE Kill(j)
      <4>1. pc' \in [Jobs -> JobPc] /\ exit' \in [Jobs -> {"none", "ok", "failed", "killed"}]
        BY <3>2 DEF Kill, TypeOK, JobPc
      <4>2. kills' \in Nat
        BY <3>2 DEF Kill, TypeOK
      <4> QED
        BY <2>1, <3>2, <4>1, <4>2 DEF Kill, TypeOK
    <3> QED
      BY <1>1, <3>1, <3>2
<1>2. ASSUME NEW r \in Restorers, StartReading(r) \/ EndReading(r)
      PROVE  TypeOK'
  <2>1. r \in Clients
    BY DEF Clients
  <2> QED
    BY <1>2, <2>1, LocksTyped DEF StartReading, EndReading, TypeOK
<1>3. CASE GrowOld
  <2>1. locks' \subseteq RepoLock
    <3>1. locks \subseteq RepoLock
      BY DEF TypeOK
    <3> QED
      BY <1>3, <3>1 DEF GrowOld, RepoLock
  <2> QED
    BY <1>3, <2>1 DEF GrowOld, TypeOK
<1>4. CASE UNCHANGED vars
  BY <1>4 DEF vars, TypeOK
<1> QED
  BY <1>1, <1>2, <1>3, <1>4, CycleTyped DEF Next

\* Locks, snapshots, containers and artifacts keep their types.
THEOREM JobTyped == Spec => []TypeOK
<1> QED
  BY InitTyped, StepTyped, PTL DEF Spec

-----------------------------------------------------------------------------
(* One Job at a time: what holds of the locks and of the snapshots          *)

Working == {"reading", "pruning", "checking"}
Saved == {"artifact", "forget", "pruning", "unlock forget", "check", "checking"}
Fresh == {"waiting", "unlock", "backup", "init", "done"}

OneLive == \A i, j \in LiveJobs : i = j

\* The repository is there from the first backup on; a lock belongs to a client
\* that works under it, or that was killed.
RepoInv ==
  /\ repo = "absent" => locks = {}
  /\ \A j \in Jobs : /\ pc[j] \notin Fresh => repo = "there"
                     /\ pc[j] = "init" => repo = "absent"
                     /\ pc[j] = "backup" /\ <<j, "backup">> \in retried => repo = "there"
LockInv ==
  \A l \in locks : l.by \in Jobs => pc[l.by] \in Working \union {"done"}

\* Who works holds a lock that no stale-lock removal of the one Job takes away.
HeldInv ==
  backend = "restic" =>
    /\ \A j \in Jobs : pc[j] \in {"pruning", "checking"} =>
                        \E l \in locks : l.by = j /\ l.kind = "exclusive"
    /\ \A r \in Restorers : reader[r] = "on" => \E l \in locks : l.by = r /\ l.age = "young"

\* After an unlock the locks of the dead Jobs are gone.
RetryInv ==
  \A j \in Jobs : \A call \in {"backup", "forget"} :
    <<j, call>> \in retried =>
      /\ pc[j] \notin {"waiting", "unlock"}
      /\ j \in LiveJobs => \A l \in locks : l.by \in Restorers \union {j}

\* The live Job's snapshot is the latest.
SnapInv ==
  /\ \A s \in snaps : s.begun <= clock
  /\ \A j \in Jobs :
       /\ since[j] <= clock
       /\ exit[j] # "none" => pc[j] = "done"
       /\ pc[j] \in Saved \union {"reading"} =>
            since[j] = clock /\ \A s \in snaps : s.begun = clock => s.by = j
       /\ pc[j] \in Saved => \E s \in snaps : s.state = "whole" /\ s.begun = clock

IInv == TypeOK /\ OneLive /\ RepoInv /\ LockInv /\ HeldInv /\ RetryInv /\ SnapInv
        /\ SuccessIsRestorable /\ ArtifactIsOwn

\* A step of a Job's cycle or its death changes the place of a live Job only.
LEMMA CycleMoves ==
  ASSUME TypeOK, NEW j \in Jobs, RunCycle(j) \/ Kill(j)
  PROVE  /\ pc[j] \notin {"waiting", "done"}
         /\ pc'[j] # "waiting"
         /\ \A i \in Jobs : i # j => pc'[i] = pc[i] /\ exit'[i] = exit[i]
<1>1. pc \in [Jobs -> JobPc] /\ exit \in [Jobs -> {"none", "ok", "failed", "killed"}]
  BY DEF TypeOK
<1>2. CASE Kill(j)
  BY <1>1, <1>2 DEF Kill, LiveJobs
<1>3. CASE \E from, to \in JobPc \ {"waiting", "done"} : Goto(j, from, to)
  BY <1>1, <1>3 DEF Goto
<1>4. CASE \E from \in JobPc \ {"waiting", "done"}, status \in {"ok", "failed"} : Exit(j, from, status)
  BY <1>1, <1>4 DEF Exit
<1>5. CASE RunCycle(j)
  <2>1. \/ \E from, to \in JobPc \ {"waiting", "done"} : Goto(j, from, to)
        \/ \E from \in JobPc \ {"waiting", "done"}, status \in {"ok", "failed"} : Exit(j, from, status)
    BY <1>5 DEF RunCycle, Unlock, StartBackup, EndBackup, InitRepository, Retry, UnlockFor, EmitArtifact,
                StartForget, EndForget, StartCheck, EndCheck, Error, Locked, JobPc
  <2> QED
    BY <1>3, <1>4, <2>1
<1> QED
  BY <1>2, <1>5

LEMMA OthersStay ==
  ASSUME (\E r \in Restorers : StartReading(r) \/ EndReading(r)) \/ GrowOld \/ UNCHANGED vars
  PROVE  UNCHANGED <<backend, repo, snaps, clock, pc, retried, since, exit, artifact, faults>>
  BY DEF StartReading, EndReading, GrowOld, vars, repository

LEMMA GotoMoves ==
  ASSUME TypeOK, NEW j \in Jobs, NEW from, NEW to, Goto(j, from, to)
  PROVE  /\ pc[j] = from /\ pc'[j] = to
         /\ \A i \in Jobs : i # j => pc'[i] = pc[i]
         /\ UNCHANGED <<backend, exit, reader>>
<1>1. pc \in [Jobs -> JobPc]
  BY DEF TypeOK
<1> QED
  BY <1>1 DEF Goto

LEMMA ExitMoves ==
  ASSUME TypeOK, NEW j \in Jobs, NEW from, NEW status, Exit(j, from, status)
  PROVE  /\ pc[j] = from /\ pc'[j] = "done" /\ exit'[j] = status
         /\ \A i \in Jobs : i # j => pc'[i] = pc[i] /\ exit'[i] = exit[i]
         /\ UNCHANGED <<backend, reader>>
<1>1. pc \in [Jobs -> JobPc] /\ exit \in [Jobs -> {"none", "ok", "failed", "killed"}]
  BY DEF TypeOK
<1> QED
  BY <1>1 DEF Exit

LEMMA ErrorMoves ==
  ASSUME TypeOK, NEW j \in Jobs, NEW from, NEW call \in {"backup", "forget"},
         Error(j, from, call) \/ Locked(j, from, call)
  PROVE  /\ pc[j] = from
         /\ \/ pc'[j] = "done" /\ exit'[j] = "failed"
            \/ /\ <<j, call>> \notin retried /\ exit' = exit
               /\ \/ call = "backup" /\ pc'[j] = "unlock backup"
                  \/ call = "forget" /\ pc'[j] = "unlock forget"
         /\ \A i \in Jobs : i # j => pc'[i] = pc[i] /\ exit'[i] = exit[i]
         /\ UNCHANGED <<backend, reader, retried>>
<1>1. pc \in [Jobs -> JobPc] /\ exit \in [Jobs -> {"none", "ok", "failed", "killed"}]
  BY DEF TypeOK
<1> QED
  BY <1>1 DEF Error, Locked, Goto, Exit

\* From where to where each step of the cycle goes.
LEMMA CyclePlaces ==
  ASSUME TypeOK, NEW j \in Jobs
  PROVE  /\ Unlock(j) => pc[j] = "unlock" /\ pc'[j] \in {"backup", "done"}
         /\ EndBackup(j) => pc[j] = "reading" /\ pc'[j] \in {"artifact", "unlock backup", "done"}
         /\ Retry(j) => /\ pc[j] \in {"unlock backup", "unlock forget"}
                        /\ pc'[j] \in {"backup", "forget", "done"}
         /\ StartForget(j) => pc[j] = "forget" /\ pc'[j] \in {"pruning", "check", "unlock forget", "done"}
         /\ EndForget(j) => pc[j] = "pruning" /\ pc'[j] \in {"check", "unlock forget", "done"}
<1>1. pc \in [Jobs -> JobPc]
  BY DEF TypeOK
<1>2. Unlock(j) => pc[j] = "unlock" /\ pc'[j] \in {"backup", "done"}
  BY <1>1 DEF Unlock, Goto, Exit
<1>3. EndBackup(j) => pc[j] = "reading" /\ pc'[j] \in {"artifact", "unlock backup", "done"}
  BY <1>1 DEF EndBackup, Error, Locked, Goto, Exit
<1>4. Retry(j) => /\ pc[j] \in {"unlock backup", "unlock forget"}
                  /\ pc'[j] \in {"backup", "forget", "done"}
  BY <1>1 DEF Retry, UnlockFor, Goto, Exit
<1>5. StartForget(j) => pc[j] = "forget" /\ pc'[j] \in {"pruning", "check", "unlock forget", "done"}
  BY <1>1 DEF StartForget, Error, Locked, Goto, Exit
<1>6. EndForget(j) => pc[j] = "pruning" /\ pc'[j] \in {"check", "unlock forget", "done"}
  BY <1>1 DEF EndForget, Error, Locked, Goto, Exit
<1> QED
  BY <1>2, <1>3, <1>4, <1>5, <1>6

LEMMA OneLiveStep ==
  ASSUME MaxLive = 1, TypeOK, OneLive, [Next]_vars
  PROVE  OneLive'
<1>1. ASSUME NEW j \in Jobs, Start(j)
      PROVE  OneLive'
  <2>1. LiveJobs = {}
    <3>1. IsFiniteSet(LiveJobs)
      BY ClientsAssumption, FS_Subset DEF LiveJobs
    <3>2. Cardinality(LiveJobs) \in Nat /\ Cardinality(LiveJobs) < 1
      BY <1>1, <3>1, FS_CardinalityType DEF Start
    <3> QED
      BY <3>1, <3>2, FS_EmptySet
  <2>2. pc \in [Jobs -> JobPc] /\ pc' = [pc EXCEPT ![j] = "unlock"]
    BY <1>1 DEF TypeOK, Start, Goto
  <2> QED
    BY <2>1, <2>2 DEF OneLive, LiveJobs
<1>2. ASSUME NEW j \in Jobs, RunCycle(j) \/ Kill(j)
      PROVE  OneLive'
  BY <1>2, CycleMoves DEF OneLive, LiveJobs
<1>3. CASE (\E r \in Restorers : StartReading(r) \/ EndReading(r)) \/ GrowOld \/ UNCHANGED vars
  BY <1>3, OthersStay DEF OneLive, LiveJobs
<1> QED
  BY <1>1, <1>2, <1>3 DEF Next

LEMMA RepoStep ==
  ASSUME TypeOK, OneLive, RepoInv, RetryInv, [Next]_vars
  PROVE  RepoInv'
<1> USE DEF RepoInv, Fresh, repository
<1>1. ASSUME NEW j \in Jobs, Start(j)
      PROVE  RepoInv'
  BY <1>1, GotoMoves DEF Start, RetryInv
<1>2. ASSUME NEW j \in Jobs, RunCycle(j)
      PROVE  RepoInv'
  <2>0. \A i \in Jobs : i # j => pc[i] \in {"waiting", "done"} /\ pc'[i] = pc[i]
    BY <1>2, CycleMoves DEF OneLive, LiveJobs
  <2>1. CASE Unlock(j)
    <3>1. CASE UNCHANGED <<repo, retried>> /\ locks' \subseteq locks /\ Goto(j, "unlock", "backup")
      <4>1. pc[j] = "unlock" /\ pc'[j] = "backup"
        BY <3>1, GotoMoves
      <4>2. <<j, "backup">> \notin retried
        BY <4>1 DEF RetryInv
      <4> QED
        BY <2>0, <3>1, <4>1, <4>2
    <3>2. CASE UNCHANGED <<repo, retried>> /\ locks' \subseteq locks /\ Exit(j, "unlock", "failed")
      BY <2>0, <3>2, ExitMoves
    <3> QED
      BY <2>1, <3>1, <3>2 DEF Unlock, RemoveStale
  <2>2. CASE StartBackup(j)
    <3>1. CASE repo = "there"
      BY <2>0, <2>2, <3>1, GotoMoves, ExitMoves, ErrorMoves DEF StartBackup
    <3>2. CASE repo # "there"
      BY <2>0, <2>2, <3>2, GotoMoves, ExitMoves DEF StartBackup
    <3> QED
      BY <3>1, <3>2
  <2>3. CASE EndBackup(j)
    <3>1. UNCHANGED repo
      BY <2>3 DEF EndBackup
    <3> QED
      BY <2>0, <2>3, <3>1, CyclePlaces
  <2>4. CASE InitRepository(j)
    BY <2>0, <2>4, GotoMoves, ExitMoves DEF InitRepository
  <2>5. CASE Retry(j)
    <3>1. UNCHANGED repo
      BY <2>5 DEF Retry, UnlockFor
    <3> QED
      BY <2>0, <2>5, <3>1, CyclePlaces
  <2>6. CASE EmitArtifact(j)
    BY <2>0, <2>6, GotoMoves DEF EmitArtifact
  <2>7. CASE StartForget(j)
    <3>1. UNCHANGED repo
      BY <2>7 DEF StartForget
    <3> QED
      BY <2>0, <2>7, <3>1, CyclePlaces
  <2>8. CASE EndForget(j)
    <3>1. UNCHANGED repo
      BY <2>8 DEF EndForget
    <3> QED
      BY <2>0, <2>8, <3>1, CyclePlaces
  <2>9. CASE StartCheck(j) \/ EndCheck(j)
    <3>1. pc[j] \in {"check", "checking"} /\ pc'[j] \notin {"init", "backup"} /\ UNCHANGED repo
      BY <2>9, GotoMoves, ExitMoves DEF StartCheck, EndCheck
    <3> QED
      BY <2>0, <3>1
  <2> QED
    BY <1>2, <2>1, <2>2, <2>3, <2>4, <2>5, <2>6, <2>7, <2>8, <2>9 DEF RunCycle
<1>3. ASSUME NEW j \in Jobs, Kill(j)
      PROVE  RepoInv'
  <2>1. pc' = [pc EXCEPT ![j] = "done"] /\ pc \in [Jobs -> JobPc] /\ UNCHANGED <<repo, locks, retried>>
    BY <1>3 DEF Kill, TypeOK
  <2> QED
    BY <2>1
<1>4. ASSUME NEW r \in Restorers, StartReading(r) \/ EndReading(r)
      PROVE  RepoInv'
  BY <1>4 DEF StartReading, EndReading, Release
<1>5. CASE GrowOld \/ UNCHANGED vars
  BY <1>5 DEF GrowOld, vars
<1> QED
  BY <1>1, <1>2, <1>3, <1>4, <1>5 DEF Next

\* What a step of the cycle does to the locks.
LEMMA CycleLocks ==
  ASSUME TypeOK, NEW j \in Jobs, RunCycle(j) \/ Kill(j)
  PROVE  \/ (RemoveStale(j) \/ UNCHANGED locks) /\ pc[j] \notin Working /\ pc'[j] \notin Working
         \/ Lock(j, "shared") /\ pc'[j] = "reading" /\ pc[j] \notin Working
         \/ /\ Lock(j, "exclusive") /\ pc'[j] \in {"pruning", "checking"} /\ pc[j] \notin Working
            /\ backend = "restic" /\ locks = {}
         \/ Release(j) /\ pc[j] \in Working /\ pc'[j] \notin Working
         \/ locks' = locks /\ pc'[j] = "done"
<1> USE DEF Working
<1>0. pc \in [Jobs -> JobPc]
  BY DEF TypeOK
<1>1. CASE Kill(j)
  BY <1>0, <1>1 DEF Kill
<1>2. CASE Unlock(j)
  BY <1>2, CyclePlaces DEF Unlock
<1>3. CASE StartBackup(j)
  <2>1. CASE repo = "there" /\ Goto(j, "backup", "reading") /\ Lock(j, "shared")
    BY <2>1, GotoMoves
  <2>2. CASE UNCHANGED repository
    <3>1. pc[j] = "backup" /\ pc'[j] \notin Working
      <4>1. clock' # clock + 1
        BY <2>2 DEF repository, TypeOK
      <4> QED
        BY <1>0, <1>3, <4>1 DEF StartBackup, Goto, Exit, Error, Locked
    <3> QED
      BY <2>2, <3>1 DEF repository
  <2> QED
    BY <1>3, <2>1, <2>2 DEF StartBackup
<1>4. CASE EndBackup(j)
  BY <1>4, CyclePlaces DEF EndBackup
<1>5. CASE InitRepository(j)
  <2>1. pc[j] = "init" /\ pc'[j] \notin Working
    BY <1>0, <1>5 DEF InitRepository, Goto, Exit
  <2> QED
    BY <1>5, <2>1 DEF InitRepository
<1>6. CASE Retry(j)
  BY <1>6, CyclePlaces DEF Retry, UnlockFor
<1>7. CASE EmitArtifact(j)
  BY <1>7, GotoMoves DEF EmitArtifact, repository
<1>8. CASE StartForget(j)
  <2>1. CASE Goto(j, "forget", "pruning") /\ Lock(j, "exclusive") /\ backend = "restic" /\ ExclusiveFree
    BY <2>1, GotoMoves DEF ExclusiveFree
  <2>2. CASE UNCHANGED locks /\ pc'[j] \notin Working
    BY <1>8, <2>2, CyclePlaces
  <2>3. \/ Goto(j, "forget", "pruning") /\ Lock(j, "exclusive") /\ backend = "restic" /\ ExclusiveFree
        \/ UNCHANGED locks /\ pc'[j] \notin Working
    BY <1>0, <1>8 DEF StartForget, Goto, Exit, Error, Locked
  <2> QED
    BY <2>1, <2>2, <2>3
<1>9. CASE EndForget(j)
  BY <1>9, CyclePlaces DEF EndForget
<1>10. CASE StartCheck(j)
  <2>1. CASE Goto(j, "check", "checking") /\ Lock(j, "exclusive") /\ backend = "restic" /\ ExclusiveFree
    BY <2>1, GotoMoves DEF ExclusiveFree
  <2>2. CASE Exit(j, "check", "ok") /\ UNCHANGED locks
    BY <2>2, ExitMoves
  <2> QED
    BY <1>10, <2>1, <2>2 DEF StartCheck
<1>11. CASE EndCheck(j)
  BY <1>11, ExitMoves DEF EndCheck
<1> QED
  BY <1>1, <1>2, <1>3, <1>4, <1>5, <1>6, <1>7, <1>8, <1>9, <1>10, <1>11 DEF RunCycle

LEMMA LockStep ==
  ASSUME TypeOK, LockInv, [Next]_vars
  PROVE  LockInv'
<1> USE DEF LockInv, Working
<1>0. locks \subseteq RepoLock /\ pc \in [Jobs -> JobPc]
  BY DEF TypeOK
<1>1. ASSUME NEW j \in Jobs, Start(j)
      PROVE  LockInv'
  BY <1>1, GotoMoves DEF Start, repository
<1>2. ASSUME NEW j \in Jobs, RunCycle(j) \/ Kill(j)
      PROVE  LockInv'
  <2>0. pc[j] \notin {"waiting", "done"} /\ \A i \in Jobs : i # j => pc'[i] = pc[i]
    BY <1>2, CycleMoves
  <2>1. CASE (RemoveStale(j) \/ UNCHANGED locks) /\ pc[j] \notin Working
    BY <2>0, <2>1 DEF RemoveStale
  <2>2. CASE (Lock(j, "shared") \/ Lock(j, "exclusive")) /\ pc'[j] \in Working /\ pc[j] \notin Working
    BY <2>0, <2>2 DEF Lock
  <2>3. CASE Release(j)
    BY <2>0, <2>3 DEF Release
  <2>4. CASE locks' = locks /\ pc'[j] = "done"
    BY <2>0, <2>4
  <2> QED
    BY <1>2, <2>1, <2>2, <2>3, <2>4, CycleLocks
<1>3. ASSUME NEW r \in Restorers, StartReading(r) \/ EndReading(r)
      PROVE  LockInv'
  BY <1>3, ClientsAssumption DEF StartReading, EndReading, Lock, Release
<1>4. CASE GrowOld \/ UNCHANGED vars
  BY <1>4 DEF GrowOld, vars, repository
<1> QED
  BY <1>1, <1>2, <1>3, <1>4 DEF Next

LEMMA RetryStep ==
  ASSUME TypeOK, OneLive, OneLive', RepoInv, RetryInv, [Next]_vars
  PROVE  RetryInv'
<1> USE DEF RetryInv
<1>0. locks \subseteq RepoLock /\ pc \in [Jobs -> JobPc]
  BY DEF TypeOK
<1>1. ASSUME NEW j \in Jobs, Start(j)
      PROVE  RetryInv'
  <2>1. pc[j] = "waiting" /\ pc'[j] = "unlock" /\ j \in LiveJobs'
    BY <1>1, GotoMoves DEF Start, LiveJobs
  <2> QED
    BY <1>1, <2>1, GotoMoves DEF Start, OneLive, LiveJobs, repository
<1>2. ASSUME NEW j \in Jobs, RunCycle(j) \/ Kill(j)
      PROVE  RetryInv'
  <2>0. /\ j \in LiveJobs
        /\ pc'[j] \notin {"waiting", "unlock"}
        /\ \A i \in Jobs : i # j => i \notin LiveJobs' /\ pc'[i] = pc[i]
    <3>1. pc[j] \notin {"waiting", "done"} /\ \A i \in Jobs : i # j => pc'[i] = pc[i]
      BY <1>2, CycleMoves
    <3>2. pc'[j] \notin {"waiting", "unlock"}
      BY <1>2, <1>0, CyclePlaces DEF RunCycle, Kill, StartBackup, InitRepository, EmitArtifact,
            StartCheck, EndCheck, Error, Locked, Goto, Exit
    <3> QED
      BY <3>1, <3>2 DEF OneLive, LiveJobs
  <2>1. \A l \in locks' : l \in locks \/ l.by = j
    BY <1>2, CycleLocks DEF Lock, Release, RemoveStale
  <2>2. CASE retried' = retried
    BY <2>0, <2>1, <2>2
  <2>3. ASSUME NEW call \in {"backup", "forget"}, retried' = retried \union {<<j, call>>},
               RemoveStale(j) \/ locks' = {}
        PROVE  RetryInv'
    <3>1. \A l \in locks' : l.by \in Restorers \union {j}
      BY <1>0, <2>3, Fields DEF RemoveStale, Stale, Clients
    <3> QED
      BY <2>0, <2>3, <3>1
  <2>4. \/ retried' = retried
        \/ \E call \in {"backup", "forget"} : /\ retried' = retried \union {<<j, call>>}
                                              /\ RemoveStale(j) \/ locks' = {}
    <3>1. CASE InitRepository(j)
      BY <3>1 DEF InitRepository, RepoInv
    <3>2. CASE Retry(j)
      BY <3>2 DEF Retry, UnlockFor
    <3>3. CASE ~InitRepository(j) /\ ~Retry(j)
      BY <1>2, <3>3 DEF RunCycle, Kill, Unlock, StartBackup, EndBackup, EmitArtifact, StartForget, EndForget,
            StartCheck, EndCheck, Error, Locked
    <3> QED
      BY <3>1, <3>2, <3>3
  <2> QED
    BY <2>2, <2>3, <2>4
<1>3. ASSUME NEW r \in Restorers, StartReading(r) \/ EndReading(r)
      PROVE  RetryInv'
  <2>1. UNCHANGED <<pc, retried>>
    BY <1>3, OthersStay
  <2>2. \A l \in locks' : l \in locks \/ l.by \in Restorers
    BY <1>3 DEF StartReading, EndReading, Lock, Release
  <2> QED
    BY <2>1, <2>2 DEF LiveJobs
<1>4. CASE GrowOld \/ UNCHANGED vars
  <2>1. UNCHANGED <<pc, retried>>
    BY <1>4, OthersStay
  <2>2. \A l \in locks' : \E m \in locks : m.by = l.by
    BY <1>4 DEF GrowOld, vars, repository
  <2> QED
    BY <2>1, <2>2 DEF LiveJobs
<1> QED
  BY <1>1, <1>2, <1>3, <1>4 DEF Next

LEMMA HeldStep ==
  ASSUME TypeOK, OneLive, HeldInv, [Next]_vars
  PROVE  HeldInv'
<1> USE DEF HeldInv
<1>0. locks \subseteq RepoLock /\ pc \in [Jobs -> JobPc] /\ reader \in [Restorers -> {"off", "on", "done"}]
  BY DEF TypeOK
<1>1. ASSUME NEW j \in Jobs, Start(j)
      PROVE  HeldInv'
  BY <1>1, GotoMoves DEF Start, repository
<1>2. ASSUME NEW j \in Jobs, RunCycle(j) \/ Kill(j)
      PROVE  HeldInv'
  <2>0. /\ UNCHANGED <<backend, reader>>
        /\ \A i \in Jobs : i # j => pc'[i] \in {"waiting", "done"}
    <3>1. UNCHANGED <<backend, reader>>
      BY <1>2 DEF RunCycle, Kill, Unlock, StartBackup, EndBackup, InitRepository, Retry, UnlockFor, EmitArtifact,
            StartForget, EndForget, StartCheck, EndCheck, Error, Locked, Goto, Exit
    <3> QED
      BY <1>2, <3>1, CycleMoves DEF OneLive, LiveJobs
  <2>1. CASE (RemoveStale(j) \/ UNCHANGED locks) /\ pc'[j] \notin Working
    BY <2>0, <2>1, ClientsAssumption DEF RemoveStale, Stale, Working
  <2>2. CASE Lock(j, "shared") /\ pc'[j] = "reading"
    BY <2>0, <2>2 DEF Lock
  <2>3. CASE Lock(j, "exclusive")
    <3>1. backend = "restic" => \E l \in locks' : l.by = j /\ l.kind = "exclusive"
      <4>1. backend = "restic" => [by |-> j, kind |-> "exclusive", age |-> "young"] \in locks'
        BY <2>3 DEF Lock
      <4> QED
        BY <4>1
    <3>2. locks \subseteq locks'
      BY <2>3 DEF Lock
    <3> QED
      BY <2>0, <3>1, <3>2
  <2>4. CASE Release(j) /\ pc'[j] \notin Working
    BY <2>0, <2>4, ClientsAssumption DEF Release, Working
  <2>5. CASE locks' = locks /\ pc'[j] = "done"
    BY <2>0, <2>5
  <2> QED
    BY <1>2, <2>1, <2>2, <2>3, <2>4, <2>5, CycleLocks
<1>3. ASSUME NEW r \in Restorers, StartReading(r) \/ EndReading(r)
      PROVE  HeldInv'
  <2>1. UNCHANGED <<pc, backend>>
    BY <1>3, OthersStay
  <2>2. CASE StartReading(r)
    <3>1. backend = "restic" => \E l \in locks' : l.by = r /\ l.age = "young"
      <4>1. backend = "restic" => [by |-> r, kind |-> "shared", age |-> "young"] \in locks'
        BY <2>2 DEF StartReading, Lock
      <4> QED
        BY <4>1
    <3>2. locks \subseteq locks'
      BY <2>2 DEF StartReading, Lock
    <3>3. \A q \in Restorers : q # r => reader'[q] = reader[q]
      BY <1>0, <2>2 DEF StartReading
    <3> QED
      BY <2>1, <3>1, <3>2, <3>3
  <2>3. CASE EndReading(r)
    <3>1. \A l \in locks : l.by # r => l \in locks'
      BY <2>3 DEF EndReading, Release
    <3>2. reader'[r] = "done" /\ \A q \in Restorers : q # r => reader'[q] = reader[q]
      BY <1>0, <2>3 DEF EndReading
    <3> QED
      BY <2>1, <3>1, <3>2, ClientsAssumption
  <2> QED
    BY <1>3, <2>2, <2>3
<1>4. CASE GrowOld
  <2>1. UNCHANGED <<pc, backend, reader>>
    BY <1>4 DEF GrowOld
  <2>2. PICK m \in locks : /\ ~Live(m.by)
                           /\ locks' = (locks \ {m}) \union
                                       {[by |-> m.by, kind |-> m.kind, age |-> "old"]}
    BY <1>4 DEF GrowOld
  <2>3. \A j \in Jobs : pc[j] \in {"pruning", "checking"} => j # m.by
    BY <2>2 DEF Live, LiveJobs
  <2>4. \A r \in Restorers : reader[r] = "on" => r # m.by
    BY <2>2 DEF Live
  <2>5. \A l \in locks : l # m => l \in locks'
    BY <2>2
  <2> QED
    BY <2>1, <2>3, <2>4, <2>5
<1>5. CASE UNCHANGED vars
  BY <1>5 DEF vars, repository
<1> QED
  BY <1>1, <1>2, <1>3, <1>4, <1>5 DEF Next

\* Retention keeps the latest snapshot.
LEMMA LatestKept ==
  ASSUME TypeOK, SnapInv, NEW s \in snaps, s.begun = clock
  PROVE  s \in Kept
<1>1. \A q \in snaps : q.begun \in Nat /\ q.begun <= clock /\ clock \in Nat
  BY Fields DEF TypeOK, SnapInv
<1>2. {q \in snaps : q.begun > s.begun} = {}
  BY <1>1
<1>3. Cardinality({}) = 0 /\ 0 < Keep
  BY FS_EmptySet, KeepAssumption
<1> QED
  BY <1>2, <1>3 DEF Kept

\* What a step of the cycle does to the snapshots.
LEMMA CycleSnaps ==
  ASSUME TypeOK, NEW j \in Jobs, RunCycle(j) \/ Kill(j)
  PROVE  /\ exit' = exit \/ (pc'[j] = "done" /\ (exit'[j] = "ok" => pc[j] \in Saved))
         /\ \/ /\ UNCHANGED <<snaps, clock, since>>
               /\ pc'[j] \in Saved => pc[j] \in Saved
               /\ pc'[j] # "reading"
            \/ /\ clock' = clock + 1 /\ since' = [since EXCEPT ![j] = clock + 1]
               /\ pc'[j] = "reading" /\ UNCHANGED snaps
            \/ /\ pc[j] = "reading" /\ UNCHANGED <<clock, since>>
               /\ pc'[j] = "artifact"
               /\ snaps' = snaps \union {[by |-> j, begun |-> since[j], state |-> "whole"]}
            \/ /\ pc[j] = "reading" /\ UNCHANGED <<clock, since>>
               /\ pc'[j] \in {"unlock backup", "done"}
               /\ \E k \in {"whole", "partial"} :
                    snaps' = snaps \union {[by |-> j, begun |-> since[j], state |-> k]}
            \/ /\ pc[j] = "pruning" /\ UNCHANGED <<clock, since>>
               /\ pc'[j] \in Saved \union {"done"}
               /\ snaps' = Kept
<1> USE DEF Saved
<1>0. pc \in [Jobs -> JobPc] /\ exit \in [Jobs -> {"none", "ok", "failed", "killed"}]
  BY DEF TypeOK
<1>1. CASE Kill(j)
  BY <1>0, <1>1 DEF Kill
<1>2. CASE Unlock(j)
  BY <1>0, <1>2 DEF Unlock, Goto, Exit
<1>3. CASE StartBackup(j)
  BY <1>0, <1>3 DEF StartBackup, Goto, Exit, Error, Locked, repository
<1>4. CASE EndBackup(j)
  BY <1>0, <1>4 DEF EndBackup, Goto, Exit, Error, Locked
<1>5. CASE InitRepository(j)
  BY <1>0, <1>5 DEF InitRepository, Goto, Exit
<1>6. CASE Retry(j)
  BY <1>0, <1>6 DEF Retry, UnlockFor, Goto, Exit
<1>7. CASE EmitArtifact(j)
  BY <1>0, <1>7 DEF EmitArtifact, Goto, repository
<1>8. CASE StartForget(j)
  BY <1>0, <1>8 DEF StartForget, Goto, Exit, Error, Locked
<1>9. CASE EndForget(j)
  BY <1>0, <1>9 DEF EndForget, Goto, Exit, Error, Locked
<1>10. CASE StartCheck(j) \/ EndCheck(j)
  BY <1>0, <1>10 DEF StartCheck, EndCheck, Goto, Exit
<1> QED
  BY <1>1, <1>2, <1>3, <1>4, <1>5, <1>6, <1>7, <1>8, <1>9, <1>10 DEF RunCycle

LEMMA SnapStep ==
  ASSUME TypeOK, OneLive, SnapInv, [Next]_vars
  PROVE  SnapInv'
<1>0. /\ clock \in Nat /\ since \in [Jobs -> Nat] /\ snaps \subseteq Snapshot
      /\ \A s \in snaps : s.begun \in Nat
  BY Fields DEF TypeOK
<1>1. ASSUME NEW j \in Jobs, Start(j)
      PROVE  SnapInv'
  <2>1. /\ pc[j] = "waiting" /\ pc'[j] = "unlock" /\ exit' = exit
        /\ \A i \in Jobs : i # j => pc'[i] = pc[i]
    BY <1>1, GotoMoves DEF Start
  <2> QED
    BY <1>1, <2>1 DEF Start, SnapInv, Saved, repository
<1>2. ASSUME NEW j \in Jobs, RunCycle(j) \/ Kill(j)
      PROVE  SnapInv'
  <2>0. /\ exit[j] = "none"
        /\ \A i \in Jobs : i # j => /\ pc'[i] \in {"waiting", "done"}
                                   /\ pc'[i] = pc[i] /\ exit'[i] = exit[i]
    BY <1>2, CycleMoves DEF OneLive, LiveJobs, SnapInv
  <2>1. \A i \in Jobs : exit'[i] # "none" => pc'[i] = "done"
    <3>1. exit' = exit \/ pc'[j] = "done"
      BY <1>2, CycleSnaps
    <3>2. \A i \in Jobs : exit[i] # "none" => pc[i] = "done"
      BY DEF SnapInv
    <3> QED
      BY <2>0, <3>1, <3>2
  <2>2. CASE UNCHANGED <<snaps, clock, since>> /\ (pc'[j] \in Saved => pc[j] \in Saved) /\ pc'[j] # "reading"
    BY <2>0, <2>1, <2>2 DEF SnapInv, Saved
  <2>3. CASE /\ clock' = clock + 1 /\ since' = [since EXCEPT ![j] = clock + 1]
             /\ pc'[j] = "reading" /\ UNCHANGED snaps
    <3>1. \A s \in snaps : s.begun <= clock' /\ s.begun # clock'
      BY <1>0, <2>3 DEF SnapInv
    <3>2. since'[j] = clock' /\ \A i \in Jobs : since'[i] <= clock'
      BY <1>0, <2>3 DEF SnapInv
    <3> QED
      BY <2>0, <2>1, <2>3, <3>1, <3>2 DEF SnapInv, Saved
  <2>4. ASSUME NEW k \in {"whole", "partial"}, pc[j] = "reading", UNCHANGED <<clock, since>>,
               snaps' = snaps \union {[by |-> j, begun |-> since[j], state |-> k]},
               pc'[j] \in {"unlock backup", "done"} \/ (pc'[j] = "artifact" /\ k = "whole")
        PROVE  SnapInv'
    <3> DEFINE new == [by |-> j, begun |-> since[j], state |-> k]
    <3>1. since[j] = clock /\ \A s \in snaps : s.begun <= clock /\ (s.begun = clock => s.by = j)
      BY <2>4 DEF SnapInv
    <3>2. new.by = j /\ new.begun = clock /\ new.state = k /\ snaps' = snaps \union {new}
      BY <2>4, <3>1
    <3> HIDE DEF new
    <3>3. \A s \in snaps' : s.begun <= clock' /\ (s.begun = clock' => s.by = j)
      <4>1. ASSUME NEW s \in snaps'
            PROVE  s \in snaps \/ s = new
        BY <3>2
      <4>2. new.begun <= clock /\ new.by = j
        BY <1>0, <3>2
      <4> QED
        BY <2>4, <3>1, <4>1, <4>2
    <3>4. \E s \in snaps' : s.state = k /\ s.begun = clock'
      BY <2>4, <3>2
    <3>5. \A i \in Jobs : since'[i] <= clock' /\ since'[j] = clock'
      BY <2>4, <3>1 DEF SnapInv
    <3> QED
      <4>1. ASSUME NEW i \in Jobs, pc'[i] \in Saved \union {"reading"}
            PROVE  i = j /\ pc'[i] = "artifact" /\ k = "whole"
        BY <2>0, <2>4, <4>1 DEF Saved
      <4> QED
        BY <2>1, <3>3, <3>4, <3>5, <4>1 DEF SnapInv
  <2>5. CASE pc[j] = "pruning" /\ UNCHANGED <<clock, since>> /\ snaps' = Kept
    <3>1. snaps' \subseteq snaps
      BY <2>5 DEF Kept
    <3>2. PICK s \in snaps : s.state = "whole" /\ s.begun = clock
      BY <2>5 DEF SnapInv, Saved
    <3>3. s \in snaps'
      BY <2>5, <3>2, LatestKept
    <3>4. since[j] = clock /\ \A q \in snaps : q.begun = clock => q.by = j
      BY <2>5 DEF SnapInv, Saved
    <3> QED
      BY <2>0, <2>1, <2>5, <3>1, <3>2, <3>3, <3>4 DEF SnapInv, Saved
  <2> QED
    BY <1>2, <2>2, <2>3, <2>4, <2>5, CycleSnaps
<1>3. CASE (\E r \in Restorers : StartReading(r) \/ EndReading(r)) \/ GrowOld \/ UNCHANGED vars
  BY <1>3, OthersStay DEF SnapInv
<1> QED
  BY <1>1, <1>2, <1>3 DEF Next

LEMMA RestorableStep ==
  ASSUME TypeOK, OneLive, SnapInv, SuccessIsRestorable, [Next]_vars
  PROVE  SuccessIsRestorable'
<1>0. clock \in Nat /\ since \in [Jobs -> Nat]
  BY DEF TypeOK
<1>1. ASSUME NEW j \in Jobs, Start(j)
      PROVE  SuccessIsRestorable'
  BY <1>1, GotoMoves DEF Start, SuccessIsRestorable, repository
<1>2. ASSUME NEW j \in Jobs, RunCycle(j) \/ Kill(j), NEW i \in Jobs, exit'[i] = "ok"
      PROVE  \E s \in snaps' : s.state = "whole" /\ s.begun >= since'[i]
  <2>1. exit[j] = "none" /\ (i # j => exit[i] = "ok" /\ pc'[i] = pc[i])
    BY <1>2, CycleMoves DEF SnapInv
  <2>2. CASE i = j
    <3>1. pc[j] \in Saved /\ exit' # exit
      BY <1>2, <2>1, <2>2, CycleSnaps
    <3>2. PICK s \in snaps : s.state = "whole" /\ s.begun = clock
      BY <3>1 DEF SnapInv
    <3>3. UNCHANGED <<clock, since>> /\ (snaps \subseteq snaps' \/ snaps' = Kept)
      BY <1>2, <3>1, CycleSnaps DEF Saved
    <3>4. s \in snaps'
      BY <3>2, <3>3, LatestKept
    <3> QED
      BY <1>0, <2>2, <3>2, <3>3, <3>4 DEF SnapInv
  <2>3. CASE i # j
    <3>1. PICK s \in snaps : s.state = "whole" /\ s.begun >= since[i]
      BY <2>1, <2>3 DEF SuccessIsRestorable
    <3>2. since'[i] = since[i]
      BY <1>0, <1>2, <2>3, CycleSnaps
    <3>3. CASE snaps \subseteq snaps'
      BY <3>1, <3>2, <3>3
    <3>4. CASE pc[j] = "pruning" /\ snaps' = Kept
      <4>1. PICK q \in snaps : q.state = "whole" /\ q.begun = clock
        BY <3>4 DEF SnapInv, Saved
      <4>2. q \in snaps'
        BY <3>4, <4>1, LatestKept
      <4>3. since[i] <= clock
        BY DEF SnapInv
      <4> QED
        BY <1>0, <3>2, <4>1, <4>2, <4>3
    <3> QED
      BY <1>2, <3>3, <3>4, CycleSnaps
  <2> QED
    BY <2>2, <2>3
<1>3. CASE (\E r \in Restorers : StartReading(r) \/ EndReading(r)) \/ GrowOld \/ UNCHANGED vars
  BY <1>3, OthersStay DEF SuccessIsRestorable
<1> QED
  BY <1>1, <1>2, <1>3 DEF Next, SuccessIsRestorable

LEMMA OwnStep ==
  ASSUME TypeOK, SnapInv, ArtifactIsOwn, [Next]_vars
  PROVE  ArtifactIsOwn'
<1>0. artifact \in [Jobs -> SUBSET Jobs]
  BY DEF TypeOK
<1>1. ASSUME NEW j \in Jobs, EmitArtifact(j)
      PROVE  ArtifactIsOwn'
  <2>1. LatestListed \subseteq {j}
    <3>1. pc[j] = "artifact"
      BY <1>1 DEF EmitArtifact, Goto
    <3>2. PICK s \in snaps : s.begun = clock
      BY <3>1 DEF SnapInv, Saved
    <3>3. \A q \in snaps : q.begun \in Nat /\ q.begun <= clock /\ (q.begun = clock => q.by = j) /\ clock \in Nat
      BY <3>1, Fields DEF SnapInv, Saved, TypeOK
    <3>4. \A q \in snaps : s.begun <= q.begun => q.by = j
      BY <3>2, <3>3
    <3> QED
      BY <3>4 DEF LatestListed
  <2> QED
    BY <1>0, <1>1, <2>1 DEF EmitArtifact, Emit, ParseArtifact, ArtifactIsOwn
<1>2. CASE UNCHANGED artifact
  BY <1>2 DEF ArtifactIsOwn
<1>3. (\E j \in Jobs : EmitArtifact(j)) \/ UNCHANGED artifact
  BY DEF Next, Start, RunCycle, Kill, Unlock, StartBackup, EndBackup, InitRepository, Retry, UnlockFor,
         StartForget, EndForget, StartCheck, EndCheck, StartReading, EndReading, GrowOld, vars, repository
<1> QED
  BY <1>1, <1>2, <1>3

LEMMA FailureStep ==
  ASSUME TypeOK, RepoInv, LockInv, RetryInv, [Next]_vars,
         NEW j \in Jobs, exit[j] = "none", exit'[j] = "failed"
  PROVE  faults' > faults \/ InTheWay(j)
<1>0. faults \in Nat /\ exit \in [Jobs -> {"none", "ok", "failed", "killed"}]
  BY DEF TypeOK
<1>1. CASE Fault
  BY <1>0, <1>1 DEF Fault
<1>2. ASSUME NEW call \in {"backup", "forget"}, <<j, call>> \in retried, pc[j] \in {"backup", "forget"},
             locks # {}, ~InTheWay(j)
      PROVE  FALSE
  <2>1. PICK l \in locks : TRUE
    BY <1>2
  <2>2. l.by \in Restorers \union {j}
    BY <1>2 DEF RetryInv, LiveJobs
  <2>3. l.by # j
    BY <1>2 DEF LockInv, Working
  <2> QED
    BY <1>2, <2>2, <2>3 DEF InTheWay
<1>3. CASE StartBackup(j)
  <2>1. pc[j] = "backup"
    BY <1>3 DEF StartBackup, Goto, Exit, Error, Locked
  <2>2. CASE Exit(j, "backup", "failed") /\ repo = "absent" /\ <<j, "backup">> \in retried
    BY <2>1, <2>2 DEF RepoInv
  <2>3. CASE Locked(j, "backup", "backup") /\ ~SharedFree
    <3>1. <<j, "backup">> \in retried
      BY <1>0, <2>3 DEF Locked, Goto
    <3>2. locks # {}
      BY <2>3 DEF SharedFree
    <3> QED
      BY <1>2, <2>1, <3>1, <3>2
  <2>4. ~Goto(j, "backup", "reading") /\ ~Goto(j, "backup", "init")
    BY <1>0 DEF Goto
  <2> QED
    BY <1>1, <1>3, <2>2, <2>3, <2>4 DEF StartBackup
<1>4. CASE StartForget(j)
  <2>1. pc[j] = "forget"
    BY <1>4 DEF StartForget, Goto, Exit, Error, Locked
  <2>2. CASE Locked(j, "forget", "forget") /\ ~ExclusiveFree
    <3>1. <<j, "forget">> \in retried
      BY <1>0, <2>2 DEF Locked, Goto
    <3>2. locks # {}
      BY <2>2 DEF ExclusiveFree
    <3> QED
      BY <1>2, <2>1, <3>1, <3>2
  <2>3. ~Goto(j, "forget", "pruning") /\ ~Goto(j, "forget", "check")
    BY <1>0 DEF Goto
  <2> QED
    BY <1>1, <1>4, <2>2, <2>3 DEF StartForget
<1>5. CASE InitRepository(j)
  <2>1. ~(repo = "there" /\ Exit(j, "init", "failed"))
    BY DEF RepoInv, Exit
  <2>2. ~Goto(j, "init", "backup")
    BY <1>0 DEF Goto
  <2> QED
    BY <1>1, <1>5, <2>1, <2>2 DEF InitRepository
<1>6. CASE Unlock(j) \/ EndBackup(j) \/ Retry(j) \/ EmitArtifact(j) \/ EndForget(j)
  <2>1. ~\E from, to \in JobPc : Goto(j, from, to)
    BY <1>0 DEF Goto
  <2> QED
    BY <1>1, <1>6, <2>1 DEF Unlock, EndBackup, Retry, UnlockFor, EmitArtifact, EndForget, JobPc
<1>7. CASE StartCheck(j) \/ EndCheck(j) \/ Kill(j) \/ Start(j)
  BY <1>0, <1>7 DEF StartCheck, EndCheck, Kill, Start, Goto, Exit
<1>8. ASSUME NEW i \in Jobs, i # j, Start(i) \/ RunCycle(i) \/ Kill(i)
      PROVE  FALSE
  <2>1. ~Start(i)
    BY DEF Start, Goto
  <2> QED
    BY <1>8, <2>1, CycleMoves
<1>9. CASE (\E r \in Restorers : StartReading(r) \/ EndReading(r)) \/ GrowOld \/ UNCHANGED vars
  BY <1>9, OthersStay
<1> QED
  BY <1>3, <1>4, <1>5, <1>6, <1>7, <1>8, <1>9 DEF Next, RunCycle

-----------------------------------------------------------------------------
(* The repository has readers and writers *)

LEMMA ExclusionStep ==
  ASSUME TypeOK, OneLive, HeldInv, [Next]_vars
  PROVE  [Exclusion!Next]_Exclusion!vars
<1> USE DEF Exclusion!Next, Exclusion!Read, Exclusion!Write, Exclusion!Leave, Exclusion!vars, Clients
<1>0. pc \in [Jobs -> JobPc] /\ reader \in [Restorers -> {"off", "on", "done"}]
  BY DEF TypeOK
<1>1. ASSUME NEW j \in Jobs, Start(j)
      PROVE  UNCHANGED Exclusion!vars
  BY <1>1, GotoMoves DEF Start, Reading, Writing
<1>2. ASSUME NEW j \in Jobs, RunCycle(j) \/ Kill(j)
      PROVE  [Exclusion!Next]_Exclusion!vars
  <2>0. /\ UNCHANGED <<backend, reader>>
        /\ pc[j] \notin {"waiting", "done"}
        /\ \A i \in Jobs : i # j => pc[i] \in {"waiting", "done"} /\ pc'[i] = pc[i]
    <3>1. UNCHANGED <<backend, reader>>
      BY <1>2 DEF RunCycle, Kill, Unlock, StartBackup, EndBackup, InitRepository, Retry, UnlockFor, EmitArtifact,
            StartForget, EndForget, StartCheck, EndCheck, Error, Locked, Goto, Exit
    <3> QED
      BY <1>2, <3>1, CycleMoves DEF OneLive, LiveJobs
  <2>1. CASE pc[j] \notin Working /\ pc'[j] \notin Working
    BY <2>0, <2>1 DEF Working, Reading, Writing
  <2>2. CASE pc[j] \notin Working /\ pc'[j] = "reading"
    <3>1. Writing = {} /\ Writing' = Writing
      BY <2>0, <2>2 DEF Working, Writing
    <3>2. Reading' = IF backend = "restic" THEN Reading \union {j} ELSE Reading
      BY <2>0, <2>2 DEF Working, Reading
    <3> QED
      BY <3>1, <3>2
  <2>3. CASE /\ pc'[j] \in {"pruning", "checking"} /\ pc[j] \notin Working
             /\ backend = "restic" /\ locks = {}
    <3>1. Writing = {} /\ Writing' = {j}
      BY <2>0, <2>3 DEF Working, Writing
    <3>2. \A r \in Restorers : reader[r] # "on"
      BY <2>3 DEF HeldInv
    <3>3. Reading = {} /\ Reading' = {}
      BY <2>0, <2>3, <3>2 DEF Working, Reading
    <3> QED
      BY <3>1, <3>3
  <2>4. CASE pc'[j] \notin Working
    <3>1. Reading' = Reading \ {j} /\ Writing' = Writing \ {j}
      BY <2>0, <2>4, ClientsAssumption DEF Working, Reading, Writing
    <3> QED
      BY <3>1
  <2> QED
    BY <1>2, <2>1, <2>2, <2>3, <2>4, CycleLocks DEF Working
<1>3. ASSUME NEW r \in Restorers, StartReading(r)
      PROVE  [Exclusion!Next]_Exclusion!vars
  <2>1. UNCHANGED <<pc, backend>> /\ reader' = [reader EXCEPT ![r] = "on"] /\ SharedFree
    BY <1>3 DEF StartReading
  <2>2. Writing' = Writing
    BY <2>1 DEF Writing
  <2>3. CASE backend = "restic"
    <3>1. Writing = {}
      BY <2>1, <2>3 DEF HeldInv, Writing, SharedFree
    <3>2. Reading' = Reading \union {r}
      BY <1>0, <2>1, <2>3 DEF Reading
    <3> QED
      BY <2>2, <3>1, <3>2
  <2>4. CASE backend # "restic"
    BY <2>1, <2>2, <2>4 DEF Reading
  <2> QED
    BY <2>3, <2>4
<1>4. ASSUME NEW r \in Restorers, EndReading(r)
      PROVE  [Exclusion!Next]_Exclusion!vars
  <2>1. UNCHANGED <<pc, backend>> /\ reader' = [reader EXCEPT ![r] = "done"]
    BY <1>4 DEF EndReading
  <2>2. Writing' = Writing \ {r}
    BY <2>1, ClientsAssumption DEF Writing
  <2>3. Reading' = Reading \ {r}
    BY <1>0, <2>1, ClientsAssumption DEF Reading
  <2> QED
    BY <2>2, <2>3
<1>5. CASE GrowOld \/ UNCHANGED vars
  BY <1>5 DEF GrowOld, vars, Reading, Writing
<1> QED
  BY <1>1, <1>2, <1>3, <1>4, <1>5 DEF Next

-----------------------------------------------------------------------------
(* The theorems *)

LEMMA InitInv ==
  ASSUME Init
  PROVE  IInv /\ Exclusion!Init
<1>1. pc = [j \in Jobs |-> "waiting"] /\ locks = {} /\ snaps = {} /\ retried = {} /\ repo = "absent"
  BY DEF Init
<1>2. OneLive /\ RepoInv /\ LockInv /\ RetryInv
  BY <1>1 DEF OneLive, LiveJobs, RepoInv, Fresh, LockInv, RetryInv
<1>3. HeldInv /\ Exclusion!Init
  BY DEF Init, HeldInv, Exclusion!Init, Reading, Writing
<1>4. SnapInv /\ SuccessIsRestorable /\ ArtifactIsOwn
  BY DEF Init, SnapInv, Saved, SuccessIsRestorable, ArtifactIsOwn
<1> QED
  BY <1>2, <1>3, <1>4, InitTyped DEF IInv

LEMMA StepInv ==
  ASSUME MaxLive = 1, IInv, [Next]_vars
  PROVE  IInv'
<1> USE DEF IInv
<1>1. TypeOK' /\ OneLive'
  BY StepTyped, OneLiveStep
<1> QED
  BY <1>1, RepoStep, LockStep, HeldStep, RetryStep, SnapStep, RestorableStep, OwnStep

\* IInv is an invariant of runs with one Job at a time: the facts about locks,
\* retries, snapshots and logs that the results below rest on, together.
THEOREM Invariant == ASSUME MaxLive = 1 PROVE Spec => []IInv
<1> QED
  BY InitInv, StepInv, PTL DEF Spec

\* A Job that exits 0 has left its snapshot, or a later one, whole, in the
\* repository: after a failing, locked or killed backup, whatever is retained.
THEOREM Restorable == ASSUME MaxLive = 1 PROVE Spec => []SuccessIsRestorable
<1>1. IInv => SuccessIsRestorable
  BY DEF IInv
<1> QED
  BY <1>1, Invariant, PTL

\* The run is told its own snapshot, by the structured line or by the log.
THEOREM OwnArtifact == ASSUME MaxLive = 1 PROVE Spec => []ArtifactIsOwn
<1>1. IInv => ArtifactIsOwn
  BY DEF IInv
<1> QED
  BY <1>1, Invariant, PTL

\* A Job without a failing call fails only for the lock of a client that lives
\* or of a restore: its retries get rid of every other lock.
THEOREM FailuresHaveReason == ASSUME MaxLive = 1 PROVE Spec => FailureHasReason
<1>1. IInv /\ [Next]_vars =>
        [\A j \in Jobs : exit[j] = "none" /\ exit'[j] = "failed" => faults' > faults \/ InTheWay(j)]_vars
  BY FailureStep DEF IInv
<1> QED
  BY <1>1, Invariant, PTL DEF Spec, FailureHasReason

\* Jobs, restores, unlocks and retries implement readers and writers.
THEOREM ImplementsExclusion == ASSUME MaxLive = 1 PROVE Spec => Implements
<1>1. Init => Exclusion!Init
  BY InitInv
<1>2. IInv /\ [Next]_vars => [Exclusion!Next]_Exclusion!vars
  BY ExclusionStep DEF IInv
<1> QED
  BY <1>1, <1>2, Invariant, PTL DEF Spec, Implements, Exclusion!Spec
=============================================================================
