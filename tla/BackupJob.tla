----------------------------- MODULE BackupJob -----------------------------
(***************************************************************************)
(* The container of a backup Job: one cycle of backup.py on the repository, *)
(* through the restic or the kopia backend.  Several Jobs, one after the    *)
(* other or at the same time, and restore init containers are clients of    *)
(* ONE repository.                                                          *)
(*                                                                          *)
(* The repository is external.  restic: `backup`, `snapshots`, `restore`    *)
(* take a shared lock, `forget --prune` and `check` an exclusive one; who   *)
(* finds a lock in the way fails at once; the lock of a killed client stays; *)
(* `unlock` removes what is stale: a lock older than 30 minutes, or one of  *)
(* the own hostname whose process is not there.  All Jobs have the hostname *)
(* k8si-backup and a process table of their own (job_builder.py), so that   *)
(* each takes every other's lock for stale (that two have drawn the same    *)
(* process id is left out), and a restore's only by its age.  kopia has no  *)
(* such locks.                                                              *)
(***************************************************************************)
EXTENDS Naturals, FiniteSets

CONSTANTS
  Jobs,       \* the backup Jobs
  Restorers,  \* the restore init containers
  Keep,       \* snapshots the retention keeps
  MaxLive,    \* Jobs that run at the same time on this repository
  MaxFaults, MaxKills   \* bounds on the model: failing backend calls, killed clients

ASSUME ClientsAssumption == IsFiniteSet(Jobs) /\ Jobs \intersect Restorers = {}
ASSUME KeepAssumption == Keep \in Nat \ {0}
ASSUME JobBounds == MaxLive \in Nat /\ MaxFaults \in Nat /\ MaxKills \in Nat

Clients == Jobs \union Restorers

VARIABLES
  backend,   \* BACKEND_TYPE
  repo,      \* does the repository exist?
  snaps,     \* its snapshots: who made it, when it was begun, is it whole?
  locks,     \* its locks: by whom, exclusive or not, older than 30 minutes?
  clock,     \* the latest time a backup was begun
  pc,        \* where each Job's _run_cycle is
  retried,   \* the calls in their second attempt: <<Job, "backup" or "forget">>
  since,     \* when each Job began its latest backup
  exit,      \* how each Job's container ended
  artifact,  \* whose snapshot the operator finds in the Job's log
  reader,    \* the restore containers
  faults, kills

repository == <<repo, snaps, locks, clock>>
vars == <<backend, repository, pc, retried, since, exit, artifact, reader, faults, kills>>

JobPc == {"waiting", "unlock", "backup", "reading", "init", "unlock backup", "artifact",
          "forget", "pruning", "unlock forget", "check", "checking", "done"}

Init == /\ backend \in {"restic", "kopia"}
        /\ repo = "absent" /\ snaps = {} /\ locks = {} /\ clock = 0
        /\ pc = [j \in Jobs |-> "waiting"]
        /\ retried = {}
        /\ since = [j \in Jobs |-> 0]
        /\ exit = [j \in Jobs |-> "none"]
        /\ artifact = [j \in Jobs |-> {}]
        /\ reader = [r \in Restorers |-> "off"]
        /\ faults = 0 /\ kills = 0

Fault == faults < MaxFaults /\ faults' = faults + 1
NoFault == faults' = faults

LiveJobs == {j \in Jobs : pc[j] \notin {"waiting", "done"}}
Live(c) == c \in LiveJobs \/ (c \in Restorers /\ reader[c] = "on")

-----------------------------------------------------------------------------
(* The repository                                                          *)

SharedFree == backend = "restic" => \A l \in locks : l.kind = "shared"
ExclusiveFree == backend = "restic" => locks = {}

Lock(c, kind) ==
  locks' = IF backend = "restic"
           THEN locks \union {[by |-> c, kind |-> kind, age |-> "young"]} ELSE locks
Release(c) == locks' = {l \in locks : l.by # c}

\* Mutant: unlock --remove-all.
RemoveAll(j, l) == TRUE
Stale(j, l) == l.age = "old" \/ l.by \in Jobs \ {j}
RemoveStale(j) == locks' = {l \in locks : ~Stale(j, l)}

\* --keep-daily and its like
Kept == {s \in snaps : Cardinality({q \in snaps : q.begun > s.begun}) < Keep}

-----------------------------------------------------------------------------
(* _run_cycle                                                              *)

Goto(j, from, to) == /\ pc[j] = from
                     /\ pc' = [pc EXCEPT ![j] = to]
                     /\ UNCHANGED <<backend, exit, reader, kills>>

\* _run_cycle raises, cli.main exits 1 (or returns, and it exits 0).
Exit(j, from, status) == /\ pc[j] = from
                         /\ pc' = [pc EXCEPT ![j] = "done"]
                         /\ exit' = [exit EXCEPT ![j] = status]
                         /\ UNCHANGED <<backend, reader, kills>>

Start(j) ==
  /\ Cardinality(LiveJobs) < MaxLive
  /\ Goto(j, "waiting", "unlock")
  /\ UNCHANGED <<repository, retried, since, artifact, faults>>

\* The proactive unlock: any error of it is ignored, the one of a repository
\* that does not exist included.  Then the hook, whose failure may be fatal.
Unlock(j) ==
  /\ \/ Goto(j, "unlock", "backup") /\ RemoveStale(j) /\ NoFault
     \/ Goto(j, "unlock", "backup") /\ Fault /\ UNCHANGED locks
     \/ Exit(j, "unlock", "failed") /\ Fault /\ RemoveStale(j)
  /\ UNCHANGED <<repo, snaps, clock, retried, since, artifact>>

\* A call fails with a text that has "lock" in it, or with another one: the
\* first time the lock is taken for stale, the second time it is an error.
\* Mutant: a locked repository is an error at once.
LockedOnce(j, from, call) == Exit(j, from, "failed") /\ UNCHANGED retried
Locked(j, from, call) ==
  /\ IF <<j, call>> \in retried THEN Exit(j, from, "failed")
     ELSE Goto(j, from, IF call = "backup" THEN "unlock backup" ELSE "unlock forget")
  /\ UNCHANGED retried

Error(j, from, call) == Locked(j, from, call) \/ (Exit(j, from, "failed") /\ UNCHANGED retried)

\* backend.backup: NotInitialized leads to init, a lock in the way to unlock.
StartBackup(j) ==
  \/ /\ repo = "there" /\ SharedFree
     /\ Goto(j, "backup", "reading")
     /\ Lock(j, "shared")
     /\ clock' = clock + 1 /\ since' = [since EXCEPT ![j] = clock + 1]
     /\ NoFault
     /\ UNCHANGED <<repo, snaps, retried, artifact>>
  \/ /\ \/ repo = "absent" /\ <<j, "backup">> \notin retried /\ Goto(j, "backup", "init")
           /\ NoFault /\ UNCHANGED retried
        \/ repo = "absent" /\ <<j, "backup">> \in retried /\ Exit(j, "backup", "failed")
           /\ NoFault /\ UNCHANGED retried
        \/ repo = "there" /\ ~SharedFree /\ Locked(j, "backup", "backup") /\ NoFault
        \/ repo = "there" /\ Fault /\ Error(j, "backup", "backup")
     /\ UNCHANGED <<repository, since, artifact>>

\* Mutant: an error is logged and the cycle goes on.
EndBackupLogged(j) ==
  /\ Release(j)
  /\ Goto(j, "reading", "artifact") /\ UNCHANGED retried
  /\ \/ snaps' = snaps \union {[by |-> j, begun |-> since[j], state |-> "whole"]} /\ NoFault
     \/ Fault /\ UNCHANGED snaps
  /\ UNCHANGED <<repo, clock, since, artifact>>

\* restic exits 0 with a snapshot; or with an error, having written none or an
\* incomplete one (a file that cannot be read, whose name may have "lock" in it).
EndBackup(j) ==
  /\ Release(j)
  /\ \/ /\ Goto(j, "reading", "artifact") /\ UNCHANGED retried
        /\ snaps' = snaps \union {[by |-> j, begun |-> since[j], state |-> "whole"]}
        /\ NoFault
     \/ /\ Error(j, "reading", "backup")
        /\ Fault
        /\ \/ UNCHANGED snaps
           \/ snaps' = snaps \union {[by |-> j, begun |-> since[j], state |-> "partial"]}
  /\ UNCHANGED <<repo, clock, since, artifact>>

\* backend.init, then backup again; an error of either is raised.
InitRepository(j) ==
  /\ \/ /\ repo = "absent" /\ Goto(j, "init", "backup")
        /\ repo' = "there" /\ retried' = retried \union {<<j, "backup">>} /\ NoFault
     \/ /\ repo = "there" /\ Exit(j, "init", "failed") /\ NoFault /\ UNCHANGED <<repo, retried>>
     \/ /\ Exit(j, "init", "failed") /\ Fault /\ UNCHANGED <<repo, retried>>
  /\ UNCHANGED <<snaps, locks, clock, since, artifact>>

\* backend.unlock, then the call again; an error of either is raised.
UnlockFor(j, call, at) ==
  /\ \/ Goto(j, at, call) /\ RemoveStale(j) /\ retried' = retried \union {<<j, call>>} /\ NoFault
     \/ Exit(j, at, "failed") /\ Fault /\ UNCHANGED <<locks, retried>>
  /\ UNCHANGED <<repo, snaps, clock, since, artifact>>

Retry(j) == UnlockFor(j, "backup", "unlock backup") \/ UnlockFor(j, "forget", "unlock forget")

\* Mutant: the first snapshot of the list.
FirstListed == {s.by : s \in {q \in snaps : \A o \in snaps : o.begun >= q.begun}}
\* The latest of the snapshots with the backup's tags.
LatestListed == {s.by : s \in {q \in snaps : \A o \in snaps : o.begun <= q.begun}}

\* _parse_artifact: the structured line; without one, what the log of the backup
\* that succeeded says was saved.
ParseArtifact(j, line) == IF line = {} THEN {j} ELSE line
Emit(j, line) == artifact' = [artifact EXCEPT ![j] = ParseArtifact(j, line)]

\* _emit_artifact never fails the Job: kopia has printed the manifest; else the
\* latest snapshot counts, if it can be read.  The operator may not get the log.
EmitArtifact(j) ==
  /\ Goto(j, "artifact", "forget")
  /\ \/ Emit(j, LatestListed) /\ SharedFree /\ NoFault
     \/ Emit(j, {j}) /\ backend = "kopia" /\ NoFault
     \/ Emit(j, {}) /\ ~SharedFree /\ NoFault
     \/ Emit(j, {}) /\ Fault
     \/ UNCHANGED artifact /\ Fault
  /\ UNCHANGED <<repository, retried, since>>

\* backend.forget.  kopia only notes the policy, which it applies by itself.
StartForget(j) ==
  /\ \/ /\ backend = "restic" /\ ExclusiveFree /\ Goto(j, "forget", "pruning")
        /\ Lock(j, "exclusive") /\ NoFault /\ UNCHANGED retried
     \/ /\ backend = "kopia" /\ Goto(j, "forget", "check")
        /\ NoFault /\ UNCHANGED <<locks, retried>>
     \/ ~ExclusiveFree /\ Locked(j, "forget", "forget") /\ NoFault /\ UNCHANGED locks
     \/ Error(j, "forget", "forget") /\ Fault /\ UNCHANGED locks
  /\ UNCHANGED <<repo, snaps, clock, since, artifact>>

EndForget(j) ==
  /\ Release(j)
  /\ \/ Goto(j, "pruning", "check") /\ snaps' = Kept /\ NoFault /\ UNCHANGED retried
     \/ Error(j, "pruning", "forget") /\ Fault /\ snaps' \in {snaps, Kept}
  /\ UNCHANGED <<repo, clock, since, artifact>>

\* The check, if there is to be one; its error is logged.
StartCheck(j) ==
  /\ \/ Exit(j, "check", "ok") /\ UNCHANGED locks
     \/ backend = "restic" /\ ExclusiveFree /\ Goto(j, "check", "checking") /\ Lock(j, "exclusive")
  /\ UNCHANGED <<repo, snaps, clock, retried, since, artifact, faults>>
EndCheck(j) ==
  /\ Exit(j, "checking", "ok") /\ Release(j)
  /\ UNCHANGED <<repo, snaps, clock, retried, since, artifact, faults>>

RunCycle(j) == \/ Unlock(j) \/ StartBackup(j) \/ EndBackup(j) \/ InitRepository(j) \/ Retry(j)
               \/ EmitArtifact(j) \/ StartForget(j) \/ EndForget(j) \/ StartCheck(j) \/ EndCheck(j)

-----------------------------------------------------------------------------
(* The environment                                                         *)

\* activeDeadlineSeconds, the operator deletes the Job, the node goes away: before
\* or after the call in progress took effect.
Kill(j) ==
  /\ j \in LiveJobs /\ kills < MaxKills
  /\ kills' = kills + 1
  /\ pc' = [pc EXCEPT ![j] = "done"]
  /\ exit' = [exit EXCEPT ![j] = "killed"]
  /\ \/ UNCHANGED snaps
     \/ pc[j] = "reading" /\ snaps' = snaps \union {[by |-> j, begun |-> since[j], state |-> "whole"]}
     \/ pc[j] = "pruning" /\ snaps' = Kept
  /\ UNCHANGED <<backend, repo, locks, clock, retried, since, artifact, reader, faults>>

\* A restore init container reads: again, if a lock was in the way.
StartReading(r) ==
  /\ reader[r] = "off" /\ repo = "there" /\ SharedFree
  /\ reader' = [reader EXCEPT ![r] = "on"]
  /\ Lock(r, "shared")
  /\ UNCHANGED <<backend, repo, snaps, clock, pc, retried, since, exit, artifact, faults, kills>>

EndReading(r) ==
  /\ reader[r] = "on"
  /\ reader' = [reader EXCEPT ![r] = "done"]
  /\ \/ Release(r) /\ UNCHANGED kills
     \/ kills < MaxKills /\ kills' = kills + 1 /\ UNCHANGED locks
  /\ UNCHANGED <<backend, repo, snaps, clock, pc, retried, since, exit, artifact, faults>>

\* Half an hour passes: a lock that nobody refreshes is old.
GrowOld ==
  /\ \E l \in locks :
       ~Live(l.by) /\ locks' = (locks \ {l}) \union {[by |-> l.by, kind |-> l.kind, age |-> "old"]}
  /\ UNCHANGED <<backend, repo, snaps, clock, pc, retried, since, exit, artifact, reader, faults, kills>>

Next == \/ \E j \in Jobs : Start(j) \/ RunCycle(j) \/ Kill(j)
        \/ \E r \in Restorers : StartReading(r) \/ EndReading(r)
        \/ GrowOld

Spec == Init /\ [][Next]_vars

-----------------------------------------------------------------------------
(* Properties                                                              *)

Snapshot == [by : Jobs, begun : Nat, state : {"whole", "partial"}]
Calls == Jobs \X {"backup", "forget"}
RepoLock == [by : Clients, kind : {"shared", "exclusive"}, age : {"young", "old"}]

TypeOK == /\ backend \in {"restic", "kopia"}
          /\ repo \in {"absent", "there"}
          /\ snaps \subseteq Snapshot
          /\ locks \subseteq RepoLock
          /\ clock \in Nat
          /\ pc \in [Jobs -> JobPc]
          /\ retried \subseteq Calls
          /\ since \in [Jobs -> Nat]
          /\ exit \in [Jobs -> {"none", "ok", "failed", "killed"}]
          /\ artifact \in [Jobs -> SUBSET Jobs]
          /\ reader \in [Restorers -> {"off", "on", "done"}]
          /\ faults \in Nat /\ kills \in Nat

\* Who works on the repository under a lock of restic.
Reading == IF backend = "restic"
           THEN {j \in Jobs : pc[j] = "reading"} \union {r \in Restorers : reader[r] = "on"}
           ELSE {}
Writing == {j \in Jobs : pc[j] \in {"pruning", "checking"}}

\* Nothing is deleted while a backup relies on what is in the repository, or a
\* restore reads it: whatever is unlocked, retried, killed or restarted, the
\* Jobs of one repository are readers and writers.  It needs one Job at a time.
Exclusion == INSTANCE ReadersWriter WITH readers <- Reading, writers <- Writing
Implements == Exclusion!Spec

\* "manual restic unlock is only needed if a Job dies mid-write twice"
\* (reference.md): a Job in which no call fails by itself fails only if a lock of
\* someone else is in the way, who is alive or was a restore (whose lock may
\* have been young when the Job removed the stale ones).
InTheWay(j) == \E l \in locks : l.by # j /\ (Live(l.by) \/ l.by \in Restorers)
FailureHasReason ==
  [][\A j \in Jobs : exit[j] = "none" /\ exit'[j] = "failed" => faults' > faults \/ InTheWay(j)]_vars

\* A Job that succeeded has left something to restore: its snapshot or a later
\* one that is whole, whatever the retention and the incomplete snapshots of
\* failing Jobs do to each other.
SuccessIsRestorable ==
  \A j \in Jobs : exit[j] = "ok" => \E s \in snaps : s.state = "whole" /\ s.begun >= since[j]

\* _resolve_artifact returns the artifact "for the just-made snapshot": the run
\* is never told the snapshot of another one.
ArtifactIsOwn == \A j \in Jobs : artifact[j] \subseteq {j}
=============================================================================
