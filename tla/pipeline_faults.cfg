SPECIFICATION FairSpec
CONSTANTS
  Execs = {1, 2, 3}
  BackupOf <- OneBackup
  Mode <- LastDirect
  Lock = TRUE
  Hook = "optional"
  Guard = TRUE
  MaxConcurrent = 1
  Foreign = FALSE
  MaxWait = 1
  MaxCrashes = 1
  MaxFaults = 1
INVARIANTS SuccessIsConsistent LockEndsWithSnapshot OneSnapshotAtATime
PROPERTY LockIsReleased
CHECK_DEADLOCK FALSE
