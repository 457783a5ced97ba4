SPECIFICATION Spec
CONSTANTS
  Execs = {1, 2, 3}
  BackupOf <- TwoBackups
  Mode <- Snapshots
  Lock = FALSE
  Hook = "required"
  Guard = TRUE
  MaxConcurrent = 2
  Foreign = TRUE
  MaxWait = 0
  MaxCrashes = 1
  MaxFaults = 0
INVARIANTS NothingLeft NotWedged
PROPERTIES  LiveResourcesKept
CHECK_DEADLOCK FALSE
