SPECIFICATION Spec
CONSTANTS
  Jobs = {j1, j2, j3}
  Restorers = {r1}
  Keep = 1
  MaxLive = 1
  MaxFaults = 2
  MaxKills = 2
INVARIANTS SuccessIsRestorable ArtifactIsOwn
PROPERTIES Implements FailureHasReason
CHECK_DEADLOCK FALSE
