SPECIFICATION Spec
CONSTANTS
  MaxRuns = 1
  Keep = 1
  MaxConcurrent = 2
  Settle = TRUE
  Creators = {"ui"}
  LiveCache = TRUE
  MaxCrashes = 1
  MaxFaults = 2
  MaxOld = 1
INVARIANTS SuccessIsBacked GuardIsOwned
CHECK_DEADLOCK FALSE
