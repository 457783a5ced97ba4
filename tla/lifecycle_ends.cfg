SPECIFICATION FairSpec
CONSTANTS
  MaxRuns = 1
  Keep = 1
  MaxConcurrent = 2
  Settle = TRUE
  Creators = {"ui", "user"}
  LiveCache = TRUE
  MaxCrashes = 1
  MaxFaults = 0
  MaxOld = 1
INVARIANT OneLiveJob
PROPERTIES EveryRunEnds 
CHECK_DEADLOCK FALSE
