SPECIFICATION Spec
CONSTANTS
  MaxRuns = 3
  Keep = 1
  MaxConcurrent = 2
  Settle = FALSE
  Creators = {"timer"}
  LiveCache = FALSE
  MaxCrashes = 0
  MaxFaults = 0
  MaxOld = 0
INVARIANTS OneExecution 
PROPERTIES OnlyFinishedPruned InTurn
CHECK_DEADLOCK FALSE
