SPECIFICATION FairSpec
CONSTANTS
  MaxRuns = 2
  MaxRetriesPerDay = 2
  HistoryLength = 2
  EarlierFailures = 1
  MaxTriggers = 1
  MaxTicks = 1
  Upsets = {"crash", "fault", "dashboard", "reconciler"}
  MaxUpsets = 1
 
PROPERTIES NoRunDropped 
CHECK_DEADLOCK FALSE
