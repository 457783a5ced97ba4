SPECIFICATION FairSpec
CONSTANTS
  MaxRuns = 2
  MaxLog = 1
  MaxTabs = 2
  GiveUpAfter = 2
INVARIANTS EntryIsStreamed LogIsShown
PROPERTY RowCatchesUp
CHECK_DEADLOCK FALSE
