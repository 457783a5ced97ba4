SPECIFICATION FairSpec
CONSTANTS
  Day = 4
  Crons = {{1}, {0, 2}}
  Starts = {0, 3}
  Ends = {2}
  MaxRetriesPerDay = 2
  HistoryLength = 3
INVARIANT RetriesAreCapped
PROPERTIES  DueIsServed
CHECK_DEADLOCK FALSE
