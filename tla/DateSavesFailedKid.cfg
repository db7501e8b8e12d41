SPECIFICATION Spec
CONSTANTS
  p = p
  c = c
  None = None
  Ids <- MCIds
  Dates <- MCDates
  Kids <- MCKids
  HistoryCap = 2
  MaxEdits = 2
  MaxFaults = 1
PROPERTY FailedPutsHistoryBack
CHECK_DEADLOCK FALSE
