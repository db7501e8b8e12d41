SPECIFICATION SpawnFairSpec
CONSTANTS
  p = p
  c = c
  None = None
  Ids <- MCIds
  Dates <- MCDates
  Kids <- MCKids
  HistoryCap = 2
  MaxEdits = 4
  MaxFaults = 1
INVARIANTS HistoryAgrees UntouchedAgree
PROPERTY Settles
CHECK_DEADLOCK FALSE
