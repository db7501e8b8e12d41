SPECIFICATION SpawnSpec
CONSTANTS
  p = p
  c = c
  None = None
  Ids <- MCIds
  Dates <- MCDates
  Kids <- MCKids
  HistoryCap = 2
  MaxEdits = 2
  MaxFaults = 0
PROPERTY FollowUpSendsLatestEdit
CHECK_DEADLOCK FALSE
