SPECIFICATION Spec
CONSTANTS
  p = p
  c = c
  None = None
  Ids <- MCIds
  Dates <- MCDates
  Kids <- MCKids
  HistoryCap = 3
  MaxEdits = 5
  MaxFaults = 0
PROPERTY OneUndoRevertsAll
CHECK_DEADLOCK FALSE
