SPECIFICATION Spec
CONSTANTS
  p = p
  c = c
  None = None
  Ids <- MCIds
  Dates <- MCDates
  Kids <- MCKids
  HistoryCap = 3
  MaxEdits = 4
  MaxFaults = 1
INVARIANT ShiftedChildrenPersist
CHECK_DEADLOCK FALSE
