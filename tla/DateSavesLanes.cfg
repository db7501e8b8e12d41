SPECIFICATION Spec
CONSTANTS
  g = g
  p = p
  c = c
  None = None
  Ids <- MCIds
  Dates <- MCDates
  Kids <- MCKids
  HistoryCap = 2
  MaxEdits = 3
  MaxFaults = 2
INVARIANTS SingleFlight NoStrandedSave Agreement
PROPERTY ImplementsLanes
CHECK_DEADLOCK FALSE
