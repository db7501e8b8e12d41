SPECIFICATION MCSpec
CONSTANTS
  a = a
  b = b
  None = None
  Ids <- MCIds
  Days <- MCDays
  Starts <- MCStarts
  BarDays = 2
  MaxEdits = 3
  MaxFaults = 1
INVARIANTS PreviewsSettle StartBeforeTarget
PROPERTY NudgeEnds
CHECK_DEADLOCK FALSE
