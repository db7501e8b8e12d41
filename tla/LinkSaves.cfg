SPECIFICATION Spec
CONSTANTS
  Links <- MCLinks
  None = None
  MaxEdits = 6
  MaxFaults = 1
INVARIANTS LinksAgree UndoneNotSaved
PROPERTY QueuedShown
CHECK_DEADLOCK FALSE
