SPECIFICATION Spec
CONSTANTS
  Links <- MCLinks
  None = None
  MaxEdits = 4
  MaxFaults = 0
INVARIANT NoStrandedLink
CHECK_DEADLOCK FALSE
