SPECIFICATION DetailsSpec
CONSTANTS
  item1 = item1
  item2 = item2
  title = title
  assignee = assignee
  Empty = 0
  None = None
  Ids <- MCIds
  Vals <- MCVals
  Moved <- MCMoved
  MaxEdits = 4
  MaxForeign = 1
  MaxFaults = 1
  Names <- MCNames
  Texts <- MCTexts
  Absent = Absent
  MaxItems = 2
  MaxActs = 5
  HistoryCap = 3
  MaxLosses = 1
INVARIANTS FormIsAsked OffersStand HistoryChains
PROPERTIES OnlyEnteredSaved EnteredIsStored NoConflictOfOwn SpinnerEnds
CHECK_DEADLOCK FALSE
