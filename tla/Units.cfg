SPECIFICATION UnitsSpec
CONSTANTS
  None = None
  MaxCalls = 3
  MaxOthers = 2
  item1 = item1
  item2 = item2
  Items <- MCItems
  MaxChanges = 2
  MaxForeign = 1
  WorkIds <- MCWorkIds
  Kinds = {"A", "B"}
  DatedKinds = {"A"}
  Stocks <- MCStocks
  ResultCap = 3
  BatchSize = 1
  MaxMoves = 1
  MaxLapses = 1
  date1 = date1
  date3 = date3
  date2 = date2
  Ids <- MCIds
  Child = date2
  Dates <- MCDates
  LaneDates <- MCLaneDates
  NoDates = NoDates
  MaxSaves = 5
  Nodes <- MCNodes
  Linked = {1, 2, 3}
  Spans <- MCSpans
INVARIANTS AppliedAtMostOnce ResultTellsTruth LaneAgrees EndsThinned WalksFindPromised LoadedAsItWas
PROPERTIES NoLateOverwrite OnlyTheLinkGoes WalksEnd
CHECK_DEADLOCK FALSE
