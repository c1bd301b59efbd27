SPECIFICATION TableSpec
CONSTANTS
  Names = {x, y}
  First = x
  Data = {d}
  NoData = NoData
  NoName = NoName
  MaxEntries = 2
  FirstTick = 1
  MaxTick = 4
  MaxChanges = 2
  MaxRequests = 1
  MaxInFlight = 2
  MaxMoves = 1
  SignonRace = TRUE
INVARIANTS SkippedIsUpToDate
CHECK_DEADLOCK FALSE
