SPECIFICATION MirrorSpec
CONSTANTS
  Names = {x, y}
  First = x
  Data = {d}
  NoData = NoData
  NoName = NoName
  MaxEntries = 2
  FirstTick = 1
  MaxTick = 4
  MaxChanges = 2
  MaxRequests = 1
  MaxInFlight = 2
  MaxMoves = 1
  SignonRace = FALSE
  MaxSpawns = 4
  PartCounts = {2, 3}
  SplitRate = 1
  MaxLong = 3
  MaxFaults = 1
INVARIANTS MirrorIsTable SkippedIsUpToDate ActiveInLevel OneChangeIsTaken PutTogetherAsSent
CHECK_DEADLOCK FALSE
