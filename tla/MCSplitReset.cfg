SPECIFICATION SplitSpec
CONSTANTS
  PartCounts = {2, 3}
  SplitRate = 1
  MaxLong = 3
  MaxFaults = 1
INVARIANTS CalmPacketArrivesAgain
CHECK_DEADLOCK FALSE
