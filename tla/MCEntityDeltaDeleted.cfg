SPECIFICATION DeltaSpec
CONSTANTS
  NumSlots = 1
  Starts <- MCStarts
  Values = {0, 1}
  ClassBaseline = 0
  MaxClientFrames = 3
  MaxTick = 4
  MaxRequests = 1
  MaxInFlight = 2
  MaxPackets = 1
  None = None
INVARIANT DeletionsNotTransmitted
CHECK_DEADLOCK FALSE
