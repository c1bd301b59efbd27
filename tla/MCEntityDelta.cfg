SPECIFICATION DeltaSpec
CONSTANTS
  NumSlots = 2
  Starts <- MCStarts
  Values = {0, 1}
  ClassBaseline = 0
  MaxClientFrames = 3
  MaxTick = 4
  MaxRequests = 1
  MaxInFlight = 2
  MaxPackets = 2
  None = None
INVARIANTS ViewIsSnapshot BaselinesAgree DeltasApply FullUpdateAlone
CHECK_DEADLOCK FALSE
