CONSTANTS
  S = S
  C = C
  Ends <- MCEnds
  Server <- S
  NumSubChans = 3
  FragmentSize = 1
  MaxFragments = 2
  MaxPayload = 4
  CompressMin = 2
  Compressing = {}
  Throttled = {}
  FileBackground = TRUE
  Sizes = {2, 3}
  Restarts = FALSE
  Files = {}
  MaxSeq <- MCMaxSeq
  MaxSent <- MCMaxSent
  SignonSize <- MCSignonSize
  ChaosSeq <- MCChaosSeq
  Burst <- MCBurst
SPECIFICATION RSpec
PROPERTIES Recovers
CHECK_DEADLOCK FALSE
