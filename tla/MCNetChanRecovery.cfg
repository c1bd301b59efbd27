CONSTANTS
  S = S
  C = C
  Ends <- MCEnds
  Server <- S
  NumSubChans = 2
  FragmentSize = 1
  MaxFragments = 1
  MaxPayload = 4
  CompressMin = 2
  Compressing = {}
  Throttled = {}
  FileBackground = TRUE
  Sizes = {1, 2}
  Restarts = FALSE
  Files = {}
  MaxSeq <- MCMaxSeq
  MaxSent <- MCMaxSent
  SignonSize <- MCSignonSize
  ChaosSeq <- MCChaosSeq
  Burst <- MCBurst
SPECIFICATION RSpec
PROPERTIES Recovers
CHECK_DEADLOCK FALSE
