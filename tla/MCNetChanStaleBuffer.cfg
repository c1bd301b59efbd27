CONSTANTS
  S = S
  C = C
  Ends <- MCEnds
  Server <- S
  NumSubChans = 2
  FragmentSize = 1
  MaxFragments = 1
  MaxPayload = 4
  CompressMin = 2
  Compressing = {}
  Throttled = {}
  FileBackground = TRUE
  Sizes = {2}
  Restarts = TRUE
  Files = {}
  MaxSeq <- MCMaxSeq
  MaxSent <- MCMaxSent
  SignonSize <- MCSignonSize
SPECIFICATION Spec
VIEW StateView
INVARIANTS ConfirmedIsDelivered
CHECK_DEADLOCK FALSE
