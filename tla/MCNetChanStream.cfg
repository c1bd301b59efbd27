CONSTANTS
  S = S
  C = C
  Ends <- MCEnds
  Server <- S
  NumSubChans = 2
  FragmentSize = 1
  MaxFragments = 2
  MaxPayload = 5
  CompressMin = 2
  Compressing = {S}
  Throttled = {}
  FileBackground = TRUE
  Sizes = {1, 3}
  Restarts = FALSE
  Files = {}
  MaxSeq <- MCMaxSeq
  MaxSent <- MCMaxSent
  SignonSize <- MCSignonSize
SPECIFICATION Spec
VIEW StateView
INVARIANTS TypeOK
           InOrderExactlyOnce
           ConfirmedIsDelivered
           ReliableStateValid
           BufferIntact
PROPERTIES AckNeverGoesBack
CHECK_DEADLOCK FALSE
