CONSTANTS
  S = S
  C = C
  Ends <- MCEnds
  Server <- S
  NumSubChans = 2
  FragmentSize = 1
  MaxFragments = 2
  MaxPayload = 4
  CompressMin = 2
  Compressing = {}
  Throttled = {S}
  FileBackground = TRUE
  Sizes = {0, 2}
  Restarts = FALSE
  TheFile = TheFile
  Files = {TheFile}
  MaxSeq <- MCMaxSeq
  MaxSent <- MCMaxSent
  SignonSize <- MCSignonSize
SPECIFICATION Spec
VIEW StateView
INVARIANTS ChunksDivideHead
CHECK_DEADLOCK FALSE
