SPECIFICATION QueuesSpec
CONSTANTS
  Threads = {p1, w1}
  Workers = {w1}
  Takers = {p1, w1}
  Nodes = {n1, n2, n3}
  Null = Null
  End = End
  MaxPush = 4
  Recycle = TRUE
  Stoppable = {}
  PlainNodes = {n1, n2, n3, n4}
  PlainMaxPush = 3
  PlainStoppable = {p1}
INVARIANTS ItemsAreJobs NothingLostOrDuplicated CountIsContents
PROPERTIES PlainImplementsAtomicQueue PlainLockFree EveryJobTaken
CHECK_DEADLOCK FALSE
