SPECIFICATION JobSpec
CONSTANTS
  Threads = {p1, p2, w1}
  Workers = {w1}
  Takers = {w1}
  Nodes = {n1, n2, n3, n4}
  Null = Null
  End = End
  MaxPush = 4
  Recycle = TRUE
  Stoppable = {}
SYMMETRY Symmetry
INVARIANT SerialJobs
CHECK_DEADLOCK FALSE
