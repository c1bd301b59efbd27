SPECIFICATION StructuresSpec
CONSTANTS
  Threads = {t1, t2}
  Nodes = {n1, n2}
  Null = Null
  SeqMod = 3
  DepthMod = 3
  Stoppable = {t2}
  Lockers = {t1, t2, t3}
  NoOne = NoOne
  MaxDepth = 2
  Sharers = {t1, t2, t3, t4}
  Spinners = {t1, t2, t3}
  ReaderMod = 4
INVARIANTS NodeOnce MutexExclusion OneRightToWrite SpinExclusion
PROPERTIES ImplementsAtomicStack LockFree WritersGetIn ReadersGetIn SpinProgress
