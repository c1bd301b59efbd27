SPECIFICATION PoolLiveSpec
CONSTANTS
  NumWorkers = 1
  Masters = {m}
  Helpers = {h}
  Jobs = {j1, j2}
  Kept = {j1}
  TopPriority = 1
  MaxSuspends = 1
  NoJob = NoJob
  NoThread = NoThread
INVARIANTS ServicedOnce SuspendedMeansIdle NobodyHasFreed NeverServicesNull
PROPERTIES SerialInOrder EveryJobFinishes CallsReturn
CHECK_DEADLOCK FALSE
