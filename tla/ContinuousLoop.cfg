SPECIFICATION Spec
CONSTANTS
  Nodes = {n1, n2}
  Loops = {l1, l2}
  None = None
  MaxIterations = 2
  KeepBatches = 1
  MaxBatches = 4
  MaxLaunches = 2
  MaxCrashes = 1
  EagerResume = FALSE
INVARIANTS LoopHolds   
PROPERTIES ShownAs ClosedBatchFrozen StopStartsNoNode
CHECK_DEADLOCK FALSE
SYMMETRY Symmetric
