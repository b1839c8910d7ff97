SPECIFICATION FairSpec
CONSTANTS
  Nodes = {n1}
  Loops = {l1, l2}
  None = None
  MaxIterations = 2
  KeepBatches = 1
  MaxBatches = 4
  MaxLaunches = 2
  MaxCrashes = 1
  EagerResume = FALSE
PROPERTIES StopHalts 
CHECK_DEADLOCK FALSE
