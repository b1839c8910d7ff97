SPECIFICATION Spec
CONSTANTS
  Nodes = {a, b, c}
  Nobody = Nobody
  Faults = {"conflict"}
  MaxPasses = 2
  MaxDeaths = 1
  MaxLeavers = 1
  MaxFresh = 1
INVARIANTS  SpendTrue EvictedIsGone NoGhostRun
 
CHECK_DEADLOCK FALSE
SYMMETRY Symmetric
VIEW View
