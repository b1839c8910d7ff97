SPECIFICATION Spec
CONSTANTS
  Nodes = {n1, n2}
  None = None
  Bare = Bare
  MaxNumber = 3
  MaxAudits = 3
  MaxCrashes = 2
  Careful = TRUE
INVARIANTS SavedRunLoads 
 
CHECK_DEADLOCK FALSE
SYMMETRY Symmetric
