SPECIFICATION Spec
CONSTANTS
  Nodes = {n1, n2}
  None = None
  Bare = Bare
  MaxNumber = 3
  MaxAudits = 2
  MaxCrashes = 0
  Careful = FALSE
PROPERTIES LoadsAreReadOnly
CHECK_DEADLOCK FALSE
