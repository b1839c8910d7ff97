SPECIFICATION Spec
CONSTANTS
  Nodes = {n1, n2}
  NoMap = NoMap
  MaxRetries = 1
  MaxSweeps = 2
  MaxSessions = 3
  Faults = {}
INVARIANTS RightNode SpendReported
PROPERTIES PaidOnce ChargedIsTested DepositsReleased
SYMMETRY Symmetric
