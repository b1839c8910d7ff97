SPECIFICATION FairSpec
CONSTANTS
  Nodes = {w, x, u, v}
  WireGuard = {w, x}
  Direct = Direct
  MaxTests = 2
  Outbounds = 2
  MaxRetries = 1
  Slow = FALSE
INVARIANTS TypeOK MeasuredThroughNode TunnelWatched NothingLeft
PROPERTIES PassEnds
CHECK_DEADLOCK FALSE
