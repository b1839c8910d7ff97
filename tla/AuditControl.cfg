SPECIFICATION Spec
CONSTANTS
  Slots = {s1, s2}
  Requests = {r1, r2}
  Loop = Loop
  Hasty = {}
INVARIANTS ClaimHolds BusyExactly
PROPERTIES Exclusive StopKept RequestsSettle
CHECK_DEADLOCK FALSE
