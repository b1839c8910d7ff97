SPECIFICATION Spec
CONSTANTS
  Slots = {s1, s2}
  Requests = {r1}
  Loop = Loop
  Hasty = {"unwinding"}
INVARIANTS NeverOverlap
CHECK_DEADLOCK FALSE
