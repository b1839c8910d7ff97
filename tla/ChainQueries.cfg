SPECIFICATION FairSpec
CONSTANTS
  a = a
  b = b
  Calls <- MCCalls
  Asks <- MCAsks
  Lcds <- MCLcds
  MaxFlips = 2
INVARIANTS FallsBack 
PROPERTIES CallsSettle
CHECK_DEADLOCK FALSE
