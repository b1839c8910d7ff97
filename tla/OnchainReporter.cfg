SPECIFICATION FairSpec
CONSTANTS
  Payments = {grant}
  Granted = {grant}
  Passes <- MCPasses
  Reports <- MCReports
  Txs <- MCTxs
  Rpcs = 2
  Down = {}
  Dead = {0}
  MaxRetries = 2
  Faults = {"lag", "lost"}
  Limit <- MCLimit
  Blank <- MCBlank
  Outcomes <- MCOutcomes
  MaxRows = 3
  Baseline = 250
  Samples <- MCSamples
  Beside = FALSE
INVARIANTS NoRowLeftBehind Readable
PROPERTIES  Reported FinaliseReturns
CHECK_DEADLOCK FALSE
