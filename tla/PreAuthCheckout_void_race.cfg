SPECIFICATION Spec
CONSTANTS
  AdminOperations = {}
  StockReturns = TRUE
  Crashes = FALSE
  GatewayFaults = FALSE
  FirestoreFaults = FALSE
  PayoutOutcomes = {TRUE}
  MaxRetries = 0
INVARIANTS
  EventMeansMoney
CHECK_DEADLOCK FALSE
