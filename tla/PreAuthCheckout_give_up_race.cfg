SPECIFICATION Spec
CONSTANTS
  AdminOperations = {}
  StockReturns = FALSE
  Crashes = FALSE
  GatewayFaults = TRUE
  FirestoreFaults = FALSE
  PayoutOutcomes = {TRUE}
  MaxRetries = 1
PROPERTIES
  VerifyingNotGivenUp
CHECK_DEADLOCK FALSE
