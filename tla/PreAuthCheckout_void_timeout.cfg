SPECIFICATION Spec
CONSTANTS
  AdminOperations = {}
  StockReturns = FALSE
  Crashes = FALSE
  GatewayFaults = TRUE
  FirestoreFaults = FALSE
  PayoutOutcomes = {TRUE}
  MaxRetries = 2
PROPERTIES
  VoiderEndsReleased
CHECK_DEADLOCK FALSE
