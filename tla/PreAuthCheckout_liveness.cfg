SPECIFICATION FairSpec
CONSTANTS
  AdminOperations = {}
  StockReturns = FALSE
  Crashes = FALSE
  GatewayFaults = TRUE
  FirestoreFaults = FALSE
  PayoutOutcomes = {TRUE, FALSE}
  MaxRetries = 2
PROPERTIES
  PlacedOrderSettles
  FailedOrderReleased
CHECK_DEADLOCK FALSE
