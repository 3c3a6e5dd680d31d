SPECIFICATION Spec
CONSTANTS
  AdminOperations = {}
  StockReturns = FALSE
  Crashes = FALSE
  GatewayFaults = FALSE
  FirestoreFaults = FALSE
  PayoutOutcomes = {TRUE}
  MaxRetries = 0
PROPERTIES
  CompletedReportStays
CHECK_DEADLOCK FALSE
