SPECIFICATION Spec
CONSTANTS
  AdminOperations = {"capture"}
  StockReturns = FALSE
  Crashes = FALSE
  GatewayFaults = FALSE
  FirestoreFaults = FALSE
  PayoutOutcomes = {TRUE}
  MaxRetries = 0
INVARIANTS
  OneCaptureEvent
CHECK_DEADLOCK FALSE
