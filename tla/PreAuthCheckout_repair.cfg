SPECIFICATION Spec
CONSTANTS
  AdminOperations = {"capture", "sync_capture", "portal_capture"}
  StockReturns = FALSE
  Crashes = TRUE
  GatewayFaults = TRUE
  FirestoreFaults = TRUE
  PayoutOutcomes = {TRUE, FALSE}
  MaxRetries = 1
INVARIANTS
  EventMeansMoney
PROPERTIES
  CompletedIsFinal
  ImplementsContract
CHECK_DEADLOCK FALSE
