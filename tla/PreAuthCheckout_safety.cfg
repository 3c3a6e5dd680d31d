SPECIFICATION Spec
CONSTANTS
  AdminOperations = {"process", "capture", "void", "sync_capture", "portal_capture"}
  StockReturns = TRUE
  Crashes = TRUE
  GatewayFaults = TRUE
  FirestoreFaults = FALSE
  PayoutOutcomes = {TRUE}
  MaxRetries = 0
INVARIANTS
  TypeOK
  StoredResponseTruthful
  NoFreeOrder
  ChargedOnlyIfOrdered
  CompletedHasEvent
CHECK_DEADLOCK FALSE
