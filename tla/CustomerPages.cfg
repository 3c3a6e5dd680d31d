SPECIFICATION FairSpec
CONSTANTS
  StockReturns = FALSE
  MaxRetries = 2
  MaxFaults = 2
  MaxPosts = 2
  MaxFlights = 2
INVARIANTS
  TypeOK
  VoidMeansRefunded
  PlacedMeansPaid
  ProcessingHasRun
  SuccessNeverDenied
  SuccessReportTrue
  ModalClosesOnCompletion
  QuietPageIsCurrent
PROPERTIES
  MessagesHaveTheirTime
  CheckoutPageLeaves
  PlacedPageLeaves
  PaidSettles
CHECK_DEADLOCK FALSE
