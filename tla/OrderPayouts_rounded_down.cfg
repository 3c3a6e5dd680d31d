SPECIFICATION Spec
CONSTANTS
  Payments = {p1}
  Cent = 10
  N = 2
  Owed <- MCOwedDown
  Totals = {2500}
INVARIANTS CompletedCoversTotal
CHECK_DEADLOCK FALSE
