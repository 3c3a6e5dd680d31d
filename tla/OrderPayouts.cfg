SPECIFICATION Spec
CONSTANTS
  Payments = {p1, p2, p3}
  Cent = 10
  N = 3
  Owed <- MCOwed
  Totals = {20, 50}
SYMMETRY MCSymmetry
INVARIANTS TypeOK RoundingBounded StoreLast VendorsCovered OverpaidMeansStaleTotal
PROPERTIES ReplacedWasRounded
CHECK_DEADLOCK FALSE
