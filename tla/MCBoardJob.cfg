CONSTANTS
  a1 = a1
  h1 = h1
  h2 = h2
  q1 = q1
  q2 = q2
  None = None
  Agents = {a1}
  Prices = {1}
  Hashes = {h1, h2}
  Payments = {q1, q2}
  MaxBids = 2
  MaxCrashes = 1
  MaxFailedSaves = 2
  MaxOverlaps = 1
  MaxHeld = 1
  LoadMayFail = TRUE
SPECIFICATION Spec
INVARIANTS
  ReceiptIsBacked
  ChargedOnce
PROPERTIES
  PaidInTheEnd
CHECK_DEADLOCK FALSE
