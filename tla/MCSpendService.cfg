CONSTANTS
  e1 = e1
  e2 = e2
  funder = funder
  Requests <- MCRequests
  Legs <- MCLegs
  BookLegs = {}
  Cap <- MCCap
  Amounts <- MCAmounts
  TTL = 1
  MaxTime = 2
  MaxBook = 0
  PersistMayFail = TRUE
  MaxSigned = 2
SYMMETRY MCSymmetry
SPECIFICATION ServiceSpec
INVARIANTS
  CeilingHeld
  RestartForgetsNothing
  ReceiptIsCounted
PROPERTIES
  SettledSpendIsFinal
  NoLateSettle
  SavedReceiptIsFinal
  IsSpendLedger
