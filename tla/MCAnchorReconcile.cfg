CONSTANTS
  NoTx = NoTx
  MaxRoots = 2
  MaxNonce = 4
  MaxFee = 1
  MaxFaults = 2
SPECIFICATION Spec
INVARIANTS
  OneOutstanding
CHECK_DEADLOCK FALSE
