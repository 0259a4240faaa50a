CONSTANTS
  NoTx = NoTx
  MaxRoots = 2
  MaxNonce = 5
  MaxFee = 1
  MaxFaults = 3
SPECIFICATION Spec
INVARIANTS
  JournalMatchesChain
  NoNonceGap
PROPERTIES
  NewestRawOnly
  HeadIsAnchored
CHECK_DEADLOCK FALSE
