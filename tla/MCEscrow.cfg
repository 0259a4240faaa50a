CONSTANTS
  a1 = a1
  a2 = a2
  e1 = e1
  e2 = e2
  k1 = k1
  k2 = k2
  k3 = k3
  l1 = l1
  l2 = l2
  None = None
  Accounts = {a1, a2}
  Payers = {a1}
  Epochs = {e1, e2}
  Evidence = {k1, k2, k3}
  EpochOf <- MCEpochOf
  Leaves = {l1, l2}
  LeavesOf <- MCLeavesOf
  Coverable = {k3}
  Hashes <- MCHashes
  Amounts = {1, 2}
  MIN_DELAY = 1
  REVEAL_WINDOW = 1
  CONTEST_WINDOW = 2
  MAX_OPEN_COMMITS = 1
  BOND_PERIOD = 1
  NOTICE_PERIOD = 1
  CLAIM_WINDOW = 1
  FREEZE_CAP = 1
  MIN_BOND = 2
  BOUNTY = 1
  BOUNTY_CAP = 1
  REFUND_CAP = 2
  MaxTime = 6
  MaxCommits = 2
  MaxFunded = 2
SPECIFICATION FairSpec
INVARIANTS
  TypeOK
  Solvent
  RefundsCovered
  CountersAgree
  CapsHeld
  BountyIsEarliest
PROPERTIES
  CommitsKept
  GraceCoversCommits
  ReserveKept
  RefundsArePaid
CHECK_DEADLOCK FALSE
