CONSTANTS
  n1 = n1
  n2 = n2
  a1 = a1
  a2 = a2
  w1 = w1
  w2 = w2
  None = None
  Nonces = {n1, n2}
  Auths = {a1, a2}
  Workers = {w1, w2}
  Clients <- MCClients
  LateModes = {TRUE, FALSE}
  LateCap = 1
  OthersFill = FALSE
  MaxFaults = 1
SPECIFICATION FairSpec
INVARIANTS
  TypeOK
  OneAnswer
  PaidIsTraced
PROPERTIES
  PaidRowIsClosed
CHECK_DEADLOCK FALSE
