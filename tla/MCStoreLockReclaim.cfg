CONSTANTS
  p1 = p1
  p2 = p2
  p3 = p3
  n1 = n1
  n2 = n2
  None = None
  Procs = {p1, p2, p3}
  Nonces = {n1, n2}
  MaxCrashes = 1
SPECIFICATION Spec
INVARIANTS
  HolderKeepsLock
