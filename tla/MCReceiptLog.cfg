CONSTANTS
  p1 = p1
  p2 = p2
  genesis = genesis
  old = old
  t1 = t1
  t2 = t2
  None = None
  Procs = {p1, p2}
  Tasks = {genesis, old, t1}
  InitialJournals <- MCJournals
  FaultPlans = {{"unlink"}, {"torn", "failed"}}
  MaxInode = 2
  MaxJournal = 5
  MaxCrashes = 2
SYMMETRY MCSymmetry
SPECIFICATION Spec
INVARIANTS
  TypeOK
  ServedHeadsTrue
  HeadsAgree
  ReceiptsKept
  AtMostOneStray
CHECK_DEADLOCK FALSE
