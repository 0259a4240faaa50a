CONSTANTS
  p1 = p1
  p2 = p2
  genesis = genesis
  old = old
  t1 = t1
  t2 = t2
  None = None
  Procs = {p1, p2}
  Tasks = {genesis, t1, t2}
  InitialJournals <- FreshOnly
  FaultPlans = {{}}
  MaxInode = 1
  MaxJournal = 12
  MaxCrashes = 2
SPECIFICATION FairSpec
INVARIANTS
  JournalReplays
PROPERTIES
  IsAppendOnlyLog
  TailIsPublished
CHECK_DEADLOCK FALSE
