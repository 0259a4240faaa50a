CONSTANTS
  c1 = c1
  c2 = c2
  c3 = c3
  agent = agent
  session = session
  Requests <- MCRequests
  Legs <- MCLegs
  BookLegs <- MCBookLegs
  Cap <- MCCap
  Amounts <- MCAmounts
  TTL = 2
  CallLimit = 1
  MaxTime = 2
  MaxBook = 4
SYMMETRY MCSymmetry
SPECIFICATION DoorSpec
INVARIANTS
  AgentBudgetHeld
  InFlightIsHeld
