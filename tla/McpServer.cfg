\* Two parallel callers on one debt.
SPECIFICATION Spec
CONSTANTS
  Config <- StandardConfig
  Defaults <- MCDefaults
  SourceTable <- MCSourceTable
  MinutesPerDay = 7
  Book <- OrderBook
  Requests <- OrderRequests
  Callers = {c1, c2}
  SwitchFiles = {"missing"}
  ActionBudget = 3
  PromiseHold = 2
  StartTime = 2
  MaxCalls = 5
  MaxLost = 0
  MaxTime = 4
SYMMETRY CallerSymmetry
INVARIANTS
  OneAcceptedEffect
  CapCountsLostContacts
  SendsSpacedPerDebt
  PromiseKept
  
CHECK_DEADLOCK FALSE
