SPECIFICATION Spec
CONSTANTS
  Config <- StandardConfig
  Defaults <- MCDefaults
  SourceTable <- MCSourceTable
  MinutesPerDay = 7
  Book <- WideBook
  QueueLen = 2
  Modes = {"live", "dry", "halted"}
  StartTime = 2
  MaxTime = 4
INVARIANTS
  EscalationReachesAPerson
CHECK_DEADLOCK FALSE
