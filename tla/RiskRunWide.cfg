\* Every shape of debt, in pairs: the rules, the two arms, dry runs and halts.
SPECIFICATION Spec
CONSTANTS
  Config <- StandardConfig
  Defaults <- MCDefaults
  SourceTable <- MCSourceTable
  MinutesPerDay = 7
  Book <- WideBook
  QueueLen = 2
  Modes = {"live", "dry", "halted"}
  StartTime = 2
  MaxTime = 3
INVARIANTS
  DecisionPrecedesEffect
  LedgerMatchesGuard
  EffectsAccountedFor
  OnlyFailClosedIsDropped
CHECK_DEADLOCK FALSE
