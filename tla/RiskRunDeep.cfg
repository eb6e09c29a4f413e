\* Few debts that all act: spacing, budget and the contact limits over a run.
SPECIFICATION Spec
CONSTANTS
  Config <- StandardConfig
  Defaults <- MCDefaults
  SourceTable <- MCSourceTable
  MinutesPerDay = 7
  Book <- DeepBook
  QueueLen = 3
  Modes = {"live"}
  StartTime = 2
  MaxTime = 5
INVARIANTS
  NotificationsSpaced
  BudgetBoundsTheRun
PROPERTIES
  KeepsContactLimits
CHECK_DEADLOCK FALSE
