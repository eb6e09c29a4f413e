\* The whole tool surface over two debts: every kind of call, well formed or not.
SPECIFICATION FairSession
CONSTANTS
  Config <- StandardConfig
  Defaults <- MCDefaults
  SourceTable <- MCSourceTable
  MinutesPerDay = 7
  Book <- InvoiceBook
  Requests <- SurfaceRequests
  Callers = {c1, c2}
  SwitchFiles = {"present", "missing", "unreadable"}
  ActionBudget = 1
  PromiseHold = 2
  StartTime = 2
  MaxCalls = 3
  MaxLost = 1
  MaxTime = 3
INVARIANTS
  VerdictOnRecord
  ContactsReported
  OutcomeIsTrue
PROPERTIES
  EveryCallAnswered
CHECK_DEADLOCK FALSE
