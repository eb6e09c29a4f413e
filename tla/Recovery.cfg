\* Two orders under each arm, one under the demo, a poll of up to two waits, and
\* seeded attempts below and at the cap of the naive arm.  The run ends, so it may stop.
SPECIFICATION Spec
CONSTANTS
  Config <- StandardConfig
  Defaults <- MCDefaults
  SourceTable <- MCSourceTable
  MinutesPerDay = 7
  Batch = {1, 2}
  SeenClasses = {"retry_eligible", "never_retry"}
  MaxSeeded = 2
  NaiveMax = 2
  Interval = 1
  MaxBackoff = 2
  MaxWait = 3
INVARIANTS
  PollKeepsItsBudget
  AttemptsCounted
  RowsAreTrue
  StepsTellEverything
  DemoKeepsItsOrder
PROPERTIES
  AttemptIsOneCharge
CHECK_DEADLOCK FALSE
