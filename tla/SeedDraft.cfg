\* A book resumed after an invoice was created and not issued.
SPECIFICATION Spec
CONSTANTS
  Plans <- MCPlans
  NamedTags = {1}
  CallBudget = 4
  MaxBurstWaits = 1
  MaxRuns = 3
INVARIANTS
  FinishedBookIsIssued
CHECK_DEADLOCK FALSE
