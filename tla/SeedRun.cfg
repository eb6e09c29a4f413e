\* Three runs of the seeder over two plans, with every way a call or a write can end.
SPECIFICATION FairSpec
CONSTANTS
  Plans <- MCPlans
  NamedTags = {1}
  CallBudget = 4
  MaxBurstWaits = 1
  MaxRuns = 3
INVARIANTS
  NothingOrphaned
  NothingMadeTwice
  AlwaysResumable
  ManifestIsTrue
  BudgetBoundsTheBook
PROPERTIES
  EveryRunEnds
CHECK_DEADLOCK FALSE
