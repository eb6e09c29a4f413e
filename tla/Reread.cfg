\* An item of the manifest of any shape, with or without an id, an order, a link.
SPECIFICATION Spec
CONSTANTS
  MaxItems = 1
  Amount = 3
INVARIANTS
  CollectedIsRight
  AskCountedOnce
CHECK_DEADLOCK FALSE
