\* Up to three debts on pages of one while the account moves.
SPECIFICATION Spec
CONSTANTS
  MaxDebts = 3
  PageSize = 1
  MaxPages = 3
  Now = 5
  Grace = 2
  MaxEvents = 2
INVARIANTS
  InvoiceSpeaks
  NeverBothClaim
  LostOnlyWithAnError
CHECK_DEADLOCK FALSE
