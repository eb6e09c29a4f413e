\* A read, a create and a resend through one slot, three tries each.
SPECIFICATION FairSpec
CONSTANTS
  Calls = {"fetch", "create", "resend"}
  Reads = {"fetch"}
  Sends = {"resend"}
  MaxAttempts = 3
  MaxConcurrent = 1
  Capturing = TRUE
INVARIANTS
  AtMostOneEffect
  ResultIsTrue
PROPERTIES
  EveryCallEnds
CHECK_DEADLOCK FALSE
