----------------------------- MODULE MCRecovery -----------------------------
(* A policy for Recovery: its windows and caps never decide a request that   *)
(* names no source.                                                          *)
EXTENDS Recovery

MCSourceTable ==
  [ failed_payment |-> [grace |-> 0, maxTouches |-> 1, cooldown |-> 2, requiresSignal |-> TRUE] ]

MCDefaults ==
  [maxTouches |-> 1, cooldown |-> 2, notifyWindow |-> 2, ceiling |-> 5,
   floor |-> 1, budget |-> 2, window |-> <<0, 6>>]

StandardConfig ==
  [maxTouches |-> 0, maxAttempts |-> 0, cooldown |-> 0, notifyWindow |-> 0,
   ceiling |-> 0, floor |-> 0, budget |-> 0, window |-> <<0, 0>>,
   killSwitch |-> FALSE]
=============================================================================
