-------------------------------- MODULE Charge --------------------------------
(***************************************************************************)
(* What one attempt on an instrument promises its caller: the bank is told *)
(* at most once, and a success means that it was told, the way the caller  *)
(* asked.  An error says nothing: the bank may have been told or not.      *)
(***************************************************************************)
VARIABLES
  phase,  \* "idle", or "open" while an attempt is being made
  told,   \* what the bank is to be told: "S" or "F"
  bank,   \* what the bank was told in this attempt, or "nothing"
  answer  \* what the caller was told of the last attempt

vars == <<phase, told, bank, answer>>

Init == phase = "idle" /\ told = "F" /\ bank = "nothing" /\ answer = "none"

Begin ==
  /\ phase = "idle"
  /\ phase' = "open" /\ told' \in {"S", "F"} /\ bank' = "nothing" /\ answer' = "none"

Settle ==
  /\ phase = "open" /\ bank = "nothing"
  /\ bank' = told
  /\ UNCHANGED <<phase, told, answer>>

Return ==
  /\ phase = "open"
  /\ phase' = "idle"
  /\ answer' \in {"ok", "error"}
  /\ answer' = "ok" => bank = told
  /\ UNCHANGED <<told, bank>>

Next == Begin \/ Settle \/ Return

Spec == Init /\ [][Next]_vars
===============================================================================
