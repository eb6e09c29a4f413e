---------------------------- MODULE ContactLimits ----------------------------
(***************************************************************************)
(* What the gate promises a customer, with no gate in it.                  *)
(*                                                                         *)
(* A contact about a debt goes out at most Cap times, two of them about    *)
(* one debt are at least Gap apart, and two notifications to anybody are   *)
(* at least Window apart.  Rules R1, R2 and R6 are how the program keeps   *)
(* this promise; the modules that run actions are shown to implement it.   *)
(***************************************************************************)
EXTENDS Integers

CONSTANTS Debts, Cap, Gap, Window

VARIABLES now, touches, lastTouch, lastNotify

vars == <<now, touches, lastTouch, lastNotify>>

Apart(last, interval) == last = 0 \/ now - last >= interval

Init ==
  /\ now \in Nat
  /\ touches    = [d \in Debts |-> 0]
  /\ lastTouch  = [d \in Debts |-> 0]
  /\ lastNotify = 0

Tick ==
  /\ now' = now + 1
  /\ UNCHANGED <<touches, lastTouch, lastNotify>>

Contact(d, notifies) ==
  /\ touches[d] < Cap[d]
  /\ Apart(lastTouch[d], Gap[d])
  /\ notifies => Apart(lastNotify, Window)
  /\ touches'    = [touches EXCEPT ![d] = @ + 1]
  /\ lastTouch'  = [lastTouch EXCEPT ![d] = now]
  /\ lastNotify' = IF notifies THEN now ELSE lastNotify
  /\ UNCHANGED now

Next == Tick \/ \E d \in Debts, notifies \in BOOLEAN : Contact(d, notifies)

Spec == Init /\ [][Next]_vars
=============================================================================
