------------------------------- MODULE Checkout -------------------------------
(***************************************************************************)
(* One payment attempt through the four checkout calls                     *)
(* (razorpay/attempt.go).                                                  *)
(*                                                                         *)
(* A call is sent and then answered, and only the first and the last do    *)
(* anything at the gateway: one makes the payment, the other settles it.   *)
(* No call is made twice.  A body is only what the next step needs of it:  *)
(* it is there, or it is not.                                              *)
(***************************************************************************)
EXTENDS Naturals

CONSTANT Batch  \* the orders of a run

VARIABLES
  orders,  \* the gateway: the status of each order, and why it failed
  attempt  \* the attempt being made, or the last one

Outcomes == {"S", "F"}

\* The calls, by number: create_payment, authenticate, gateway, settle.
Calls == 1..4

FirstCall == 1

LastCall == 4

FreshAttempt ==
  [order   |-> 0,          \* AttemptRequest.OrderID, 0 when there was none
   told    |-> "F",        \* AttemptRequest.Outcome
   call    |-> FirstCall,  \* the call at hand
   place   |-> "idle",     \* "send", "answer", or "idle" once the caller is back
   reply   |-> "none",     \* what became of the call that was sent
   steps   |-> 0,          \* the length of AttemptOutcome.Steps
   reached |-> 0,          \* history: the calls the gateway had
   payment |-> "none",     \* history: the payment this attempt made
   result  |-> "none"]     \* whether Attempt came back with an error

BeginAttempt(d, outcome) ==
  /\ attempt.place = "idle"
  /\ attempt' = [FreshAttempt EXCEPT !.order = d, !.told = outcome, !.place = "send"]

\* A call is put on record as it is sent.  The first is as it comes back,
\* which nobody can tell.
RecordsFirst(call) == call # FirstCall

\* What a call that was served does to its payment.
Effect(call, a) ==
  CASE call = FirstCall -> "created"
    [] call = LastCall -> IF a.told = "S" THEN "captured" ELSE "failed"
    [] OTHER -> a.payment

\* The call as sent: lost on the way there, refused, or served.  A payment is
\* not made for an order that is paid.
Sent(a, reply) ==
  [a EXCEPT !.place = "answer", !.reply = reply,
            !.steps = IF RecordsFirst(a.call) THEN @ + 1 ELSE @,
            !.reached = IF reply = "unsent" THEN @ ELSE @ + 1,
            !.payment = IF reply = "served" THEN Effect(a.call, a) ELSE @]

Send ==
  /\ attempt.place = "send"
  /\ \E reply \in {"unsent", "refused", "served"} :
       /\ reply = "served" /\ attempt.call = FirstCall
            => orders[attempt.order].status # "paid"
       /\ attempt' = Sent(attempt, reply)
       /\ orders' = IF reply = "served" /\ attempt.call = LastCall /\ attempt.told = "S"
                    THEN [orders EXCEPT ![attempt.order].status = "paid"]
                    ELSE orders

\* Mutant of Over: a step that has no successor page ends the attempt well.
OverAnyway(a, ok) == ~ok \/ a.call >= LastCall - 1

\* The attempt is over at an error, or with its last call.
Over(a, ok) == ~ok \/ a.call = LastCall

\* Mutant of Recorded: the first call is on record once it succeeded.
RecordedIfServed(a) ==
  IF RecordsFirst(a.call) THEN a.steps ELSE IF a.reply = "served" THEN a.steps + 1 ELSE a.steps

\* The record of the first call, made whatever came back.
Recorded(a) == IF RecordsFirst(a.call) THEN a.steps ELSE a.steps + 1

\* A call that was served may still be answered by nothing that can be read,
\* by a body over the cap or one the capture stream did not take, or by a page
\* that lacks the id or the form the next call needs.
Answered ==
  /\ attempt.place = "answer"
  /\ \E ok \in BOOLEAN :
       /\ ok => attempt.reply = "served"
       /\ attempt' =
            [attempt EXCEPT
               !.steps = Recorded(attempt),
               !.reply = "none",
               !.place = IF Over(attempt, ok) THEN "idle" ELSE "send",
               !.call = IF Over(attempt, ok) THEN @ ELSE @ + 1,
               !.result = IF ~Over(attempt, ok) THEN @ ELSE IF ok THEN "ok" ELSE "error"]
  /\ UNCHANGED orders

\* Somebody else pays an order, or an attempt settles late.
PaidElsewhere(d) ==
  /\ orders[d].status = "unpaid"
  /\ orders' = [orders EXCEPT ![d].status = "paid"]
  /\ UNCHANGED attempt

-----------------------------------------------------------------------------
(* An attempt on its own, for any orders and any number of attempts.       *)

checkoutVars == <<orders, attempt>>

CheckoutInit ==
  /\ \A d \in Batch : orders[d].status \in {"unpaid", "paid"}
  /\ attempt = FreshAttempt

CheckoutNext ==
  \/ \E d \in Batch, outcome \in Outcomes : BeginAttempt(d, outcome) /\ UNCHANGED orders
  \/ Send \/ Answered
  \/ \E d \in Batch : PaidElsewhere(d)

CheckoutSpec == CheckoutInit /\ [][CheckoutNext]_checkoutVars

-----------------------------------------------------------------------------
(* Properties.                                                             *)

\* "The presence of a step means it was sent": every call the gateway had is on
\* record by the time the caller is back, and a payment that was settled has
\* all four of them, answered or not.
StepsTellEverything ==
  attempt.place = "idle" =>
    /\ attempt.reached <= attempt.steps
    /\ attempt.payment \in {"captured", "failed"} => attempt.steps = LastCall
    /\ attempt.result = "ok" => attempt.reached = LastCall

\* The four calls are one charge to their caller.
AsCharge ==
  INSTANCE Charge WITH
    phase  <- IF attempt.place = "idle" THEN "idle" ELSE "open",
    told   <- attempt.told,
    bank   <- IF attempt.payment \in {"captured", "failed"} THEN attempt.told ELSE "nothing",
    answer <- attempt.result

\* The bank is told at most once in an attempt, and a success means it was.
AttemptIsOneCharge == AsCharge!Spec
===============================================================================
