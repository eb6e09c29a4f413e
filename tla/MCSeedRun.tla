------------------------------ MODULE MCSeedRun ------------------------------
(* Two seeds whose plans differ in the second invoice alone; the first       *)
(* invoice is the one without a contact channel.                             *)
EXTENDS SeedRun, TLC

E(amount, email) == [amount |-> amount, email |-> email]

MCPlans ==
  <<[invoice |-> <<E(5, FALSE), E(7, TRUE)>>, order |-> <<E(3, TRUE)>>],
    [invoice |-> <<E(5, FALSE), E(6, TRUE)>>, order |-> <<E(3, TRUE)>>]>>
=============================================================================
