------------------------------- MODULE Detect -------------------------------
(***************************************************************************)
(* The sweep of internal/riskrun over an account that does not stand still.*)
(*                                                                         *)
(* Three detectors read Razorpay one page at a time, one after the other,  *)
(* and the failed payment detector makes one more read per order.  Merchant*)
(* and customers act between any two reads.  The account, book, is outside *)
(* the program; the rest is the memory of one sweep.  A debt is the order  *)
(* it is paid through, numbered as it was made, with the invoice that      *)
(* minted it if one did.                                                   *)
(***************************************************************************)
EXTENDS Integers, Sequences, FiniteSets

CONSTANTS
  MaxDebts,   \* bound: orders the account ever holds
  PageSize,   \* Config.PageSize
  MaxPages,   \* Config.MaxPages
  Now,        \* when the sweep happens, and Config.Grace before it
  Grace,
  MaxEvents   \* bound: what merchant and customers do during the sweep

ASSUME DetectAssumption ==
  /\ MaxDebts \in Nat \ {0} /\ PageSize \in Nat \ {0} /\ MaxPages \in Nat \ {0}
  /\ Grace \in Nat \ {0} /\ Now \in Nat /\ Now > Grace + 1
  /\ MaxEvents \in Nat

VARIABLES
  book,      \* the orders of the account, in the order they were made
  stage,     \* place in Detectors, past its end when the sweep is over
  page,      \* pages read by this detector
  got,       \* the records it has read, each at its place in the list
  walk,      \* the first place whose payments are not asked for yet, -1 before
  sightings, \* what the detectors have returned so far
  errs,      \* the calls that failed: a list (0) or an order's payments
  moved,     \* history: debts something happened to since the sweep began
  events

sweeper == <<stage, page, got, walk, sightings, errs>>
vars    == <<book, sweeper, moved, events>>

Elements(s) == {s[n] : n \in DOMAIN s}

\* Mutant of Detectors: the bare order before the failed payment.
DetectorsOrderFirst == <<"overdue_invoice", "unpaid_order", "failed_payment">>

\* The detectors of sweepAll in the order it runs them.
Detectors == <<"overdue_invoice", "failed_payment", "unpaid_order">>

Detector == Detectors[stage]
Swept    == stage > Len(Detectors)

-----------------------------------------------------------------------------
(* The account.  issued is the instant of the invoice that minted an order, *)
(* 0 for an order nobody invoiced.                                          *)

OrderRecord ==
  [status : {"created", "attempted", "paid"}, attempts : 0..1, due : 0..2,
   failed : BOOLEAN, issued : 0..Now]

NewOrder(issued) ==
  [status |-> "created", attempts |-> 0, due |-> 2, failed |-> FALSE, issued |-> issued]

\* An attempt that failed leaves the order at created, as the live account does.
Failed(o) == [o EXCEPT !.attempts = 1, !.failed = TRUE]

\* A capture of all that is due but rest; only an invoice takes a part.
Captured(o, rest) ==
  [o EXCEPT !.status = IF rest = 0 THEN "paid" ELSE "attempted", !.due = rest, !.attempts = 1]

InvoiceStatus(o) ==
  CASE o.issued = 0 -> "none"
    [] o.due = 0    -> "paid"
    [] o.due = 1    -> "partially_paid"
    [] OTHER        -> "issued"

\* Bare, invoiced on either side of the grace, failed, and paid after a failure.
OldBook ==
  {NewOrder(at) : at \in {0, Now - Grace - 1, Now - Grace}}
    \cup {Failed(NewOrder(0)), Captured(Failed(NewOrder(0)), 0)}

Init ==
  /\ book \in UNION {[1..n -> OldBook] : n \in 0..MaxDebts}
  /\ stage = 1 /\ page = 0 /\ got = {} /\ walk = -1
  /\ sightings = {} /\ errs = {}
  /\ moved = {} /\ events = 0

Event(d) ==
  /\ ~Swept
  /\ events < MaxEvents
  /\ events' = events + 1
  /\ moved' = moved \cup {d}
  /\ UNCHANGED sweeper

\* A new order, bare or minted by an invoice that is issued.
PlaceOrder ==
  /\ Len(book) < MaxDebts
  /\ Event(Len(book) + 1)
  /\ \E issued \in {0, Now} : book' = Append(book, NewOrder(issued))

AttemptFails(d) ==
  /\ book[d].due > 0
  /\ Event(d)
  /\ book' = [book EXCEPT ![d] = Failed(@)]

Pays(d) ==
  /\ Event(d)
  /\ \E rest \in {0, 1} :
       /\ rest < book[d].due
       /\ rest = 1 => book[d].issued > 0
       /\ book' = [book EXCEPT ![d] = Captured(@, rest)]

-----------------------------------------------------------------------------
(* One detector.                                                           *)

\* What the list endpoint of this detector has to page through, newest first.
Listed ==
  IF Detector = "overdue_invoice"
  THEN {d \in DOMAIN book : book[d].issued > 0}
  ELSE DOMAIN book

PlaceOf(d) == Cardinality({e \in Listed : e > d})

Skip == page * PageSize

\* ListInvoices or ListOrders with Count PageSize and this Skip.
Page ==
  {[place |-> PlaceOf(d), debt |-> d, order |-> book[d]] :
     d \in {e \in Listed : PlaceOf(e) \in Skip..(Skip + PageSize - 1)}}

Sighting(r) ==
  [stage |-> stage, place |-> r.place, root |-> r.debt, due |-> r.order.due,
   handle |-> IF Detector = "overdue_invoice" THEN "invoice" ELSE "none"]

\* The filter of OverdueInvoiceDetector.
IsOverdue(o) ==
  /\ InvoiceStatus(o) \in {"issued", "partially_paid"}
  /\ o.due > 0 /\ o.issued > 0
  /\ o.issued < Now - Grace

\* The filter of UnpaidOrderDetector.
IsUnpaid(o) == o.status = "created" /\ o.attempts = 0 /\ o.due > 0

\* The orders FailedPaymentDetector asks the payments of.
IsCandidate(o) == o.due > 0

Seen(records, Keep(_)) == {Sighting(r) : r \in {k \in records : Keep(k.order)}}

\* The next detector starts over on a list of its own.
NextDetector == stage' = stage + 1 /\ page' = 0 /\ got' = {} /\ walk' = -1

\* The list is read as far as this sweep reads it.
ListEnds(records) ==
  \/ /\ Detector = "overdue_invoice"
     /\ sightings' = sightings \cup Seen(records, IsOverdue)
     /\ NextDetector
  \/ /\ Detector = "unpaid_order"
     /\ sightings' = sightings \cup Seen(records, IsUnpaid)
     /\ NextDetector
  \/ /\ Detector = "failed_payment"
     /\ got' = records /\ walk' = 0
     /\ UNCHANGED <<stage, page, sightings>>

IsLastPage == Cardinality(Page) < PageSize \/ page + 1 = MaxPages

\* One turn of the loop in sweep, and what is done with the last page.
ReadPage ==
  /\ ~Swept /\ walk = -1
  /\ IF IsLastPage
     THEN ListEnds(got \cup Page)
     ELSE /\ page' = page + 1
          /\ got' = got \cup Page
          /\ UNCHANGED <<stage, walk, sightings>>
  /\ UNCHANGED <<book, errs, moved, events>>

\* The call that reads the page fails: what was read before it is kept.
PageFails ==
  /\ ~Swept /\ walk = -1
  /\ errs' = errs \cup {<<Detector, 0>>}
  /\ ListEnds(got)
  /\ UNCHANGED <<book, moved, events>>

\* FailedPaymentDetector walks the orders it read in the order of the list.
Ahead == {r \in got : r.place >= walk /\ IsCandidate(r.order)}

NextInWalk == {r \in Ahead : \A other \in Ahead : r.place <= other.place}

\* Its order has a failed payment on it, or has not.
ReadPayments ==
  /\ ~Swept /\ walk >= 0
  /\ \E r \in NextInWalk :
       /\ sightings' = sightings \cup (IF book[r.debt].failed THEN {Sighting(r)} ELSE {})
       /\ walk' = r.place + 1
  /\ UNCHANGED <<book, stage, page, got, errs, moved, events>>

\* Mutant of AfterFailure: the failure ends the walk.
AfterFailureStop(r) == MaxPages * PageSize

\* A payments call that fails loses its own order and nothing else.
AfterFailure(r) == r.place + 1

PaymentsFail ==
  /\ ~Swept /\ walk >= 0
  /\ \E r \in NextInWalk :
       /\ errs' = errs \cup {<<Detector, r.debt>>}
       /\ walk' = AfterFailure(r)
  /\ UNCHANGED <<book, stage, page, got, sightings, moved, events>>

WalkEnds ==
  /\ ~Swept /\ walk >= 0
  /\ Ahead = {}
  /\ NextDetector
  /\ UNCHANGED <<book, sightings, errs, moved, events>>

-----------------------------------------------------------------------------
(* The queue.                                                              *)

DedupeKey(x) == x.root

Before(x, y) == x.stage < y.stage \/ (x.stage = y.stage /\ x.place < y.place)

\* Mutant of Queue: the last sighting wins.
QueueOfLast ==
  {x \in sightings : ~\E y \in sightings : Before(x, y) /\ DedupeKey(y) = DedupeKey(x)}

\* Collapse: the first sighting of each debt.
Queue == {x \in sightings : ~\E y \in sightings : Before(y, x) /\ DedupeKey(y) = DedupeKey(x)}

Step  == ReadPage \/ PageFails \/ ReadPayments \/ PaymentsFail \/ WalkEnds
World == PlaceOrder \/ \E d \in DOMAIN book : AttemptFails(d) \/ Pays(d)

Next == Step \/ World

Spec == Init /\ [][Next]_vars

-----------------------------------------------------------------------------
(* Properties.                                                             *)

\* Everything is in the reach of a sweep of MaxPages pages.
InReach == Len(book) <= PageSize * MaxPages

TypeOK ==
  /\ book \in Seq(OrderRecord)
  /\ stage \in 1..4 /\ page \in 0..(MaxPages - 1) /\ walk \in -1..(MaxPages * PageSize)
  /\ got \subseteq [place : Nat, debt : DOMAIN book, order : OrderRecord]
  /\ sightings \subseteq [stage : 1..3, place : Nat, root : DOMAIN book, due : 0..2,
                         handle : {"none", "invoice"}]
  /\ errs \subseteq Elements(Detectors) \X (0..Len(book))
  /\ moved \subseteq DOMAIN book
  /\ events \in 0..MaxEvents

\* When the invoice of a debt is among its sightings, the invoice is what the
\* queue keeps: it has the customer and a handle to pay (sweepAll's order).  So
\* of the debts nothing happened to, one with an overdue invoice is in the queue
\* without a handle only after the list of invoices failed: what the order
\* detectors claim as bare is what the grace left them.
InvoiceSpeaks ==
  /\ \A x \in Queue, y \in sightings :
       x.root = y.root /\ y.handle = "invoice" => x.handle = "invoice"
  /\ Swept /\ InReach /\ <<"overdue_invoice", 0>> \notin errs =>
       \A x \in Queue :
         x.handle = "none" /\ x.root \notin moved => ~IsOverdue(book[x.root])

\* The failed payment and the unpaid order detectors never both claim an order,
\* though the customer acts between their sweeps: attempts only grow, and the
\* detector that wants none comes last.
NeverBothClaim ==
  \A x, y \in sightings :
    Detectors[x.stage] = "failed_payment" /\ Detectors[y.stage] = "unpaid_order"
      => x.root # y.root

\* What a detector claims of a debt nothing happened to during the sweep.
Claims(source, o) ==
  \/ source = "overdue_invoice" /\ IsOverdue(o)
  \/ source = "failed_payment" /\ o.due > 0 /\ o.failed
  \/ source = "unpaid_order" /\ IsUnpaid(o)

\* A debt nobody touched during the sweep is in the queue when it ends, though
\* other orders arrive at the head of the list and shift its pages, unless a
\* call that would have shown it failed and is reported (sweep, Detect).
LostOnlyWithAnError ==
  Swept /\ InReach =>
    \A d \in DOMAIN book \ moved : \A source \in Elements(Detectors) :
      Claims(source, book[d]) =>
        \/ \E x \in Queue : x.root = d
        \/ {<<source, 0>>, <<source, d>>} \cap errs # {}

\* riskitem.go: HandleKindNone means there is nothing for a customer to pay
\* against yet.  Said of a sweep in which every call was answered, and of
\* invoices that were issued before it.
NoHandleMeansNothingToPay ==
  Swept /\ errs = {} =>
    \A x \in Queue : x.handle = "none" /\ x.root \notin moved => book[x.root].issued = 0
=============================================================================
