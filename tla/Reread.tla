------------------------------- MODULE Reread -------------------------------
(***************************************************************************)
(* Two readings of a book and what is said to have been collected between  *)
(* them: internal/riskrun/poll.go as rzp risk-poll uses it.                *)
(*                                                                         *)
(* A debt is one item of the seed manifest.  It can be reached by up to    *)
(* three ids: an invoice, the order the invoice minted, and a payment link *)
(* a run made for that order.  Invoice and order mirror each other, the    *)
(* link does not.  Poll makes one call per id, each may fail, and customers*)
(* pay between any two of them.                                            *)
(***************************************************************************)
EXTENDS Integers, Sequences

CONSTANTS
  MaxItems,  \* bound: items of the manifest
  Amount     \* what each debt is worth

ASSUME RereadAssumption == MaxItems \in Nat \ {0} /\ Amount \in Nat \ {0, 1}

VARIABLES
  manifest,  \* the items, and for each whether a run made a link for it
  paid,      \* Razorpay: paid on the invoice and on its order
  linkPaid,  \* Razorpay: paid on the link
  todo,      \* the ids this Poll has not asked for yet
  snapshots, \* the entries read by the first and by the second Poll
  marks      \* history: what had been paid when a Poll began or ended

vars == <<manifest, paid, linkPaid, todo, snapshots, marks>>

Debts    == DOMAIN manifest
Surfaces == {"invoice", "order", "payment_link"}

\* order says whether an order exists for the item, filed whether the manifest
\* holds its id.  An item without an id of its own is one the seeder never made.
ItemShapes ==
  {[kind |-> k, id |-> TRUE, order |-> TRUE, filed |-> f, link |-> l] :
     k \in {"invoice", "order"}, f \in BOOLEAN, l \in BOOLEAN}
    \cup {[kind |-> "invoice", id |-> i, order |-> FALSE, filed |-> FALSE, link |-> FALSE] :
            i \in BOOLEAN}

Received == [d \in Debts |-> [own |-> paid[d], link |-> linkPaid[d]]]

Polling  == Len(marks) \in {1, 3}
Finished == Len(marks) = 4

\* Which of the two snapshots is being read.
Current == IF Len(marks) = 1 THEN 1 ELSE 2

-----------------------------------------------------------------------------
(* Razorpay.                                                               *)

PaidOn(e) == IF e[1] = "payment_link" THEN linkPaid[e[2]] ELSE paid[e[2]]

\* What a customer can have paid of an item: only an invoice takes a part.
Payable(item) ==
  CASE ~item.order         -> {0}
    [] item.kind = "order" -> {0, Amount}
    [] OTHER               -> 0..Amount

CustomerPays(d) ==
  /\ ~Finished
  /\ \E p \in Payable(manifest[d]) : p > paid[d] /\ paid' = [paid EXCEPT ![d] = p]
  /\ UNCHANGED <<manifest, linkPaid, todo, snapshots, marks>>

CustomerPaysLink(d) ==
  /\ ~Finished
  /\ manifest[d].link
  /\ linkPaid[d] = 0
  /\ linkPaid' = [linkPaid EXCEPT ![d] = Amount]
  /\ UNCHANGED <<manifest, paid, todo, snapshots, marks>>

-----------------------------------------------------------------------------
(* Poll.                                                                   *)

\* An item without an id is skipped; a link is in the options, not the manifest.
IsRead(e) ==
  CASE e[1] = "invoice" -> manifest[e[2]].id /\ manifest[e[2]].kind = "invoice"
    [] e[1] = "order"   -> manifest[e[2]].id
    [] OTHER            -> manifest[e[2]].link

Reads == {e \in Surfaces \X Debts : IsRead(e)}

\* Every item of the manifest in its order, an invoice before the order it
\* minted, then every link, in the order of the ids they happen to have.
Precedes(a, b) ==
  /\ a[1] # "payment_link"
  /\ \/ b[1] = "payment_link" \/ a[2] < b[2]
     \/ a[1] = "invoice" /\ b = <<"order", a[2]>>

Init ==
  /\ manifest \in UNION {[1..n -> ItemShapes] : n \in 1..MaxItems}
  /\ paid \in [Debts -> 0..Amount] /\ \A d \in Debts : paid[d] \in Payable(manifest[d])
  /\ linkPaid \in [Debts -> {0, Amount}]
  /\ \A d \in Debts : ~manifest[d].link => linkPaid[d] = 0
  /\ todo = Reads
  /\ snapshots = [n \in 1..2 |-> [e \in {} |-> 0]]
  /\ marks = <<Received>>

\* The id has an entry in this snapshot and the read behind it succeeded.
ReadIn(s, e) == e \in DOMAIN s /\ s[e].ok

\* Mutants of MarkOf: an order speaks for itself, or a link does.
MarkOfLinksOnly(s, e, ok) ==
  IF e[1] = "payment_link" /\ ok /\ ReadIn(s, <<"order", e[2]>>) THEN "ask" ELSE "none"

MarkOfOrdersOnly(s, e, ok) ==
  IF e[1] = "order" /\ ReadIn(s, <<"invoice", e[2]>>) THEN "debt" ELSE "none"

\* DuplicateOf, when the invoice was read: the debt is counted there.
\* DuplicateAskOf, when the link and the order it restates were read.
MarkOf(s, e, ok) ==
  CASE e[1] = "order" /\ ReadIn(s, <<"invoice", e[2]>>)              -> "debt"
    [] e[1] = "payment_link" /\ ok /\ ReadIn(s, <<"order", e[2]>>)   -> "ask"
    [] OTHER                                                        -> "none"

\* A failed read leaves an entry without an amount.
EntryFor(s, e, ok) ==
  [ok   |-> ok,
   mark |-> MarkOf(s, e, ok),
   ask  |-> IF ok THEN Amount ELSE 0,
   paid |-> IF ok THEN PaidOn(e) ELSE 0]

\* The order of an invoice is named by the invoice, and by the manifest when
\* the invoice could not be read.
OrderNamed(d, ok) == manifest[d].order /\ (ok \/ manifest[d].filed)

LeftAfter(e, ok) ==
  todo \ ({e} \cup IF e[1] = "invoice" /\ ~OrderNamed(e[2], ok) THEN {<<"order", e[2]>>} ELSE {})

\* One call of Poll, answered or failed.
Fetch(e, ok) ==
  /\ Polling /\ e \in todo /\ \A x \in todo : ~Precedes(x, e)
  /\ LET s == snapshots[Current]
     IN snapshots' = [snapshots EXCEPT
          ![Current] = [x \in DOMAIN s \cup {e} |-> IF x = e THEN EntryFor(s, e, ok) ELSE s[x]]]
  /\ todo' = LeftAfter(e, ok)
  /\ UNCHANGED <<manifest, paid, linkPaid, marks>>

EndPoll ==
  /\ Polling /\ todo = {}
  /\ marks' = Append(marks, Received)
  /\ UNCHANGED <<manifest, paid, linkPaid, todo, snapshots>>

\* risk-poll again, with -against the first snapshot.
PollAgain ==
  /\ Len(marks) = 2
  /\ marks' = Append(marks, Received)
  /\ todo' = Reads
  /\ UNCHANGED <<manifest, paid, linkPaid, snapshots>>

Next ==
  \/ EndPoll \/ PollAgain
  \/ \E e \in todo, ok \in BOOLEAN : Fetch(e, ok)
  \/ \E d \in Debts : CustomerPays(d) \/ CustomerPaysLink(d)

Spec == Init /\ [][Next]_vars

-----------------------------------------------------------------------------
(* The figures.  Each is a sum over entries; an entry belongs to one debt,  *)
(* so each is the sum over the debts of what is defined here for one.      *)

\* What an entry adds to SnapshotTotals.AmountPaise, and what it holds of a debt.
AskIn(s, e) == IF ReadIn(s, e) /\ s[e].mark = "none" THEN s[e].ask ELSE 0
GrossOf(s, d) ==
  AskIn(s, <<"invoice", d>>) + AskIn(s, <<"order", d>>) + AskIn(s, <<"payment_link", d>>)

\* The entries Diff can compare.
Compared(e) == ReadIn(snapshots[1], e) /\ ReadIn(snapshots[2], e)

MarksOn(e) == {snapshots[1][e].mark, snapshots[2][e].mark}

\* Mutant of Counted: what is left out of the due is left out of the paid.
CountedOnceAsked(e) == MarksOn(e) = {"none"}

\* Marked as a duplicate debt in either snapshot, the money of an entry is
\* left out.
Counted(e) == "debt" \notin MarksOn(e)

\* What an entry adds to Delta.RecoveredPaise, and what that is of a debt.
RiseOn(e) == IF Compared(e) /\ Counted(e) THEN snapshots[2][e].paid - snapshots[1][e].paid ELSE 0
RecoveredOf(d) ==
  RiseOn(<<"invoice", d>>) + RiseOn(<<"order", d>>) + RiseOn(<<"payment_link", d>>)

-----------------------------------------------------------------------------
(* Properties.                                                             *)

TypeOK ==
  /\ manifest \in Seq(ItemShapes)
  /\ paid \in [Debts -> 0..Amount] /\ linkPaid \in [Debts -> {0, Amount}]
  /\ todo \subseteq Reads /\ Len(marks) \in 1..4
  /\ \A n \in {1, 2} : \A e \in DOMAIN snapshots[n] :
       /\ e \in Reads
       /\ snapshots[n][e].ask \in 0..Amount /\ snapshots[n][e].paid \in 0..Amount
       /\ snapshots[n][e].mark \in {"none", "debt", "ask"}
       /\ e[1] = "order" => manifest[e[2]].order

\* All the ids of a debt that exist were read in this snapshot.
WhollyRead(s, d) ==
  /\ manifest[d].id
  /\ \A e \in Reads : e[2] = d /\ (e[1] = "order" => manifest[d].order) => ReadIn(s, e)

\* The two snapshots read the same ids of a debt, its invoice or its order and
\* every link among them.
SameRead(d) ==
  /\ \A k \in Surfaces : ReadIn(snapshots[1], <<k, d>>) <=> ReadIn(snapshots[2], <<k, d>>)
  /\ Compared(<<"invoice", d>>) \/ Compared(<<"order", d>>)
  /\ manifest[d].link => Compared(<<"payment_link", d>>)

\* What came in on a debt, by any route, between two marks.
CameIn(d, m, n) == (marks[n][d].own - marks[m][d].own) + (marks[n][d].link - marks[m][d].link)

\* What is reported as collected on a debt was received, however the reads fail
\* and whenever customers pay: no payment is counted under two ids, and none is
\* made up by a read that failed.  And what was received between the two Polls is
\* reported, by whichever route it was paid, when the same reads failed in both
\* (Diff).
CollectedIsRight ==
  Finished =>
    \A d \in Debts :
      /\ RecoveredOf(d) <= CameIn(d, 1, 4)
      /\ SameRead(d) => RecoveredOf(d) >= CameIn(d, 2, 3)

\* The gross of a snapshot holds a debt once when all its ids were read (Poll).
AskCountedOnce ==
  \A n \in {1, 2} : Len(marks) >= 2 * n =>
    \A d \in Debts : WhollyRead(snapshots[n], d) => GrossOf(snapshots[n], d) = Amount

\* poll.go: an entry that became a duplicate between two reads is one whose debt
\* the invoice now carries.  So a payment made between two readings of the order
\* it is on is in the figure, under one id or the other.
PaymentOnReadOrderCounted ==
  Finished =>
    \A d \in Debts :
      Compared(<<"order", d>>) /\ ~manifest[d].link => RecoveredOf(d) >= CameIn(d, 2, 3)
=============================================================================
