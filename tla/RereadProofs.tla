---------------------------- MODULE RereadProofs ----------------------------
(***************************************************************************)
(* What the two readings of a book say of what was collected, for a        *)
(* manifest of any length, whichever reads fail and whenever customers pay.*)
(***************************************************************************)
EXTENDS Reread, SequenceTheorems, TLAPS

-----------------------------------------------------------------------------
(* The inductive invariant.                                                *)

EntryType ==
  [ok : BOOLEAN, mark : {"none", "debt", "ask"}, ask : 0..Amount, paid : 0..Amount]

MarkType == [Debts -> [own : 0..Amount, link : 0..Amount]]

Types ==
  /\ manifest \in Seq(ItemShapes)
  /\ paid \in [Debts -> 0..Amount] /\ linkPaid \in [Debts -> {0, Amount}]
  /\ todo \subseteq Reads
  /\ marks \in Seq(MarkType) /\ Len(marks) \in 1..4
  /\ DOMAIN snapshots = 1..2
  /\ \A n \in 1..2 : /\ snapshots[n] \in [DOMAIN snapshots[n] -> EntryType]
                     /\ DOMAIN snapshots[n] \subseteq Reads

\* The second snapshot is empty until the second Poll.
SecondWaits == Len(marks) <= 2 => DOMAIN snapshots[2] = {}

\* An order that is to be read, or was, exists, unless its invoice comes first.
OrdersExist ==
  \A d \in Debts :
    /\ <<"order", d>> \in todo => manifest[d].order \/ <<"invoice", d>> \in todo
    /\ \A n \in 1..2 : <<"order", d>> \in DOMAIN snapshots[n] => manifest[d].order

\* Nothing that had to be read before something already read is left.
ReadInOrder == \A e \in DOMAIN snapshots[Current], x \in todo : ~Precedes(x, e)

\* What an entry restates is what the whole snapshot says it restates, although
\* its mark was set when only what came before it had been read.
Marked ==
  \A n \in 1..2 : \A e \in DOMAIN snapshots[n] :
    snapshots[n][e].mark = MarkOf(snapshots[n], e, snapshots[n][e].ok)

\* What was paid on an id at a mark.
PaidThen(m, e) == IF e[1] = "payment_link" THEN m[e[2]].link ELSE m[e[2]].own

\* Payments are never taken back.
OnlyRises ==
  \A d \in Debts, i \in 1..Len(marks) :
    /\ marks[i][d].own <= paid[d] /\ marks[i][d].link <= linkPaid[d]
    /\ \A j \in i..Len(marks) :
         marks[i][d].own <= marks[j][d].own /\ marks[i][d].link <= marks[j][d].link

\* A read that succeeded saw the amount and a figure that stood during its Poll.
ReadInTime ==
  \A n \in 1..2 : \A e \in DOMAIN snapshots[n] :
    snapshots[n][e].ok =>
      /\ snapshots[n][e].ask = Amount
      /\ PaidThen(marks[2 * n - 1], e) <= snapshots[n][e].paid
      /\ snapshots[n][e].paid <= IF Len(marks) >= 2 * n THEN PaidThen(marks[2 * n], e) ELSE PaidOn(e)

\* Nothing is paid on a link that does not exist.
NoLinkNoMoney ==
  \A d \in Debts : ~manifest[d].link =>
    linkPaid[d] = 0 /\ \A i \in 1..Len(marks) : marks[i][d].link = 0

IInv ==
  /\ Types /\ SecondWaits /\ OrdersExist /\ ReadInOrder /\ Marked /\ OnlyRises /\ ReadInTime
  /\ NoLinkNoMoney

-----------------------------------------------------------------------------
(* The shapes of the data.                                                 *)

LEMMA ShapeOf ==
  ASSUME NEW it \in ItemShapes
  PROVE  /\ it.kind \in {"invoice", "order"}
         /\ it.kind = "order" => it.id /\ it.order
         /\ it.link => it.id /\ it.order
BY DEF ItemShapes

LEMMA ManifestIs ==
  ASSUME Types, NEW d \in Debts
  PROVE  /\ manifest[d] \in ItemShapes
         /\ manifest[d].kind \in {"invoice", "order"}
         /\ manifest[d].kind = "order" => manifest[d].id /\ manifest[d].order
         /\ manifest[d].link => manifest[d].id /\ manifest[d].order
<1>1. manifest[d] \in ItemShapes
  BY DEF Types, Debts
<1> QED
  BY <1>1, ShapeOf

LEMMA ReadsAre ==
  /\ \A e \in Reads : e[1] \in Surfaces /\ e[2] \in Debts /\ e = <<e[1], e[2]>>
  /\ \A d \in Debts :
       /\ <<"invoice", d>> \in Reads <=> manifest[d].id /\ manifest[d].kind = "invoice"
       /\ <<"order", d>> \in Reads <=> manifest[d].id
       /\ <<"payment_link", d>> \in Reads <=> manifest[d].link
<1>1. \A e \in Surfaces \X Debts : e[1] \in Surfaces /\ e[2] \in Debts /\ e = <<e[1], e[2]>>
  OBVIOUS
<1>2. ASSUME NEW d \in Debts
      PROVE  /\ <<"invoice", d>> \in Surfaces \X Debts /\ <<"order", d>> \in Surfaces \X Debts
             /\ <<"payment_link", d>> \in Surfaces \X Debts
  BY DEF Surfaces
<1>3. ASSUME NEW d
      PROVE  /\ IsRead(<<"invoice", d>>) <=> manifest[d].id /\ manifest[d].kind = "invoice"
             /\ IsRead(<<"order", d>>) <=> manifest[d].id
             /\ IsRead(<<"payment_link", d>>) <=> manifest[d].link
  BY DEF IsRead
<1> QED
  BY <1>1, <1>2, <1>3 DEF Reads

\* An invoice is read before its order and every order before every link.
LEMMA WhatPrecedes ==
  \A c, d : /\ Precedes(<<"invoice", d>>, <<"order", d>>)
            /\ Precedes(<<"order", c>>, <<"payment_link", d>>)
BY DEF Precedes

\* A mark depends on one other entry.
LEMMA MarkIs ==
  ASSUME NEW s, NEW e, NEW ok \in BOOLEAN
  PROVE  /\ MarkOf(s, e, ok) \in {"none", "debt", "ask"}
         /\ MarkOf(s, e, ok) = "debt" <=> e[1] = "order" /\ ReadIn(s, <<"invoice", e[2]>>)
         /\ MarkOf(s, e, ok) = "ask" <=>
              e[1] = "payment_link" /\ ok /\ ReadIn(s, <<"order", e[2]>>)
BY DEF MarkOf

LEMMA MarkStays ==
  ASSUME NEW s, NEW t, NEW e, NEW ok \in BOOLEAN,
         e[1] = "order" => (ReadIn(s, <<"invoice", e[2]>>) <=> ReadIn(t, <<"invoice", e[2]>>)),
         e[1] = "payment_link" => (ReadIn(s, <<"order", e[2]>>) <=> ReadIn(t, <<"order", e[2]>>))
  PROVE  MarkOf(s, e, ok) = MarkOf(t, e, ok)
BY MarkIs

LEMMA PayableIs ==
  ASSUME Types, NEW d \in Debts, NEW p \in Payable(manifest[d])
  PROVE  p \in 0..Amount
BY RereadAssumption DEF Payable

LEMMA MarksAre ==
  ASSUME Types
  PROVE  \A i \in 1..Len(marks) : \A d \in Debts :
           /\ marks[i] \in MarkType /\ marks[i][d].own \in 0..Amount /\ marks[i][d].link \in 0..Amount
<1>1. \A i \in 1..Len(marks) : marks[i] \in MarkType
  BY DEF Types
<1>2. \A m \in MarkType : \A d \in Debts : m[d].own \in 0..Amount /\ m[d].link \in 0..Amount
  BY DEF MarkType
<1> QED
  BY <1>1, <1>2

LEMMA ReceivedIs ==
  ASSUME Types
  PROVE  /\ Received \in MarkType
         /\ \A d \in Debts : /\ Received[d].own = paid[d] /\ Received[d].link = linkPaid[d]
                             /\ paid[d] \in 0..Amount /\ linkPaid[d] \in 0..Amount
<1>1. \A d \in Debts : paid[d] \in 0..Amount /\ linkPaid[d] \in 0..Amount
  BY RereadAssumption DEF Types
<1> QED
  BY <1>1 DEF Received, MarkType

\* What Razorpay reports of an id is what a mark taken now says of it.
LEMMA PaidNow ==
  ASSUME NEW e \in Reads
  PROVE  /\ PaidThen(Received, e) = PaidOn(e)
         /\ PaidOn(e) = IF e[1] = "payment_link" THEN linkPaid[e[2]] ELSE paid[e[2]]
<1>1. e[2] \in Debts
  BY ReadsAre
<1> QED
  BY <1>1 DEF PaidThen, PaidOn, Received

\* At the start of a Poll an order that does not exist has its invoice before it.
LEMMA OrdersComeSecond ==
  ASSUME Types, NEW d \in Debts, <<"order", d>> \in Reads
  PROVE  manifest[d].order \/ <<"invoice", d>> \in Reads
<1>1. manifest[d].id
  BY ReadsAre
<1>2. manifest[d].kind = "order" => manifest[d].order
  BY ManifestIs
<1>3. manifest[d].kind \in {"invoice", "order"}
  BY ManifestIs
<1>4. manifest[d].kind = "invoice" => <<"invoice", d>> \in Reads
  BY <1>1, ReadsAre
<1> QED
  BY <1>2, <1>3, <1>4

-----------------------------------------------------------------------------
(* The steps.                                                              *)

LEMMA InitHolds ==
  ASSUME Init
  PROVE  IInv
<1>1. /\ paid \in [Debts -> 0..Amount] /\ linkPaid \in [Debts -> {0, Amount}]
      /\ \A d \in Debts : ~manifest[d].link => linkPaid[d] = 0
      /\ todo = Reads /\ marks = <<Received>>
      /\ DOMAIN snapshots = 1..2 /\ \A n \in 1..2 : DOMAIN snapshots[n] = {}
      /\ \A n \in 1..2 : snapshots[n] \in [DOMAIN snapshots[n] -> EntryType]
  BY DEF Init
<1>2. PICK k \in 1..MaxItems : manifest \in [1..k -> ItemShapes]
  BY DEF Init
<1>3. manifest \in Seq(ItemShapes)
  BY <1>2, RereadAssumption
<1>4. \A d \in Debts : /\ Received[d].own = paid[d] /\ Received[d].link = linkPaid[d]
                       /\ paid[d] \in 0..Amount /\ linkPaid[d] \in 0..Amount
  BY <1>1, RereadAssumption DEF Received
<1>5. Received \in MarkType
  BY <1>4 DEF Received, MarkType
<1>6. /\ marks \in Seq(MarkType) /\ Len(marks) = 1 /\ marks[1] = Received
  BY <1>1, <1>5
<1>7. Types
  BY <1>1, <1>3, <1>6 DEF Types
<1>8. SecondWaits /\ ReadInOrder /\ Marked /\ ReadInTime
  BY <1>1, <1>6 DEF SecondWaits, ReadInOrder, Marked, ReadInTime, Current
<1>9. OrdersExist
  BY <1>1, <1>7, OrdersComeSecond DEF OrdersExist
<1>10. OnlyRises /\ NoLinkNoMoney
  BY <1>1, <1>4, <1>6 DEF OnlyRises, NoLinkNoMoney
<1> QED
  BY <1>7, <1>8, <1>9, <1>10 DEF IInv

\* Money that comes in, on a debt's own ids or on its link.
LEMMA PaymentKeeps ==
  ASSUME IInv, UNCHANGED <<manifest, todo, snapshots, marks>>,
         paid' \in [Debts -> 0..Amount], linkPaid' \in [Debts -> {0, Amount}],
         \A d \in Debts : /\ paid[d] <= paid'[d] /\ linkPaid[d] <= linkPaid'[d]
                          /\ ~manifest[d].link => linkPaid'[d] = linkPaid[d]
  PROVE  IInv'
<1>1. Types
  BY DEF IInv
<1>2. /\ manifest' = manifest /\ todo' = todo /\ snapshots' = snapshots /\ marks' = marks
      /\ Debts' = Debts /\ Reads' = Reads /\ MarkType' = MarkType /\ Current' = Current
  BY DEF Debts, Reads, IsRead, MarkType, Current
<1>3. Types'
  BY <1>1, <1>2 DEF Types
<1>4. SecondWaits' /\ OrdersExist' /\ ReadInOrder' /\ Marked'
  BY <1>2 DEF IInv, SecondWaits, OrdersExist, ReadInOrder, Marked
<1>5. \A d \in Debts :
        /\ paid[d] \in Nat /\ paid'[d] \in Nat /\ linkPaid[d] \in Nat /\ linkPaid'[d] \in Nat
  <2>1. /\ paid \in [Debts -> 0..Amount] /\ linkPaid \in [Debts -> {0, Amount}]
    BY <1>1 DEF Types
  <2>2. Amount \in Nat
    BY RereadAssumption
  <2>3. ASSUME NEW f, NEW g, f \in [Debts -> 0..Amount], g \in [Debts -> {0, Amount}],
               NEW d \in Debts
        PROVE  f[d] \in Nat /\ g[d] \in Nat
    BY <2>2, <2>3
  <2> QED
    BY <2>1, <2>3
<1>6. OnlyRises'
  <2>1. ASSUME NEW d \in Debts, NEW i \in 1..Len(marks)
        PROVE  marks[i][d].own <= paid'[d] /\ marks[i][d].link <= linkPaid'[d]
    <3>1. marks[i][d].own <= paid[d] /\ marks[i][d].link <= linkPaid[d]
      BY DEF IInv, OnlyRises
    <3>2. marks[i][d].own \in Nat /\ marks[i][d].link \in Nat
      BY <1>1, MarksAre
    <3> QED
      BY <1>5, <3>1, <3>2
  <2> QED
    BY <1>2, <2>1 DEF IInv, OnlyRises
<1>7. ReadInTime'
  <2>1. ASSUME NEW n \in 1..2, NEW e \in DOMAIN snapshots[n]
        PROVE  e \in Reads /\ snapshots[n][e].paid \in Nat /\ PaidOn(e) <= PaidOn(e)'
               /\ PaidOn(e) \in Nat /\ PaidOn(e)' \in Nat
    <3>1. e \in Reads /\ snapshots[n][e] \in EntryType
      BY <1>1 DEF Types
    <3>2. e[2] \in Debts
      BY <3>1, ReadsAre
    <3>3. snapshots[n][e].paid \in Nat
      BY <3>1 DEF EntryType
    <3> QED
      BY <1>5, <3>1, <3>2, <3>3 DEF PaidOn
  <2>2. ASSUME NEW n \in 1..2, NEW e \in DOMAIN snapshots[n], snapshots[n][e].ok
        PROVE  /\ snapshots[n][e].ask = Amount
               /\ PaidThen(marks[2 * n - 1], e) <= snapshots[n][e].paid
               /\ snapshots[n][e].paid <= IF Len(marks) >= 2 * n THEN PaidThen(marks[2 * n], e)
                                                                 ELSE PaidOn(e)'
    <3>1. /\ snapshots[n][e].ask = Amount
          /\ PaidThen(marks[2 * n - 1], e) <= snapshots[n][e].paid
          /\ snapshots[n][e].paid <= IF Len(marks) >= 2 * n THEN PaidThen(marks[2 * n], e)
                                                            ELSE PaidOn(e)
      BY <2>2 DEF IInv, ReadInTime
    <3>2. CASE Len(marks) >= 2 * n
      BY <3>1, <3>2
    <3>3. CASE ~(Len(marks) >= 2 * n)
      <4>1. snapshots[n][e].paid <= PaidOn(e)
        BY <3>1, <3>3
      <4>2. snapshots[n][e].paid <= PaidOn(e)'
        BY <2>1, <4>1
      <4> QED
        BY <3>1, <3>3, <4>2
    <3> QED
      BY <3>2, <3>3
  <2> QED
    BY <1>2, <2>2 DEF ReadInTime, PaidThen
<1>8. NoLinkNoMoney'
  BY <1>2 DEF IInv, NoLinkNoMoney
<1> QED
  BY <1>3, <1>4, <1>6, <1>7, <1>8 DEF IInv

LEMMA CustomerPaysKeeps ==
  ASSUME IInv, NEW d \in Debts, CustomerPays(d)
  PROVE  IInv'
<1>1. Types
  BY DEF IInv
<1>2. PICK p \in Payable(manifest[d]) : p > paid[d] /\ paid' = [paid EXCEPT ![d] = p]
  BY DEF CustomerPays
<1>3. p \in 0..Amount
  BY <1>1, <1>2, PayableIs
<1>4. /\ paid' \in [Debts -> 0..Amount] /\ linkPaid' = linkPaid
      /\ linkPaid \in [Debts -> {0, Amount}]
      /\ UNCHANGED <<manifest, todo, snapshots, marks>>
  BY <1>1, <1>2, <1>3 DEF Types, CustomerPays
<1>5. \A c \in Debts : paid[c] <= paid'[c] /\ linkPaid[c] <= linkPaid'[c] /\ linkPaid'[c] = linkPaid[c]
  <2>1. \A c \in Debts : paid[c] \in Nat /\ linkPaid[c] \in Nat
    BY <1>1, RereadAssumption DEF Types
  <2>2. p \in Nat
    BY <1>3
  <2>3. \A c \in Debts : paid'[c] = IF c = d THEN p ELSE paid[c]
    BY <1>1, <1>2 DEF Types
  <2> QED
    BY <1>2, <1>4, <2>1, <2>2, <2>3
<1> QED
  BY <1>4, <1>5, PaymentKeeps

LEMMA CustomerPaysLinkKeeps ==
  ASSUME IInv, NEW d \in Debts, CustomerPaysLink(d)
  PROVE  IInv'
<1>1. Types
  BY DEF IInv
<1>2. /\ linkPaid' = [linkPaid EXCEPT ![d] = Amount] /\ linkPaid[d] = 0 /\ manifest[d].link
      /\ paid' = paid /\ UNCHANGED <<manifest, todo, snapshots, marks>>
  BY DEF CustomerPaysLink
<1>3. /\ linkPaid' \in [Debts -> {0, Amount}] /\ paid' \in [Debts -> 0..Amount]
      /\ \A c \in Debts : linkPaid'[c] = IF c = d THEN Amount ELSE linkPaid[c]
  BY <1>1, <1>2 DEF Types
<1>4. \A c \in Debts : /\ paid[c] <= paid'[c] /\ linkPaid[c] <= linkPaid'[c]
                       /\ ~manifest[c].link => linkPaid'[c] = linkPaid[c]
  <2>1. \A c \in Debts : paid[c] \in Nat /\ linkPaid[c] \in Nat
    BY <1>1, RereadAssumption DEF Types
  <2>2. Amount \in Nat
    BY RereadAssumption
  <2> QED
    BY <1>2, <1>3, <2>1, <2>2
<1> QED
  BY <1>2, <1>3, <1>4, PaymentKeeps

\* One call of Poll: the entry it adds, told by the snapshot as it was.
LEMMA EntryIs ==
  ASSUME Types, NEW s, NEW e \in Reads, NEW ok \in BOOLEAN
  PROVE  /\ EntryFor(s, e, ok) \in EntryType
         /\ EntryFor(s, e, ok).ok <=> ok
         /\ EntryFor(s, e, ok).mark = MarkOf(s, e, ok)
         /\ ok => EntryFor(s, e, ok).ask = Amount /\ EntryFor(s, e, ok).paid = PaidOn(e)
<1>1. PaidOn(e) \in 0..Amount
  <2>1. e[2] \in Debts
    BY ReadsAre
  <2> QED
    BY <2>1, PaidNow, ReceivedIs
<1>2. Amount \in 0..Amount /\ 0 \in 0..Amount
  BY RereadAssumption
<1>3. MarkOf(s, e, ok) \in {"none", "debt", "ask"}
  BY MarkIs
<1> QED
  BY <1>1, <1>2, <1>3 DEF EntryFor, EntryType

LEMMA FetchKeeps ==
  ASSUME IInv, NEW e \in todo, NEW ok \in BOOLEAN, Fetch(e, ok)
  PROVE  IInv'
<1>1. Types /\ e \in Reads /\ e[2] \in Debts /\ e[1] \in Surfaces /\ e = <<e[1], e[2]>>
  BY ReadsAre DEF IInv, Types
<1>2. /\ Len(marks) \in {1, 3} /\ \A x \in todo : ~Precedes(x, e)
      /\ todo' = LeftAfter(e, ok)
      /\ manifest' = manifest /\ paid' = paid /\ linkPaid' = linkPaid /\ marks' = marks
  BY DEF Fetch, Polling
<1>3. PICK c : c = Current
  OBVIOUS
<1>4. c \in 1..2 /\ Len(marks) = 2 * c - 1
  <2>1. CASE Len(marks) = 1
    BY <1>3, <2>1 DEF Current
  <2>2. CASE Len(marks) = 3
    BY <1>3, <2>2 DEF Current
  <2> QED
    BY <1>2, <2>1, <2>2
<1>5. PICK s : s = snapshots[c]
  OBVIOUS
<1>6. PICK new : new = EntryFor(s, e, ok)
  OBVIOUS
<1>7. /\ new \in EntryType /\ (new.ok <=> ok) /\ new.mark = MarkOf(s, e, ok)
      /\ ok => new.ask = Amount /\ new.paid = PaidOn(e)
  BY <1>1, <1>6, EntryIs
<1>8. PICK t : t = [x \in DOMAIN s \cup {e} |-> IF x = e THEN new ELSE s[x]]
  OBVIOUS
<1>9. snapshots' = [snapshots EXCEPT ![c] = t]
  BY <1>3, <1>5, <1>6, <1>8 DEF Fetch
<1>10. /\ DOMAIN snapshots' = 1..2 /\ snapshots'[c] = t
       /\ \A n \in 1..2 : n # c => snapshots'[n] = snapshots[n]
  BY <1>1, <1>4, <1>9 DEF Types
<1>11. /\ DOMAIN t = DOMAIN s \cup {e} /\ t[e] = new /\ \A x \in DOMAIN s : x # e => t[x] = s[x]
  BY <1>8
<1>12. s \in [DOMAIN s -> EntryType] /\ DOMAIN s \subseteq Reads
  BY <1>1, <1>4, <1>5 DEF Types
<1>13. todo' \subseteq todo /\ e \notin todo'
  BY <1>2 DEF LeftAfter
<1>14. /\ Debts' = Debts /\ Reads' = Reads /\ MarkType' = MarkType /\ Current' = Current
  BY <1>2 DEF Debts, Reads, IsRead, MarkType, Current
<1>15. \A x \in DOMAIN s : ~Precedes(e, x)
  BY <1>3, <1>5 DEF IInv, ReadInOrder
<1>16. Types'
  <2>1. t \in [DOMAIN t -> EntryType] /\ DOMAIN t \subseteq Reads
    <3>1. \A x \in DOMAIN t : (IF x = e THEN new ELSE s[x]) \in EntryType
      BY <1>7, <1>11, <1>12
    <3>2. DOMAIN t \subseteq Reads
      BY <1>1, <1>11, <1>12
    <3> QED
      BY <1>8, <1>11, <3>1, <3>2
  <2>2. \A n \in 1..2 : snapshots'[n] \in [DOMAIN snapshots'[n] -> EntryType]
                        /\ DOMAIN snapshots'[n] \subseteq Reads
    BY <1>1, <1>10, <2>1 DEF Types
  <2> QED
    BY <1>1, <1>2, <1>10, <1>13, <1>14, <2>2 DEF Types
<1>17. SecondWaits'
  BY <1>2, <1>4, <1>10 DEF IInv, SecondWaits
<1>18. OrdersExist'
  <2>1. ASSUME NEW d \in Debts, <<"order", d>> \in todo'
        PROVE  manifest[d].order \/ <<"invoice", d>> \in todo'
    <3>1. manifest[d].order \/ <<"invoice", d>> \in todo
      BY <1>13, <2>1 DEF IInv, OrdersExist
    <3>2. CASE e = <<"invoice", d>>
      <4>1. e[1] = "invoice" /\ e[2] = d
        BY <3>2
      <4>2. OrderNamed(d, ok)
        BY <1>2, <2>1, <4>1 DEF LeftAfter
      <4> QED
        BY <4>2 DEF OrderNamed
    <3>3. CASE e # <<"invoice", d>>
      <4>1. <<"invoice", d>> \in todo => <<"invoice", d>> \in todo'
        BY <1>2, <3>3 DEF LeftAfter
      <4> QED
        BY <3>1, <4>1
    <3> QED
      BY <3>2, <3>3
  <2>2. ASSUME NEW d \in Debts, e = <<"order", d>>
        PROVE  manifest[d].order
    <3>1. <<"invoice", d>> \notin todo
      BY <1>2, <2>2, WhatPrecedes
    <3> QED
      BY <2>2, <3>1 DEF IInv, OrdersExist
  <2>3. ASSUME NEW d \in Debts, NEW n \in 1..2, <<"order", d>> \in DOMAIN snapshots'[n]
        PROVE  manifest[d].order
    <3>1. <<"order", d>> \in DOMAIN snapshots[n] \/ <<"order", d>> = e
      BY <1>5, <1>10, <1>11, <2>3
    <3> QED
      BY <2>2, <3>1 DEF IInv, OrdersExist
  <2> QED
    BY <1>2, <1>14, <2>1, <2>3 DEF OrdersExist
<1>19. ReadInOrder'
  <2>1. \A x \in DOMAIN t, y \in todo' : ~Precedes(y, x)
    BY <1>2, <1>3, <1>5, <1>11, <1>13 DEF IInv, ReadInOrder
  <2> QED
    BY <1>3, <1>4, <1>10, <1>14, <2>1 DEF ReadInOrder
<1>20. Marked'
  <2>1. ASSUME NEW x \in DOMAIN t
        PROVE  t[x].mark = MarkOf(t, x, t[x].ok)
    <3>1. t[x].ok \in BOOLEAN
      BY <1>7, <1>11, <1>12 DEF EntryType
    <3>2. \A y : y # e => (ReadIn(s, y) <=> ReadIn(t, y))
      BY <1>11 DEF ReadIn
    <3>3. CASE x = e
      <4>1. <<"invoice", e[2]>> # e \/ e[1] # "order"
        BY <1>1
      <4>2. <<"order", e[2]>> # e \/ e[1] # "payment_link"
        BY <1>1
      <4>3. MarkOf(s, e, ok) = MarkOf(t, e, ok)
        BY <3>2, <4>1, <4>2, MarkStays
      <4>4. t[x].ok = ok
        BY <1>7, <1>11, <3>1, <3>3
      <4> QED
        BY <1>7, <1>11, <3>3, <4>3, <4>4
    <3>4. CASE x # e
      <4>1. x \in DOMAIN s /\ t[x] = s[x] /\ x \in Reads /\ x = <<x[1], x[2]>>
        BY <1>11, <1>12, <3>4, ReadsAre
      <4>2. x[1] = "order" => e # <<"invoice", x[2]>>
        BY <1>15, <4>1, WhatPrecedes
      <4>3. x[1] = "payment_link" => e # <<"order", x[2]>>
        BY <1>15, <4>1, WhatPrecedes
      <4>4. MarkOf(s, x, t[x].ok) = MarkOf(t, x, t[x].ok)
        BY <3>1, <3>2, <4>2, <4>3, MarkStays
      <4>5. s[x].mark = MarkOf(s, x, s[x].ok)
        BY <1>4, <1>5, <4>1 DEF IInv, Marked
      <4> QED
        BY <4>1, <4>4, <4>5
    <3> QED
      BY <3>3, <3>4
  <2>2. ASSUME NEW n \in 1..2, NEW x \in DOMAIN snapshots'[n]
        PROVE  snapshots'[n][x].mark = MarkOf(snapshots'[n], x, snapshots'[n][x].ok)
    <3>1. CASE n = c
      BY <1>10, <2>1, <2>2, <3>1
    <3>2. CASE n # c
      <4>1. snapshots'[n] = snapshots[n]
        BY <1>10, <3>2
      <4> QED
        BY <2>2, <4>1 DEF IInv, Marked
    <3> QED
      BY <3>1, <3>2
  <2> QED
    BY <2>2 DEF Marked, MarkOf, ReadIn
<1>21. OnlyRises' /\ NoLinkNoMoney'
  BY <1>2, <1>14 DEF IInv, OnlyRises, NoLinkNoMoney
<1>22. ReadInTime'
  <2>1. ASSUME NEW n \in 1..2, NEW x \in DOMAIN snapshots'[n], snapshots'[n][x].ok
        PROVE  /\ snapshots'[n][x].ask = Amount
               /\ PaidThen(marks[2 * n - 1], x) <= snapshots'[n][x].paid
               /\ snapshots'[n][x].paid <= IF Len(marks) >= 2 * n THEN PaidThen(marks[2 * n], x)
                                                                   ELSE PaidOn(x)
    <3>1. CASE n = c /\ x = e
      <4>1. ok /\ snapshots'[n][x] = new
        BY <1>7, <1>10, <1>11, <2>1, <3>1
      <4>2. ~(Len(marks) >= 2 * n)
        BY <1>4, <3>1
      <4>3. PaidThen(marks[2 * n - 1], e) <= PaidOn(e)
        <5>1. 2 * n - 1 \in 1..Len(marks)
          BY <1>4, <3>1
        <5>2. /\ marks[2 * n - 1][e[2]].own <= paid[e[2]]
              /\ marks[2 * n - 1][e[2]].link <= linkPaid[e[2]]
          BY <1>1, <5>1 DEF IInv, OnlyRises
        <5> QED
          BY <1>1, <5>2, PaidNow DEF PaidThen
      <4>4. PaidOn(e) \in Nat
        BY <1>1, PaidNow, ReceivedIs
      <4> QED
        BY <1>7, <3>1, <4>1, <4>2, <4>3, <4>4
    <3>2. CASE ~(n = c /\ x = e)
      <4>1. x \in DOMAIN snapshots[n] /\ snapshots'[n][x] = snapshots[n][x]
        BY <1>5, <1>10, <1>11, <2>1, <3>2
      <4> QED
        BY <2>1, <4>1 DEF IInv, ReadInTime
    <3> QED
      BY <3>1, <3>2
  <2> QED
    BY <1>2, <2>1 DEF ReadInTime, PaidThen, PaidOn
<1> QED
  BY <1>16, <1>17, <1>18, <1>19, <1>20, <1>21, <1>22 DEF IInv

\* A Poll begins or ends: what has been paid by now is marked.
LEMMA MarkKeeps ==
  ASSUME IInv, Len(marks) \in 1..3, marks' = Append(marks, Received),
         manifest' = manifest, paid' = paid, linkPaid' = linkPaid, snapshots' = snapshots
  PROVE  /\ Len(marks') = Len(marks) + 1 /\ marks' \in Seq(MarkType')
         /\ OnlyRises' /\ ReadInTime' /\ NoLinkNoMoney'
<1>1. Types /\ Debts' = Debts /\ Reads' = Reads /\ MarkType' = MarkType
  BY DEF IInv, Debts, Reads, IsRead, MarkType
<1>2. PICK l : l = Len(marks)
  OBVIOUS
<1>3. PICK more : more = marks'
  OBVIOUS
<1>4. /\ l \in 1..3 /\ more \in Seq(MarkType) /\ Len(more) = l + 1
      /\ more[l + 1] = Received /\ \A i \in 1..l : more[i] = marks[i]
  BY <1>1, <1>2, <1>3, ReceivedIs DEF Types
<1>5. \A d \in Debts : /\ Received[d].own = paid[d] /\ Received[d].link = linkPaid[d]
                       /\ paid[d] \in Nat /\ linkPaid[d] \in Nat
  BY <1>1, ReceivedIs
<1>6. ASSUME NEW d \in Debts, NEW i \in 1..l
      PROVE  /\ marks[i][d].own <= paid[d] /\ marks[i][d].link <= linkPaid[d]
             /\ \A j \in i..l : /\ marks[i][d].own <= marks[j][d].own
                                /\ marks[i][d].link <= marks[j][d].link
  BY <1>2 DEF IInv, OnlyRises
<1>7. OnlyRises'
  <2>1. ASSUME NEW d \in Debts, NEW i \in 1..l + 1
        PROVE  more[i][d].own <= paid[d] /\ more[i][d].link <= linkPaid[d]
    <3>1. CASE i = l + 1
      BY <1>4, <1>5, <3>1
    <3>2. CASE i # l + 1
      <4>1. i \in 1..l
        BY <1>4, <3>2
      <4> QED
        BY <1>4, <1>6, <4>1
    <3> QED
      BY <3>1, <3>2
  <2>2. ASSUME NEW d \in Debts, NEW i \in 1..l + 1, NEW j \in i..l + 1
        PROVE  more[i][d].own <= more[j][d].own /\ more[i][d].link <= more[j][d].link
    <3>1. CASE j = l + 1
      BY <1>4, <1>5, <2>1, <3>1
    <3>2. CASE j # l + 1
      <4>1. i \in 1..l /\ j \in i..l /\ j \in 1..l
        BY <1>4, <3>2
      <4> QED
        BY <1>4, <1>6, <4>1
    <3> QED
      BY <3>1, <3>2
  <2> QED
    BY <1>1, <1>3, <1>4, <2>1, <2>2 DEF OnlyRises
<1>8. NoLinkNoMoney'
  <2>1. ASSUME NEW d \in Debts, ~manifest[d].link, NEW i \in 1..l + 1
        PROVE  linkPaid[d] = 0 /\ more[i][d].link = 0
    <3>1. linkPaid[d] = 0 /\ \A k \in 1..l : marks[k][d].link = 0
      BY <1>2, <2>1 DEF IInv, NoLinkNoMoney
    <3>2. CASE i = l + 1
      BY <1>4, <1>5, <3>1, <3>2
    <3>3. CASE i # l + 1
      <4>1. i \in 1..l
        BY <1>4, <3>3
      <4> QED
        BY <1>4, <3>1, <4>1
    <3> QED
      BY <3>2, <3>3
  <2> QED
    BY <1>1, <1>3, <1>4, <2>1 DEF NoLinkNoMoney
<1>9. ReadInTime'
  <2>1. ASSUME NEW n \in 1..2, NEW x \in DOMAIN snapshots[n], snapshots[n][x].ok
        PROVE  /\ snapshots[n][x].ask = Amount
               /\ PaidThen(more[2 * n - 1], x) <= snapshots[n][x].paid
               /\ snapshots[n][x].paid <= IF Len(more) >= 2 * n THEN PaidThen(more[2 * n], x)
                                                                 ELSE PaidOn(x)
    <3>1. /\ snapshots[n][x].ask = Amount
          /\ PaidThen(marks[2 * n - 1], x) <= snapshots[n][x].paid
          /\ snapshots[n][x].paid <= IF l >= 2 * n THEN PaidThen(marks[2 * n], x) ELSE PaidOn(x)
      BY <1>2, <2>1 DEF IInv, ReadInTime
    <3>2. x \in Reads
      BY <1>1 DEF Types
    <3>3. 2 * n - 1 \in 1..l
      <4>1. n = 2 => l > 2
        BY <1>2, <1>4 DEF IInv, SecondWaits
      <4> QED
        BY <1>4, <4>1
    <3>4. more[2 * n - 1] = marks[2 * n - 1]
      BY <1>4, <3>3
    <3>5. CASE l >= 2 * n
      <4>1. 2 * n \in 1..l
        BY <1>4, <3>5
      <4>2. more[2 * n] = marks[2 * n] /\ Len(more) >= 2 * n
        BY <1>4, <3>5, <4>1
      <4> QED
        BY <3>1, <3>4, <3>5, <4>2
    <3>6. CASE l < 2 * n
      <4>1. l + 1 = 2 * n
        BY <1>4, <3>3, <3>6
      <4>2. more[2 * n] = Received /\ Len(more) >= 2 * n
        BY <1>4, <4>1
      <4>3. ~(l >= 2 * n)
        BY <1>4, <3>6
      <4> QED
        BY <3>1, <3>2, <3>4, <4>2, <4>3, PaidNow
    <3> QED
      BY <1>4, <3>5, <3>6
  <2> QED
    BY <1>3, <2>1 DEF ReadInTime, PaidThen, PaidOn
<1> QED
  BY <1>1, <1>2, <1>3, <1>4, <1>7, <1>8, <1>9

LEMMA EndPollKeeps ==
  ASSUME IInv, EndPoll
  PROVE  IInv'
<1>1. /\ Len(marks) \in {1, 3} /\ todo = {} /\ marks' = Append(marks, Received)
      /\ manifest' = manifest /\ paid' = paid /\ linkPaid' = linkPaid /\ todo' = todo
      /\ snapshots' = snapshots
  BY DEF EndPoll, Polling
<1>2. /\ Len(marks') = Len(marks) + 1 /\ marks' \in Seq(MarkType')
      /\ OnlyRises' /\ ReadInTime' /\ NoLinkNoMoney'
  <2>1. Len(marks) \in 1..3
    BY <1>1
  <2> QED
    BY <1>1, <2>1, MarkKeeps
<1>3. Debts' = Debts /\ Reads' = Reads
  BY <1>1 DEF Debts, Reads, IsRead
<1>4. Types'
  <2>1. Len(marks') \in 1..4
    BY <1>1, <1>2
  <2> QED
    BY <1>1, <1>2, <1>3, <2>1 DEF IInv, Types
<1>5. SecondWaits'
  BY <1>1, <1>2 DEF IInv, SecondWaits
<1>6. OrdersExist' /\ ReadInOrder'
  BY <1>1, <1>3 DEF IInv, OrdersExist, ReadInOrder
<1>7. Marked'
  BY <1>1 DEF IInv, Marked
<1> QED
  BY <1>2, <1>4, <1>5, <1>6, <1>7 DEF IInv

LEMMA PollAgainKeeps ==
  ASSUME IInv, PollAgain
  PROVE  IInv'
<1>1. /\ Len(marks) = 2 /\ todo' = Reads /\ marks' = Append(marks, Received)
      /\ manifest' = manifest /\ paid' = paid /\ linkPaid' = linkPaid
      /\ snapshots' = snapshots
  BY DEF PollAgain
<1>2. /\ Len(marks') = 3 /\ marks' \in Seq(MarkType')
      /\ OnlyRises' /\ ReadInTime' /\ NoLinkNoMoney'
  <2>1. Len(marks) \in 1..3
    BY <1>1
  <2> QED
    BY <1>1, <2>1, MarkKeeps
<1>3. Debts' = Debts /\ Reads' = Reads
  BY <1>1 DEF Debts, Reads, IsRead
<1>4. Types'
  BY <1>1, <1>2, <1>3 DEF IInv, Types
<1>5. SecondWaits'
  BY <1>2 DEF SecondWaits
<1>6. DOMAIN snapshots[2] = {}
  BY <1>1 DEF IInv, SecondWaits
<1>7. ReadInOrder'
  BY <1>1, <1>2, <1>6 DEF ReadInOrder, Current
<1>8. OrdersExist'
  BY <1>1, <1>3, OrdersComeSecond DEF IInv, OrdersExist
<1>9. Marked'
  BY <1>1 DEF IInv, Marked
<1> QED
  BY <1>2, <1>4, <1>5, <1>7, <1>8, <1>9 DEF IInv

LEMMA NextKeeps ==
  ASSUME IInv, [Next]_vars
  PROVE  IInv'
<1>1. CASE UNCHANGED vars
  <2>1. /\ manifest' = manifest /\ paid' = paid /\ linkPaid' = linkPaid
        /\ UNCHANGED <<manifest, todo, snapshots, marks>>
    BY <1>1 DEF vars
  <2>2. paid \in [Debts -> 0..Amount] /\ linkPaid \in [Debts -> {0, Amount}]
    BY DEF IInv, Types
  <2>3. \A d \in Debts : paid[d] <= paid[d] /\ linkPaid[d] <= linkPaid[d]
    BY <2>2, RereadAssumption
  <2> QED
    BY <2>1, <2>2, <2>3, PaymentKeeps
<1>2. CASE EndPoll
  BY <1>2, EndPollKeeps
<1>3. CASE PollAgain
  BY <1>3, PollAgainKeeps
<1>4. CASE \E e \in todo, ok \in BOOLEAN : Fetch(e, ok)
  <2>1. PICK e \in todo, ok \in BOOLEAN : Fetch(e, ok)
    BY <1>4
  <2> QED
    BY <2>1, FetchKeeps
<1>5. CASE \E d \in Debts : CustomerPays(d) \/ CustomerPaysLink(d)
  BY <1>5, CustomerPaysKeeps, CustomerPaysLinkKeeps
<1> QED
  BY <1>1, <1>2, <1>3, <1>4, <1>5 DEF Next

THEOREM InvariantAlways == Spec => []IInv
<1>1. Init => IInv
  BY InitHolds
<1>2. IInv /\ [Next]_vars => IInv'
  BY NextKeeps
<1> QED
  BY <1>1, <1>2, PTL DEF Spec

-----------------------------------------------------------------------------
(* What it gives.                                                          *)

\* The values the state takes, and that an order is read only where there is one
\* (Poll).
THEOREM TypeCorrect == Spec => []TypeOK
<1>1. IInv => TypeOK
  <2> SUFFICES ASSUME IInv PROVE TypeOK
    OBVIOUS
  <2>1. Types
    BY DEF IInv
  <2>2. ASSUME NEW n \in 1..2, NEW e \in DOMAIN snapshots[n]
        PROVE  /\ e \in Reads
               /\ snapshots[n][e].ask \in 0..Amount /\ snapshots[n][e].paid \in 0..Amount
               /\ snapshots[n][e].mark \in {"none", "debt", "ask"}
               /\ e[1] = "order" => manifest[e[2]].order
    <3>1. e \in Reads /\ snapshots[n][e] \in EntryType
      BY <2>1 DEF Types
    <3>2. e[2] \in Debts /\ e = <<e[1], e[2]>>
      BY <3>1, ReadsAre
    <3>3. e[1] = "order" => manifest[e[2]].order
      BY <3>2 DEF IInv, OrdersExist
    <3> QED
      BY <3>1, <3>3 DEF EntryType
  <2> QED
    BY <2>1, <2>2 DEF TypeOK, Types
<1> QED
  BY <1>1, InvariantAlways, PTL

\* What an entry of this debt restates.
LEMMA MarkOn ==
  ASSUME IInv, NEW n \in 1..2, NEW d \in Debts
  PROVE  /\ <<"invoice", d>> \in DOMAIN snapshots[n] => snapshots[n][<<"invoice", d>>].mark = "none"
         /\ <<"order", d>> \in DOMAIN snapshots[n] =>
              snapshots[n][<<"order", d>>].mark =
                IF ReadIn(snapshots[n], <<"invoice", d>>) THEN "debt" ELSE "none"
         /\ ReadIn(snapshots[n], <<"payment_link", d>>) =>
              snapshots[n][<<"payment_link", d>>].mark =
                IF ReadIn(snapshots[n], <<"order", d>>) THEN "ask" ELSE "none"
         /\ <<"payment_link", d>> \in DOMAIN snapshots[n] =>
              snapshots[n][<<"payment_link", d>>].mark # "debt"
<1>1. ASSUME NEW e \in DOMAIN snapshots[n]
      PROVE  /\ snapshots[n][e].ok \in BOOLEAN
             /\ snapshots[n][e].mark = MarkOf(snapshots[n], e, snapshots[n][e].ok)
  <2>1. snapshots[n][e] \in EntryType
    BY DEF IInv, Types
  <2> QED
    BY <2>1 DEF EntryType, IInv, Marked
<1>2. ASSUME NEW k \in Surfaces, <<k, d>> \in DOMAIN snapshots[n]
      PROVE  /\ snapshots[n][<<k, d>>].mark \in {"none", "debt", "ask"}
             /\ snapshots[n][<<k, d>>].mark = "debt" <=>
                  k = "order" /\ ReadIn(snapshots[n], <<"invoice", d>>)
             /\ snapshots[n][<<k, d>>].mark = "ask" <=>
                  /\ k = "payment_link" /\ snapshots[n][<<k, d>>].ok
                  /\ ReadIn(snapshots[n], <<"order", d>>)
  <2>1. PICK e : e = <<k, d>>
    OBVIOUS
  <2>2. e[1] = k /\ e[2] = d /\ e \in DOMAIN snapshots[n]
    BY <1>2, <2>1
  <2>3. /\ snapshots[n][e].ok \in BOOLEAN
        /\ snapshots[n][e].mark = MarkOf(snapshots[n], e, snapshots[n][e].ok)
    BY <1>1, <2>2
  <2>4. /\ snapshots[n][e].mark \in {"none", "debt", "ask"}
        /\ snapshots[n][e].mark = "debt" <=>
             e[1] = "order" /\ ReadIn(snapshots[n], <<"invoice", e[2]>>)
        /\ snapshots[n][e].mark = "ask" <=>
             /\ e[1] = "payment_link" /\ snapshots[n][e].ok
             /\ ReadIn(snapshots[n], <<"order", e[2]>>)
    BY <2>3, MarkIs
  <2> QED
    BY <2>1, <2>2, <2>4
<1>3. "invoice" \in Surfaces /\ "order" \in Surfaces /\ "payment_link" \in Surfaces
  BY DEF Surfaces
<1>4. ReadIn(snapshots[n], <<"payment_link", d>>) =>
        /\ <<"payment_link", d>> \in DOMAIN snapshots[n]
        /\ snapshots[n][<<"payment_link", d>>].ok
  BY DEF ReadIn
<1> QED
  BY <1>2, <1>3, <1>4

\* An invoice is read only of an item that is one, a link only where there is one.
LEMMA ReadIsThere ==
  ASSUME IInv, NEW n \in 1..2, NEW d \in Debts
  PROVE  /\ ReadIn(snapshots[n], <<"invoice", d>>) => manifest[d].kind = "invoice"
         /\ ReadIn(snapshots[n], <<"payment_link", d>>) => manifest[d].link
<1>1. DOMAIN snapshots[n] \subseteq Reads
  BY DEF IInv, Types
<1> QED
  BY <1>1, ReadsAre DEF ReadIn

\* The gross of a snapshot holds a debt once when all its ids were read, of a
\* book of any length (Poll).
THEOREM AskAlwaysOnce == Spec => []AskCountedOnce
<1>1. IInv => AskCountedOnce
  <2> SUFFICES ASSUME IInv, NEW n \in 1..2, Len(marks) >= 2 * n, NEW d \in Debts,
                      WhollyRead(snapshots[n], d)
               PROVE  GrossOf(snapshots[n], d) = Amount
    BY DEF AskCountedOnce
  <2> DEFINE In(k) == ReadIn(snapshots[n], <<k, d>>)
             mark(k) == snapshots[n][<<k, d>>].mark
             ask(k) == AskIn(snapshots[n], <<k, d>>)
  <2>1. /\ In("invoice") => mark("invoice") = "none"
        /\ In("order") => mark("order") = IF In("invoice") THEN "debt" ELSE "none"
        /\ In("payment_link") => mark("payment_link") = IF In("order") THEN "ask" ELSE "none"
    BY MarkOn DEF ReadIn
  <2>2. ASSUME NEW k
        PROVE  ask(k) = IF In(k) /\ mark(k) = "none" THEN Amount ELSE 0
    <3>1. In(k) => snapshots[n][<<k, d>>].ask = Amount
      BY DEF IInv, ReadInTime, ReadIn
    <3> QED
      BY <3>1 DEF AskIn
  <2>3. /\ manifest[d].kind = "invoice" => In("invoice")
        /\ manifest[d].kind = "order" => In("order")
        /\ manifest[d].order => In("order")
    <3>1. manifest[d].id /\ Types
      BY DEF WhollyRead, IInv
    <3>2. /\ manifest[d].kind = "invoice" => <<"invoice", d>> \in Reads
          /\ <<"order", d>> \in Reads
      BY <3>1, ReadsAre
    <3>3. manifest[d].kind = "order" => manifest[d].order
      BY <3>1, ManifestIs
    <3> QED
      BY <3>2, <3>3 DEF WhollyRead
  <2>4. /\ manifest[d].kind \in {"invoice", "order"}
        /\ manifest[d].link => manifest[d].order
    BY ManifestIs DEF IInv
  <2>5. /\ In("invoice") => manifest[d].kind = "invoice"
        /\ In("payment_link") => manifest[d].link
    BY ReadIsThere
  <2>6. Amount \in Nat
    BY RereadAssumption
  <2>7. GrossOf(snapshots[n], d) = ask("invoice") + ask("order") + ask("payment_link")
    BY DEF GrossOf
  <2> HIDE DEF In, mark, ask
  <2> QED
    BY <2>1, <2>2, <2>3, <2>4, <2>5, <2>6, <2>7
<1> QED
  BY <1>1, InvariantAlways, PTL

\* What is reported as collected on a debt was received, and what was received
\* between two Polls that read the same ids is reported, of a book of any length,
\* whichever reads fail and whenever customers pay (Diff).
THEOREM CollectedAlwaysRight == Spec => []CollectedIsRight
<1>1. IInv => CollectedIsRight
  <2> SUFFICES ASSUME IInv, Finished, NEW d \in Debts
               PROVE  /\ RecoveredOf(d) <= CameIn(d, 1, 4)
                      /\ SameRead(d) => RecoveredOf(d) >= CameIn(d, 2, 3)
    BY DEF CollectedIsRight
  <2>1. Types /\ Len(marks) = 4
    BY DEF IInv, Finished
  <2> DEFINE Both(k) == Compared(<<k, d>>)
             rise(k) == RiseOn(<<k, d>>)
             own(i)  == marks[i][d].own
             link(i) == marks[i][d].link
             p(n, k) == snapshots[n][<<k, d>>].paid
             In(n, k) == ReadIn(snapshots[n], <<k, d>>)
             Free(k) == Counted(<<k, d>>)
  <2>2. /\ own(1) <= own(2) /\ own(2) <= own(3) /\ own(3) <= own(4)
        /\ link(1) <= link(2) /\ link(2) <= link(3) /\ link(3) <= link(4)
    BY <2>1 DEF IInv, OnlyRises
  <2>3. \A i \in 1..4 : own(i) \in Nat /\ link(i) \in Nat
    BY <2>1, MarksAre
  <2>4. ASSUME NEW n \in 1..2, NEW k \in {"invoice", "order"}, In(n, k)
        PROVE  own(2 * n - 1) <= p(n, k) /\ p(n, k) <= own(2 * n) /\ p(n, k) \in Nat
    <3>1. Len(marks) >= 2 * n
      BY <2>1
    <3>2. <<k, d>> \in DOMAIN snapshots[n] /\ snapshots[n][<<k, d>>].ok
      BY <2>4 DEF ReadIn
    <3>3. /\ PaidThen(marks[2 * n - 1], <<k, d>>) <= p(n, k)
          /\ p(n, k) <= PaidThen(marks[2 * n], <<k, d>>)
      BY <3>1, <3>2 DEF IInv, ReadInTime
    <3>4. snapshots[n][<<k, d>>] \in EntryType
      BY <2>1, <3>2 DEF Types
    <3> QED
      BY <3>3, <3>4 DEF PaidThen, EntryType
  <2>5. ASSUME NEW n \in 1..2, In(n, "payment_link")
        PROVE  /\ link(2 * n - 1) <= p(n, "payment_link") /\ p(n, "payment_link") <= link(2 * n)
               /\ p(n, "payment_link") \in Nat
    <3>1. Len(marks) >= 2 * n
      BY <2>1
    <3>2. <<"payment_link", d>> \in DOMAIN snapshots[n] /\ snapshots[n][<<"payment_link", d>>].ok
      BY <2>5 DEF ReadIn
    <3>3. /\ PaidThen(marks[2 * n - 1], <<"payment_link", d>>) <= p(n, "payment_link")
          /\ p(n, "payment_link") <= PaidThen(marks[2 * n], <<"payment_link", d>>)
      BY <3>1, <3>2 DEF IInv, ReadInTime
    <3>4. snapshots[n][<<"payment_link", d>>] \in EntryType
      BY <2>1, <3>2 DEF Types
    <3> QED
      BY <3>3, <3>4 DEF PaidThen, EntryType
  <2>6. \A k : /\ Both(k) <=> In(1, k) /\ In(2, k)
               /\ rise(k) = IF Both(k) /\ Free(k) THEN p(2, k) - p(1, k) ELSE 0
    BY DEF Compared, RiseOn
  <2>7. /\ Both("invoice") => Free("invoice")
        /\ Both("payment_link") => Free("payment_link")
        /\ Both("order") => (Free("order") <=> ~In(1, "invoice") /\ ~In(2, "invoice"))
    BY MarkOn DEF Compared, ReadIn, Counted, MarksOn
  <2>8. /\ RecoveredOf(d) = rise("invoice") + rise("order") + rise("payment_link")
        /\ CameIn(d, 1, 4) = (own(4) - own(1)) + (link(4) - link(1))
        /\ CameIn(d, 2, 3) = (own(3) - own(2)) + (link(3) - link(2))
    BY DEF RecoveredOf, CameIn
  <2>9. SameRead(d) =>
          /\ In(1, "invoice") <=> In(2, "invoice")
          /\ Both("invoice") \/ Both("order")
          /\ manifest[d].link => Both("payment_link")
    BY DEF SameRead, Surfaces
  <2>10. ~manifest[d].link => link(2) = 0 /\ link(3) = 0
    BY <2>1 DEF IInv, NoLinkNoMoney
  <2> HIDE DEF Both, rise, own, link, p, In, Free
  <2>11. \A k \in {"invoice", "order"} : Both(k) =>
           /\ own(3) - own(2) <= p(2, k) - p(1, k) /\ p(2, k) - p(1, k) <= own(4) - own(1)
           /\ p(2, k) - p(1, k) \in Int
    <3>1. ASSUME NEW k \in {"invoice", "order"}, Both(k)
          PROVE  /\ own(3) - own(2) <= p(2, k) - p(1, k) /\ p(2, k) - p(1, k) <= own(4) - own(1)
                 /\ p(2, k) - p(1, k) \in Int
      <4>1. own(1) <= p(1, k) /\ p(1, k) <= own(2) /\ p(1, k) \in Nat
        <5>1. own(2 * 1 - 1) <= p(1, k) /\ p(1, k) <= own(2 * 1) /\ p(1, k) \in Nat
          BY <2>4, <2>6, <3>1
        <5> QED
          BY <5>1
      <4>2. own(3) <= p(2, k) /\ p(2, k) <= own(4) /\ p(2, k) \in Nat
        <5>1. own(2 * 2 - 1) <= p(2, k) /\ p(2, k) <= own(2 * 2) /\ p(2, k) \in Nat
          BY <2>4, <2>6, <3>1
        <5> QED
          BY <5>1
      <4> QED
        BY <2>3, <4>1, <4>2
    <3> QED
      BY <3>1
  <2>12. Both("payment_link") =>
           /\ link(3) - link(2) <= p(2, "payment_link") - p(1, "payment_link")
           /\ p(2, "payment_link") - p(1, "payment_link") <= link(4) - link(1)
           /\ p(2, "payment_link") - p(1, "payment_link") \in Int
    <3> SUFFICES ASSUME Both("payment_link")
                 PROVE  /\ link(3) - link(2) <= p(2, "payment_link") - p(1, "payment_link")
                        /\ p(2, "payment_link") - p(1, "payment_link") <= link(4) - link(1)
                        /\ p(2, "payment_link") - p(1, "payment_link") \in Int
      OBVIOUS
    <3>1. /\ link(2 * 1 - 1) <= p(1, "payment_link") /\ p(1, "payment_link") <= link(2 * 1)
          /\ p(1, "payment_link") \in Nat
      BY <2>5, <2>6
    <3>2. /\ link(2 * 2 - 1) <= p(2, "payment_link") /\ p(2, "payment_link") <= link(2 * 2)
          /\ p(2, "payment_link") \in Nat
      BY <2>5, <2>6
    <3> QED
      BY <2>3, <3>1, <3>2
  <2>13. PICK o \in Int : /\ o = rise("invoice") + rise("order") /\ o <= own(4) - own(1)
                          /\ SameRead(d) => own(3) - own(2) <= o
                          /\ rise("invoice") \in Int /\ rise("order") \in Int
    <3>1. CASE Both("invoice")
      <4>1. rise("order") = 0
        BY <2>6, <2>7, <3>1
      <4>2. rise("invoice") = p(2, "invoice") - p(1, "invoice")
        BY <2>6, <2>7, <3>1
      <4> QED
        BY <2>11, <3>1, <4>1, <4>2
    <3>2. CASE ~Both("invoice")
      <4>1. rise("invoice") = 0
        BY <2>6, <3>2
      <4>2. rise("order") = 0 \/ (rise("order") = p(2, "order") - p(1, "order") /\ Both("order"))
        BY <2>6
      <4>3. SameRead(d) => rise("order") = p(2, "order") - p(1, "order") /\ Both("order")
        BY <2>6, <2>7, <2>9, <3>2
      <4>4. own(1) <= own(4) /\ own(4) - own(1) \in Int /\ own(4) - own(1) >= 0
        BY <2>2, <2>3
      <4> QED
        BY <2>11, <4>1, <4>2, <4>3, <4>4
    <3> QED
      BY <3>1, <3>2
  <2>14. /\ rise("payment_link") \in Int /\ rise("payment_link") <= link(4) - link(1)
         /\ SameRead(d) => link(3) - link(2) <= rise("payment_link")
    <3>1. CASE Both("payment_link")
      BY <2>6, <2>7, <2>12, <3>1
    <3>2. CASE ~Both("payment_link")
      <4>1. rise("payment_link") = 0
        BY <2>6, <3>2
      <4>2. link(4) - link(1) >= 0
        BY <2>2, <2>3
      <4>3. SameRead(d) => link(3) - link(2) = 0
        BY <2>9, <2>10, <3>2
      <4> QED
        BY <4>1, <4>2, <4>3
    <3> QED
      BY <3>1, <3>2
  <2>15. \A i \in 1..4 : own(i) \in Int /\ link(i) \in Int
    BY <2>3
  <2>16. RecoveredOf(d) = o + rise("payment_link")
    BY <2>8, <2>13
  <2> QED
    BY <2>8, <2>13, <2>14, <2>15, <2>16
<1> QED
  BY <1>1, InvariantAlways, PTL
=============================================================================
