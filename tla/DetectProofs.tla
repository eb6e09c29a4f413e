---------------------------- MODULE DetectProofs ----------------------------
(***************************************************************************)
(* What holds of a sweep for any account, any paging and any number of     *)
(* events while it runs.                                                   *)
(*                                                                         *)
(* The failed payment and the unpaid order detectors never claim the same  *)
(* order.  Their filters are disjoint on one reading of an order, but the  *)
(* sweep reads it twice and it changes in between.  It can change in one   *)
(* direction only: an order the earlier detector claimed has an attempt on *)
(* it for good, so no later page shows it without.                         *)
(*                                                                         *)
(* And a sweep loses nothing silently.  Orders arrive at the head of the   *)
(* list, so one that is not read yet is only pushed further back, and a    *)
(* page that is not full has nothing behind it.                            *)
(***************************************************************************)
EXTENDS Detect, TLAPS, FiniteSetTheorems, WellFoundedInduction

\* An order with a failed payment on it has been attempted.
BookInv ==
  /\ book \in Seq(OrderRecord)
  /\ \A d \in DOMAIN book : book[d].failed => book[d].attempts = 1

\* The orders the failed payment detector has claimed.
Attempted(d) == \E x \in sightings : x.stage = 2 /\ x.root = d

SightingInv ==
  /\ \A x \in sightings : x.stage \in 1..3 /\ x.stage <= stage /\ x.root \in DOMAIN book
  /\ \A d \in DOMAIN book : Attempted(d) => book[d].attempts = 1

\* What the last detector has read of an order claimed before shows the attempt.
ReadInv ==
  /\ \A r \in got : r.debt \in DOMAIN book
  /\ stage = 3 => \A r \in got : r.order.attempts = 0 => ~Attempted(r.debt)

NeverBoth == \A x, y \in sightings : x.stage = 2 /\ y.stage = 3 => x.root # y.root

Inv ==
  /\ stage \in 1..4
  /\ walk # -1 => stage = 2
  /\ BookInv /\ SightingInv /\ ReadInv /\ NeverBoth

LEMMA DetectorAt ==
  /\ Len(Detectors) = 3
  /\ Detectors[1] = "overdue_invoice"
  /\ Detectors[2] = "failed_payment"
  /\ Detectors[3] = "unpaid_order"
  BY DEF Detectors

\* A page shows orders of the account as they are.
LEMMA PageShows == \A r \in Page : r.debt \in DOMAIN book /\ r.order = book[r.debt]
  BY DEF Page, Listed

\* What happens to an order leaves it an order.
LEMMA NewOrderRecord ==
  \A at \in 0..Now : NewOrder(at) \in OrderRecord /\ ~NewOrder(at).failed
  BY DetectAssumption DEF NewOrder, OrderRecord

LEMMA FailedRecord ==
  ASSUME NEW o \in OrderRecord
  PROVE  Failed(o) \in OrderRecord /\ Failed(o).attempts = 1
<1> DEFINE tried == [o EXCEPT !.attempts = 1]
<1>1. tried \in OrderRecord /\ tried.attempts = 1
  BY DEF OrderRecord
<1>2. Failed(o) = [tried EXCEPT !.failed = TRUE]
  BY DEF Failed, OrderRecord
<1> HIDE DEF tried
<1>3. [tried EXCEPT !.failed = TRUE] \in OrderRecord /\ [tried EXCEPT !.failed = TRUE].attempts = 1
  BY <1>1 DEF OrderRecord
<1> QED
  BY <1>2, <1>3

LEMMA CapturedRecord ==
  ASSUME NEW o \in OrderRecord, NEW rest \in {0, 1}
  PROVE  Captured(o, rest) \in OrderRecord /\ Captured(o, rest).attempts = 1
<1> DEFINE status == IF rest = 0 THEN "paid" ELSE "attempted"
           kept   == [o EXCEPT !.status = status]
           left   == [kept EXCEPT !.due = rest]
<1>1. kept \in OrderRecord
  BY DEF OrderRecord
<1>2. Captured(o, rest) = [left EXCEPT !.attempts = 1]
  BY DEF Captured, OrderRecord
<1> HIDE DEF kept
<1>3. left \in OrderRecord
  BY <1>1 DEF OrderRecord
<1> HIDE DEF left
<1>4. [left EXCEPT !.attempts = 1] \in OrderRecord /\ [left EXCEPT !.attempts = 1].attempts = 1
  BY <1>3 DEF OrderRecord
<1> QED
  BY <1>2, <1>4

\* What the account holds when the sweep begins.
LEMMA OldBookRecords ==
  \A o \in OldBook : o \in OrderRecord /\ (o.failed => o.attempts = 1)
<1>1. {0, Now - Grace - 1, Now - Grace} \subseteq 0..Now
  BY DetectAssumption
<1>2. \A at \in {0, Now - Grace - 1, Now - Grace} :
        NewOrder(at) \in OrderRecord /\ ~NewOrder(at).failed
  BY <1>1, NewOrderRecord
<1>3. Failed(NewOrder(0)) \in OrderRecord /\ Failed(NewOrder(0)).attempts = 1
  BY <1>2, FailedRecord
<1>4. /\ Captured(Failed(NewOrder(0)), 0) \in OrderRecord
      /\ Captured(Failed(NewOrder(0)), 0).attempts = 1
  BY <1>3, CapturedRecord
<1> QED
  BY <1>2, <1>3, <1>4 DEF OldBook

LEMMA InvInit == Init => Inv
<1> SUFFICES ASSUME Init PROVE Inv
  OBVIOUS
<1>1. PICK n \in 0..MaxDebts : book \in [1..n -> OldBook]
  BY DEF Init
<1>2. book \in Seq(OrderRecord) /\ \A d \in DOMAIN book : book[d] \in OldBook
  BY <1>1, OldBookRecords, DetectAssumption
<1> QED
  BY <1>2, OldBookRecords DEF Init, Inv, BookInv, SightingInv, ReadInv, NeverBoth, Attempted

\* An event leaves the attempts of an order that has one, and adds none to the
\* list of those claimed.
LEMMA EventKeeps ==
  ASSUME Inv, UNCHANGED sweeper, BookInv', DOMAIN book \subseteq DOMAIN book',
         \A d \in DOMAIN book : book[d].attempts = 1 => book'[d].attempts = 1
  PROVE  Inv'
<1>1. \A d \in DOMAIN book' : Attempted(d)' => d \in DOMAIN book /\ book'[d].attempts = 1
  BY DEF Inv, SightingInv, Attempted, sweeper
<1>2. SightingInv'
  BY <1>1 DEF Inv, SightingInv, sweeper
<1>3. ReadInv' /\ NeverBoth'
  BY DEF Inv, ReadInv, NeverBoth, Attempted, sweeper
<1> QED
  BY <1>2, <1>3 DEF Inv, sweeper

LEMMA WorldStep == ASSUME Inv, World PROVE Inv'
<1>1. CASE PlaceOrder
  <2>1. PICK issued \in {0, Now} : book' = Append(book, NewOrder(issued))
    BY <1>1 DEF PlaceOrder
  <2>2. NewOrder(issued) \in OrderRecord /\ ~NewOrder(issued).failed
    BY NewOrderRecord, DetectAssumption
  <2>3. /\ book' \in Seq(OrderRecord) /\ DOMAIN book \subseteq DOMAIN book'
        /\ \A d \in DOMAIN book : book'[d] = book[d]
        /\ \A d \in DOMAIN book' \ DOMAIN book : book'[d] = NewOrder(issued)
    BY <2>1, <2>2 DEF Inv, BookInv
  <2>4. BookInv'
    BY <2>2, <2>3 DEF Inv, BookInv
  <2> QED
    BY <1>1, <2>3, <2>4, EventKeeps DEF PlaceOrder, Event
<1>2. ASSUME NEW d \in DOMAIN book, AttemptFails(d) PROVE Inv'
  <2>1. book' = [book EXCEPT ![d] = Failed(book[d])]
    BY <1>2 DEF AttemptFails
  <2>2. book[d] \in OrderRecord
    BY DEF Inv, BookInv
  <2>3. Failed(book[d]) \in OrderRecord /\ Failed(book[d]).attempts = 1
    BY <2>2, FailedRecord
  <2>4. /\ book' \in Seq(OrderRecord) /\ DOMAIN book' = DOMAIN book
        /\ \A e \in DOMAIN book : book'[e] = IF e = d THEN Failed(book[d]) ELSE book[e]
    BY <2>1, <2>3 DEF Inv, BookInv
  <2>5. BookInv'
    BY <2>3, <2>4 DEF Inv, BookInv
  <2> QED
    BY <1>2, <2>3, <2>4, <2>5, EventKeeps DEF AttemptFails, Event
<1>3. ASSUME NEW d \in DOMAIN book, Pays(d) PROVE Inv'
  <2>1. PICK rest \in {0, 1} : book' = [book EXCEPT ![d] = Captured(book[d], rest)]
    BY <1>3 DEF Pays
  <2>2. book[d] \in OrderRecord
    BY DEF Inv, BookInv
  <2>3. Captured(book[d], rest) \in OrderRecord /\ Captured(book[d], rest).attempts = 1
    BY <2>2, CapturedRecord
  <2>4. /\ book' \in Seq(OrderRecord) /\ DOMAIN book' = DOMAIN book
        /\ \A e \in DOMAIN book : book'[e] = IF e = d THEN Captured(book[d], rest) ELSE book[e]
    BY <2>1, <2>3 DEF Inv, BookInv
  <2>5. BookInv'
    BY <2>3, <2>4 DEF Inv, BookInv
  <2> QED
    BY <1>3, <2>3, <2>4, <2>5, EventKeeps DEF Pays, Event
<1> QED
  BY <1>1, <1>2, <1>3 DEF World

\* Everything a list shows is safe to claim, in the stage it was read in.
LEMMA ListEndsStep ==
  ASSUME Inv, ~Swept, NEW records, UNCHANGED book, ListEnds(records),
         \A r \in records : r.debt \in DOMAIN book,
         stage = 3 => \A r \in records : r.order.attempts = 0 => ~Attempted(r.debt)
  PROVE  Inv'
<1>1. CASE stage = 2
  <2>1. got' = records /\ walk' = 0 /\ UNCHANGED <<stage, sightings>>
    BY <1>1, DetectorAt DEF ListEnds, Detector
  <2> QED
    BY <1>1, <2>1 DEF Inv, BookInv, SightingInv, ReadInv, NeverBoth, Attempted
<1>2. CASE stage # 2
  <2>1. stage \in {1, 3}
    BY <1>2, DetectorAt DEF Inv, Swept
  <2>2. stage' = stage + 1 /\ got' = {} /\ walk' = -1
    BY <2>1, DetectorAt DEF ListEnds, Detector, NextDetector
  <2>3. \A x \in sightings' : x \in sightings \/ \E r \in records : x = Sighting(r)
    BY <2>1, DetectorAt DEF ListEnds, Detector, Seen
  <2>4. \A x \in sightings' \ sightings : x.stage = stage /\ x.root \in DOMAIN book
    BY <2>3 DEF Sighting
  <2>5. \A x \in sightings' \ sightings : stage = 3 => ~Attempted(x.root)
    <3> SUFFICES ASSUME stage = 3, NEW x \in sightings' \ sightings PROVE ~Attempted(x.root)
      OBVIOUS
    <3>1. x \in Seen(records, IsUnpaid)
      BY DetectorAt DEF ListEnds, Detector
    <3>2. PICK r \in records : x = Sighting(r) /\ r.order.attempts = 0
      BY <3>1 DEF Seen, IsUnpaid
    <3> QED
      BY <3>2 DEF Sighting
  <2>6. \A d : Attempted(d)' <=> Attempted(d)
    <3>1. sightings \subseteq sightings'
      BY <2>1, DetectorAt DEF ListEnds, Detector
    <3> QED
      BY <2>1, <2>4, <3>1 DEF Attempted
  <2>7. SightingInv'
    BY <2>1, <2>2, <2>4, <2>6 DEF Inv, SightingInv
  <2>8. NeverBoth'
    BY <2>1, <2>4, <2>5 DEF Inv, NeverBoth, Attempted, SightingInv
  <2> QED
    BY <2>1, <2>2, <2>7, <2>8 DEF Inv, BookInv, ReadInv
<1> QED
  BY <1>1, <1>2

LEMMA SweepStep == ASSUME Inv, Step PROVE Inv'
<1>1. CASE ReadPage
  <2>1. ~Swept /\ UNCHANGED book
    BY <1>1 DEF ReadPage
  <2>2. /\ \A r \in got \cup Page : r.debt \in DOMAIN book
        /\ stage = 3 => \A r \in got \cup Page : r.order.attempts = 0 => ~Attempted(r.debt)
    BY PageShows DEF Inv, ReadInv, SightingInv
  <2>3. CASE IsLastPage
    BY <1>1, <2>1, <2>2, <2>3, ListEndsStep DEF ReadPage
  <2>4. CASE ~IsLastPage
    <3>1. got' = got \cup Page /\ UNCHANGED <<stage, walk, sightings>>
      BY <1>1, <2>4 DEF ReadPage
    <3> QED
      BY <2>1, <2>2, <3>1 DEF Inv, BookInv, SightingInv, ReadInv, NeverBoth, Attempted
  <2> QED
    BY <2>3, <2>4
<1>2. CASE PageFails
  BY <1>2, ListEndsStep DEF PageFails, Inv, ReadInv
<1>3. CASE ReadPayments
  <2>1. stage = 2 /\ UNCHANGED <<book, stage, got>>
    BY <1>3 DEF ReadPayments, Inv
  <2>2. PICK r \in NextInWalk :
          sightings' = sightings \cup (IF book[r.debt].failed THEN {Sighting(r)} ELSE {})
    BY <1>3 DEF ReadPayments
  <2>3. r.debt \in DOMAIN book
    BY <2>2 DEF NextInWalk, Ahead, Inv, ReadInv
  <2>4. \A x \in sightings' \ sightings : x.stage = 2 /\ x.root = r.debt /\ book[x.root].attempts = 1
    BY <2>1, <2>2, <2>3 DEF Sighting, Inv, BookInv
  <2>5. \A x \in sightings' : x.stage # 3
    BY <2>1, <2>4 DEF Inv, SightingInv
  <2>6. SightingInv'
    BY <2>1, <2>3, <2>4 DEF Inv, SightingInv, Attempted
  <2> QED
    BY <2>1, <2>5, <2>6 DEF Inv, BookInv, ReadInv, NeverBoth
<1>4. CASE PaymentsFail
  <2>1. stage = 2 /\ UNCHANGED <<book, stage, got, sightings>>
    BY <1>4 DEF PaymentsFail, Inv
  <2> QED
    BY <2>1 DEF Inv, BookInv, SightingInv, ReadInv, NeverBoth, Attempted
<1>5. CASE WalkEnds
  <2>1. stage = 2 /\ stage' = 3 /\ got' = {} /\ walk' = -1 /\ UNCHANGED <<book, sightings>>
    BY <1>5 DEF WalkEnds, NextDetector, Inv
  <2> QED
    BY <2>1 DEF Inv, BookInv, SightingInv, ReadInv, NeverBoth, Attempted
<1> QED
  BY <1>1, <1>2, <1>3, <1>4, <1>5 DEF Step

LEMMA InvNext == Inv /\ [Next]_vars => Inv'
<1> SUFFICES ASSUME Inv, [Next]_vars PROVE Inv'
  OBVIOUS
<1>1. CASE UNCHANGED vars
  BY <1>1 DEF vars, sweeper, Inv, BookInv, SightingInv, ReadInv, NeverBoth, Attempted
<1> QED
  BY <1>1, SweepStep, WorldStep DEF Next

\* The two detectors never claim one order between them, whatever the customer
\* does between their readings of it (detect/unpaidorder.go, failedpayment.go).
THEOREM DetectorsDisjoint == Spec => []NeverBothClaim
<1>1. Inv => NeverBothClaim
  <2> SUFFICES ASSUME Inv, NEW x \in sightings, NEW y \in sightings,
                      Detectors[x.stage] = "failed_payment",
                      Detectors[y.stage] = "unpaid_order"
               PROVE  x.root # y.root
    BY DEF NeverBothClaim
  <2>1. x.stage \in {1, 2, 3} /\ y.stage \in {1, 2, 3}
    BY DEF Inv, SightingInv
  <2>2. x.stage = 2 /\ y.stage = 3
    BY <2>1, DetectorAt
  <2> QED
    BY <2>2 DEF Inv, NeverBoth
<1> QED
  BY InvInit, InvNext, <1>1, PTL DEF Spec
-----------------------------------------------------------------------------
(* Places in a list that is read newest first, one page at a time.         *)

Above(S, d) == {e \in S : e > d}

PlaceIn(S, d) == Cardinality(Above(S, d))

\* A set of naturals has a least member, and one below a bound a greatest.
LEMMA LeastOf ==
  ASSUME NEW S, S \subseteq Nat, S # {}
  PROVE  \E x \in S : \A y \in S : x <= y
<1>1. IsWellFoundedOn(OpToRel(<, Nat), Nat)
  BY NatLessThanWellFounded
<1>2. PICK x \in S : \A y \in S : ~(<<y, x>> \in OpToRel(<, Nat))
  BY <1>1, WFMin
<1>3. ASSUME NEW y \in S
      PROVE  x <= y
  <2>1. x \in Nat /\ y \in Nat
    OBVIOUS
  <2>2. y < x => <<y, x>> \in {p \in Nat \X Nat : p[1] < p[2]}
    BY <2>1
  <2> QED
    BY <1>2, <2>1, <2>2 DEF OpToRel
<1> QED
  BY <1>3

LEMMA GreatestOf ==
  ASSUME NEW n \in Nat, NEW S, S \subseteq 1..n, S # {}
  PROVE  \E x \in S : \A y \in S : y <= x
<1> DEFINE Below == {n - e : e \in S}
<1>a. \A e \in S : e \in Nat /\ n - e \in Nat
  OBVIOUS
<1>1. Below \subseteq Nat /\ Below # {}
  BY <1>a
<1>2. PICK b \in Below : \A c \in Below : b <= c
  BY <1>1, LeastOf
<1>3. PICK x \in S : b = n - x
  OBVIOUS
<1>4. ASSUME NEW y \in S
      PROVE  y <= x
  <2>1. n - y \in Below
    OBVIOUS
  <2>2. n - x <= n - y
    BY <1>2, <1>3, <2>1
  <2> QED
    BY <2>2
<1> QED
  BY <1>4

LEMMA PlaceType ==
  ASSUME NEW n \in Nat, NEW S, S \subseteq 1..n, NEW d
  PROVE  IsFiniteSet(Above(S, d)) /\ PlaceIn(S, d) \in Nat
<1>1. Above(S, d) \in SUBSET (1..n)
  BY DEF Above
<1>2. IsFiniteSet(1..n)
  BY FS_Interval
<1> QED
  BY <1>1, <1>2, FS_Subset, FS_CardinalityType DEF PlaceIn

LEMMA PlaceInList ==
  ASSUME NEW n \in Nat, NEW S, S \subseteq 1..n, NEW d \in S
  PROVE  PlaceIn(S, d) < n
<1>1. Above(S, d) \in SUBSET ((d + 1)..n)
  <2>1. \A e \in Above(S, d) : e \in 1..n /\ e > d /\ d \in 1..n
    BY DEF Above
  <2>2. \A e \in Above(S, d) : e \in (d + 1)..n
    BY <2>1
  <2> QED
    BY <2>2
<1>2. /\ IsFiniteSet((d + 1)..n) /\ d \in 1..n
      /\ Cardinality((d + 1)..n) = IF d + 1 > n THEN 0 ELSE n - (d + 1) + 1
  BY FS_Interval
<1>3. Cardinality((d + 1)..n) = n - d
  BY <1>2
<1>4. PlaceIn(S, d) <= n - d
  BY <1>1, <1>2, <1>3, FS_Subset DEF PlaceIn
<1>5. PlaceIn(S, d) \in Nat
  BY PlaceType
<1> QED
  BY <1>2, <1>4, <1>5

\* Newer orders come first, and one that arrives pushes the others back.
LEMMA PlaceFalls ==
  ASSUME NEW n \in Nat, NEW S, S \subseteq 1..n, NEW d \in S, NEW e \in S, d < e
  PROVE  PlaceIn(S, e) < PlaceIn(S, d)
<1>a. d \in Nat /\ e \in Nat /\ \A f \in S : f \in Nat
  OBVIOUS
<1>b. /\ IsFiniteSet(Above(S, e)) /\ PlaceIn(S, e) \in Nat
      /\ IsFiniteSet(Above(S, d)) /\ PlaceIn(S, d) \in Nat
  BY PlaceType
<1>1. e \notin Above(S, e) /\ Above(S, e) \cup {e} \in SUBSET Above(S, d)
  <2>1. e \notin Above(S, e) /\ e \in Above(S, d)
    BY <1>a DEF Above
  <2>2. ASSUME NEW f \in Above(S, e)
        PROVE  f \in Above(S, d)
    <3>1. f \in S /\ f \in Nat /\ f > e
      BY <1>a DEF Above
    <3> QED
      BY <1>a, <3>1 DEF Above
  <2> QED
    BY <2>1, <2>2
<1>2. Cardinality(Above(S, e) \cup {e}) = PlaceIn(S, e) + 1
  BY <1>1, <1>b, FS_AddElement DEF PlaceIn
<1>3. Cardinality(Above(S, e) \cup {e}) <= PlaceIn(S, d)
  BY <1>1, <1>b, FS_Subset DEF PlaceIn
<1> QED
  BY <1>2, <1>3, <1>b

LEMMA PlaceGrows ==
  ASSUME NEW n \in Nat, NEW T, T \subseteq 1..n, NEW S, S \subseteq T, NEW d
  PROVE  PlaceIn(S, d) <= PlaceIn(T, d)
<1>1. Above(S, d) \in SUBSET Above(T, d)
  BY DEF Above
<1> QED
  BY <1>1, PlaceType, FS_Subset DEF PlaceIn

\* There are no gaps: a place before one that is taken is taken.
LEMMA PlaceTaken ==
  ASSUME NEW n \in Nat, NEW S, S \subseteq 1..n, NEW d \in S, NEW k \in 0..PlaceIn(S, d)
  PROVE  \E e \in S : PlaceIn(S, e) = k
<1> DEFINE Far == {e \in S : PlaceIn(S, e) >= k}
<1>a. S \subseteq Nat /\ \A e \in S : PlaceIn(S, e) \in Nat
  <2>1. S \subseteq Nat
    OBVIOUS
  <2>2. ASSUME NEW e \in S
        PROVE  PlaceIn(S, e) \in Nat
    BY PlaceType
  <2> QED
    BY <2>1, <2>2
<1>1. PlaceIn(S, d) \in Nat /\ d \in Far
  BY <1>a
<1>2. Far \subseteq 1..n /\ Far # {}
  BY <1>1
<1>3. PICK e \in Far : \A f \in Far : f <= e
  <2> HIDE DEF Far
  <2> QED
    BY <1>2, GreatestOf
<1>4. PlaceIn(S, e) \in Nat /\ PlaceIn(S, e) >= k /\ e \in S
  BY <1>a
<1>5. CASE Above(S, e) = {}
  BY <1>4, <1>5, FS_EmptySet DEF PlaceIn
<1>6. CASE Above(S, e) # {}
  <2>1. Above(S, e) \subseteq Nat
    BY <1>a DEF Above
  <2>2. PICK f \in Above(S, e) : \A g \in Above(S, e) : f <= g
    BY <1>6, <2>1, LeastOf
  <2>3. f \in S /\ f > e /\ e \in Nat /\ f \in Nat
    BY <1>4, <1>a DEF Above
  <2>4. PlaceIn(S, f) \in Nat /\ PlaceIn(S, f) < k
    <3>1. f \notin Far
      BY <1>3, <2>3
    <3> QED
      BY <2>3, <3>1, <1>a
  <2>5. Above(S, e) = Above(S, f) \cup {f} /\ f \notin Above(S, f)
    <3>1. ASSUME NEW g \in Above(S, e)
          PROVE  g = f \/ g \in Above(S, f)
      <4>1. g \in S /\ g \in Nat /\ f <= g
        BY <2>1, <2>2 DEF Above
      <4> QED
        BY <2>3, <4>1 DEF Above
    <3>2. ASSUME NEW g \in Above(S, f)
          PROVE  g \in Above(S, e)
      <4>1. g \in S /\ g \in Nat /\ g > f
        BY <1>a DEF Above
      <4> QED
        BY <2>3, <4>1 DEF Above
    <3>3. f \notin Above(S, f)
      BY <2>3 DEF Above
    <3> QED
      BY <3>1, <3>2, <3>3
  <2>6. PlaceIn(S, e) = PlaceIn(S, f) + 1
    BY <2>5, PlaceType, FS_AddElement DEF PlaceIn
  <2> QED
    BY <1>4, <2>4, <2>6
<1> QED
  BY <1>5, <1>6

-----------------------------------------------------------------------------
(* The sweep loses nothing but what a failed call would have shown.        *)

\* The list of this detector was read, to its end or as far as a sweep goes.
Answered(source) == InReach /\ <<source, 0>> \notin errs

Sighted(s, d) == \E x \in sightings : x.stage = s /\ x.root = d

Shown(d) == \E r \in got : r.debt = d

\* A record has a place to itself, and shows its order as it is unless it moved.
ReadTrue ==
  /\ \A r \in got : r.place \in Nat /\ (r.debt \notin moved => r.order = book[r.debt])
  /\ \A r, q \in got : r.place = q.place => r = q

\* Orders are only pushed back, so whatever stands before the next page was read.
Listing ==
  walk = -1 /\ ~Swept =>
    /\ page \in 0..(MaxPages - 1)
    /\ \A r \in got : r.place < Skip
    /\ \A d \in Listed \ moved : PlaceOf(d) < Skip => Shown(d)

\* What the walk has passed is a sighting, an error, or no failed payment.
Walked(d) ==
  book[d].due > 0 /\ book[d].failed => Sighted(2, d) \/ <<"failed_payment", d>> \in errs

Walking ==
  walk # -1 =>
    /\ walk \in Nat
    /\ Answered("failed_payment") => \A d \in DOMAIN book \ moved : Shown(d)
    /\ \A r \in got : r.debt \notin moved /\ r.place < walk => Walked(r.debt)

\* A detector that is done has claimed what nothing happened to.
Covered(s) ==
  Answered(Detectors[s]) =>
    \A d \in DOMAIN book \ moved : Claims(Detectors[s], book[d]) =>
      Sighted(s, d) \/ (s = 2 /\ <<"failed_payment", d>> \in errs)

Handles ==
  \A x \in sightings : x.place \in Nat /\ x.handle = IF x.stage = 1 THEN "invoice" ELSE "none"

SweepInv ==
  /\ Inv /\ ReadTrue /\ Listing /\ Walking /\ Handles
  /\ \A s \in 1..3 : s < stage => Covered(s)

LEMMA SweepStarts == Init => SweepInv
<1> SUFFICES ASSUME Init
             PROVE  SweepInv
  OBVIOUS
<1>1. Listing
  <2>1. page = 0 /\ PageSize \in Nat /\ MaxPages \in Nat \ {0} /\ got = {}
    BY DetectAssumption DEF Init
  <2>2. Skip = 0
    BY <2>1 DEF Skip
  <2>3. Len(book) \in Nat /\ Listed \in SUBSET (1..Len(book))
    BY InvInit DEF Inv, BookInv, Listed
  <2>4. \A d \in Listed : PlaceOf(d) \in Nat
    BY <2>3, PlaceType DEF PlaceOf, PlaceIn, Above
  <2> QED
    BY <2>1, <2>2, <2>4 DEF Listing
<1>2. ReadTrue /\ Walking /\ Handles /\ \A s \in 1..3 : ~(s < stage)
  BY DEF Init, ReadTrue, Walking, Handles
<1> QED
  BY <1>1, <1>2, InvInit DEF SweepInv

\* What happens in the account during a sweep is on the list of what moved, and
\* takes no order off a detector's list.
LEMMA WorldMoves ==
  ASSUME Inv, World
  PROVE  /\ UNCHANGED sweeper /\ moved \subseteq moved' /\ DOMAIN book \subseteq DOMAIN book'
         /\ Len(book) \in Nat /\ Len(book') \in Nat /\ Len(book) <= Len(book')
         /\ DOMAIN book = 1..Len(book) /\ DOMAIN book' = 1..Len(book')
         /\ \A d \in DOMAIN book : book'[d].issued = book[d].issued
         /\ \A d \in DOMAIN book' \ moved' : d \in DOMAIN book \ moved /\ book'[d] = book[d]
<1>a. book \in Seq(OrderRecord)
  BY DEF Inv, BookInv
<1>1. CASE PlaceOrder
  <2>1. PICK issued \in {0, Now} : book' = Append(book, NewOrder(issued))
    BY <1>1 DEF PlaceOrder
  <2>2. /\ DOMAIN book = 1..Len(book) /\ DOMAIN book' = 1..(Len(book) + 1)
        /\ Len(book) \in Nat /\ Len(book') = Len(book) + 1
        /\ \A d \in DOMAIN book : book'[d] = book[d]
    BY <1>a, <2>1
  <2>3. moved' = moved \cup {Len(book) + 1} /\ UNCHANGED sweeper
    BY <1>1 DEF PlaceOrder, Event
  <2> QED
    BY <2>2, <2>3
<1>2. ASSUME NEW d \in DOMAIN book, NEW o,
             book' = [book EXCEPT ![d] = o], o.issued = book[d].issued, Event(d)
      PROVE  /\ UNCHANGED sweeper /\ moved \subseteq moved' /\ DOMAIN book \subseteq DOMAIN book'
             /\ Len(book) \in Nat /\ Len(book') \in Nat /\ Len(book) <= Len(book')
             /\ DOMAIN book = 1..Len(book) /\ DOMAIN book' = 1..Len(book')
             /\ \A e \in DOMAIN book : book'[e].issued = book[e].issued
             /\ \A e \in DOMAIN book' \ moved' : e \in DOMAIN book \ moved /\ book'[e] = book[e]
  <2>1. /\ DOMAIN book' = DOMAIN book /\ DOMAIN book = 1..Len(book) /\ Len(book) \in Nat
        /\ Len(book') = Len(book)
        /\ \A e \in DOMAIN book : book'[e] = IF e = d THEN o ELSE book[e]
    BY <1>a, <1>2
  <2>2. moved' = moved \cup {d} /\ UNCHANGED sweeper
    BY <1>2 DEF Event
  <2> QED
    BY <1>2, <2>1, <2>2
<1>3. ASSUME NEW d \in DOMAIN book, AttemptFails(d) \/ Pays(d)
      PROVE  \E o : book' = [book EXCEPT ![d] = o] /\ o.issued = book[d].issued /\ Event(d)
  <2>1. book[d] \in OrderRecord
    BY <1>a
  <2>2. CASE AttemptFails(d)
    <3>1. Failed(book[d]).issued = book[d].issued
      BY <2>1 DEF Failed, OrderRecord
    <3> QED
      BY <2>2, <3>1 DEF AttemptFails
  <2>3. CASE Pays(d)
    <3>1. PICK rest \in {0, 1} : book' = [book EXCEPT ![d] = Captured(book[d], rest)]
      BY <2>3 DEF Pays
    <3>2. Captured(book[d], rest).issued = book[d].issued
      BY <2>1 DEF Captured, OrderRecord
    <3> QED
      BY <2>3, <3>1, <3>2 DEF Pays
  <2> QED
    BY <1>3, <2>2, <2>3
<1> QED
  BY <1>1, <1>2, <1>3 DEF World

LEMMA WorldKeepsSweep ==
  ASSUME SweepInv, World
  PROVE  SweepInv'
<1>a. /\ UNCHANGED <<stage, page, got, walk, sightings, errs>> /\ moved \subseteq moved'
      /\ DOMAIN book \subseteq DOMAIN book'
      /\ Len(book) \in Nat /\ Len(book') \in Nat /\ Len(book) <= Len(book')
      /\ DOMAIN book = 1..Len(book) /\ DOMAIN book' = 1..Len(book')
      /\ \A d \in DOMAIN book : book'[d].issued = book[d].issued
      /\ \A d \in DOMAIN book' \ moved' : d \in DOMAIN book \ moved /\ book'[d] = book[d]
  BY WorldMoves DEF SweepInv, sweeper
<1>b. Inv'
  BY WorldStep DEF SweepInv
<1>c. \A r \in got : r.debt \in DOMAIN book
  BY DEF SweepInv, Inv, ReadInv
<1>1. ReadTrue' /\ Handles'
  BY <1>a, <1>c DEF SweepInv, ReadTrue, Handles
<1>d. \A source : Answered(source)' => Answered(source)
  BY <1>a, DetectAssumption DEF Answered, InReach
<1>2. Listing'
  <2>1. SUFFICES ASSUME walk = -1, ~Swept, NEW d \in Listed' \ moved', PlaceOf(d)' < Skip
                 PROVE  Shown(d)
    BY <1>a DEF SweepInv, Listing, Swept, Skip, Shown
  <2>2. /\ Listed \in SUBSET Listed' /\ Listed' \in SUBSET (1..Len(book'))
        /\ Listed \in SUBSET (1..Len(book))
    BY <1>a DEF Listed, Detector
  <2>3. d \in Listed \ moved
    BY <1>a, <2>1 DEF Listed, Detector
  <2>4. PlaceOf(d) = PlaceIn(Listed, d) /\ PlaceOf(d)' = PlaceIn(Listed', d)
    BY DEF PlaceOf, PlaceIn, Above
  <2>5. PlaceIn(Listed, d) <= PlaceIn(Listed', d)
    BY <1>a, <2>2, PlaceGrows
  <2>6. PlaceIn(Listed, d) \in Nat /\ PlaceIn(Listed', d) \in Nat
    BY <1>a, <2>2, PlaceType
  <2>7. Skip \in Nat
    BY <2>1, DetectAssumption DEF SweepInv, Listing, Skip
  <2> QED
    BY <2>1, <2>3, <2>4, <2>5, <2>6, <2>7 DEF SweepInv, Listing
<1>3. Walking'
  <2> SUFFICES ASSUME walk # -1
               PROVE  Walking'
    BY <1>a DEF Walking
  <2>1. Answered("failed_payment")' => Answered("failed_payment")
    BY <1>d
  <2>2. ASSUME NEW r \in got, r.debt \notin moved', r.place < walk
        PROVE  Walked(r.debt)'
    <3>1. r.debt \in DOMAIN book' /\ r.debt \notin moved
      BY <1>a, <1>c, <2>2
    <3>2. Walked(r.debt) /\ book'[r.debt] = book[r.debt]
      BY <1>a, <2>2, <3>1 DEF SweepInv, Walking
    <3> QED
      BY <1>a, <3>2 DEF Walked, Sighted
  <2> QED
    BY <1>a, <2>1, <2>2 DEF SweepInv, Walking, Shown
<1>4. ASSUME NEW s \in 1..3, s < stage
      PROVE  Covered(s)'
  <2>1. Covered(s)
    BY <1>4 DEF SweepInv
  <2>2. Answered(Detectors[s])' => Answered(Detectors[s])
    BY <1>d
  <2> QED
    BY <1>a, <2>1, <2>2 DEF Covered, Sighted
<1> QED
  BY <1>a, <1>b, <1>1, <1>2, <1>3, <1>4 DEF SweepInv
\* What there is to list: orders, each at its place.
LEMMA ListIs ==
  ASSUME Inv
  PROVE  /\ Len(book) \in Nat /\ DOMAIN book = 1..Len(book) /\ Listed \subseteq 1..Len(book)
         /\ \A d : PlaceOf(d) = PlaceIn(Listed, d)
BY DEF Inv, BookInv, Listed, PlaceOf, PlaceIn, Above

LEMMA PagesAdd ==
  ASSUME page \in 0..(MaxPages - 1)
  PROVE  /\ Skip \in Nat /\ page \in Nat /\ (page + 1) * PageSize = Skip + PageSize
         /\ page + 1 = MaxPages => Skip + PageSize = PageSize * MaxPages
<1>1. page \in Nat /\ PageSize \in Nat /\ MaxPages \in Nat
  BY DetectAssumption
<1>2. page * PageSize \in Nat /\ (page + 1) * PageSize = page * PageSize + PageSize
  BY <1>1
<1>3. page + 1 = MaxPages => (page + 1) * PageSize = PageSize * MaxPages
  BY <1>1
<1> QED
  BY <1>1, <1>2, <1>3 DEF Skip

LEMMA PageIsFinite == ASSUME Inv PROVE IsFiniteSet(Page) /\ Cardinality(Page) \in Nat
<1> DEFINE orderOf == [r \in Page |-> r.debt]
<1>1. \A r \in Page : r.debt \in Listed /\ r.debt \in 1..Len(book)
  BY ListIs DEF Page
<1>2. \A r, q \in Page : r.debt = q.debt => r = q
  BY DEF Page
<1>3. orderOf \in Injection(Page, 1..Len(book))
  BY <1>1, <1>2 DEF Injection, IsInjective
<1>4. IsFiniteSet(1..Len(book))
  BY ListIs, FS_Interval
<1>5. IsFiniteSet(Page)
  <2> HIDE DEF orderOf
  <2> QED
    BY <1>3, <1>4, FS_Injection
<1> QED
  BY <1>5, FS_CardinalityType

\* A page with more orders behind it is full, so a short page is the last.
LEMMA FullPage ==
  ASSUME Inv, page \in 0..(MaxPages - 1), NEW d \in Listed, PlaceOf(d) >= Skip + PageSize
  PROVE  Cardinality(Page) >= PageSize
<1> DEFINE Window == Skip..(Skip + PageSize - 1)
           placeOf == [r \in Page |-> r.place]
<1>1. Skip \in Nat /\ PageSize \in Nat \ {0}
  BY PagesAdd, DetectAssumption
<1>2. IsFiniteSet(Page)
  BY PageIsFinite
<1>3. placeOf \in Surjection(Page, Window)
  <2>1. \A r \in Page : r.place \in Window
    BY DEF Page
  <2>2. ASSUME NEW k \in Window
        PROVE  \E r \in Page : r.place = k
    <3>1. PlaceIn(Listed, d) \in Nat /\ PlaceIn(Listed, d) >= Skip + PageSize
      BY ListIs, PlaceType
    <3>2. k \in 0..PlaceIn(Listed, d)
      BY <1>1, <3>1
    <3>3. PICK e \in Listed : PlaceIn(Listed, e) = k
      BY <3>2, ListIs, PlaceTaken
    <3>4. PlaceOf(e) = k
      BY <3>3, ListIs
    <3>5. [place |-> PlaceOf(e), debt |-> e, order |-> book[e]] \in Page
      BY <3>4 DEF Page
    <3> QED
      BY <3>4, <3>5
  <2> QED
    BY <2>1, <2>2 DEF Surjection
<1>4. Cardinality(Window) = PageSize
  <2>1. Skip \in Int /\ Skip + PageSize - 1 \in Int
    BY <1>1
  <2>2. Cardinality(Window) =
          IF Skip > Skip + PageSize - 1 THEN 0 ELSE (Skip + PageSize - 1) - Skip + 1
    BY <2>1, FS_Interval
  <2> QED
    BY <1>1, <2>2
<1>5. Cardinality(Window) <= Cardinality(Page)
  <2> HIDE DEF placeOf, Window
  <2> QED
    BY <1>2, <1>3, FS_Surjection
<1>6. Cardinality(Page) \in Nat
  BY PageIsFinite
<1> QED
  BY <1>1, <1>4, <1>5, <1>6

\* A page shows orders as they are, each at a place nobody else has.
LEMMA PageTrue ==
  ASSUME Inv, page \in 0..(MaxPages - 1)
  PROVE  /\ \A r \in Page : /\ r.place \in Nat /\ r.place >= Skip /\ r.place < Skip + PageSize
                            /\ r.debt \in DOMAIN book /\ r.order = book[r.debt]
         /\ \A r, q \in Page : r.place = q.place => r = q
<1>1. Skip \in Nat /\ PageSize \in Nat
  BY PagesAdd, DetectAssumption
<1>2. \A r \in Page : /\ r.debt \in Listed /\ r.place = PlaceOf(r.debt)
                      /\ r.place \in Skip..(Skip + PageSize - 1)
                      /\ r = [place |-> PlaceOf(r.debt), debt |-> r.debt, order |-> book[r.debt]]
  BY DEF Page
<1>3. ASSUME NEW r \in Page, NEW q \in Page, r.place = q.place
      PROVE  r = q
  <2> DEFINE d == r.debt
             e == q.debt
  <2>1. /\ d \in Listed /\ e \in Listed /\ PlaceOf(d) = PlaceOf(e)
    BY <1>2, <1>3
  <2> HIDE DEF d, e
  <2>2. d \in Nat /\ e \in Nat
    BY <2>1, ListIs
  <2>3. PlaceIn(Listed, d) = PlaceIn(Listed, e)
        /\ PlaceIn(Listed, d) \in Nat /\ PlaceIn(Listed, e) \in Nat
    BY <2>1, ListIs, PlaceType
  <2>4. ~(d < e)
    BY <2>1, <2>3, ListIs, PlaceFalls
  <2>5. ~(e < d)
    BY <2>1, <2>3, ListIs, PlaceFalls
  <2>6. d = e
    BY <2>2, <2>4, <2>5
  <2> QED
    BY <1>2, <2>6 DEF d, e
<1>4. \A r \in Page : r.debt \in DOMAIN book
  BY <1>2, ListIs
<1> QED
  BY <1>1, <1>2, <1>3, <1>4

\* Taken together with what was read before.
LEMMA PageReads ==
  ASSUME SweepInv, ~Swept, walk = -1
  PROVE  LET records == got \cup Page
         IN /\ \A r \in records :
                 /\ r.place \in Nat /\ r.place < Skip + PageSize
                 /\ r.debt \in DOMAIN book
                 /\ r.debt \notin moved => r.order = book[r.debt]
            /\ \A r, q \in records : r.place = q.place => r = q
            /\ \A d \in Listed \ moved : PlaceOf(d) < Skip + PageSize =>
                 \E r \in records : r.debt = d
<1>a. /\ Inv /\ page \in 0..(MaxPages - 1) /\ \A r \in got : r.place < Skip
      /\ \A d \in Listed \ moved : PlaceOf(d) < Skip => Shown(d)
      /\ \A r \in got : /\ r.place \in Nat /\ r.debt \in DOMAIN book
                        /\ r.debt \notin moved => r.order = book[r.debt]
      /\ \A r, q \in got : r.place = q.place => r = q
  BY DEF SweepInv, Listing, ReadTrue, Inv, ReadInv
<1>b. Skip \in Nat /\ PageSize \in Nat
  BY <1>a, PagesAdd, DetectAssumption
<1>1. \A r \in got \cup Page :
        /\ r.place \in Nat /\ r.place < Skip + PageSize
        /\ r.debt \in DOMAIN book
        /\ r.debt \notin moved => r.order = book[r.debt]
  <2>1. \A r \in got : r.place < Skip + PageSize
    BY <1>a, <1>b
  <2> QED
    BY <1>a, <2>1, PageTrue
<1>2. ASSUME NEW r \in got \cup Page, NEW q \in got \cup Page, r.place = q.place
      PROVE  r = q
  <2>1. \A x \in got, y \in Page : x.place # y.place
    BY <1>a, <1>b, PageTrue
  <2> QED
    BY <1>a, <1>2, <2>1, PageTrue
<1>3. ASSUME NEW d \in Listed \ moved, PlaceOf(d) < Skip + PageSize
      PROVE  \E r \in got \cup Page : r.debt = d
  <2>1. PlaceOf(d) \in Nat
    BY <1>a, ListIs, PlaceType
  <2>2. CASE PlaceOf(d) < Skip
    BY <1>a, <1>3, <2>2 DEF Shown
  <2>3. CASE PlaceOf(d) >= Skip
    <3>1. PlaceOf(d) \in Skip..(Skip + PageSize - 1)
      BY <1>b, <1>3, <2>1, <2>3
    <3>2. [place |-> PlaceOf(d), debt |-> d, order |-> book[d]] \in Page
      BY <3>1 DEF Page
    <3> QED
      BY <3>2
  <2> QED
    BY <1>b, <2>1, <2>2, <2>3
<1> QED
  BY <1>1, <1>2, <1>3

\* With the last page every order in reach was read.
LEMMA LastPageReads ==
  ASSUME SweepInv, ~Swept, walk = -1, IsLastPage, InReach, NEW d \in Listed \ moved
  PROVE  \E r \in got \cup Page : r.debt = d
<1>a. Inv /\ page \in 0..(MaxPages - 1) /\ PageSize \in Nat \ {0} /\ Len(book) \in Nat
  BY ListIs, DetectAssumption DEF SweepInv, Listing
<1>b. Skip \in Nat /\ (page + 1 = MaxPages => Skip + PageSize = PageSize * MaxPages)
  BY <1>a, PagesAdd
<1>1. PlaceOf(d) \in Nat /\ PlaceOf(d) < Len(book)
  <2>1. PlaceIn(Listed, d) \in Nat /\ PlaceIn(Listed, d) < Len(book)
    BY <1>a, ListIs, PlaceType, PlaceInList
  <2> QED
    BY <1>a, <2>1, ListIs
<1>2. PlaceOf(d) < Skip + PageSize
  <2>1. SUFFICES ASSUME PlaceOf(d) >= Skip + PageSize
                 PROVE  FALSE
    BY <1>a, <1>b, <1>1
  <2>2. Cardinality(Page) >= PageSize
    BY <1>a, <2>1, FullPage
  <2>3. CASE page + 1 = MaxPages
    <3>1. Len(book) <= Skip + PageSize
      BY <1>b, <2>3 DEF InReach
    <3> QED
      BY <1>a, <1>b, <1>1, <2>1, <3>1
  <2>4. CASE Cardinality(Page) < PageSize
    <3>1. ~(PlaceOf(d) >= Skip + PageSize)
      BY <1>a, <2>2, <2>4, PageIsFinite
    <3> QED
      BY <2>1, <3>1
  <2> QED
    BY <2>3, <2>4 DEF IsLastPage
<1> QED
  BY <1>2, PageReads
\* The end of a list, with whatever was read of it.
LEMMA ListEndsKeeps ==
  ASSUME SweepInv, ~Swept, walk = -1, NEW records, ListEnds(records), Inv',
         UNCHANGED <<book, moved>>, errs \subseteq errs',
         \A r \in records : /\ r.place \in Nat /\ r.debt \in DOMAIN book
                            /\ r.debt \notin moved => r.order = book[r.debt],
         \A r, q \in records : r.place = q.place => r = q,
         InReach /\ <<Detector, 0>> \notin errs' => \A d \in Listed \ moved : \E r \in records : r.debt = d
  PROVE  SweepInv'
<1>a. /\ stage \in 1..3 /\ Handles /\ InReach' = InReach
      /\ \A s \in 1..3 : s < stage => Covered(s)
  BY DetectorAt DEF SweepInv, Inv, Swept, InReach
<1>b. \A source : Answered(source)' => Answered(source)
  BY <1>a DEF Answered
<1>c. sightings \subseteq sightings'
  BY <1>a, DetectorAt DEF ListEnds, Detector
<1>1. ASSUME NEW s \in 1..3, s < stage
      PROVE  Covered(s)'
  <2>1. Covered(s) /\ (Answered(Detectors[s])' => Answered(Detectors[s]))
    BY <1>a, <1>b, <1>1
  <2> QED
    BY <1>c, <2>1 DEF Covered, Sighted, Claims
<1>2. CASE stage = 2
  <2>1. got' = records /\ walk' = 0 /\ UNCHANGED <<stage, page, sightings>>
    BY <1>2, DetectorAt DEF ListEnds, Detector
  <2>2. ReadTrue' /\ Handles'
    BY <1>a, <2>1 DEF ReadTrue, Handles
  <2>3. Listing'
    BY <2>1 DEF Listing
  <2>4. Walking'
    <3>1. Detector = "failed_payment" /\ Listed = DOMAIN book
      BY <1>2, DetectorAt DEF Detector, Listed
    <3>2. Answered("failed_payment")' => \A d \in DOMAIN book \ moved : Shown(d)'
      BY <1>a, <2>1, <3>1 DEF Shown, Answered
    <3>3. \A r \in records : ~(r.place < 0)
      OBVIOUS
    <3> QED
      BY <2>1, <3>2, <3>3 DEF Walking
  <2> QED
    BY <1>1, <2>1, <2>2, <2>3, <2>4 DEF SweepInv
<1>3. CASE stage # 2
  <2> DEFINE source == Detectors[stage]
  <2>1. stage \in {1, 3}
    BY <1>a, <1>3
  <2>2. stage' = stage + 1 /\ got' = {} /\ walk' = -1 /\ page' = 0
    BY <2>1, DetectorAt DEF ListEnds, Detector, NextDetector
  <2>3. \/ stage = 1 /\ sightings' = sightings \cup Seen(records, IsOverdue)
        \/ stage = 3 /\ sightings' = sightings \cup Seen(records, IsUnpaid)
    BY <2>1, DetectorAt DEF ListEnds, Detector
  <2>4. \A x \in sightings' : x \in sightings \/ \E r \in records : x = Sighting(r)
    BY <2>3 DEF Seen
  <2>5. \A r \in records : /\ Sighting(r).place \in Nat /\ Sighting(r).stage = stage
                           /\ Sighting(r).root = r.debt
                           /\ Sighting(r).handle = IF stage = 1 THEN "invoice" ELSE "none"
    BY <2>1, DetectorAt DEF Sighting, Detector
  <2>6. Handles'
    BY <1>a, <2>1, <2>4, <2>5 DEF Handles
  <2>7. ReadTrue' /\ Walking'
    BY <2>2 DEF ReadTrue, Walking
  <2>8. Listing'
    <3>1. page' = 0 /\ got' = {} /\ PageSize \in Nat /\ MaxPages \in Nat \ {0}
      BY <2>2, DetectAssumption
    <3>2. Skip' = 0
      BY <3>1 DEF Skip
    <3>3. /\ Listed' \subseteq 1..Len(book) /\ Len(book) \in Nat
          /\ \A d : PlaceOf(d)' = PlaceIn(Listed', d)
      BY ListIs DEF SweepInv, Inv, BookInv, Listed, PlaceOf, PlaceIn, Above
    <3>4. \A d \in Listed' : PlaceOf(d)' \in Nat
      BY <3>3, PlaceType
    <3> QED
      BY <3>1, <3>2, <3>4 DEF Listing
  <2>9. ASSUME NEW s \in 1..3, s = stage
        PROVE  Covered(s)'
    <3>1. SUFFICES ASSUME InReach, <<source, 0>> \notin errs', NEW d \in DOMAIN book \ moved,
                          Claims(source, book[d])
                   PROVE  \E x \in sightings' : x.stage = stage /\ x.root = d
      BY <1>a, <2>1, <2>9 DEF Covered, Sighted, Claims, Answered
    <3>2. Detector = source
      BY DEF Detector
    <3>3. CASE stage = 1
      <4>1. source = "overdue_invoice" /\ IsOverdue(book[d])
        BY <3>1, <3>3, DetectorAt DEF Claims
      <4>2. d \in Listed
        BY <3>1, <3>2, <4>1, DetectAssumption DEF Listed, IsOverdue
      <4>3. PICK r \in records : r.debt = d
        BY <3>1, <3>2, <4>2
      <4>4. r.order = book[d]
        BY <3>1, <4>3
      <4>5. Sighting(r) \in Seen(records, IsOverdue)
        BY <4>1, <4>4 DEF Seen
      <4> QED
        BY <2>3, <2>5, <3>3, <4>3, <4>5
    <3>4. CASE stage = 3
      <4>1. source = "unpaid_order" /\ IsUnpaid(book[d])
        BY <3>1, <3>4, DetectorAt DEF Claims
      <4>2. d \in Listed
        BY <3>1, <3>2, <4>1 DEF Listed
      <4>3. PICK r \in records : r.debt = d
        BY <3>1, <3>2, <4>2
      <4>4. r.order = book[d]
        BY <3>1, <4>3
      <4>5. Sighting(r) \in Seen(records, IsUnpaid)
        BY <4>1, <4>4 DEF Seen
      <4> QED
        BY <2>3, <2>5, <3>4, <4>3, <4>5
    <3> QED
      BY <2>1, <3>3, <3>4
  <2>10. \A s \in 1..3 : s < stage' => Covered(s)'
    <3>1. \A s \in 1..3 : s < stage' => s < stage \/ s = stage
      BY <2>1, <2>2
    <3> QED
      BY <1>1, <2>9, <3>1
  <2> QED
    BY <2>6, <2>7, <2>8, <2>10 DEF SweepInv
<1> QED
  BY <1>2, <1>3

LEMMA ReadPageKeeps ==
  ASSUME SweepInv, ReadPage, Inv'
  PROVE  SweepInv'
<1> DEFINE records == got \cup Page
<1>a. ~Swept /\ walk = -1 /\ UNCHANGED <<book, errs, moved>>
  BY DEF ReadPage
<1>b. /\ \A r \in records : /\ r.place \in Nat /\ r.place < Skip + PageSize
                            /\ r.debt \in DOMAIN book
                            /\ r.debt \notin moved => r.order = book[r.debt]
      /\ \A r, q \in records : r.place = q.place => r = q
      /\ \A d \in Listed \ moved : PlaceOf(d) < Skip + PageSize =>
           \E r \in records : r.debt = d
  BY <1>a, PageReads
<1>1. CASE IsLastPage
  <2>1. ListEnds(records)
    BY <1>1 DEF ReadPage
  <2>2. InReach => \A d \in Listed \ moved : \E r \in records : r.debt = d
    BY <1>a, <1>1, LastPageReads
  <2> HIDE DEF records
  <2> QED
    BY <1>a, <1>b, <2>1, <2>2, ListEndsKeeps
<1>2. CASE ~IsLastPage
  <2>1. page' = page + 1 /\ got' = records /\ UNCHANGED <<stage, walk, sightings>>
    BY <1>2 DEF ReadPage
  <2>2. page \in 0..(MaxPages - 1) /\ page + 1 # MaxPages /\ MaxPages \in Nat
    BY <1>a, <1>2, DetectAssumption DEF SweepInv, Listing, IsLastPage
  <2>3. Skip' = Skip + PageSize
    BY <2>1, <2>2, PagesAdd DEF Skip
  <2>4. UNCHANGED Listed /\ \A d : PlaceOf(d)' = PlaceOf(d)
    BY <1>a, <2>1 DEF Listed, Detector, PlaceOf
  <2>5. Listing'
    <3>1. page' \in 0..(MaxPages - 1)
      BY <2>1, <2>2
    <3>2. \A d \in Listed \ moved : PlaceOf(d) < Skip + PageSize => Shown(d)'
      BY <1>b, <2>1 DEF Shown
    <3> QED
      BY <1>a, <1>b, <2>1, <2>3, <2>4, <3>1, <3>2 DEF Listing
  <2>6. ReadTrue'
    BY <1>a, <1>b, <2>1 DEF ReadTrue
  <2>7. Walking' /\ Handles'
    BY <1>a, <2>1 DEF Walking, SweepInv, Handles
  <2>8. \A s \in 1..3 : s < stage' => Covered(s)'
    BY <1>a, <2>1 DEF SweepInv, Covered, Answered, InReach, Sighted, Claims
  <2> QED
    BY <2>5, <2>6, <2>7, <2>8 DEF SweepInv
<1> QED
  BY <1>1, <1>2

LEMMA PageFailsKeeps ==
  ASSUME SweepInv, PageFails, Inv'
  PROVE  SweepInv'
<1>1. /\ ~Swept /\ walk = -1 /\ UNCHANGED <<book, moved>> /\ ListEnds(got)
      /\ errs' = errs \cup {<<Detector, 0>>}
  BY DEF PageFails
<1>2. errs \subseteq errs' /\ <<Detector, 0>> \in errs'
  BY <1>1
<1>3. \A r \in got : /\ r.place \in Nat /\ r.debt \in DOMAIN book
                     /\ r.debt \notin moved => r.order = book[r.debt]
  BY DEF SweepInv, ReadTrue, Inv, ReadInv
<1>4. \A r, q \in got : r.place = q.place => r = q
  BY DEF SweepInv, ReadTrue
<1> QED
  BY <1>1, <1>2, <1>3, <1>4, ListEndsKeeps
\* One turn of the walk deals with the order it is at and passes no other.
LEMMA WalkKeeps ==
  ASSUME SweepInv, walk # -1, NEW r \in NextInWalk, walk' = r.place + 1, Inv',
         UNCHANGED <<book, stage, page, got, moved>>,
         sightings \subseteq sightings', errs \subseteq errs', Handles',
         r.debt \notin moved => Walked(r.debt)'
  PROVE  SweepInv'
<1>a. /\ walk \in Nat /\ stage = 2 /\ r \in got /\ r.place \in Nat /\ walk <= r.place
      /\ \A other \in Ahead : r.place <= other.place
  BY DEF SweepInv, Walking, ReadTrue, Inv, NextInWalk, Ahead
<1>b. \A source : Answered(source)' => Answered(source)
  BY DEF Answered, InReach
<1>1. ReadTrue' /\ Listing'
  BY <1>a DEF SweepInv, ReadTrue, Listing
<1>2. ASSUME NEW q \in got, q.debt \notin moved, q.place < walk'
      PROVE  Walked(q.debt)'
  <2>1. q.place \in Nat /\ q.order = book[q.debt]
    BY <1>2 DEF SweepInv, ReadTrue
  <2>2. CASE q.place < walk
    <3>1. Walked(q.debt)
      BY <1>a, <1>2, <2>2 DEF SweepInv, Walking
    <3> QED
      BY <3>1 DEF Walked, Sighted
  <2>3. CASE q.place >= walk /\ IsCandidate(q.order)
    <3>1. r.place <= q.place
      BY <1>a, <2>3 DEF Ahead
    <3>2. q.place = r.place
      BY <1>a, <1>2, <2>1, <3>1
    <3>3. q = r
      BY <1>a, <3>2 DEF SweepInv, ReadTrue
    <3> QED
      BY <1>2, <3>3
  <2>4. CASE ~IsCandidate(q.order)
    BY <2>1, <2>4 DEF IsCandidate, Walked
  <2> QED
    BY <1>a, <2>1, <2>2, <2>3, <2>4
<1>3. Walking'
  <2>1. walk' \in Nat
    BY <1>a
  <2>2. Answered("failed_payment")' => \A d \in DOMAIN book \ moved : Shown(d)
    BY <1>b DEF SweepInv, Walking
  <2> QED
    BY <1>2, <2>1, <2>2 DEF Walking, Shown
<1>4. ASSUME NEW s \in 1..3, s < stage
      PROVE  Covered(s)'
  <2>1. Covered(s) /\ (Answered(Detectors[s])' => Answered(Detectors[s]))
    BY <1>b, <1>4 DEF SweepInv
  <2> QED
    BY <2>1 DEF Covered, Sighted, Claims
<1> QED
  BY <1>1, <1>3, <1>4 DEF SweepInv

LEMMA ReadPaymentsKeeps ==
  ASSUME SweepInv, ReadPayments, Inv'
  PROVE  SweepInv'
<1>1. PICK r \in NextInWalk :
        /\ sightings' = sightings \cup (IF book[r.debt].failed THEN {Sighting(r)} ELSE {})
        /\ walk' = r.place + 1
  BY DEF ReadPayments
<1>2. walk # -1 /\ stage = 2 /\ UNCHANGED <<book, stage, page, got, errs, moved>>
  BY DEF ReadPayments, SweepInv, Inv
<1>3. r.place \in Nat
  BY DEF SweepInv, ReadTrue, NextInWalk, Ahead
<1>4. /\ Sighting(r).place = r.place /\ Sighting(r).stage = 2 /\ Sighting(r).root = r.debt
      /\ Sighting(r).handle = "none"
  BY <1>2, DetectorAt DEF Sighting, Detector
<1>5. Handles'
  BY <1>1, <1>3, <1>4 DEF SweepInv, Handles
<1>6. Walked(r.debt)'
  BY <1>1, <1>2, <1>4 DEF Walked, Sighted
<1> QED
  BY <1>1, <1>2, <1>5, <1>6, WalkKeeps

LEMMA PaymentsFailKeeps ==
  ASSUME SweepInv, PaymentsFail, Inv'
  PROVE  SweepInv'
<1>1. PICK r \in NextInWalk :
        errs' = errs \cup {<<Detector, r.debt>>} /\ walk' = AfterFailure(r)
  BY DEF PaymentsFail
<1>2. walk # -1 /\ stage = 2 /\ UNCHANGED <<book, stage, page, got, sightings, moved>>
  BY DEF PaymentsFail, SweepInv, Inv
<1>3. Walked(r.debt)'
  BY <1>1, <1>2, DetectorAt DEF Walked, Detector
<1>4. Handles'
  BY <1>2 DEF SweepInv, Handles
<1> QED
  BY <1>1, <1>2, <1>3, <1>4, WalkKeeps DEF AfterFailure

LEMMA WalkEndsKeeps ==
  ASSUME SweepInv, WalkEnds, Inv'
  PROVE  SweepInv'
<1>1. /\ walk # -1 /\ stage = 2 /\ stage' = 3 /\ got' = {} /\ walk' = -1 /\ page' = 0
      /\ Ahead = {} /\ UNCHANGED <<book, sightings, errs, moved>>
  BY DEF WalkEnds, NextDetector, SweepInv, Inv
<1>2. Covered(2)
  <2>1. SUFFICES ASSUME Answered("failed_payment"), NEW d \in DOMAIN book \ moved,
                        book[d].due > 0, book[d].failed
                 PROVE  Sighted(2, d) \/ <<"failed_payment", d>> \in errs
    BY DetectorAt DEF Covered, Claims
  <2>2. PICK r \in got : r.debt = d
    BY <1>1, <2>1 DEF SweepInv, Walking, Shown
  <2>3. r.order = book[d] /\ r.place \in Nat /\ walk \in Nat
    BY <1>1, <2>1, <2>2 DEF SweepInv, ReadTrue, Walking
  <2>4. r.place < walk
    BY <1>1, <2>1, <2>2, <2>3 DEF Ahead, IsCandidate
  <2> QED
    BY <1>1, <2>1, <2>2, <2>4 DEF SweepInv, Walking, Walked
<1>3. ASSUME NEW s \in 1..3, s < stage'
      PROVE  Covered(s)'
  <2>1. Covered(s)
    BY <1>1, <1>2, <1>3 DEF SweepInv
  <2> QED
    BY <1>1, <2>1 DEF Covered, Sighted, Claims, Answered, InReach
<1>4. ReadTrue' /\ Walking' /\ Handles'
  BY <1>1 DEF SweepInv, ReadTrue, Walking, Handles
<1>5. Listing'
  <2>1. Skip' = 0 /\ MaxPages \in Nat \ {0}
    BY <1>1, DetectAssumption DEF Skip
  <2>2. /\ Listed' \subseteq 1..Len(book) /\ Len(book) \in Nat
        /\ \A d : PlaceOf(d)' = PlaceIn(Listed', d)
    BY <1>1, ListIs DEF SweepInv, Inv, BookInv, Listed, PlaceOf, PlaceIn, Above
  <2>3. \A d \in Listed' : PlaceOf(d)' \in Nat
    BY <2>2, PlaceType
  <2> QED
    BY <1>1, <2>1, <2>3 DEF Listing
<1> QED
  BY <1>3, <1>4, <1>5 DEF SweepInv

LEMMA SweepKept == SweepInv /\ [Next]_vars => SweepInv'
<1> SUFFICES ASSUME SweepInv, [Next]_vars
             PROVE  SweepInv'
  OBVIOUS
<1>1. Inv'
  BY InvNext DEF SweepInv
<1>2. CASE UNCHANGED vars
  <2>1. UNCHANGED <<book, stage, page, got, walk, sightings, errs, moved>>
    BY <1>2 DEF vars, sweeper
  <2>2. UNCHANGED Listed /\ \A d : PlaceOf(d)' = PlaceOf(d)
    BY <2>1 DEF Listed, Detector, PlaceOf
  <2>3. ReadTrue' /\ Walking' /\ Handles'
    BY <2>1 DEF SweepInv, ReadTrue, Walking, Handles, Answered, InReach, Shown, Walked, Sighted
  <2>4. Listing'
    BY <2>1, <2>2 DEF SweepInv, Listing, Swept, Skip, Shown
  <2>5. ASSUME NEW s \in 1..3, s < stage
        PROVE  Covered(s)'
    BY <2>1, <2>5 DEF SweepInv, Covered, Sighted, Claims, Answered, InReach
  <2> QED
    BY <1>1, <2>1, <2>3, <2>4, <2>5 DEF SweepInv
<1> QED
  BY <1>1, <1>2, WorldKeepsSweep, ReadPageKeeps, PageFailsKeeps, ReadPaymentsKeeps,
     PaymentsFailKeeps, WalkEndsKeeps DEF Next, Step

LEMMA SweepInvAlways == Spec => []SweepInv
BY SweepStarts, SweepKept, PTL DEF Spec

-----------------------------------------------------------------------------
(* The queue.                                                              *)

\* Collapse keeps a sighting of every debt that has one, and no later detector's.
LEMMA QueueKeepsFirst ==
  ASSUME Inv, Handles, NEW y \in sightings
  PROVE  \E x \in Queue : x.root = y.root
<1> DEFINE Mine   == {x \in sightings : x.root = y.root}
           Stages == {x.stage : x \in Mine}
<1>a. \A x \in sightings : x.stage \in Nat /\ x.place \in Nat
  BY DEF Inv, SightingInv, Handles
<1>1. Stages \subseteq Nat /\ y.stage \in Stages
  BY <1>a
<1>2. PICK s \in Stages : \A t \in Stages : s <= t
  <2> HIDE DEF Stages
  <2> QED
    BY <1>1, LeastOf
<1> DEFINE First  == {x \in Mine : x.stage = s}
           Places == {x.place : x \in First}
<1>3. Places \subseteq Nat /\ Places # {}
  BY <1>a, <1>2
<1>4. PICK p \in Places : \A q \in Places : p <= q
  <2> HIDE DEF Places
  <2> QED
    BY <1>3, LeastOf
<1>5. PICK x \in First : x.place = p
  OBVIOUS
<1>6. ASSUME NEW z \in sightings, Before(z, x), DedupeKey(z) = DedupeKey(x)
      PROVE  FALSE
  <2>1. z \in Mine /\ x \in Mine /\ x.stage = s
    BY <1>5, <1>6 DEF DedupeKey
  <2>2. z.stage \in Nat /\ z.place \in Nat /\ x.stage \in Nat /\ x.place \in Nat
    BY <1>a, <2>1
  <2>3. s <= z.stage
    BY <1>2, <2>1
  <2>4. z.stage = s => p <= z.place
    BY <1>4, <2>1
  <2> QED
    BY <1>5, <1>6, <2>1, <2>2, <2>3, <2>4 DEF Before
<1>7. x \in Queue
  BY <1>5, <1>6 DEF Queue
<1> QED
  BY <1>5, <1>7

\* A debt nobody touched during the sweep is in the queue, or a call that would
\* have shown it failed and says so, however the pages shift (detect.go, sweep;
\* riskrun/detect.go).
THEOREM NothingLostSilently == Spec => []LostOnlyWithAnError
<1>1. SweepInv => LostOnlyWithAnError
  <2> SUFFICES ASSUME SweepInv, Swept, InReach, NEW d \in DOMAIN book \ moved,
                      NEW source \in Elements(Detectors), Claims(source, book[d]),
                      {<<source, 0>>, <<source, d>>} \cap errs = {}
               PROVE  \E x \in Queue : x.root = d
    BY DEF LostOnlyWithAnError
  <2>1. PICK s \in 1..3 : source = Detectors[s]
    BY DEF Elements, Detectors
  <2>2. s < stage
    BY DetectorAt DEF Swept, SweepInv, Inv
  <2>3. Covered(s)
    BY <2>2 DEF SweepInv
  <2>4. s = 2 => source = "failed_payment"
    BY <2>1, DetectorAt
  <2>5. Sighted(s, d)
    BY <2>1, <2>3, <2>4 DEF Covered, Answered
  <2>6. PICK y \in sightings : y.root = d
    BY <2>5 DEF Sighted
  <2> QED
    BY <2>6, QueueKeepsFirst DEF SweepInv
<1> QED
  BY SweepInvAlways, <1>1, PTL

\* What the queue keeps of a debt is its invoice if the sweep has it, and it has
\* it when it is overdue and the list was answered (sweepAll's order, Collapse).
THEOREM InvoiceSpeaksAlways == Spec => []InvoiceSpeaks
<1>1. SweepInv => InvoiceSpeaks
  <2> SUFFICES ASSUME SweepInv
               PROVE  InvoiceSpeaks
    OBVIOUS
  <2>1. ASSUME NEW x \in Queue, NEW y \in sightings, x.root = y.root, y.handle = "invoice"
        PROVE  x.handle = "invoice"
    <3>1. x \in sightings /\ x.stage \in 1..3 /\ y.stage \in 1..3
      BY DEF Queue, SweepInv, Inv, SightingInv
    <3>2. y.stage = 1
      BY <2>1 DEF SweepInv, Handles
    <3>3. ~(y.stage < x.stage)
      BY <2>1 DEF Queue, Before, DedupeKey
    <3>4. x.stage = 1
      BY <3>1, <3>2, <3>3
    <3> QED
      BY <3>1, <3>4 DEF SweepInv, Handles
  <2>2. ASSUME Swept, InReach, <<"overdue_invoice", 0>> \notin errs,
               NEW x \in Queue, x.handle = "none", x.root \notin moved
        PROVE  ~IsOverdue(book[x.root])
    <3>1. x \in sightings /\ x.root \in DOMAIN book \ moved
      BY <2>2 DEF Queue, SweepInv, Inv, SightingInv
    <3>2. 1 < stage
      BY <2>2, DetectorAt DEF Swept, SweepInv, Inv
    <3>3. Covered(1)
      BY <3>2 DEF SweepInv
    <3>4. SUFFICES ASSUME IsOverdue(book[x.root])
                   PROVE  FALSE
      OBVIOUS
    <3>5. Sighted(1, x.root)
      BY <2>2, <3>1, <3>3, <3>4, DetectorAt DEF Covered, Answered, Claims
    <3>6. PICK y \in sightings : y.stage = 1 /\ y.root = x.root
      BY <3>5 DEF Sighted
    <3>7. y.handle = "invoice"
      BY <3>6 DEF SweepInv, Handles
    <3> QED
      BY <2>1, <2>2, <3>6, <3>7
  <2> QED
    BY <2>1, <2>2 DEF InvoiceSpeaks
<1> QED
  BY SweepInvAlways, <1>1, PTL
=============================================================================
