---------------------------- MODULE SeedRunProofs ----------------------------
(***************************************************************************)
(* What holds of the seeder for any plans, any budget and any number of    *)
(* runs.                                                                   *)
(***************************************************************************)
EXTENDS SeedRun, FiniteSetTheorems, SequenceTheorems, WellFoundedInduction, TLAPS

Item ==
  [kind : {"none", "invoice", "order"}, id : Nat, customer : Nat, amount : Nat,
   status : {"none", "draft", "issued", "created"}]

-----------------------------------------------------------------------------
(* The inductive invariant.                                                *)

Stages == {"idle", "customer", "invoice", "issue", "order", "write"}

ManifestType ==
  [state : {"absent", "torn", "written"}, tag : Nat, seed : Seeds \cup {None}, since : Nat,
   items : Seq(Item)]

RunType ==
  [stage : Stages, tag : Nat, seed : Seeds \cup {None}, since : Nat, items : Seq(Item), item : Item,
   used : 0..CallBudget, waits : 0..MaxBurstWaits, retry : {"none", "waiting", "due"}]

Types ==
  /\ account \in Seq(Resource)
  /\ file \in ManifestType
  /\ run \in RunType
  /\ runs \in 0..MaxRuns
  /\ \A i \in DOMAIN account : account[i].during <= runs
  /\ unfiled \subseteq DOMAIN account

\* c is the customer of the k-th invoice under this tag.
CustomerOf(acc, c, tag, k) ==
  c \in DOMAIN acc /\ acc[c].kind = "customer" /\ acc[c].tag = tag /\ acc[c].at = k

\* The item is what the k-th entry of its kind in the plan became.
Stands(acc, it, k, tag, seed, since) ==
  /\ k <= Len(Plans[seed][it.kind]) /\ it.amount = Plans[seed][it.kind][k].amount
  /\ it.id \in DOMAIN acc
  /\ acc[it.id].kind = it.kind /\ acc[it.id].tag = tag /\ acc[it.id].at = k
  /\ since <= acc[it.id].during
  /\ it.status = "issued" => acc[it.id].issued
  /\ it.kind = "invoice" =>
       acc[it.id].customer = it.customer /\ CustomerOf(acc, it.customer, tag, k)
  /\ it.kind = "order" => it.customer = None

\* Only the last item may have no id; it then holds the customer of the next invoice.
LeftOver(acc, items, tag, seed) ==
  \A k \in 1..Len(items) : items[k].id = None =>
    /\ k = Len(items) /\ items[k].kind = "invoice"
    /\ Len(OfKind(items, "invoice")) < Len(Plans[seed].invoice)
    /\ CustomerOf(acc, items[k].customer, tag, Len(OfKind(items, "invoice")) + 1)

\* Every item stands for the entry that its place among its kind names.
TrueBook(acc, items, tag, seed, since) ==
  /\ \A k \in 1..Len(items) : items[k].kind \in {"invoice", "order"}
  /\ \A kind \in {"invoice", "order"} : \A k \in 1..Len(OfKind(items, kind)) :
       Stands(acc, OfKind(items, kind)[k], k, tag, seed, since)
  /\ LeftOver(acc, items, tag, seed)

\* The place of the entry at hand in its plan.
Place(r) == Len(OfKind(r.items, r.item.kind)) + 1

\* The entry at hand is the next of its kind, and nothing is made of it yet.
AtEntry(r, kind) ==
  /\ r.item.kind = kind /\ r.item.id = None /\ r.item.status = "none"
  /\ Place(r) <= Len(Plans[r.seed][kind])
  /\ r.item.amount = Plans[r.seed][kind][Place(r)].amount

AllCreated(items) == \A k \in 1..Len(items) : items[k].id # None

\* How far the entry at hand is, at each stage of a run.
Stepwise(acc, r) ==
  /\ r.stage = "idle" => r = IdleRun
  /\ r.stage = "write" => r.item = NoItem
  /\ r.stage \notin {"idle", "write"} => AllCreated(r.items)
  /\ r.stage = "customer" => AtEntry(r, "invoice") /\ r.item.customer = None
  /\ r.stage = "invoice" =>
       AtEntry(r, "invoice") /\ CustomerOf(acc, r.item.customer, r.tag, Place(r))
  /\ r.stage = "issue" =>
       r.item.kind = "invoice" /\ Stands(acc, r.item, Place(r), r.tag, r.seed, r.since)
  /\ r.stage = "order" => AtEntry(r, "order") /\ r.item.customer = None

\* What a run holds, and what the file says, is so.
RunTrue(acc, r, now) ==
  r.stage # "idle" =>
    /\ r.seed \in Seeds /\ r.since \in 1..now
    /\ TrueBook(acc, r.items, r.tag, r.seed, r.since)

FileTrue(acc, f, now) ==
  /\ f.state = "written" =>
       /\ f.seed \in Seeds /\ f.since \in 1..now
       /\ TrueBook(acc, f.items, f.tag, f.seed, f.since)
  /\ f.state # "written" => f \in {NoManifest, TornFile}

NamedBy(r) == Ids(r.items) \cup Ids(<<r.item>>)

\* A run that goes on takes over whatever the file still answers for.
TakenOver == run.stage # "idle" => Ids(file.items) \subseteq NamedBy(run) \cup unfiled

MadeIn(acc, now) == {i \in DOMAIN acc : acc[i].during = now}

\* A call that is to be made again is paid for and has made nothing.
Paid(acc, r, now) ==
  /\ Cardinality(MadeIn(acc, now)) <= CallBudget
  /\ r.stage # "idle" =>
       Cardinality(MadeIn(acc, now)) + (IF r.retry = "none" THEN 0 ELSE 1) <= r.used

IInv ==
  /\ Types
  /\ Stepwise(account, run)
  /\ RunTrue(account, run, runs)
  /\ FileTrue(account, file, runs)
  /\ NothingOrphaned
  /\ TakenOver
  /\ Paid(account, run, runs)

-----------------------------------------------------------------------------
(* What CreatedOf selects.  It is a recursive function; what it returns is *)
(* known by the least length at which it would not be.                     *)

\* A set of naturals has a least member.
LEMMA LeastOf ==
  ASSUME NEW S, S \subseteq Nat, S # {}
  PROVE  \E x \in S : \A y \in S : x <= y
<1>1. IsWellFoundedOn(OpToRel(<, Nat), Nat)
  BY NatLessThanWellFounded
<1>2. PICK x \in S : \A y \in S : ~(<<y, x>> \in OpToRel(<, Nat))
  BY <1>1, WFMin
<1>3. ASSUME NEW y \in S
      PROVE  x <= y
  <2>1. x \in Nat /\ y \in Nat
    OBVIOUS
  <2>2. y < x => <<y, x>> \in {p \in Nat \X Nat : p[1] < p[2]}
    BY <2>1
  <2> QED
    BY <1>2, <2>1, <2>2 DEF OpToRel
<1> QED
  BY <1>3

\* The item is one that CreatedOf selects.
Chosen(it, kinds) == it.id # None /\ it.kind \in kinds

\* up holds, for each length up to m, what CreatedOf selects of that many items.
SelectsTo(up, items, kinds, m) ==
  /\ DOMAIN up = 0..m
  /\ up[0] = <<>>
  /\ \A n \in 1..m :
       up[n] = IF Chosen(items[n], kinds) THEN Append(up[n - 1], items[n]) ELSE up[n - 1]

\* Such a function exists for every length.
LEMMA SelectionExists ==
  ASSUME NEW items, NEW kinds, NEW m \in Nat
  PROVE  \E up : SelectsTo(up, items, kinds, m)
<1> DEFINE Bad == {n \in Nat : ~\E up : SelectsTo(up, items, kinds, n)}
<1>1. SUFFICES ASSUME Bad # {} PROVE FALSE
  OBVIOUS
<1>2. PICK b \in Bad : \A n \in Bad : b <= n
  BY <1>1, LeastOf
<1>3. b # 0
  <2>1. SelectsTo([n \in 0..0 |-> <<>>], items, kinds, 0)
    BY DEF SelectsTo
  <2> QED
    BY <2>1
<1>4. b - 1 \in Nat /\ b - 1 \notin Bad
  BY <1>2, <1>3
<1>5. PICK up : SelectsTo(up, items, kinds, b - 1)
  BY <1>4
<1> DEFINE next == IF Chosen(items[b], kinds) THEN Append(up[b - 1], items[b]) ELSE up[b - 1]
           longer == [n \in 0..b |-> IF n = b THEN next ELSE up[n]]
<1>6. SelectsTo(longer, items, kinds, b)
  <2>1. DOMAIN longer = 0..b /\ longer[0] = <<>>
    BY <1>3, <1>4, <1>5 DEF SelectsTo
  <2>2. ASSUME NEW n \in 1..b
        PROVE  longer[n] = IF Chosen(items[n], kinds) THEN Append(longer[n - 1], items[n])
                                                     ELSE longer[n - 1]
    <3>1. CASE n = b
      <4>1. longer[b] = next /\ longer[b - 1] = up[b - 1]
        BY <1>3, <1>4
      <4> QED
        BY <3>1, <4>1
    <3>2. CASE n # b
      <4>1. n \in 1..b - 1 /\ n - 1 \in 0..b - 1
        BY <3>2, <1>4
      <4>2. longer[n] = up[n] /\ longer[n - 1] = up[n - 1]
        BY <4>1, <3>2, <1>4
      <4> QED
        BY <4>1, <4>2, <1>5 DEF SelectsTo
    <3> QED
      BY <3>1, <3>2
  <2> HIDE DEF longer
  <2> QED
    BY <2>1, <2>2 DEF SelectsTo
<1> QED
  BY <1>6

\* And what it holds is fixed by the items it has gone through.
LEMMA SelectionAgrees ==
  \A s, t, kinds, f, g : \A m, n \in Nat :
    /\ m <= n /\ SelectsTo(f, s, kinds, m) /\ SelectsTo(g, t, kinds, n)
    /\ \A k \in 1..m : s[k] = t[k]
    => \A k \in 0..m : f[k] = g[k]
<1> SUFFICES ASSUME NEW s, NEW t, NEW kinds, NEW f, NEW g, NEW m \in Nat, NEW n \in Nat,
                    m <= n, SelectsTo(f, s, kinds, m), SelectsTo(g, t, kinds, n),
                    \A k \in 1..m : s[k] = t[k]
             PROVE  \A k \in 0..m : f[k] = g[k]
  OBVIOUS
<1> DEFINE Bad == {k \in 0..m : f[k] # g[k]}
<1>1. SUFFICES ASSUME Bad # {} PROVE FALSE
  OBVIOUS
<1>a. Bad \subseteq Nat
  OBVIOUS
<1>2. PICK b \in Bad : \A k \in Bad : b <= k
  BY <1>1, <1>a, LeastOf
<1>3. b # 0
  BY DEF SelectsTo
<1>4. b \in 1..m /\ b \in 1..n /\ b - 1 \in 0..m /\ b - 1 \notin Bad
  BY <1>2, <1>3
<1>5. f[b - 1] = g[b - 1] /\ s[b] = t[b]
  BY <1>4
<1>6. f[b] = g[b]
  BY <1>4, <1>5 DEF SelectsTo
<1> QED
  BY <1>6

LEMMA CreatedOfSelects ==
  ASSUME NEW items, Len(items) \in Nat, NEW kinds
  PROVE  \E up : SelectsTo(up, items, kinds, Len(items)) /\ CreatedOf(items, kinds) = up[Len(items)]
<1> DEFINE m == Len(items)
           Body(up) == [n \in 0..m |->
             IF n = 0 THEN <<>>
             ELSE IF items[n].id # None /\ items[n].kind \in kinds
                  THEN Append(up[n - 1], items[n]) ELSE up[n - 1]]
           upTo == CHOOSE up : up = Body(up)
<1>1. PICK up : SelectsTo(up, items, kinds, m)
  BY SelectionExists
<1>2. \E f : f = Body(f)
  <2> DEFINE f == [n \in 0..m |-> up[n]]
  <2>1. ASSUME NEW n \in 0..m
        PROVE  f[n] = Body(f)[n]
    <3>1. CASE n = 0
      BY <1>1, <3>1 DEF SelectsTo
    <3>2. CASE n # 0
      <4>1. n \in 1..m /\ n - 1 \in 0..m /\ f[n - 1] = up[n - 1]
        BY <3>2
      <4>2. up[n] = IF items[n].id # None /\ items[n].kind \in kinds
                    THEN Append(up[n - 1], items[n]) ELSE up[n - 1]
        BY <1>1, <4>1 DEF SelectsTo, Chosen
      <4> QED
        BY <3>2, <4>1, <4>2
    <3> QED
      BY <3>1, <3>2
  <2>2. f = Body(f)
    <3> HIDE DEF m
    <3> QED
      BY <2>1
  <2> QED
    BY <2>2
<1>3. upTo = Body(upTo)
  BY <1>2
<1>4. SelectsTo(upTo, items, kinds, m)
  <2>1. DOMAIN upTo = DOMAIN Body(upTo) /\ \A n \in 0..m : upTo[n] = Body(upTo)[n]
    BY <1>3
  <2> HIDE DEF upTo
  <2>2. DOMAIN upTo = 0..m /\ upTo[0] = <<>>
    BY <2>1
  <2>3. ASSUME NEW n \in 1..m
        PROVE  upTo[n] = IF Chosen(items[n], kinds) THEN Append(upTo[n - 1], items[n])
                                                    ELSE upTo[n - 1]
    <3>1. n \in 0..m /\ n # 0
      OBVIOUS
    <3>2. upTo[n] = Body(upTo)[n]
      BY <2>1, <3>1
    <3> QED
      BY <3>1, <3>2 DEF Chosen
  <2> QED
    BY <2>2, <2>3 DEF SelectsTo
<1>5. CreatedOf(items, kinds) = upTo[m]
  BY DEF CreatedOf
<1> QED
  BY <1>4, <1>5

\* made is a selection of the first n items: every one it holds is among them
\* and to be chosen, and every one to be chosen is held.
Selects(made, items, kinds, n) ==
  /\ made \in Seq(Item)
  /\ \A k \in 1..Len(made) : Chosen(made[k], kinds) /\ \E j \in 1..n : items[j] = made[k]
  /\ \A j \in 1..n : Chosen(items[j], kinds) => \E k \in 1..Len(made) : made[k] = items[j]

LEMMA SelectionIsRight ==
  ASSUME NEW items \in Seq(Item), NEW kinds, NEW up, SelectsTo(up, items, kinds, Len(items))
  PROVE  \A n \in 0..Len(items) : Selects(up[n], items, kinds, n)
<1> DEFINE m == Len(items)
           Bad == {n \in 0..m : ~Selects(up[n], items, kinds, n)}
<1>a. m \in Nat /\ Bad \subseteq Nat
  OBVIOUS
<1>1. SUFFICES ASSUME Bad # {} PROVE FALSE
  OBVIOUS
<1>2. PICK b \in Bad : \A n \in Bad : b <= n
  BY <1>1, <1>a, LeastOf
<1>3. b # 0
  <2>1. Selects(<<>>, items, kinds, 0)
    BY DEF Selects
  <2> QED
    BY <2>1 DEF SelectsTo
<1>4. b \in 1..m /\ b - 1 \in 0..m /\ b - 1 \in Nat /\ b - 1 \notin Bad
  BY <1>2, <1>3
<1>5. Selects(up[b - 1], items, kinds, b - 1)
  BY <1>4
<1>6. items[b] \in Item
  BY <1>4
<1>7. CASE Chosen(items[b], kinds)
  <2> DEFINE old == up[b - 1]
  <2>1. up[b] = Append(old, items[b])
    BY <1>4, <1>7 DEF SelectsTo
  <2>2. old \in Seq(Item)
    BY <1>5 DEF Selects
  <2> HIDE DEF old
  <2>3. /\ up[b] \in Seq(Item) /\ Len(up[b]) = Len(old) + 1 /\ Len(old) \in Nat
        /\ \A k \in 1..Len(old) : up[b][k] = old[k]
        /\ up[b][Len(old) + 1] = items[b]
    BY <2>1, <2>2, <1>6
  <2>4. ASSUME NEW k \in 1..Len(up[b])
        PROVE  Chosen(up[b][k], kinds) /\ \E j \in 1..b : items[j] = up[b][k]
    <3>1. CASE k \in 1..Len(old)
      <4>1. Chosen(old[k], kinds) /\ \E j \in 1..b - 1 : items[j] = old[k]
        BY <3>1, <1>5 DEF Selects, old
      <4>2. 1..b - 1 \subseteq 1..b
        BY <1>4
      <4> QED
        BY <3>1, <4>1, <4>2, <2>3
    <3>2. CASE k = Len(old) + 1
      <4>1. b \in 1..b
        BY <1>4
      <4> QED
        BY <3>2, <2>3, <1>7, <4>1
    <3> QED
      BY <3>1, <3>2, <2>3
  <2>5. ASSUME NEW j \in 1..b, Chosen(items[j], kinds)
        PROVE  \E k \in 1..Len(up[b]) : up[b][k] = items[j]
    <3>1. CASE j = b
      <4>1. Len(old) + 1 \in 1..Len(up[b])
        BY <2>3
      <4> QED
        BY <3>1, <4>1, <2>3
    <3>2. CASE j # b
      <4>1. j \in 1..b - 1
        BY <3>2, <1>4
      <4>2. PICK k \in 1..Len(old) : old[k] = items[j]
        BY <4>1, <2>5, <1>5 DEF Selects, old
      <4>3. k \in 1..Len(up[b]) /\ up[b][k] = items[j]
        BY <4>2, <2>3
      <4> QED
        BY <4>3
    <3> QED
      BY <3>1, <3>2
  <2> QED
    BY <2>3, <2>4, <2>5, <1>4 DEF Selects
<1>8. CASE ~Chosen(items[b], kinds)
  <2>1. up[b] = up[b - 1]
    BY <1>4, <1>8 DEF SelectsTo
  <2>2. ASSUME NEW j \in 1..b, Chosen(items[j], kinds)
        PROVE  j \in 1..b - 1
    BY <2>2, <1>8, <1>4
  <2>3. 1..b - 1 \subseteq 1..b
    BY <1>4
  <2> QED
    BY <2>1, <2>2, <2>3, <1>5, <1>4 DEF Selects
<1> QED
  BY <1>7, <1>8

LEMMA CreatedOfIsRight ==
  ASSUME NEW items \in Seq(Item), NEW kinds
  PROVE  Selects(CreatedOf(items, kinds), items, kinds, Len(items))
<1>1. Len(items) \in Nat /\ Len(items) \in 0..Len(items)
  OBVIOUS
<1>2. PICK up : SelectsTo(up, items, kinds, Len(items)) /\ CreatedOf(items, kinds) = up[Len(items)]
  BY <1>1, CreatedOfSelects
<1> QED
  BY <1>1, <1>2, SelectionIsRight

LEMMA CreatedOfEmpty ==
  ASSUME NEW kinds
  PROVE  CreatedOf(<<>>, kinds) = <<>>
<1>1. Len(<<>>) = 0
  OBVIOUS
<1>2. PICK up : SelectsTo(up, <<>>, kinds, Len(<<>>)) /\ CreatedOf(<<>>, kinds) = up[Len(<<>>)]
  BY <1>1, CreatedOfSelects
<1> QED
  BY <1>1, <1>2 DEF SelectsTo

\* An item appended is appended to the selection, or leaves it alone.
LEMMA CreatedOfAppend ==
  ASSUME NEW items \in Seq(Item), NEW it \in Item, NEW kinds
  PROVE  CreatedOf(Append(items, it), kinds) =
           IF Chosen(it, kinds) THEN Append(CreatedOf(items, kinds), it) ELSE CreatedOf(items, kinds)
<1> DEFINE m == Len(items)
           more == Append(items, it)
<1>1. /\ m \in Nat /\ Len(more) = m + 1 /\ more[m + 1] = it
      /\ \A k \in 1..m : items[k] = more[k]
  OBVIOUS
<1>2. PICK f : SelectsTo(f, items, kinds, m) /\ CreatedOf(items, kinds) = f[m]
  BY <1>1, CreatedOfSelects
<1>3. PICK g : SelectsTo(g, more, kinds, m + 1) /\ CreatedOf(more, kinds) = g[m + 1]
  <2>1. Len(more) \in Nat
    BY <1>1
  <2> QED
    BY <1>1, <2>1, CreatedOfSelects
<1> HIDE DEF m, more
<1>4. \A k \in 0..m : f[k] = g[k]
  <2>1. PICK n \in Nat : n = m + 1
    BY <1>1
  <2>2. SelectsTo(g, more, kinds, n) /\ m \in Nat /\ m <= n
    BY <1>1, <1>3, <2>1
  <2> QED
    BY <1>1, <1>2, <2>2, SelectionAgrees
<1>5. f[m] = g[m] /\ m + 1 \in 1..m + 1 /\ (m + 1) - 1 = m
  BY <1>1, <1>4
<1>6. g[m + 1] = IF Chosen(it, kinds) THEN Append(g[m], it) ELSE g[m]
  BY <1>1, <1>3, <1>5 DEF SelectsTo
<1> QED
  BY <1>2, <1>3, <1>5, <1>6 DEF more

\* What is to be chosen throughout is all there is.
LEMMA CreatedOfAll ==
  ASSUME NEW items \in Seq(Item), NEW kinds, \A k \in 1..Len(items) : Chosen(items[k], kinds)
  PROVE  CreatedOf(items, kinds) = items
<1> DEFINE m == Len(items)
<1>a. m \in Nat
  OBVIOUS
<1>1. PICK up : SelectsTo(up, items, kinds, m) /\ CreatedOf(items, kinds) = up[m]
  BY <1>a, CreatedOfSelects
<1> DEFINE Bad == {n \in 0..m : ~(up[n] \in Seq(Item) /\ Len(up[n]) = n
                                  /\ \A k \in 1..n : up[n][k] = items[k])}
<1>2. Bad = {}
  <2>1. SUFFICES ASSUME Bad # {} PROVE FALSE
    OBVIOUS
  <2>2. PICK b \in Bad : \A n \in Bad : b <= n
    <3>1. Bad \subseteq Nat
      BY <1>a
    <3> QED
      BY <2>1, <3>1, LeastOf
  <2>3. b # 0
    BY <1>1 DEF SelectsTo
  <2>4. b \in 1..m /\ b - 1 \in 0..m /\ b - 1 \in Nat /\ b - 1 \notin Bad
    BY <2>2, <2>3, <1>a
  <2> DEFINE old == up[b - 1]
  <2>5. /\ old \in Seq(Item) /\ Len(old) = b - 1
        /\ \A k \in 1..b - 1 : old[k] = items[k]
    BY <2>4
  <2>6. up[b] = Append(old, items[b]) /\ items[b] \in Item
    <3>1. Chosen(items[b], kinds) /\ items[b] \in Item
      BY <2>4
    <3>2. up[b] = IF Chosen(items[b], kinds) THEN Append(up[b - 1], items[b]) ELSE up[b - 1]
      BY <2>4, <1>1 DEF SelectsTo
    <3> QED
      BY <3>1, <3>2
  <2> HIDE DEF old
  <2>7. up[b] \in Seq(Item) /\ Len(up[b]) = b /\ up[b][b] = items[b]
        /\ \A k \in 1..b - 1 : up[b][k] = old[k]
    BY <2>4, <2>5, <2>6
  <2>8. \A k \in 1..b : up[b][k] = items[k]
    BY <2>4, <2>5, <2>7
  <2> QED
    BY <2>7, <2>8, <2>4
<1>3. m \in 0..m /\ m \notin Bad
  BY <1>2, <1>a
<1>4. up[m] \in Seq(Item) /\ Len(up[m]) = m /\ \A k \in 1..m : up[m][k] = items[k]
  BY <1>3
<1> QED
  <2>1. up[m] = items
    <3> HIDE DEF Bad
    <3> QED
      BY <1>4, SeqEqual
  <2> QED
    BY <2>1, <1>1

-----------------------------------------------------------------------------
(* Books of items.                                                         *)

Kinds == {"invoice", "order"}

LEMMA PlansType ==
  ASSUME NEW seed \in Seeds, NEW kind \in Kinds
  PROVE  /\ Plans[seed][kind] \in Seq(Entry) /\ Len(Plans[seed][kind]) \in Nat
         /\ \A k \in 1..Len(Plans[seed][kind]) : Plans[seed][kind][k].amount \in Nat
         /\ Plans[seed].invoice = Plans[seed]["invoice"]
         /\ Plans[seed].order = Plans[seed]["order"]
<1>1. Plans[seed] \in [invoice : Seq(Entry), order : Seq(Entry)]
  BY SeedAssumption
<1>2. Plans[seed][kind] \in Seq(Entry)
  BY <1>1 DEF Kinds
<1>3. \A k \in 1..Len(Plans[seed][kind]) : Plans[seed][kind][k] \in Entry
  BY <1>2
<1> QED
  BY <1>1, <1>2, <1>3 DEF Entry

LEMMA OfKindType ==
  ASSUME NEW items \in Seq(Item), NEW kind
  PROVE  /\ OfKind(items, kind) \in Seq(Item)
         /\ Len(OfKind(items, kind)) \in Nat
         /\ \A k \in 1..Len(OfKind(items, kind)) :
              /\ OfKind(items, kind)[k] \in Item
              /\ OfKind(items, kind)[k].id # None /\ OfKind(items, kind)[k].kind = kind
         /\ \A j \in 1..Len(items) : items[j].id # None /\ items[j].kind = kind =>
              \E k \in 1..Len(OfKind(items, kind)) : OfKind(items, kind)[k] = items[j]
<1> DEFINE made == CreatedOf(items, {kind})
<1>1. Selects(made, items, {kind}, Len(items))
  BY CreatedOfIsRight
<1>2. OfKind(items, kind) = made
  BY DEF OfKind
<1> HIDE DEF made
<1>3. made \in Seq(Item)
  BY <1>1 DEF Selects
<1>4. \A k \in 1..Len(made) : made[k] \in Item
  BY <1>3
<1> QED
  BY <1>1, <1>2, <1>3, <1>4 DEF Selects, Chosen

LEMMA OfKindAppend ==
  ASSUME NEW items \in Seq(Item), NEW it \in Item, NEW kind
  PROVE  OfKind(Append(items, it), kind) =
           IF it.id # None /\ it.kind = kind THEN Append(OfKind(items, kind), it)
                                             ELSE OfKind(items, kind)
<1>1. Chosen(it, {kind}) <=> it.id # None /\ it.kind = kind
  BY DEF Chosen
<1> QED
  BY <1>1, CreatedOfAppend DEF OfKind

LEMMA IdsHold ==
  ASSUME NEW items, NEW x
  PROVE  x \in Ids(items) <=>
           x # None /\ \E k \in DOMAIN items : x = items[k].id \/ x = items[k].customer
BY DEF Ids

LEMMA IdsOne ==
  ASSUME NEW it, NEW x
  PROVE  x \in Ids(<<it>>) <=> x # None /\ (x = it.id \/ x = it.customer)
<1>1. DOMAIN <<it>> = {1} /\ <<it>>[1] = it
  OBVIOUS
<1> QED
  BY <1>1, IdsHold

LEMMA IdsEmpty == Ids(<<>>) = {}
BY DEF Ids

LEMMA IdsAppend ==
  ASSUME NEW items \in Seq(Item), NEW it \in Item
  PROVE  Ids(Append(items, it)) = Ids(items) \cup Ids(<<it>>)
<1> DEFINE more == Append(items, it)
           n == Len(items)
<1>1. /\ n \in Nat /\ DOMAIN items = 1..n /\ DOMAIN more = 1..n + 1
      /\ more[n + 1] = it /\ \A k \in 1..n : more[k] = items[k]
  OBVIOUS
<1>2. DOMAIN more = DOMAIN items \cup {n + 1}
  BY <1>1
<1> HIDE DEF more, n
<1>3. ASSUME NEW x
      PROVE  x \in Ids(more) <=> x \in Ids(items) \/ x \in Ids(<<it>>)
  <2>1. (\E k \in DOMAIN more : x = more[k].id \/ x = more[k].customer) <=>
          \/ \E k \in DOMAIN items : x = items[k].id \/ x = items[k].customer
          \/ x = it.id \/ x = it.customer
    BY <1>1, <1>2
  <2>2. x \in Ids(more) <=>
          x # None /\ \E k \in DOMAIN more : x = more[k].id \/ x = more[k].customer
    BY IdsHold
  <2>3. x \in Ids(items) <=>
          x # None /\ \E k \in DOMAIN items : x = items[k].id \/ x = items[k].customer
    BY IdsHold
  <2> QED
    BY <2>1, <2>2, <2>3, IdsOne
<1> QED
  BY <1>3 DEF more

\* What the account keeps of what was made, whatever else is made.
Grows(acc, more) ==
  /\ DOMAIN acc \subseteq DOMAIN more
  /\ \A i \in DOMAIN acc :
       /\ more[i].kind = acc[i].kind /\ more[i].tag = acc[i].tag /\ more[i].at = acc[i].at
       /\ more[i].customer = acc[i].customer /\ more[i].during = acc[i].during
       /\ acc[i].issued => more[i].issued

LEMMA CustomerStays ==
  ASSUME NEW acc, NEW more, Grows(acc, more), NEW c, NEW tag, NEW k, CustomerOf(acc, c, tag, k)
  PROVE  CustomerOf(more, c, tag, k)
BY DEF Grows, CustomerOf

LEMMA StandsStill ==
  ASSUME NEW acc, NEW more, Grows(acc, more), NEW it, NEW k, NEW tag, NEW seed, NEW since,
         Stands(acc, it, k, tag, seed, since)
  PROVE  Stands(more, it, k, tag, seed, since)
<1>1. it.id \in DOMAIN acc
  BY DEF Stands
<1>2. /\ more[it.id].kind = acc[it.id].kind /\ more[it.id].tag = acc[it.id].tag
      /\ more[it.id].at = acc[it.id].at /\ more[it.id].customer = acc[it.id].customer
      /\ more[it.id].during = acc[it.id].during
      /\ acc[it.id].issued => more[it.id].issued
      /\ it.id \in DOMAIN more
  BY <1>1 DEF Grows
<1>3. it.kind = "invoice" => CustomerOf(more, it.customer, tag, k)
  BY CustomerStays DEF Stands
<1> QED
  BY <1>2, <1>3 DEF Stands

LEMMA BookStays ==
  ASSUME NEW acc, NEW more, Grows(acc, more), NEW items, NEW tag, NEW seed, NEW since,
         TrueBook(acc, items, tag, seed, since)
  PROVE  TrueBook(more, items, tag, seed, since)
<1>1. ASSUME NEW kind \in Kinds, NEW k \in 1..Len(OfKind(items, kind))
      PROVE  Stands(more, OfKind(items, kind)[k], k, tag, seed, since)
  <2>1. Stands(acc, OfKind(items, kind)[k], k, tag, seed, since)
    BY DEF TrueBook, Kinds
  <2> QED
    BY <2>1, StandsStill
<1>2. LeftOver(more, items, tag, seed)
  BY CustomerStays DEF TrueBook, LeftOver
<1> QED
  BY <1>1, <1>2 DEF TrueBook, Kinds

LEMMA EmptyBook ==
  ASSUME NEW acc, NEW tag, NEW seed, NEW since
  PROVE  TrueBook(acc, <<>>, tag, seed, since)
<1>1. \A kind : OfKind(<<>>, kind) = <<>>
  BY CreatedOfEmpty DEF OfKind
<1>2. Len(<<>>) = 0 /\ \A k : k \notin 1..0
  OBVIOUS
<1> QED
  BY <1>1, <1>2 DEF TrueBook, LeftOver

\* The next item of its kind may be added to a book that lacks nothing.
LEMMA BookWith ==
  ASSUME NEW acc, NEW items \in Seq(Item), NEW tag, NEW seed, NEW since, NEW it \in Item,
         TrueBook(acc, items, tag, seed, since), AllCreated(items),
         it.kind \in Kinds, it.id # None,
         Stands(acc, it, Len(OfKind(items, it.kind)) + 1, tag, seed, since)
  PROVE  TrueBook(acc, Append(items, it), tag, seed, since) /\ AllCreated(Append(items, it))
<1> DEFINE more == Append(items, it)
           n == Len(items)
<1>1. n \in Nat /\ Len(more) = n + 1 /\ more[n + 1] = it /\ \A k \in 1..n : more[k] = items[k]
  OBVIOUS
<1>2. \A kind : OfKind(more, kind) = IF it.kind = kind THEN Append(OfKind(items, kind), it)
                                                       ELSE OfKind(items, kind)
  BY OfKindAppend
<1> HIDE DEF more, n
<1>3. AllCreated(more)
  BY <1>1 DEF AllCreated, n
<1>4. \A k \in 1..Len(more) : more[k].kind \in Kinds
  BY <1>1 DEF n, TrueBook, Kinds
<1>5. ASSUME NEW kind \in Kinds, NEW k \in 1..Len(OfKind(more, kind))
      PROVE  Stands(acc, OfKind(more, kind)[k], k, tag, seed, since)
  <2> DEFINE made == OfKind(items, kind)
  <2>1. made \in Seq(Item) /\ Len(made) \in Nat
    BY OfKindType
  <2>2. \A j \in 1..Len(made) : Stands(acc, made[j], j, tag, seed, since)
    BY DEF TrueBook, Kinds
  <2> HIDE DEF made
  <2>3. CASE it.kind # kind
    <3>1. OfKind(more, kind) = made
      BY <1>2, <2>3 DEF made
    <3> QED
      BY <3>1, <2>2
  <2>4. CASE it.kind = kind
    <3>1. OfKind(more, kind) = Append(made, it)
      BY <1>2, <2>4 DEF made
    <3>2. /\ Len(Append(made, it)) = Len(made) + 1
          /\ Append(made, it)[Len(made) + 1] = it
          /\ \A j \in 1..Len(made) : Append(made, it)[j] = made[j]
      BY <2>1
    <3>3. CASE k \in 1..Len(made)
      BY <3>1, <3>2, <3>3, <2>2
    <3>4. CASE k = Len(made) + 1
      <4>1. Stands(acc, it, Len(made) + 1, tag, seed, since)
        BY <2>4 DEF made
      <4> QED
        BY <3>1, <3>2, <3>4, <4>1
    <3> QED
      BY <3>1, <3>2, <3>3, <3>4, <2>1
  <2> QED
    BY <2>3, <2>4
<1>6. LeftOver(acc, more, tag, seed)
  BY <1>3 DEF LeftOver, AllCreated
<1> QED
  BY <1>3, <1>4, <1>5, <1>6 DEF TrueBook, Kinds, more

\* And so may a customer whose invoice is still to be made.
LEMMA BookWithCustomer ==
  ASSUME NEW acc, NEW items \in Seq(Item), NEW tag, NEW seed, NEW since, NEW it \in Item,
         TrueBook(acc, items, tag, seed, since), AllCreated(items),
         it.kind = "invoice", it.id = None,
         Len(OfKind(items, "invoice")) < Len(Plans[seed].invoice),
         CustomerOf(acc, it.customer, tag, Len(OfKind(items, "invoice")) + 1)
  PROVE  TrueBook(acc, Append(items, it), tag, seed, since)
<1> DEFINE more == Append(items, it)
           n == Len(items)
<1>1. n \in Nat /\ Len(more) = n + 1 /\ more[n + 1] = it /\ \A k \in 1..n : more[k] = items[k]
  OBVIOUS
<1>2. \A kind : OfKind(more, kind) = OfKind(items, kind)
  BY OfKindAppend
<1> HIDE DEF more, n
<1>3. \A k \in 1..Len(more) : more[k].kind \in Kinds
  BY <1>1 DEF n, TrueBook, Kinds
<1>4. ASSUME NEW k \in 1..Len(more), more[k].id = None
      PROVE  k = n + 1
  BY <1>1, <1>4 DEF AllCreated, n
<1>5. LeftOver(acc, more, tag, seed)
  BY <1>1, <1>2, <1>4 DEF LeftOver
<1> QED
  BY <1>2, <1>3, <1>5 DEF TrueBook, Kinds, more

\* Another seed's plan that the amounts fit is stood for as well.
LEMMA BookOfOtherSeed ==
  ASSUME NEW acc, NEW items \in Seq(Item), NEW tag, NEW since, NEW old \in Seeds, NEW seed \in Seeds,
         TrueBook(acc, items, tag, old, since),
         \A kind \in Kinds : IsPrefix(Amounts(OfKind(items, kind)), Amounts(Plans[seed][kind]))
  PROVE  TrueBook(acc, items, tag, seed, since)
<1>1. ASSUME NEW kind \in Kinds, NEW k \in 1..Len(OfKind(items, kind))
      PROVE  Stands(acc, OfKind(items, kind)[k], k, tag, seed, since)
  <2> DEFINE made == OfKind(items, kind)
             plan == Plans[seed][kind]
  <2>1. /\ made \in Seq(Item) /\ Len(made) \in Nat /\ made[k].kind = kind
        /\ \A j \in 1..Len(made) : made[j] \in Item
    BY OfKindType
  <2>2. /\ plan \in Seq(Entry) /\ Len(plan) \in Nat
        /\ \A j \in 1..Len(plan) : plan[j].amount \in Nat
    BY PlansType
  <2>3. Stands(acc, made[k], k, tag, old, since)
    BY DEF TrueBook, Kinds
  <2>4. IsPrefix(Amounts(made), Amounts(plan))
    OBVIOUS
  <2> HIDE DEF made, plan
  <2>5. Amounts(made) = [j \in 1..Len(made) |-> made[j].amount]
        /\ Amounts(plan) = [j \in 1..Len(plan) |-> plan[j].amount]
    BY <2>1, <2>2 DEF Amounts
  <2>6. Amounts(made) \in Seq(Nat) /\ Amounts(plan) \in Seq(Nat)
        /\ Len(Amounts(made)) = Len(made) /\ Len(Amounts(plan)) = Len(plan)
    <3>1. \A j \in 1..Len(made) : made[j].amount \in Nat
      BY <2>1 DEF Item
    <3> DEFINE a == [j \in 1..Len(made) |-> made[j].amount]
               b == [j \in 1..Len(plan) |-> plan[j].amount]
    <3>2. a \in Seq(Nat) /\ Len(a) = Len(made)
      BY <2>1, <3>1
    <3>3. b \in Seq(Nat) /\ Len(b) = Len(plan)
      BY <2>2
    <3> QED
      BY <2>5, <3>2, <3>3
  <2>7. Len(made) <= Len(plan) /\ k \in 1..Len(made) /\ k \in 1..Len(plan)
    BY <2>1, <2>2, <2>4, <2>6 DEF IsPrefix, made
  <2>8. Amounts(made)[k] = Amounts(plan)[k]
    <3>1. SubSeq(Amounts(made), 1, Len(made)) = SubSeq(Amounts(plan), 1, Len(made))
      BY <2>4, <2>6 DEF IsPrefix
    <3>2. SubSeq(Amounts(made), 1, Len(made))[k] = Amounts(made)[k]
      BY <2>1, <2>6, <2>7
    <3>3. SubSeq(Amounts(plan), 1, Len(made))[k] = Amounts(plan)[k]
      BY <2>1, <2>2, <2>6, <2>7
    <3> QED
      BY <3>1, <3>2, <3>3
  <2>9. made[k].amount = plan[k].amount
    BY <2>5, <2>7, <2>8
  <2> QED
    BY <2>1, <2>2, <2>3, <2>7, <2>9 DEF Stands, made, plan
<1>2. Len(Plans[old].invoice) = Len(Plans[seed].invoice)
  <2>1. Len(Plans[old]["invoice"]) = Len(Plans[seed]["invoice"])
    BY SeedAssumption
  <2> QED
    BY <2>1, PlansType DEF Kinds
<1> QED
  BY <1>1, <1>2 DEF TrueBook, LeftOver, Kinds

\* A true book fits the plan it is a book of.
LEMMA BookFits ==
  ASSUME NEW acc, NEW items \in Seq(Item), NEW tag, NEW since, NEW seed \in Seeds,
         TrueBook(acc, items, tag, seed, since), NEW kind \in Kinds
  PROVE  IsPrefix(Amounts(OfKind(items, kind)), Amounts(Plans[seed][kind]))
<1> DEFINE made == OfKind(items, kind)
           plan == Plans[seed][kind]
<1>1. /\ made \in Seq(Item) /\ Len(made) \in Nat
      /\ \A j \in 1..Len(made) : made[j] \in Item /\ made[j].kind = kind
  BY OfKindType
<1>2. /\ plan \in Seq(Entry) /\ Len(plan) \in Nat
      /\ \A j \in 1..Len(plan) : plan[j].amount \in Nat
  BY PlansType
<1>3. \A j \in 1..Len(made) : j <= Len(plan) /\ made[j].amount = plan[j].amount
  <2>1. ASSUME NEW j \in 1..Len(made)
        PROVE  j <= Len(plan) /\ made[j].amount = plan[j].amount
    <3>1. Stands(acc, made[j], j, tag, seed, since)
      BY DEF TrueBook, Kinds
    <3> QED
      BY <1>1, <3>1 DEF Stands
  <2> QED
    BY <2>1
<1> HIDE DEF made, plan
<1>4. Len(made) <= Len(plan)
  <2>1. CASE Len(made) = 0
    BY <2>1, <1>2
  <2>2. CASE Len(made) # 0
    <3>1. Len(made) \in 1..Len(made)
      BY <2>2, <1>1
    <3> QED
      BY <3>1, <1>3
  <2> QED
    BY <2>1, <2>2
<1> DEFINE a == Amounts(made)
           b == Amounts(plan)
<1>5. a = [j \in 1..Len(made) |-> made[j].amount] /\ b = [j \in 1..Len(plan) |-> plan[j].amount]
  BY <1>1, <1>2 DEF Amounts
<1>6. a \in Seq(Nat) /\ b \in Seq(Nat) /\ Len(a) = Len(made) /\ Len(b) = Len(plan)
  <2>1. \A j \in 1..Len(made) : made[j].amount \in Nat
    BY <1>1 DEF Item
  <2> QED
    BY <1>1, <1>2, <1>5, <2>1
<1>7. \A j \in 1..Len(made) : a[j] = b[j]
  BY <1>1, <1>2, <1>3, <1>4, <1>5
<1> HIDE DEF a, b
<1>8. SubSeq(a, 1, Len(a)) = SubSeq(b, 1, Len(a))
  <2>1. /\ SubSeq(a, 1, Len(a)) \in Seq(Nat) /\ Len(SubSeq(a, 1, Len(a))) = Len(a)
        /\ SubSeq(b, 1, Len(a)) \in Seq(Nat) /\ Len(SubSeq(b, 1, Len(a))) = Len(a)
    BY <1>1, <1>2, <1>4, <1>6
  <2>2. ASSUME NEW j \in 1..Len(a)
        PROVE  SubSeq(a, 1, Len(a))[j] = SubSeq(b, 1, Len(a))[j]
    BY <1>1, <1>2, <1>4, <1>6, <1>7
  <2> QED
    BY <2>1, <2>2, SeqEqual
<1> QED
  BY <1>4, <1>6, <1>8 DEF IsPrefix, a, b, made, plan

\* What a run carries over from a true book is a true book that lacks nothing,
\* of the same items; the customer it left over is all that is not in it.
LEMMA Carried ==
  ASSUME NEW acc, NEW prior \in ManifestType, NEW seed \in Seeds, NEW tag, NEW since,
         TrueBook(acc, prior.items, tag, seed, since)
  PROVE  /\ Created(prior.items) \in Seq(Item) /\ AllCreated(Created(prior.items))
         /\ TrueBook(acc, Created(prior.items), tag, seed, since)
         /\ CustomerLeft(prior) \in Nat
         /\ CustomerLeft(prior) # None =>
              /\ Len(OfKind(Created(prior.items), "invoice")) < Len(Plans[seed].invoice)
              /\ CustomerOf(acc, CustomerLeft(prior), tag,
                            Len(OfKind(Created(prior.items), "invoice")) + 1)
         /\ \A x \in Ids(prior.items) :
              x \in Ids(Created(prior.items)) \/ x = CustomerLeft(prior)
<1> DEFINE items == prior.items
           n == Len(items)
<1>1. items \in Seq(Item) /\ n \in Nat
  BY DEF ManifestType
<1>2. \A k \in 1..n : items[k] \in Item /\ items[k].kind \in Kinds
  BY <1>1 DEF TrueBook, Kinds
<1>3. LeftOver(acc, items, tag, seed)
  BY DEF TrueBook
<1>4. CASE AllCreated(items)
  <2>1. \A k \in 1..n : Chosen(items[k], Kinds)
    BY <1>2, <1>4 DEF AllCreated, Chosen
  <2>2. Created(items) = items
    BY <1>1, <2>1, CreatedOfAll DEF Created, Kinds
  <2>3. CustomerLeft(prior) = None
    <3>1. items # <<>> => n \in 1..n /\ Last(items) = items[n]
      BY <1>1 DEF Last
    <3> QED
      BY <1>4, <3>1 DEF CustomerLeft, AllCreated
  <2> QED
    BY <1>1, <1>4, <2>2, <2>3 DEF None
<1>5. CASE ~AllCreated(items)
  <2>1. PICK k \in 1..n : items[k].id = None
    BY <1>5 DEF AllCreated
  <2> DEFINE it == items[n]
             front == SubSeq(items, 1, n - 1)
  <2>2. k = n /\ n # 0 /\ items # <<>>
    BY <1>1, <1>3, <2>1 DEF LeftOver
  <2>3. /\ it.id = None /\ it.kind = "invoice" /\ it \in Item
        /\ Len(OfKind(items, "invoice")) < Len(Plans[seed].invoice)
        /\ CustomerOf(acc, it.customer, tag, Len(OfKind(items, "invoice")) + 1)
    BY <1>1, <1>2, <1>3, <2>1, <2>2 DEF LeftOver
  <2>4. /\ front \in Seq(Item) /\ Len(front) = n - 1 /\ n - 1 \in Nat
        /\ \A j \in 1..n - 1 : front[j] = items[j]
    BY <1>1, <2>2
  <2>5. items = Append(front, it)
    <3> HIDE DEF front, it
    <3>1. Append(front, it) \in Seq(Item) /\ Len(Append(front, it)) = n
      BY <2>3, <2>4
    <3>2. \A j \in 1..n : Append(front, it)[j] = items[j]
      BY <2>2, <2>3, <2>4, <1>1 DEF it
    <3> QED
      BY <1>1, <3>1, <3>2, SeqEqual
  <2>6. AllCreated(front)
    <3>1. ASSUME NEW j \in 1..n - 1
          PROVE  items[j].id # None
      <4>1. j \in 1..n /\ j # n
        BY <1>1
      <4> QED
        BY <1>3, <4>1 DEF LeftOver
    <3> QED
      BY <2>4, <3>1 DEF AllCreated
  <2> HIDE DEF front, it
  <2>7. \A kind : OfKind(items, kind) = OfKind(front, kind)
    BY <2>3, <2>4, <2>5, OfKindAppend
  <2>8. Created(items) = front
    <3>1. \A j \in 1..Len(front) : Chosen(front[j], Kinds)
      <4>1. \A j \in 1..n - 1 : j \in 1..n
        BY <1>1
      <4> QED
        BY <1>2, <2>4, <2>6, <4>1 DEF AllCreated, Chosen
    <3>2. CreatedOf(front, Kinds) = front
      BY <2>4, <3>1, CreatedOfAll
    <3>3. ~Chosen(it, Kinds)
      BY <2>3 DEF Chosen
    <3>4. CreatedOf(items, Kinds) = CreatedOf(front, Kinds)
      BY <2>3, <2>4, <2>5, <3>3, CreatedOfAppend
    <3> QED
      BY <3>2, <3>4 DEF Created, Kinds
  <2>9. CustomerLeft(prior) = it.customer
    <3>1. Last(items) = it
      BY DEF Last, it
    <3> QED
      BY <2>2, <2>3, <3>1 DEF CustomerLeft
  <2>10. TrueBook(acc, front, tag, seed, since)
    <3>1. \A j \in 1..Len(front) : front[j].kind \in Kinds
      <4>1. \A j \in 1..n - 1 : j \in 1..n
        BY <1>1
      <4> QED
        BY <1>2, <2>4, <4>1
    <3>2. LeftOver(acc, front, tag, seed)
      BY <2>6 DEF LeftOver, AllCreated
    <3> QED
      BY <2>7, <3>1, <3>2 DEF TrueBook, Kinds
  <2>11. ASSUME NEW x \in Ids(items)
         PROVE  x \in Ids(front) \/ x = it.customer
    <3>1. x \in Ids(front) \/ x \in Ids(<<it>>)
      BY <2>3, <2>4, <2>5, <2>11, IdsAppend
    <3> QED
      BY <2>3, <3>1, IdsOne
  <2>12. it.customer \in Nat
    BY <2>3 DEF Item
  <2> QED
    BY <2>3, <2>4, <2>6, <2>7, <2>8, <2>9, <2>10, <2>11, <2>12
<1> QED
  BY <1>4, <1>5

-----------------------------------------------------------------------------
(* Moving on within a run.                                                 *)

LEMMA NoItemType ==
  NoItem \in Item /\ NoItem.id = None /\ NoItem.customer = None
BY DEF NoItem, Item, None

\* A customer that is there waits for the next invoice.
Awaits(acc, r, customer) ==
  customer # None =>
    /\ Len(OfKind(r.items, "invoice")) < Len(Plans[r.seed].invoice)
    /\ CustomerOf(acc, customer, r.tag, Len(OfKind(r.items, "invoice")) + 1)

\* The next entry of the plan, or its end, is taken up as it stands there.
LEMMA NextEntryIs ==
  ASSUME NEW acc, NEW r \in RunType, r.seed \in Seeds, AllCreated(r.items),
         TrueBook(acc, r.items, r.tag, r.seed, r.since),
         NEW customer \in Nat, Awaits(acc, r, customer),
         NEW q, q = NextEntry(r, customer)
  PROVE  /\ q \in RunType /\ q.stage # "idle"
         /\ q.tag = r.tag /\ q.seed = r.seed /\ q.since = r.since /\ q.items = r.items
         /\ q.used = r.used /\ q.waits = r.waits /\ q.retry = r.retry
         /\ q.item.id = None /\ q.item.customer = customer /\ q.item \in Item
         /\ Stepwise(acc, q)
<1> DEFINE plan == Plans[r.seed]
           ni == Len(OfKind(r.items, "invoice"))
           no == Len(OfKind(r.items, "order"))
<1>1. /\ r.items \in Seq(Item) /\ ni \in Nat /\ no \in Nat
  BY OfKindType DEF RunType
<1>2. /\ plan.invoice = plan["invoice"] /\ plan.order = plan["order"]
      /\ Len(plan.invoice) \in Nat /\ Len(plan.order) \in Nat
      /\ \A k \in 1..Len(plan.invoice) : plan["invoice"][k].amount \in Nat
      /\ \A k \in 1..Len(plan.order) : plan["order"][k].amount \in Nat
  BY PlansType DEF Kinds
<1>a. customer # None =>
        ni < Len(plan.invoice) /\ CustomerOf(acc, customer, r.tag, ni + 1)
  BY DEF Awaits
<1> DEFINE inv == [[NoItem EXCEPT !.kind = "invoice", !.amount = plan["invoice"][ni + 1].amount]
                     EXCEPT !.customer = customer]
           ord == [NoItem EXCEPT !.kind = "order", !.amount = plan["order"][no + 1].amount]
<1>3. CASE ni < Len(plan.invoice)
  <2> DEFINE stage == IF customer = None THEN "customer" ELSE "invoice"
  <2>1. q = [r EXCEPT !.stage = stage, !.item = inv]
    BY <1>3 DEF NextEntry
  <2>2. ni + 1 \in 1..Len(plan.invoice)
    BY <1>1, <1>2, <1>3
  <2>3. /\ inv \in Item /\ inv.kind = "invoice" /\ inv.id = None /\ inv.customer = customer
        /\ inv.status = "none" /\ inv.amount = plan["invoice"][ni + 1].amount
    BY <1>2, <2>2 DEF NoItem, Item, None
  <2>4. stage \in {"customer", "invoice"} /\ (stage = "customer" <=> customer = None)
    OBVIOUS
  <2> HIDE DEF inv, stage
  <2>5. /\ q \in RunType /\ q.stage = stage /\ q.item = inv
        /\ q.tag = r.tag /\ q.seed = r.seed /\ q.since = r.since /\ q.items = r.items
        /\ q.used = r.used /\ q.waits = r.waits /\ q.retry = r.retry
    BY <2>1, <2>3, <2>4 DEF RunType, Stages
  <2>6. Place(q) = ni + 1
    BY <2>3, <2>5 DEF Place
  <2>7. AtEntry(q, "invoice")
    BY <2>2, <2>3, <2>5, <2>6, <1>2 DEF AtEntry
  <2>8. Stepwise(acc, q)
    BY <1>a, <2>3, <2>4, <2>5, <2>6, <2>7 DEF Stepwise
  <2> QED
    BY <2>3, <2>4, <2>5, <2>8
<1>4. CASE ni >= Len(plan.invoice) /\ no < Len(plan.order)
  <2>1. q = [r EXCEPT !.stage = "order", !.item = ord]
    BY <1>1, <1>2, <1>4 DEF NextEntry
  <2>2. no + 1 \in 1..Len(plan.order)
    BY <1>1, <1>2, <1>4
  <2>3. /\ ord \in Item /\ ord.kind = "order" /\ ord.id = None /\ ord.customer = None
        /\ ord.status = "none" /\ ord.amount = plan["order"][no + 1].amount
    BY <1>2, <2>2 DEF NoItem, Item, None
  <2> HIDE DEF ord
  <2>4. customer = None
    BY <1>a, <1>1, <1>2, <1>4
  <2>5. /\ q \in RunType /\ q.stage = "order" /\ q.item = ord
        /\ q.tag = r.tag /\ q.seed = r.seed /\ q.since = r.since /\ q.items = r.items
        /\ q.used = r.used /\ q.waits = r.waits /\ q.retry = r.retry
    BY <2>1, <2>3 DEF RunType, Stages
  <2>6. Place(q) = no + 1
    BY <2>3, <2>5 DEF Place
  <2>7. AtEntry(q, "order")
    BY <2>2, <2>3, <2>5, <2>6, <1>2 DEF AtEntry
  <2>8. Stepwise(acc, q)
    BY <2>3, <2>5, <2>7 DEF Stepwise
  <2> QED
    BY <2>3, <2>4, <2>5, <2>8
<1>5. CASE ni >= Len(plan.invoice) /\ ~(no < Len(plan.order))
  <2>1. q = [r EXCEPT !.stage = "write", !.item = NoItem]
    BY <1>1, <1>2, <1>5 DEF NextEntry
  <2>2. customer = None
    BY <1>a, <1>1, <1>2, <1>5
  <2>3. /\ q \in RunType /\ q.stage = "write" /\ q.item = NoItem
        /\ q.tag = r.tag /\ q.seed = r.seed /\ q.since = r.since /\ q.items = r.items
        /\ q.used = r.used /\ q.waits = r.waits /\ q.retry = r.retry
    BY <2>1, NoItemType DEF RunType, Stages
  <2>4. Stepwise(acc, q)
    BY <2>3 DEF Stepwise
  <2> QED
    BY <2>2, <2>3, <2>4, NoItemType
<1> QED
  BY <1>1, <1>2, <1>3, <1>4, <1>5

\* A run that stops keeps what its entry left behind, and its book stays true.
LEMMA StopKeeps ==
  ASSUME NEW acc \in Seq(Resource), NEW now, NEW r \in RunType, r.stage # "idle",
         Stepwise(acc, r), RunTrue(acc, r, now),
         NEW q, q = Stop(r)
  PROVE  /\ q \in RunType /\ q.stage = "write" /\ q.retry = "none"
         /\ q.used = r.used /\ q.waits = r.waits
         /\ q.tag = r.tag /\ q.seed = r.seed /\ q.since = r.since
         /\ Stepwise(acc, q) /\ RunTrue(acc, q, now)
         /\ NamedBy(q) = NamedBy(r)
<1>1. r.items \in Seq(Item) /\ r.item \in Item
  BY DEF RunType
<1>2. Kept(r) \in Seq(Item)
  BY <1>1 DEF Kept
<1>3. /\ q \in RunType /\ q.stage = "write" /\ q.retry = "none" /\ q.items = Kept(r)
      /\ q.item = NoItem /\ q.used = r.used /\ q.waits = r.waits
      /\ q.tag = r.tag /\ q.seed = r.seed /\ q.since = r.since
  <2> DEFINE kept == Kept(r)
  <2>1. q = [r EXCEPT !.stage = "write", !.items = kept, !.item = NoItem, !.retry = "none"]
    BY DEF Stop
  <2>2. kept \in Seq(Item)
    BY <1>2
  <2> HIDE DEF kept
  <2>3. /\ q \in RunType /\ q.stage = "write" /\ q.retry = "none" /\ q.items = kept
        /\ q.item = NoItem /\ q.used = r.used /\ q.waits = r.waits
        /\ q.tag = r.tag /\ q.seed = r.seed /\ q.since = r.since
    BY <2>1, <2>2, NoItemType DEF RunType, Stages
  <2> QED
    BY <2>3 DEF kept
<1>4. Stepwise(acc, q)
  BY <1>3 DEF Stepwise
<1>5. TrueBook(acc, r.items, r.tag, r.seed, r.since)
  BY DEF RunTrue
<1>6. TrueBook(acc, Kept(r), r.tag, r.seed, r.since)
  <2>1. CASE r.item.id = None /\ r.item.customer = None
    BY <2>1, <1>5 DEF Kept
  <2>2. CASE r.item.id # None
    <3>1. r.stage = "issue"
      BY <2>2, NoItemType DEF Stepwise, AtEntry, RunType, Stages
    <3>2. /\ r.item.kind = "invoice" /\ AllCreated(r.items)
          /\ Stands(acc, r.item, Place(r), r.tag, r.seed, r.since)
      BY <3>1 DEF Stepwise
    <3>3. TrueBook(acc, Append(r.items, r.item), r.tag, r.seed, r.since)
      BY <1>1, <1>5, <2>2, <3>2, BookWith DEF Place, Kinds
    <3> QED
      BY <2>2, <3>3 DEF Kept
  <2>3. CASE r.item.id = None /\ r.item.customer # None
    <3>1. r.stage # "issue"
      <4>1. ASSUME r.stage = "issue" PROVE FALSE
        <5>1. Stands(acc, r.item, Place(r), r.tag, r.seed, r.since)
          BY <4>1 DEF Stepwise
        <5>2. r.item.id \in DOMAIN acc /\ None \notin DOMAIN acc
          BY <5>1 DEF Stands, None
        <5> QED
          BY <5>2, <2>3
      <4> QED
        BY <4>1
    <3>2. r.stage = "invoice"
      BY <2>3, <3>1, NoItemType DEF Stepwise, RunType, Stages
    <3>3. /\ AllCreated(r.items) /\ AtEntry(r, "invoice")
          /\ CustomerOf(acc, r.item.customer, r.tag, Place(r))
      BY <3>2 DEF Stepwise
    <3>4. /\ r.item.kind = "invoice"
          /\ Len(OfKind(r.items, "invoice")) + 1 <= Len(Plans[r.seed]["invoice"])
          /\ CustomerOf(acc, r.item.customer, r.tag, Len(OfKind(r.items, "invoice")) + 1)
      BY <3>3 DEF AtEntry, Place
    <3>5. Len(OfKind(r.items, "invoice")) < Len(Plans[r.seed].invoice)
      BY <1>1, <3>4, OfKindType, PlansType DEF RunTrue, Kinds
    <3>6. TrueBook(acc, Append(r.items, r.item), r.tag, r.seed, r.since)
      BY <1>1, <1>5, <2>3, <3>3, <3>4, <3>5, BookWithCustomer
    <3> QED
      BY <2>3, <3>6 DEF Kept
  <2> QED
    BY <2>1, <2>2, <2>3
<1>7. RunTrue(acc, q, now)
  BY <1>3, <1>6 DEF RunTrue
<1>8. NamedBy(q) = NamedBy(r)
  <2>1. Ids(<<NoItem>>) = {}
    BY IdsOne, NoItemType
  <2>2. CASE r.item.id # None \/ r.item.customer # None
    <3>1. Ids(Kept(r)) = Ids(r.items) \cup Ids(<<r.item>>)
      BY <1>1, <2>2, IdsAppend DEF Kept
    <3> QED
      BY <1>3, <2>1, <3>1 DEF NamedBy
  <2>3. CASE ~(r.item.id # None \/ r.item.customer # None)
    <3>1. Ids(<<r.item>>) = {}
      BY <2>3, IdsOne
    <3>2. Kept(r) = r.items
      BY <2>3 DEF Kept
    <3> QED
      BY <1>3, <2>1, <3>1, <3>2 DEF NamedBy
  <2> QED
    BY <2>2, <2>3
<1> QED
  BY <1>3, <1>4, <1>7, <1>8

-----------------------------------------------------------------------------
(* What a call does to the account.                                        *)

LEMMA AccountBounds ==
  ASSUME Types
  PROVE  /\ account \in Seq(Resource) /\ Len(account) \in Nat
         /\ DOMAIN account = 1..Len(account)
         /\ \A i \in DOMAIN account : account[i] \in Resource /\ i \in Nat \ {0}
         /\ None \notin DOMAIN account
<1>1. account \in Seq(Resource)
  BY DEF Types
<1>2. DOMAIN account = 1..Len(account) /\ Len(account) \in Nat
  BY <1>1
<1> QED
  BY <1>1, <1>2 DEF None

LEMMA MadeInFinite ==
  ASSUME NEW acc \in Seq(Resource), NEW now
  PROVE  IsFiniteSet(MadeIn(acc, now)) /\ Cardinality(MadeIn(acc, now)) \in Nat
<1>1. MadeIn(acc, now) \subseteq 1..Len(acc)
  BY DEF MadeIn
<1>2. IsFiniteSet(1..Len(acc))
  BY FS_Interval
<1>3. IsFiniteSet(MadeIn(acc, now))
  BY <1>1, <1>2, FS_Subset
<1> QED
  BY <1>3, FS_CardinalityType

\* One more resource: what was there stays, and this run made one more.
LEMMA MakesOne ==
  ASSUME Types, NEW r \in Resource, r.during = runs, NEW acc, acc = Append(account, r)
  PROVE  /\ acc \in Seq(Resource) /\ Grows(account, acc) /\ Len(acc) = Len(account) + 1
         /\ DOMAIN acc = DOMAIN account \cup {Len(account) + 1}
         /\ acc[Len(account) + 1] = r
         /\ \A i \in DOMAIN account : acc[i] = account[i]
         /\ \A i \in DOMAIN acc : acc[i].during <= runs
         /\ Cardinality(MadeIn(acc, runs)) = Cardinality(MadeIn(account, runs)) + 1
<1> DEFINE n == Len(account)
<1>1. /\ account \in Seq(Resource) /\ n \in Nat /\ DOMAIN account = 1..n
  BY AccountBounds
<1>2. /\ acc \in Seq(Resource) /\ Len(acc) = n + 1 /\ DOMAIN acc = 1..n + 1
      /\ acc[n + 1] = r /\ \A i \in 1..n : acc[i] = account[i]
  BY <1>1
<1> HIDE DEF n
<1>3. DOMAIN acc = DOMAIN account \cup {n + 1} /\ n + 1 \notin DOMAIN account
  BY <1>1, <1>2
<1>4. Grows(account, acc)
  BY <1>1, <1>2, <1>3 DEF Grows
<1>5. runs \in Nat
  BY SeedAssumption DEF Types
<1>6. \A i \in DOMAIN acc : acc[i].during <= runs
  BY <1>1, <1>2, <1>3, <1>5 DEF Types
<1>7. MadeIn(acc, runs) = MadeIn(account, runs) \cup {n + 1} /\ n + 1 \notin MadeIn(account, runs)
  BY <1>1, <1>2, <1>3 DEF MadeIn
<1>8. Cardinality(MadeIn(acc, runs)) = Cardinality(MadeIn(account, runs)) + 1
  BY <1>1, <1>7, MadeInFinite, FS_AddElement
<1> QED
  BY <1>1, <1>2, <1>3, <1>4, <1>6, <1>8 DEF n

\* A resource that is issued, or whose answer arrived, is the same one.
LEMMA MakesNone ==
  ASSUME Types, NEW acc \in Seq(Resource), DOMAIN acc = DOMAIN account,
         \A i \in DOMAIN account :
           /\ acc[i].kind = account[i].kind /\ acc[i].tag = account[i].tag
           /\ acc[i].at = account[i].at /\ acc[i].customer = account[i].customer
           /\ acc[i].during = account[i].during
           /\ account[i].issued => acc[i].issued
  PROVE  /\ Grows(account, acc) /\ MadeIn(acc, runs) = MadeIn(account, runs)
         /\ \A i \in DOMAIN acc : acc[i].during <= runs
<1>1. Grows(account, acc)
  BY DEF Grows
<1>2. MadeIn(acc, runs) = MadeIn(account, runs)
  BY DEF MadeIn
<1>3. \A i \in DOMAIN acc : acc[i].during <= runs
  BY DEF Types
<1> QED
  BY <1>1, <1>2, <1>3

LEMMA AccountGrowsByNone ==
  ASSUME Types
  PROVE  Grows(account, account)
BY DEF Grows

\* A resource made now is one this run may make.
LEMMA NewIs ==
  ASSUME Types, RunTrue(account, run, runs), run.stage # "idle", NEW answered \in BOOLEAN,
         NEW kind \in {"customer", "invoice", "order"}, NEW r, r = New(kind, answered)
  PROVE  /\ r \in Resource /\ r.kind = kind /\ r.tag = run.tag /\ r.seed = run.seed
         /\ r.at = Place(run) /\ r.customer = run.item.customer /\ r.during = runs
         /\ (r.known <=> answered)
<1>1. run.tag \in Nat /\ run.item.customer \in Nat /\ run.seed \in Seeds /\ run.items \in Seq(Item)
  BY DEF Types, RunType, Item, RunTrue
<1>2. Place(run) \in Nat \ {0}
  BY <1>1, OfKindType DEF Place
<1>3. runs \in 1..MaxRuns
  BY SeedAssumption DEF Types, RunTrue
<1>4. Position = Place(run)
  BY DEF Position, Place
<1>5. r = [kind |-> kind, tag |-> run.tag, seed |-> run.seed, at |-> Place(run),
           customer |-> run.item.customer, during |-> runs, issued |-> FALSE, known |-> answered]
  BY <1>4 DEF New
<1>6. r \in Resource
  BY <1>1, <1>2, <1>3, <1>5 DEF Resource
<1> QED
  BY <1>5, <1>6

-----------------------------------------------------------------------------
(* The steps.                                                              *)

\* A call is charged once: after it is, one more resource is paid for.
LEMMA ChargedIs ==
  ASSUME IInv, Calling, Affordable, NEW r, r = Charged
  PROVE  /\ r \in RunType /\ r.stage = run.stage /\ r.tag = run.tag /\ r.seed = run.seed
         /\ r.since = run.since /\ r.items = run.items /\ r.item = run.item
         /\ r.waits = run.waits /\ r.retry = "none"
         /\ Cardinality(MadeIn(account, runs)) + 1 <= r.used /\ r.used <= CallBudget
<1> DEFINE used == IF run.retry = "due" THEN run.used ELSE run.used + 1
           made == Cardinality(MadeIn(account, runs))
<1>1. r = [run EXCEPT !.used = used, !.retry = "none"]
  BY DEF Charged
<1>2. /\ run \in RunType /\ run.used \in Nat /\ run.used <= CallBudget /\ CallBudget \in Nat
      /\ run.retry \in {"none", "due"} /\ made \in Nat
  BY SeedAssumption, MadeInFinite DEF IInv, Types, RunType, Calling
<1>3. made + (IF run.retry = "none" THEN 0 ELSE 1) <= run.used
  BY DEF IInv, Paid, Calling
<1>4. used \in 0..CallBudget /\ made + 1 <= used
  <2>1. CASE run.retry = "due"
    BY <1>2, <1>3, <2>1
  <2>2. CASE run.retry = "none"
    BY <1>2, <1>3, <2>2 DEF Affordable
  <2> QED
    BY <1>2, <2>1, <2>2
<1> HIDE DEF used, made
<1>5. /\ r \in RunType /\ r.stage = run.stage /\ r.tag = run.tag /\ r.seed = run.seed
      /\ r.since = run.since /\ r.items = run.items /\ r.item = run.item
      /\ r.waits = run.waits /\ r.retry = "none" /\ r.used = used
  BY <1>1, <1>2, <1>4 DEF RunType
<1> QED
  BY <1>4, <1>5 DEF made

\* A step of a run that leaves the file alone keeps the invariant when what it
\* holds is true and it lets go of nothing it was told of.
LEMMA RunMovesOn ==
  ASSUME IInv, run.stage # "idle", UNCHANGED <<file, runs, unfiled>>,
         run' \in RunType, run'.stage # "idle",
         account' \in Seq(Resource), Grows(account, account'),
         \A i \in DOMAIN account' : account'[i].during <= runs,
         Stepwise(account', run'), RunTrue(account', run', runs),
         NamedBy(run) \subseteq NamedBy(run'),
         \A i \in DOMAIN account' :
           account'[i].known => (i \in DOMAIN account /\ account[i].known) \/ i \in NamedBy(run'),
         Paid(account', run', runs)
  PROVE  IInv'
<1>1. Types'
  BY DEF IInv, Types, Grows
<1>2. FileTrue(account', file', runs')
  BY BookStays DEF IInv, FileTrue
<1>3. NothingOrphaned'
  BY DEF IInv, NothingOrphaned, NamedBy
<1>4. TakenOver'
  BY DEF IInv, TakenOver
<1> QED
  BY <1>1, <1>2, <1>3, <1>4 DEF IInv

\* Whatever the account has become, a run that stops has kept its own.
LEMMA StopMovesOn ==
  ASSUME IInv, run.stage # "idle", UNCHANGED <<file, runs, unfiled>>,
         NEW r \in RunType, run' = Stop(r),
         r.stage = run.stage, r.tag = run.tag, r.seed = run.seed, r.since = run.since,
         r.items = run.items, r.item = run.item,
         account' \in Seq(Resource), Grows(account, account'),
         \A i \in DOMAIN account' : account'[i].during <= runs,
         \A i \in DOMAIN account' : account'[i].known => i \in DOMAIN account /\ account[i].known,
         Cardinality(MadeIn(account', runs)) <= r.used
  PROVE  IInv'
<1>1. /\ r.stage # "idle" /\ Stepwise(account, run) /\ RunTrue(account, run, runs)
  BY DEF IInv
<1>2. Stepwise(account', r)
  BY <1>1, StandsStill, CustomerStays DEF Stepwise, AtEntry, Place
<1>3. RunTrue(account', r, runs)
  BY <1>1, BookStays DEF RunTrue
<1>4. /\ run' \in RunType /\ run'.stage = "write" /\ run'.retry = "none" /\ run'.used = r.used
      /\ Stepwise(account', run') /\ RunTrue(account', run', runs) /\ NamedBy(run') = NamedBy(r)
  <2>1. PICK acc \in Seq(Resource) : acc = account'
    OBVIOUS
  <2>2. PICK q : q = run'
    OBVIOUS
  <2>3. r.stage # "idle" /\ q = Stop(r) /\ Stepwise(acc, r) /\ RunTrue(acc, r, runs)
    BY <1>1, <1>2, <1>3, <2>1, <2>2
  <2>4. /\ q \in RunType /\ q.stage = "write" /\ q.retry = "none" /\ q.used = r.used
        /\ Stepwise(acc, q) /\ RunTrue(acc, q, runs) /\ NamedBy(q) = NamedBy(r)
    BY <2>3, StopKeeps
  <2> QED
    BY <2>1, <2>2, <2>4
<1>5. NamedBy(run) \subseteq NamedBy(run')
  BY <1>4 DEF NamedBy
<1>6. Paid(account', run', runs)
  <2>1. r.used \in Nat /\ r.used <= CallBudget /\ CallBudget \in Nat
    BY SeedAssumption DEF RunType
  <2>2. Cardinality(MadeIn(account', runs)) \in Nat
    BY MadeInFinite
  <2> QED
    BY <1>4, <2>1, <2>2 DEF Paid
<1> QED
  BY <1>4, <1>5, <1>6, RunMovesOn

LEMMA RunBounds ==
  ASSUME IInv, run.stage # "idle"
  PROVE  /\ Types /\ run \in RunType /\ run.items \in Seq(Item) /\ run.item \in Item
         /\ RunTrue(account, run, runs) /\ Stepwise(account, run)
         /\ run.seed \in Seeds /\ run.since \in 1..runs /\ runs \in Nat
         /\ TrueBook(account, run.items, run.tag, run.seed, run.since)
         /\ Place(run) \in Nat /\ Place(run) = Len(OfKind(run.items, run.item.kind)) + 1
         /\ Cardinality(MadeIn(account, runs)) \in Nat
<1>1. Types /\ run \in RunType /\ run.items \in Seq(Item) /\ run.item \in Item
  BY DEF IInv, Types, RunType
<1>2. runs \in Nat
  BY <1>1, SeedAssumption DEF Types
<1>3. Cardinality(MadeIn(account, runs)) \in Nat
  BY <1>1, AccountBounds, MadeInFinite
<1>4. Place(run) \in Nat
  BY <1>1, OfKindType DEF Place
<1> QED
  BY <1>1, <1>2, <1>3, <1>4 DEF IInv, RunTrue, Place

\* Making a call anew, and giving up on it, is free of everything but the charge.
LEMMA ChargedStopKeeps ==
  ASSUME IInv, Calling, Affordable, UNCHANGED <<account, file, runs, unfiled>>, run' = Stop(Charged)
  PROVE  IInv'
<1> DEFINE r == Charged
<1>1. run.stage # "idle"
  BY DEF Calling
<1>2. /\ r \in RunType /\ r.stage = run.stage /\ r.tag = run.tag /\ r.seed = run.seed
      /\ r.since = run.since /\ r.items = run.items /\ r.item = run.item
      /\ Cardinality(MadeIn(account, runs)) + 1 <= r.used /\ r.used \in Nat
  <2>1. PICK q : q = r
    OBVIOUS
  <2>2. /\ q \in RunType /\ q.stage = run.stage /\ q.tag = run.tag /\ q.seed = run.seed
        /\ q.since = run.since /\ q.items = run.items /\ q.item = run.item
        /\ Cardinality(MadeIn(account, runs)) + 1 <= q.used
    BY <2>1, ChargedIs
  <2> QED
    BY <2>1, <2>2 DEF RunType
<1>3. run' = Stop(r)
  OBVIOUS
<1> HIDE DEF r
<1>4. /\ account' = account /\ account' \in Seq(Resource) /\ Grows(account, account')
      /\ \A i \in DOMAIN account' : account'[i].during <= runs
  <2>1. Types
    BY DEF IInv
  <2> QED
    BY <2>1, AccountGrowsByNone DEF Types
<1>5. Cardinality(MadeIn(account', runs)) <= r.used
  BY <1>1, <1>2, <1>4, RunBounds
<1> QED
  BY <1>1, <1>2, <1>3, <1>4, <1>5, StopMovesOn

LEMMA CallFailsKeeps ==
  ASSUME IInv, CallFails
  PROVE  IInv'
BY ChargedStopKeeps DEF CallFails

\* A stop without a call keeps what is paid for.
LEMMA PlainStopKeeps ==
  ASSUME IInv, run.stage # "idle", UNCHANGED <<account, file, runs, unfiled>>, run' = Stop(run)
  PROVE  IInv'
<1>1. /\ account' = account /\ account' \in Seq(Resource) /\ Grows(account, account')
      /\ \A i \in DOMAIN account' : account'[i].during <= runs /\ run \in RunType
  <2>1. Types
    BY DEF IInv
  <2> QED
    BY <2>1, AccountGrowsByNone DEF Types
<1>2. Cardinality(MadeIn(account', runs)) <= run.used
  <2>1. Cardinality(MadeIn(account, runs)) + (IF run.retry = "none" THEN 0 ELSE 1) <= run.used
    BY DEF IInv, Paid
  <2>2. Cardinality(MadeIn(account, runs)) \in Nat /\ run.used \in Nat
    BY RunBounds DEF RunType
  <2> QED
    BY <1>1, <2>1, <2>2
<1>3. run \in RunType
  BY RunBounds
<1> QED
  BY <1>1, <1>2, <1>3, StopMovesOn

LEMMA OutOfBudgetKeeps ==
  ASSUME IInv, OutOfBudget
  PROVE  IInv'
BY PlainStopKeeps DEF OutOfBudget, Calling

\* Only the count of the waits, and whether the call is to be made again.
LEMMA RetryKeeps ==
  ASSUME IInv, run.stage # "idle", UNCHANGED <<account, file, runs, unfiled>>,
         run' \in RunType,
         run'.stage = run.stage, run'.tag = run.tag, run'.seed = run.seed, run'.since = run.since,
         run'.items = run.items, run'.item = run.item,
         Cardinality(MadeIn(account, runs)) + 1 <= run'.used
  PROVE  IInv'
<1>1. Types /\ Stepwise(account, run) /\ RunTrue(account, run, runs)
  BY DEF IInv
<1>2. /\ account' \in Seq(Resource) /\ Grows(account, account')
      /\ \A i \in DOMAIN account' : account'[i].during <= runs
  BY <1>1, AccountGrowsByNone DEF Types
<1>3. Stepwise(account', run') /\ RunTrue(account', run', runs)
  BY <1>1 DEF Stepwise, RunTrue, AtEntry, Place
<1>4. NamedBy(run) \subseteq NamedBy(run')
  BY DEF NamedBy
<1>5. Paid(account', run', runs)
  <2>1. /\ Cardinality(MadeIn(account, runs)) \in Nat
        /\ run'.used \in Nat /\ run'.used <= CallBudget /\ CallBudget \in Nat
    BY RunBounds, SeedAssumption DEF RunType
  <2> QED
    BY <2>1 DEF Paid
<1> QED
  BY <1>2, <1>3, <1>4, <1>5, RunMovesOn

LEMMA BurstQuotaKeeps ==
  ASSUME IInv, BurstQuota
  PROVE  IInv'
<1> DEFINE c == Charged
<1>1. Calling /\ Affordable /\ run.stage # "idle"
  BY DEF BurstQuota, Calling
<1>2. /\ c \in RunType /\ c.stage = run.stage /\ c.tag = run.tag /\ c.seed = run.seed
      /\ c.since = run.since /\ c.items = run.items /\ c.item = run.item /\ c.waits = run.waits
      /\ Cardinality(MadeIn(account, runs)) + 1 <= c.used
  <2>1. PICK q : q = c
    OBVIOUS
  <2>2. /\ q \in RunType /\ q.stage = run.stage /\ q.tag = run.tag /\ q.seed = run.seed
        /\ q.since = run.since /\ q.items = run.items /\ q.item = run.item /\ q.waits = run.waits
        /\ Cardinality(MadeIn(account, runs)) + 1 <= q.used
    BY <1>1, <2>1, ChargedIs
  <2> QED
    BY <2>1, <2>2
<1>3. CASE run.waits >= MaxBurstWaits
  BY <1>1, <1>3, ChargedStopKeeps DEF BurstQuota
<1>4. CASE ~(run.waits >= MaxBurstWaits)
  <2>1. run' = [c EXCEPT !.waits = @ + 1, !.retry = "waiting"]
    BY <1>4 DEF BurstQuota
  <2> HIDE DEF c
  <2>2. c.waits + 1 \in 0..MaxBurstWaits
    BY <1>2, <1>4, SeedAssumption DEF RunType
  <2>3. /\ run' \in RunType /\ run'.stage = c.stage /\ run'.tag = c.tag /\ run'.seed = c.seed
        /\ run'.since = c.since /\ run'.items = c.items /\ run'.item = c.item /\ run'.used = c.used
    BY <1>2, <2>1, <2>2 DEF RunType
  <2> QED
    BY <1>1, <1>2, <2>3, RetryKeeps DEF BurstQuota
<1> QED
  BY <1>3, <1>4

LEMMA WaitEndsKeeps ==
  ASSUME IInv, WaitEnds
  PROVE  IInv'
<1>1. run.stage # "idle"
  BY DEF WaitEnds, IInv, Stepwise, IdleRun
<1>2. CASE run' = Stop(run)
  BY <1>1, <1>2, PlainStopKeeps DEF WaitEnds
<1>3. CASE run' = [run EXCEPT !.retry = "due"]
  <2>1. /\ run' \in RunType /\ run'.stage = run.stage /\ run'.tag = run.tag /\ run'.seed = run.seed
        /\ run'.since = run.since /\ run'.items = run.items /\ run'.item = run.item
        /\ run'.used = run.used
    BY <1>1, <1>3, RunBounds DEF RunType
  <2>2. Cardinality(MadeIn(account, runs)) + 1 <= run.used
    BY <1>1 DEF IInv, Paid, WaitEnds
  <2> QED
    BY <1>1, <2>1, <2>2, RetryKeeps DEF WaitEnds
<1> QED
  BY <1>2, <1>3 DEF WaitEnds

\* A charged call, as a value of its own.
LEMMA ChargedValue ==
  ASSUME IInv, Calling, Affordable
  PROVE  \E c \in RunType :
           /\ c = Charged
           /\ c.stage = run.stage /\ c.tag = run.tag /\ c.seed = run.seed
           /\ c.since = run.since /\ c.items = run.items /\ c.item = run.item
           /\ c.waits = run.waits /\ c.retry = "none"
           /\ Cardinality(MadeIn(account, runs)) + 1 <= c.used
           /\ c.used \in Nat /\ c.used <= CallBudget /\ CallBudget \in Nat
<1>1. PICK c : c = Charged
  OBVIOUS
<1>2. /\ c \in RunType
      /\ c.stage = run.stage /\ c.tag = run.tag /\ c.seed = run.seed
      /\ c.since = run.since /\ c.items = run.items /\ c.item = run.item
      /\ c.waits = run.waits /\ c.retry = "none"
      /\ Cardinality(MadeIn(account, runs)) + 1 <= c.used /\ c.used <= CallBudget
  BY <1>1, ChargedIs
<1>3. c.used \in Nat /\ CallBudget \in Nat
  BY <1>2, SeedAssumption DEF RunType
<1> QED
  BY <1>1, <1>2, <1>3

\* The answer to a create call was lost: there is one more resource that the
\* run was not told of.
LEMMA LostAnswerKeeps ==
  ASSUME IInv, Calling, Affordable, UNCHANGED <<file, runs, unfiled>>,
         NEW kind \in {"customer", "invoice", "order"},
         account' = Append(account, New(kind, FALSE)), run' = Stop(Charged)
  PROVE  IInv'
<1>1. run.stage # "idle"
  BY DEF Calling
<1>2. PICK c \in RunType :
           /\ c = Charged
           /\ c.stage = run.stage /\ c.tag = run.tag /\ c.seed = run.seed
           /\ c.since = run.since /\ c.items = run.items /\ c.item = run.item
           /\ Cardinality(MadeIn(account, runs)) + 1 <= c.used
  BY ChargedValue
<1>3. PICK r : r = New(kind, FALSE)
  OBVIOUS
<1>4. r \in Resource /\ r.during = runs /\ ~r.known
  BY <1>1, <1>3, RunBounds, NewIs
<1>5. account' = Append(account, r)
  BY <1>3
<1>6. PICK acc : acc = account'
  OBVIOUS
<1>7. /\ acc \in Seq(Resource) /\ Grows(account, acc)
      /\ DOMAIN acc = DOMAIN account \cup {Len(account) + 1}
      /\ acc[Len(account) + 1] = r
      /\ \A i \in DOMAIN account : acc[i] = account[i]
      /\ \A i \in DOMAIN acc : acc[i].during <= runs
      /\ Cardinality(MadeIn(acc, runs)) = Cardinality(MadeIn(account, runs)) + 1
  <2>1. Types /\ acc = Append(account, r)
    BY <1>5, <1>6 DEF IInv
  <2>2. r \in Resource /\ r.during = runs
    BY <1>4
  <2> QED
    BY <2>1, <2>2, MakesOne
<1>8. \A i \in DOMAIN acc : acc[i].known => i \in DOMAIN account /\ account[i].known
  BY <1>4, <1>7
<1>9. run' = Stop(c)
  BY <1>2
<1> QED
  BY <1>1, <1>2, <1>6, <1>7, <1>8, <1>9, StopMovesOn

\* A run that was told of what it has made, or of what was there, and goes on.
LEMMA AnswerKeeps ==
  ASSUME IInv, run.stage # "idle", UNCHANGED <<file, runs, unfiled>>,
         NEW acc \in Seq(Resource), acc = account', Grows(account, acc),
         \A i \in DOMAIN acc : acc[i].during <= runs,
         NEW q \in RunType, q = run', q.stage # "idle", q.retry = "none",
         q.tag = run.tag, q.seed = run.seed, q.since = run.since,
         Stepwise(acc, q), TrueBook(acc, q.items, q.tag, q.seed, q.since),
         NamedBy(run) \subseteq NamedBy(q),
         \A i \in DOMAIN acc :
           acc[i].known => (i \in DOMAIN account /\ account[i].known) \/ i \in NamedBy(q),
         Cardinality(MadeIn(acc, runs)) <= q.used
  PROVE  IInv'
<1>1. RunTrue(acc, q, runs)
  BY RunBounds DEF RunTrue
<1>2. Paid(acc, q, runs)
  <2>1. q.used \in Nat /\ q.used <= CallBudget /\ CallBudget \in Nat
    BY SeedAssumption DEF RunType
  <2>2. Cardinality(MadeIn(acc, runs)) \in Nat
    BY MadeInFinite
  <2> QED
    BY <2>1, <2>2 DEF Paid
<1> QED
  BY <1>1, <1>2, RunMovesOn

\* The customer of the entry at hand was named to the run.
LEMMA CustomerTaken ==
  ASSUME IInv, run.stage = "customer", Calling, Affordable, UNCHANGED <<file, runs, unfiled>>,
         NEW acc \in Seq(Resource), acc = account', Grows(account, acc),
         \A i \in DOMAIN acc : acc[i].during <= runs,
         NEW id \in Nat, CustomerOf(acc, id, run.tag, Place(run)),
         \A i \in DOMAIN acc : acc[i].known => (i \in DOMAIN account /\ account[i].known) \/ i = id,
         Cardinality(MadeIn(acc, runs)) <= Cardinality(MadeIn(account, runs)) + 1,
         run' = [Charged EXCEPT !.stage = "invoice", !.item.customer = id]
  PROVE  IInv'
<1>1. run.stage # "idle"
  OBVIOUS
<1>2. PICK c \in RunType :
           /\ c = Charged
           /\ c.stage = run.stage /\ c.tag = run.tag /\ c.seed = run.seed
           /\ c.since = run.since /\ c.items = run.items /\ c.item = run.item
           /\ c.retry = "none"
           /\ Cardinality(MadeIn(account, runs)) + 1 <= c.used /\ c.used \in Nat
  BY ChargedValue
<1>3. AtEntry(run, "invoice") /\ run.item.customer = None /\ AllCreated(run.items)
  BY <1>1, RunBounds DEF Stepwise
<1> DEFINE it == [run.item EXCEPT !.customer = id]
<1>4. /\ it \in Item /\ it.customer = id /\ it.id = run.item.id /\ it.kind = run.item.kind
      /\ it.amount = run.item.amount /\ it.status = run.item.status
  BY <1>1, RunBounds DEF Item
<1>5. run' = [c EXCEPT !.stage = "invoice", !.item = it]
  <2>1. run' = [c EXCEPT !.stage = "invoice", !.item.customer = id]
    BY <1>2
  <2> QED
    BY <1>2, <2>1 DEF RunType
<1> HIDE DEF it
<1>6. PICK q : q = run'
  OBVIOUS
<1>7. /\ q \in RunType /\ q.stage = "invoice" /\ q.item = it /\ q.items = run.items
      /\ q.tag = run.tag /\ q.seed = run.seed /\ q.since = run.since /\ q.retry = "none"
      /\ q.used = c.used
  BY <1>2, <1>4, <1>5, <1>6 DEF RunType, Stages
<1>8. Place(q) = Place(run)
  BY <1>4, <1>7 DEF Place
<1>9. Stepwise(acc, q)
  <2>1. AtEntry(q, "invoice")
    BY <1>3, <1>4, <1>7, <1>8 DEF AtEntry
  <2>2. CustomerOf(acc, q.item.customer, q.tag, Place(q))
    BY <1>4, <1>7, <1>8
  <2> QED
    BY <1>3, <1>7, <2>1, <2>2 DEF Stepwise
<1>10. TrueBook(acc, q.items, q.tag, q.seed, q.since)
  BY <1>1, <1>7, RunBounds, BookStays
<1>11. NamedBy(run) \subseteq NamedBy(q) /\ id \in NamedBy(q)
  <2>1. Ids(<<run.item>>) = {}
    BY <1>3, IdsOne DEF AtEntry
  <2>2. id # None
    <3>1. id \in DOMAIN acc
      BY DEF CustomerOf
    <3> QED
      BY <3>1 DEF None
  <2>3. id \in Ids(<<it>>)
    BY <1>4, <2>2, IdsOne
  <2> QED
    BY <1>7, <2>1, <2>3 DEF NamedBy
<1>12. Cardinality(MadeIn(acc, runs)) <= q.used
  <2>1. Cardinality(MadeIn(acc, runs)) \in Nat /\ Cardinality(MadeIn(account, runs)) \in Nat
    BY <1>1, RunBounds, MadeInFinite
  <2> QED
    BY <1>2, <1>7, <2>1
<1> QED
  BY <1>1, <1>6, <1>7, <1>9, <1>10, <1>11, <1>12, AnswerKeeps

LEMMA CreateCustomerKeeps ==
  ASSUME IInv, NEW answered \in BOOLEAN, CreateCustomer(answered)
  PROVE  IInv'
<1>1. /\ run.stage = "customer" /\ run.stage # "idle" /\ Calling /\ Affordable
      /\ UNCHANGED <<file, runs, unfiled>>
  BY DEF CreateCustomer
<1>2. Types /\ AtEntry(run, "invoice") /\ Position = Place(run)
  BY <1>1 DEF IInv, Stepwise, Position, Place
<1>3. CASE CustomersHeld = {}
  <2>1. account' = Append(account, New("customer", answered))
    BY <1>3 DEF CreateCustomer
  <2>2. CASE ~answered
    <3>1. account' = Append(account, New("customer", FALSE)) /\ run' = Stop(Charged)
      BY <2>1, <2>2, <1>3 DEF CreateCustomer
    <3> QED
      BY <1>1, <3>1, LostAnswerKeeps
  <2>3. CASE answered
    <3>1. run' = [Charged EXCEPT !.stage = "invoice", !.item.customer = Len(account) + 1]
      BY <2>3, <1>3 DEF CreateCustomer
    <3>2. PICK r : r = New("customer", answered)
      OBVIOUS
    <3>3. /\ r \in Resource /\ r.kind = "customer" /\ r.tag = run.tag /\ r.at = Place(run)
          /\ r.during = runs
      BY <1>1, <3>2, RunBounds, NewIs
    <3>4. PICK acc : acc = account'
      OBVIOUS
    <3>5. acc = Append(account, r)
      BY <2>1, <3>2, <3>4
    <3>6. /\ acc \in Seq(Resource) /\ Grows(account, acc)
          /\ DOMAIN acc = DOMAIN account \cup {Len(account) + 1}
          /\ acc[Len(account) + 1] = r
          /\ \A i \in DOMAIN account : acc[i] = account[i]
          /\ \A i \in DOMAIN acc : acc[i].during <= runs
          /\ Cardinality(MadeIn(acc, runs)) = Cardinality(MadeIn(account, runs)) + 1
      BY <1>2, <3>3, <3>5, MakesOne
    <3>7. PICK id \in Nat : id = Len(account) + 1
      BY <1>2, AccountBounds
    <3>8. CustomerOf(acc, id, run.tag, Place(run))
      BY <3>3, <3>6, <3>7 DEF CustomerOf
    <3>9. \A i \in DOMAIN acc : acc[i].known => (i \in DOMAIN account /\ account[i].known) \/ i = id
      BY <3>6, <3>7
    <3>10. Cardinality(MadeIn(acc, runs)) <= Cardinality(MadeIn(account, runs)) + 1
      BY <3>6, <1>2, AccountBounds, MadeInFinite
    <3>11. run' = [Charged EXCEPT !.stage = "invoice", !.item.customer = id]
      BY <3>1, <3>7
    <3> QED
      BY <1>1, <3>4, <3>6, <3>7, <3>8, <3>9, <3>10, <3>11, CustomerTaken
  <2> QED
    BY <2>2, <2>3
<1>4. CASE CustomersHeld # {}
  <2>1. PICK id \in CustomersHeld :
             /\ account' = [account EXCEPT ![id].known = @ \/ answered]
             /\ run' = IF answered THEN [Charged EXCEPT !.stage = "invoice", !.item.customer = id]
                                   ELSE Stop(Charged)
    BY <1>4 DEF CreateCustomer
  <2>2. /\ id \in DOMAIN account /\ id \in Nat /\ account[id].kind = "customer"
        /\ account[id].tag = run.tag /\ account[id].at = Place(run)
    BY <1>2, <2>1, AccountBounds DEF CustomersHeld
  <2>3. PICK acc : acc = account'
    OBVIOUS
  <2> DEFINE held == [account[id] EXCEPT !.known = @ \/ answered]
  <2>4. acc = [account EXCEPT ![id] = held]
    BY <2>1, <2>3
  <2>5. /\ held \in Resource /\ held.kind = account[id].kind /\ held.tag = account[id].tag
        /\ held.at = account[id].at /\ held.customer = account[id].customer
        /\ held.during = account[id].during /\ held.issued = account[id].issued
        /\ held.known = (account[id].known \/ answered)
    BY <1>2, <2>2, AccountBounds DEF Resource
  <2> HIDE DEF held
  <2>6. /\ acc \in Seq(Resource) /\ DOMAIN acc = DOMAIN account
        /\ \A i \in DOMAIN account :
             /\ acc[i].kind = account[i].kind /\ acc[i].tag = account[i].tag
             /\ acc[i].at = account[i].at /\ acc[i].customer = account[i].customer
             /\ acc[i].during = account[i].during
             /\ account[i].issued => acc[i].issued
    BY <1>2, <2>2, <2>4, <2>5, AccountBounds
  <2>7. /\ Grows(account, acc) /\ MadeIn(acc, runs) = MadeIn(account, runs)
        /\ \A i \in DOMAIN acc : acc[i].during <= runs
    BY <1>2, <2>6, MakesNone
  <2>8. \A i \in DOMAIN acc : acc[i].known => account[i].known \/ (answered /\ i = id)
    BY <2>2, <2>4, <2>5, <2>6
  <2>9. Cardinality(MadeIn(acc, runs)) <= Cardinality(MadeIn(account, runs)) + 1
    BY <1>2, <2>7, AccountBounds, MadeInFinite
  <2>10. CASE ~answered
    <3>1. PICK c \in RunType :
             /\ c = Charged
             /\ c.stage = run.stage /\ c.tag = run.tag /\ c.seed = run.seed
             /\ c.since = run.since /\ c.items = run.items /\ c.item = run.item
             /\ Cardinality(MadeIn(account, runs)) + 1 <= c.used /\ c.used \in Nat
      BY <1>1, ChargedValue
    <3>2. run' = Stop(c)
      BY <2>1, <2>10, <3>1
    <3>3. \A i \in DOMAIN acc : acc[i].known => i \in DOMAIN account /\ account[i].known
      BY <2>6, <2>8, <2>10
    <3>4. Cardinality(MadeIn(acc, runs)) <= c.used
      BY <1>2, <2>7, <3>1, AccountBounds, MadeInFinite
    <3> QED
      BY <1>1, <2>3, <2>6, <2>7, <3>1, <3>2, <3>3, <3>4, StopMovesOn
  <2>11. CASE answered
    <3>1. run' = [Charged EXCEPT !.stage = "invoice", !.item.customer = id]
      BY <2>1, <2>11
    <3>2. CustomerOf(acc, id, run.tag, Place(run))
      BY <2>2, <2>6 DEF CustomerOf
    <3>3. \A i \in DOMAIN acc : acc[i].known => (i \in DOMAIN account /\ account[i].known) \/ i = id
      BY <2>6, <2>8
    <3> QED
      BY <1>1, <2>2, <2>3, <2>6, <2>7, <2>9, <3>1, <3>2, <3>3, CustomerTaken
  <2> QED
    BY <2>10, <2>11
<1> QED
  BY <1>3, <1>4

LEMMA CreateInvoiceKeeps ==
  ASSUME IInv, NEW answered \in BOOLEAN, CreateInvoice(answered)
  PROVE  IInv'
<1>1. /\ run.stage = "invoice" /\ run.stage # "idle" /\ Calling /\ Affordable
      /\ UNCHANGED <<file, runs, unfiled>>
      /\ account' = Append(account, New("invoice", answered))
  BY DEF CreateInvoice
<1>2. CASE ~answered
  <2>1. account' = Append(account, New("invoice", FALSE)) /\ run' = Stop(Charged)
    BY <1>1, <1>2 DEF CreateInvoice
  <2> QED
    BY <1>1, <2>1, LostAnswerKeeps
<1>3. CASE answered
  <2>1. /\ Types /\ AtEntry(run, "invoice") /\ AllCreated(run.items)
        /\ CustomerOf(account, run.item.customer, run.tag, Place(run))
    BY <1>1 DEF IInv, Stepwise
  <2>2. PICK c \in RunType :
           /\ c = Charged
           /\ c.stage = run.stage /\ c.tag = run.tag /\ c.seed = run.seed
           /\ c.since = run.since /\ c.items = run.items /\ c.item = run.item
           /\ c.retry = "none"
           /\ Cardinality(MadeIn(account, runs)) + 1 <= c.used /\ c.used \in Nat
    BY <1>1, ChargedValue
  <2>3. PICK r : r = New("invoice", answered)
    OBVIOUS
  <2>4. /\ r \in Resource /\ r.kind = "invoice" /\ r.tag = run.tag /\ r.at = Place(run)
        /\ r.customer = run.item.customer /\ r.during = runs
    BY <1>1, <2>3, RunBounds, NewIs
  <2>5. PICK acc : acc = account'
    OBVIOUS
  <2>6. acc = Append(account, r)
    BY <1>1, <2>3, <2>5
  <2>7. /\ acc \in Seq(Resource) /\ Grows(account, acc) /\ Len(acc) = Len(account) + 1
        /\ DOMAIN acc = DOMAIN account \cup {Len(account) + 1}
        /\ acc[Len(account) + 1] = r
        /\ \A i \in DOMAIN account : acc[i] = account[i]
        /\ \A i \in DOMAIN acc : acc[i].during <= runs
        /\ Cardinality(MadeIn(acc, runs)) = Cardinality(MadeIn(account, runs)) + 1
    BY <2>1, <2>4, <2>6, MakesOne
  <2>8. PICK id \in Nat : id = Len(account) + 1 /\ id # None
    BY <2>1, AccountBounds DEF None
  <2> DEFINE it == [run.item EXCEPT !.id = id, !.status = "draft"]
  <2>9. /\ it \in Item /\ it.customer = run.item.customer /\ it.id = id
        /\ it.kind = run.item.kind /\ it.amount = run.item.amount /\ it.status = "draft"
    BY <1>1, RunBounds DEF Item
  <2>10. run' = [c EXCEPT !.stage = "issue", !.item = it]
    <3>1. run' = [c EXCEPT !.stage = "issue", !.item.id = id, !.item.status = "draft"]
      BY <1>3, <2>2, <2>5, <2>7, <2>8 DEF CreateInvoice
    <3> QED
      BY <2>2, <3>1 DEF RunType
  <2> HIDE DEF it
  <2>11. PICK q : q = run'
    OBVIOUS
  <2>12. /\ q \in RunType /\ q.stage = "issue" /\ q.item = it /\ q.items = run.items
         /\ q.tag = run.tag /\ q.seed = run.seed /\ q.since = run.since /\ q.retry = "none"
         /\ q.used = c.used
    BY <2>2, <2>9, <2>10, <2>11 DEF RunType, Stages
  <2>13. Place(q) = Place(run)
    BY <2>9, <2>12 DEF Place
  <2>14. Stands(acc, it, Place(run), run.tag, run.seed, run.since)
    <3>1. it.kind = "invoice" /\ it.amount = Plans[run.seed]["invoice"][Place(run)].amount
          /\ Place(run) <= Len(Plans[run.seed]["invoice"])
      BY <2>1, <2>9 DEF AtEntry
    <3>2. id \in DOMAIN acc /\ acc[id] = r
      BY <2>7, <2>8
    <3>3. CustomerOf(acc, it.customer, run.tag, Place(run))
      BY <2>1, <2>7, <2>9, CustomerStays
    <3>4. run.since <= runs
      BY <1>1, RunBounds
    <3> QED
      BY <2>4, <2>9, <3>1, <3>2, <3>3, <3>4 DEF Stands
  <2>15. Stepwise(acc, q)
    BY <2>1, <2>9, <2>12, <2>13, <2>14 DEF Stepwise, AtEntry
  <2>16. TrueBook(acc, q.items, q.tag, q.seed, q.since)
    BY <1>1, <2>7, <2>12, RunBounds, BookStays
  <2>17. NamedBy(run) \subseteq NamedBy(q) /\ id \in NamedBy(q)
    <3>1. \A x \in Ids(<<run.item>>) : x \in Ids(<<it>>)
      BY <2>1, <2>9, IdsOne DEF AtEntry
    <3>2. id \in Ids(<<it>>)
      BY <2>8, <2>9, IdsOne
    <3> QED
      BY <2>12, <3>1, <3>2 DEF NamedBy
  <2>18. \A i \in DOMAIN acc :
           acc[i].known => (i \in DOMAIN account /\ account[i].known) \/ i \in NamedBy(q)
    BY <2>7, <2>8, <2>17
  <2>19. Cardinality(MadeIn(acc, runs)) <= q.used
    BY <2>2, <2>7, <2>12
  <2> QED
    BY <1>1, <2>5, <2>7, <2>11, <2>12, <2>15, <2>16, <2>17, <2>18, <2>19, AnswerKeeps
<1> QED
  BY <1>2, <1>3

\* A finished item joins the book, and the next entry is taken up.
MayFinish(acc, c, it, k) ==
  /\ c \in RunType /\ c.seed \in Seeds /\ AllCreated(c.items) /\ c.retry = "none"
  /\ TrueBook(acc, c.items, c.tag, c.seed, c.since)
  /\ it \in Item /\ it.kind \in Kinds /\ it.id # None
  /\ k = Len(OfKind(c.items, it.kind)) + 1 /\ Stands(acc, it, k, c.tag, c.seed, c.since)

WentOn(acc, c, it, q) ==
  /\ q \in RunType /\ q.stage # "idle" /\ q.retry = "none"
  /\ q.tag = c.tag /\ q.seed = c.seed /\ q.since = c.since /\ q.used = c.used
  /\ Stepwise(acc, q) /\ TrueBook(acc, q.items, q.tag, q.seed, q.since)
  /\ NamedBy(q) = Ids(c.items) \cup Ids(<<it>>)

LEMMA FinishIs ==
  ASSUME NEW acc, NEW c, NEW it, NEW k, MayFinish(acc, c, it, k), NEW q, q = Finish(c, it)
  PROVE  WentOn(acc, c, it, q)
<1>a. /\ c \in RunType /\ c.seed \in Seeds /\ AllCreated(c.items) /\ c.retry = "none"
      /\ TrueBook(acc, c.items, c.tag, c.seed, c.since)
      /\ it \in Item /\ it.kind \in Kinds /\ it.id # None
      /\ k = Len(OfKind(c.items, it.kind)) + 1 /\ Stands(acc, it, k, c.tag, c.seed, c.since)
  BY DEF MayFinish
<1> DEFINE more == Append(c.items, it)
<1>1. c.items \in Seq(Item) /\ more \in Seq(Item)
  BY <1>a DEF RunType
<1>2. TrueBook(acc, more, c.tag, c.seed, c.since) /\ AllCreated(more)
  BY <1>1, <1>a, BookWith
<1>3. Ids(more) = Ids(c.items) \cup Ids(<<it>>)
  BY <1>1, <1>a, IdsAppend
<1>4. PICK r : r = [c EXCEPT !.items = more]
  OBVIOUS
<1>5. q = NextEntry(r, None)
  BY <1>4 DEF Finish
<1> HIDE DEF more
<1>6. /\ r \in RunType /\ r.items = more /\ r.tag = c.tag /\ r.seed = c.seed /\ r.since = c.since
      /\ r.used = c.used /\ r.retry = "none"
  BY <1>1, <1>4, <1>a DEF RunType
<1>7. None \in Nat
  BY DEF None
<1>8. /\ q \in RunType /\ q.stage # "idle"
      /\ q.tag = r.tag /\ q.seed = r.seed /\ q.since = r.since /\ q.items = r.items
      /\ q.used = r.used /\ q.retry = r.retry
      /\ q.item.id = None /\ q.item.customer = None /\ Stepwise(acc, q)
  <2>1. /\ r.seed \in Seeds /\ AllCreated(r.items)
        /\ TrueBook(acc, r.items, r.tag, r.seed, r.since)
    BY <1>2, <1>6, <1>a
  <2>2. PICK customer \in Nat : customer = None
    BY <1>7
  <2>3. q = NextEntry(r, customer)
    BY <1>5, <2>2
  <2>4. Awaits(acc, r, customer)
    BY <2>2 DEF Awaits
  <2>5. r \in RunType
    BY <1>6
  <2>6. /\ q \in RunType /\ q.stage # "idle"
        /\ q.tag = r.tag /\ q.seed = r.seed /\ q.since = r.since /\ q.items = r.items
        /\ q.used = r.used /\ q.retry = r.retry
        /\ q.item.id = None /\ q.item.customer = customer /\ Stepwise(acc, q)
    BY <2>1, <2>2, <2>3, <2>4, <2>5, NextEntryIs
  <2> QED
    BY <2>2, <2>6
<1>9. NamedBy(q) = Ids(more)
  <2>1. Ids(<<q.item>>) = {}
    BY <1>8, IdsOne
  <2> QED
    BY <1>6, <1>8, <2>1 DEF NamedBy
<1> QED
  BY <1>2, <1>3, <1>6, <1>8, <1>9 DEF WentOn

LEMMA IssueInvoiceKeeps ==
  ASSUME IInv, NEW answered \in BOOLEAN, IssueInvoice(answered)
  PROVE  IInv'
<1>1. /\ run.stage = "issue" /\ run.stage # "idle" /\ Calling /\ Affordable
      /\ UNCHANGED <<file, runs, unfiled>>
      /\ account' = [account EXCEPT ![run.item.id].issued = TRUE]
  BY DEF IssueInvoice
<1>2. /\ Types /\ AllCreated(run.items) /\ run.item.kind = "invoice"
      /\ Stands(account, run.item, Place(run), run.tag, run.seed, run.since)
  BY <1>1 DEF IInv, Stepwise
<1>3. PICK c \in RunType :
           /\ c = Charged
           /\ c.stage = run.stage /\ c.tag = run.tag /\ c.seed = run.seed
           /\ c.since = run.since /\ c.items = run.items /\ c.item = run.item
           /\ c.retry = "none"
           /\ Cardinality(MadeIn(account, runs)) + 1 <= c.used /\ c.used \in Nat
  BY <1>1, ChargedValue
<1>4. PICK id \in DOMAIN account : id = run.item.id /\ id # None
  <2>1. run.item.id \in DOMAIN account
    BY <1>2 DEF Stands
  <2> QED
    BY <1>2, <2>1, AccountBounds
<1>5. PICK acc : acc = account'
  OBVIOUS
<1> DEFINE held == [account[id] EXCEPT !.issued = TRUE]
<1>6. acc = [account EXCEPT ![id] = held]
  BY <1>1, <1>4, <1>5
<1>7. /\ held \in Resource /\ held.kind = account[id].kind /\ held.tag = account[id].tag
      /\ held.at = account[id].at /\ held.customer = account[id].customer
      /\ held.during = account[id].during /\ held.known = account[id].known /\ held.issued
  BY <1>2, AccountBounds DEF Resource
<1> HIDE DEF held
<1>8. /\ acc \in Seq(Resource) /\ DOMAIN acc = DOMAIN account
      /\ \A i \in DOMAIN account :
           /\ acc[i].kind = account[i].kind /\ acc[i].tag = account[i].tag
           /\ acc[i].at = account[i].at /\ acc[i].customer = account[i].customer
           /\ acc[i].during = account[i].during
           /\ account[i].issued => acc[i].issued
  BY <1>2, <1>6, <1>7, AccountBounds
<1>9. /\ \A i \in DOMAIN acc : acc[i].known => i \in DOMAIN account /\ account[i].known
      /\ acc[id].issued
  BY <1>2, <1>6, <1>7, <1>8, AccountBounds
<1>10. /\ Grows(account, acc) /\ MadeIn(acc, runs) = MadeIn(account, runs)
       /\ \A i \in DOMAIN acc : acc[i].during <= runs
  BY <1>2, <1>8, MakesNone
<1>11. Cardinality(MadeIn(acc, runs)) <= c.used
  BY <1>2, <1>3, <1>10, AccountBounds, MadeInFinite
<1>12. CASE ~answered
  <2>1. run' = Stop(c)
    BY <1>3, <1>12 DEF IssueInvoice
  <2> QED
    BY <1>1, <1>3, <1>5, <1>8, <1>9, <1>10, <1>11, <2>1, StopMovesOn
<1>13. CASE answered
  <2> DEFINE it == [run.item EXCEPT !.status = "issued"]
  <2>1. /\ it \in Item /\ it.customer = run.item.customer /\ it.id = id
        /\ it.kind = "invoice" /\ it.amount = run.item.amount /\ it.status = "issued"
    BY <1>1, <1>2, <1>4, RunBounds DEF Item
  <2>2. run' = Finish(c, it)
    BY <1>3, <1>13 DEF IssueInvoice
  <2> HIDE DEF it
  <2>3. Stands(acc, run.item, Place(run), run.tag, run.seed, run.since)
    BY <1>2, <1>10, StandsStill
  <2>4. PICK k : k = Len(OfKind(c.items, it.kind)) + 1 /\ Stands(acc, it, k, c.tag, c.seed, c.since)
    <3>1. Place(run) = Len(OfKind(c.items, it.kind)) + 1
      BY <1>2, <1>3, <2>1 DEF Place
    <3> QED
      BY <1>2, <1>3, <1>4, <1>9, <2>1, <2>3, <3>1 DEF Stands
  <2>5. PICK q : q = run'
    OBVIOUS
  <2>6. /\ c.seed \in Seeds /\ AllCreated(c.items) /\ it.kind \in Kinds /\ it.id # None
        /\ TrueBook(acc, c.items, c.tag, c.seed, c.since)
    <3>1. TrueBook(acc, run.items, run.tag, run.seed, run.since)
      BY <1>1, <1>10, RunBounds, BookStays
    <3> QED
      BY <1>1, <1>2, <1>3, <1>4, <2>1, <3>1, RunBounds DEF Kinds
  <2>7. q = Finish(c, it)
    BY <2>2, <2>5
  <2>8. /\ q \in RunType /\ q.stage # "idle" /\ q.retry = "none"
        /\ q.tag = c.tag /\ q.seed = c.seed /\ q.since = c.since /\ q.used = c.used
        /\ Stepwise(acc, q) /\ TrueBook(acc, q.items, q.tag, q.seed, q.since)
        /\ NamedBy(q) = Ids(c.items) \cup Ids(<<it>>)
    <3>1. MayFinish(acc, c, it, k)
      BY <1>3, <2>1, <2>4, <2>6 DEF MayFinish
    <3>2. WentOn(acc, c, it, q)
      BY <2>7, <3>1, FinishIs
    <3> QED
      BY <3>2 DEF WentOn
  <2>9. NamedBy(run) \subseteq NamedBy(q)
    <3>1. \A x \in Ids(<<run.item>>) : x \in Ids(<<it>>)
      BY <1>4, <2>1, IdsOne
    <3> QED
      BY <1>3, <2>8, <3>1 DEF NamedBy
  <2>10. q.tag = run.tag /\ q.seed = run.seed /\ q.since = run.since
         /\ Cardinality(MadeIn(acc, runs)) <= q.used
    BY <1>3, <1>11, <2>8
  <2>11. \A i \in DOMAIN acc :
           acc[i].known => (i \in DOMAIN account /\ account[i].known) \/ i \in NamedBy(q)
    BY <1>9
  <2>12. q \in RunType /\ q = run' /\ acc \in Seq(Resource) /\ acc = account'
    BY <1>5, <1>8, <2>5, <2>8
  <2> QED
    BY <1>1, <1>10, <2>8, <2>9, <2>10, <2>11, <2>12, AnswerKeeps
<1> QED
  BY <1>12, <1>13

LEMMA CreateOrderKeeps ==
  ASSUME IInv, NEW answered \in BOOLEAN, CreateOrder(answered)
  PROVE  IInv'
<1>1. /\ run.stage = "order" /\ run.stage # "idle" /\ Calling /\ Affordable
      /\ UNCHANGED <<file, runs, unfiled>>
      /\ account' = Append(account, New("order", answered))
  BY DEF CreateOrder
<1>2. CASE ~answered
  <2>1. account' = Append(account, New("order", FALSE)) /\ run' = Stop(Charged)
    BY <1>1, <1>2 DEF CreateOrder
  <2> QED
    BY <1>1, <2>1, LostAnswerKeeps
<1>3. CASE answered
  <2>1. /\ Types /\ AtEntry(run, "order") /\ AllCreated(run.items) /\ run.item.customer = None
    BY <1>1 DEF IInv, Stepwise
  <2>2. PICK c \in RunType :
           /\ c = Charged
           /\ c.stage = run.stage /\ c.tag = run.tag /\ c.seed = run.seed
           /\ c.since = run.since /\ c.items = run.items /\ c.item = run.item
           /\ c.retry = "none"
           /\ Cardinality(MadeIn(account, runs)) + 1 <= c.used /\ c.used \in Nat
    BY <1>1, ChargedValue
  <2>3. PICK r : r = New("order", answered)
    OBVIOUS
  <2>4. /\ r \in Resource /\ r.kind = "order" /\ r.tag = run.tag /\ r.at = Place(run)
        /\ r.during = runs
    BY <1>1, <2>3, RunBounds, NewIs
  <2>5. PICK acc : acc = account'
    OBVIOUS
  <2>6. acc = Append(account, r)
    BY <1>1, <2>3, <2>5
  <2>7. /\ acc \in Seq(Resource) /\ Grows(account, acc) /\ Len(acc) = Len(account) + 1
        /\ DOMAIN acc = DOMAIN account \cup {Len(account) + 1}
        /\ acc[Len(account) + 1] = r
        /\ \A i \in DOMAIN account : acc[i] = account[i]
        /\ \A i \in DOMAIN acc : acc[i].during <= runs
        /\ Cardinality(MadeIn(acc, runs)) = Cardinality(MadeIn(account, runs)) + 1
    BY <2>1, <2>4, <2>6, MakesOne
  <2>8. PICK id \in Nat : id = Len(account) + 1 /\ id # None
    BY <2>1, AccountBounds DEF None
  <2> DEFINE it == [run.item EXCEPT !.id = id, !.status = "created"]
  <2>9. /\ it \in Item /\ it.customer = None /\ it.id = id
        /\ it.kind = "order" /\ it.amount = run.item.amount /\ it.status = "created"
    BY <1>1, <2>1, RunBounds DEF Item, AtEntry
  <2>10. run' = Finish(c, it)
    BY <1>3, <2>2, <2>5, <2>7, <2>8 DEF CreateOrder
  <2> HIDE DEF it
  <2>11. Stands(acc, it, Place(run), run.tag, run.seed, run.since)
    <3>1. it.amount = Plans[run.seed]["order"][Place(run)].amount
          /\ Place(run) <= Len(Plans[run.seed]["order"])
      BY <2>1, <2>9 DEF AtEntry
    <3>2. id \in DOMAIN acc /\ acc[id] = r
      BY <2>7, <2>8
    <3>3. run.since <= runs
      BY <1>1, RunBounds
    <3> QED
      BY <2>4, <2>9, <3>1, <3>2, <3>3 DEF Stands
  <2>12. Place(run) = Len(OfKind(c.items, it.kind)) + 1
    BY <2>1, <2>2, <2>9 DEF Place, AtEntry
  <2>13. PICK q : q = run'
    OBVIOUS
  <2>14. /\ c.seed \in Seeds /\ AllCreated(c.items) /\ it.kind \in Kinds /\ it.id # None
         /\ TrueBook(acc, c.items, c.tag, c.seed, c.since)
    <3>1. TrueBook(acc, run.items, run.tag, run.seed, run.since)
      BY <1>1, <2>7, RunBounds, BookStays
    <3> QED
      BY <1>1, <2>1, <2>2, <2>8, <2>9, <3>1, RunBounds DEF Kinds
  <2>15. q = Finish(c, it)
    BY <2>10, <2>13
  <2>a. PICK k : k = Len(OfKind(c.items, it.kind)) + 1 /\ Stands(acc, it, k, c.tag, c.seed, c.since)
    BY <2>2, <2>11, <2>12
  <2>16. /\ q \in RunType /\ q.stage # "idle" /\ q.retry = "none"
         /\ q.tag = c.tag /\ q.seed = c.seed /\ q.since = c.since /\ q.used = c.used
         /\ Stepwise(acc, q) /\ TrueBook(acc, q.items, q.tag, q.seed, q.since)
         /\ NamedBy(q) = Ids(c.items) \cup Ids(<<it>>)
    <3>1. MayFinish(acc, c, it, k)
      BY <2>2, <2>9, <2>14, <2>a DEF MayFinish
    <3>2. WentOn(acc, c, it, q)
      BY <2>15, <3>1, FinishIs
    <3> QED
      BY <3>2 DEF WentOn
  <2>17. NamedBy(run) \subseteq NamedBy(q) /\ id \in NamedBy(q)
    <3>1. Ids(<<run.item>>) = {}
      BY <2>1, IdsOne DEF AtEntry
    <3>2. id \in Ids(<<it>>)
      BY <2>8, <2>9, IdsOne
    <3> QED
      BY <2>2, <2>16, <3>1, <3>2 DEF NamedBy
  <2>18. \A i \in DOMAIN acc :
           acc[i].known => (i \in DOMAIN account /\ account[i].known) \/ i \in NamedBy(q)
    BY <2>7, <2>8, <2>17
  <2>19. Cardinality(MadeIn(acc, runs)) <= q.used
    BY <2>2, <2>7, <2>16
  <2> QED
    BY <1>1, <2>2, <2>5, <2>7, <2>13, <2>16, <2>17, <2>18, <2>19, AnswerKeeps
<1> QED
  BY <1>2, <1>3

-----------------------------------------------------------------------------
(* Where a true book has what it names.                                    *)

LEMMA Located ==
  ASSUME NEW acc \in Seq(Resource), NEW items \in Seq(Item), NEW tag, NEW seed, NEW since,
         TrueBook(acc, items, tag, seed, since), NEW x \in Ids(items)
  PROVE  /\ x \in DOMAIN acc
         /\ \/ \E kind \in Kinds : \E k \in 1..Len(OfKind(items, kind)) :
                 /\ OfKind(items, kind)[k].id = x
                 /\ acc[x].kind = kind /\ acc[x].at = k
            \/ \E k \in 1..Len(OfKind(items, "invoice")) :
                 /\ OfKind(items, "invoice")[k].customer = x
                 /\ acc[x].kind = "customer" /\ acc[x].at = k
            \/ /\ items[Len(items)].customer = x
               /\ acc[x].kind = "customer" /\ acc[x].at = Len(OfKind(items, "invoice")) + 1
<1>1. PICK j \in DOMAIN items : x # None /\ (x = items[j].id \/ x = items[j].customer)
  BY IdsHold
<1>2. j \in 1..Len(items)
  BY <1>1
<1>3. items[j].kind \in Kinds
  BY <1>2 DEF TrueBook, Kinds
<1>4. CASE items[j].id # None
  <2> DEFINE kind == items[j].kind
  <2>1. PICK k \in 1..Len(OfKind(items, kind)) : OfKind(items, kind)[k] = items[j]
    BY <1>2, <1>4, OfKindType
  <2>2. Stands(acc, items[j], k, tag, seed, since)
    BY <1>3, <2>1 DEF TrueBook, Kinds
  <2>3. CASE x = items[j].id
    BY <1>3, <2>1, <2>2, <2>3 DEF Stands
  <2>4. CASE x = items[j].customer
    <3>1. kind = "invoice"
      BY <1>1, <1>3, <2>2, <2>4 DEF Stands, Kinds
    <3>2. CustomerOf(acc, x, tag, k)
      BY <2>2, <2>4, <3>1 DEF Stands
    <3> QED
      BY <2>1, <2>4, <3>1, <3>2 DEF CustomerOf
  <2> QED
    BY <1>1, <2>3, <2>4
<1>5. CASE items[j].id = None
  <2>1. /\ j = Len(items)
        /\ CustomerOf(acc, items[j].customer, tag, Len(OfKind(items, "invoice")) + 1)
    BY <1>2, <1>5 DEF TrueBook, LeftOver
  <2>2. x = items[j].customer
    BY <1>1, <1>5
  <2> QED
    BY <2>1, <2>2 DEF CustomerOf
<1> QED
  BY <1>4, <1>5

\* Nothing is in it twice.
LEMMA OneEach ==
  ASSUME NEW acc \in Seq(Resource), NEW items \in Seq(Item), NEW tag, NEW seed, NEW since,
         TrueBook(acc, items, tag, seed, since), NEW x \in Ids(items), NEW y \in Ids(items),
         acc[x].kind = acc[y].kind, acc[x].at = acc[y].at
  PROVE  x = y
<1> DEFINE Has(z) ==
      \/ \E kind \in Kinds : \E k \in 1..Len(OfKind(items, kind)) :
           /\ OfKind(items, kind)[k].id = z
           /\ acc[z].kind = kind /\ acc[z].at = k
      \/ \E k \in 1..Len(OfKind(items, "invoice")) :
           /\ OfKind(items, "invoice")[k].customer = z
           /\ acc[z].kind = "customer" /\ acc[z].at = k
      \/ /\ items[Len(items)].customer = z
         /\ acc[z].kind = "customer" /\ acc[z].at = Len(OfKind(items, "invoice")) + 1
<1>1. Has(x) /\ Has(y)
  BY Located
<1>2. Len(OfKind(items, "invoice")) \in Nat
  BY OfKindType
<1>3. CASE acc[x].kind \in Kinds
  <2>1. OfKind(items, acc[x].kind)[acc[x].at].id = x
    BY <1>1, <1>3 DEF Kinds
  <2>2. OfKind(items, acc[y].kind)[acc[y].at].id = y
    BY <1>1, <1>3 DEF Kinds
  <2> QED
    BY <2>1, <2>2
<1>4. CASE acc[x].kind \notin Kinds
  <2>1. acc[x].at \in 1..Len(OfKind(items, "invoice")) => OfKind(items, "invoice")[acc[x].at].customer = x
    BY <1>1, <1>2, <1>4
  <2>2. acc[y].at \in 1..Len(OfKind(items, "invoice")) => OfKind(items, "invoice")[acc[y].at].customer = y
    BY <1>1, <1>2, <1>4
  <2>3. acc[x].at \notin 1..Len(OfKind(items, "invoice")) => items[Len(items)].customer = x
    BY <1>1, <1>4
  <2>4. acc[y].at \notin 1..Len(OfKind(items, "invoice")) => items[Len(items)].customer = y
    BY <1>1, <1>4
  <2> QED
    BY <2>1, <2>2, <2>3, <2>4
<1> QED
  BY <1>3, <1>4

\* All that a run holds is one true book, and all the file holds is another.
LEMMA RunBook ==
  ASSUME IInv, run.stage # "idle"
  PROVE  \E items \in Seq(Item) :
           /\ TrueBook(account, items, run.tag, run.seed, run.since)
           /\ Ids(items) = NamedBy(run)
<1>1. PICK q : q = Stop(run)
  OBVIOUS
<1>2. /\ account \in Seq(Resource) /\ run \in RunType
      /\ Stepwise(account, run) /\ RunTrue(account, run, runs)
  BY DEF IInv, Types
<1>3. /\ q \in RunType /\ q.stage = "write"
      /\ q.tag = run.tag /\ q.seed = run.seed /\ q.since = run.since
      /\ Stepwise(account, q) /\ RunTrue(account, q, runs) /\ NamedBy(q) = NamedBy(run)
  BY <1>1, <1>2, StopKeeps
<1>4. q.items \in Seq(Item) /\ TrueBook(account, q.items, run.tag, run.seed, run.since)
  BY <1>3 DEF RunType, RunTrue
<1>5. Ids(q.items) = NamedBy(run)
  <2>1. q.item = NoItem
    BY <1>3 DEF Stepwise
  <2>2. Ids(<<q.item>>) = {}
    BY <2>1, NoItemType, IdsOne
  <2> QED
    BY <1>3, <2>2 DEF NamedBy
<1> QED
  BY <1>4, <1>5

LEMMA FileBook ==
  ASSUME IInv
  PROVE  /\ file \in ManifestType /\ file.items \in Seq(Item)
         /\ TrueBook(account, file.items, file.tag, file.seed, file.since)
         /\ Ids(file.items) \subseteq DOMAIN account
         /\ file.state # "written" => file.items = <<>> /\ file.since = 0 /\ Ids(file.items) = {}
<1>1. file \in ManifestType /\ file.items \in Seq(Item) /\ account \in Seq(Resource)
  BY DEF IInv, Types, ManifestType
<1>2. file.state # "written" => file.items = <<>> /\ file.since = 0
  BY DEF IInv, FileTrue, NoManifest, TornFile
<1>3. TrueBook(account, file.items, file.tag, file.seed, file.since)
  BY <1>2, EmptyBook DEF IInv, FileTrue
<1>4. Ids(file.items) \subseteq DOMAIN account
  BY <1>1, <1>3, Located
<1> QED
  BY <1>1, <1>2, <1>3, <1>4, IdsEmpty

LEMMA NamedByNone ==
  NamedBy(IdleRun) = {}
<1>1. IdleRun.items = <<>> /\ IdleRun.item = NoItem
  BY DEF IdleRun
<1>2. Ids(<<NoItem>>) = {}
  BY NoItemType, IdsOne
<1> QED
  BY <1>1, <1>2, IdsEmpty DEF NamedBy

LEMMA NamedIsThere ==
  ASSUME IInv
  PROVE  NamedBy(run) \subseteq DOMAIN account
<1>1. CASE run.stage = "idle"
  <2>1. run = IdleRun
    BY <1>1 DEF IInv, Stepwise
  <2> QED
    BY <2>1, NamedByNone
<1>2. CASE run.stage # "idle"
  <2>1. PICK items \in Seq(Item) :
               /\ TrueBook(account, items, run.tag, run.seed, run.since)
               /\ Ids(items) = NamedBy(run)
    BY <1>2, RunBook
  <2>2. account \in Seq(Resource)
    BY DEF IInv, Types
  <2> QED
    BY <2>1, <2>2, Located
<1> QED
  BY <1>1, <1>2

LEMMA IdleRunType ==
  IdleRun \in RunType /\ IdleRun.stage = "idle" /\ IdleRun.retry = "none" /\ IdleRun.used = 0
BY NoItemType, SeedAssumption DEF IdleRun, RunType, Stages, None

-----------------------------------------------------------------------------
(* The ends of a run, and its start.                                       *)

LEMMA IdleKeeps ==
  ASSUME IInv, account' = account, runs' = runs, run' = IdleRun
  PROVE  /\ Stepwise(account', run') /\ RunTrue(account', run', runs') /\ Paid(account', run', runs')
         /\ TakenOver' /\ run' \in RunType /\ NamedBy(run') = {}
BY IdleRunType, NamedByNone DEF IInv, Stepwise, RunTrue, Paid, TakenOver

LEMMA WriteKeeps ==
  ASSUME IInv, Write
  PROVE  IInv'
<1>1. /\ run.stage = "write" /\ run.stage # "idle"
      /\ account' = account /\ runs' = runs /\ run' = IdleRun /\ unfiled' = unfiled
      /\ file' = [state |-> "written", tag |-> run.tag, seed |-> run.seed, since |-> run.since,
                  items |-> run.items]
  BY DEF Write, Manifest
<1>2. /\ Stepwise(account', run') /\ RunTrue(account', run', runs') /\ Paid(account', run', runs')
      /\ TakenOver' /\ run' \in RunType /\ NamedBy(run') = {}
  BY <1>1, IdleKeeps
<1>3. file' \in ManifestType
  BY <1>1, RunBounds DEF ManifestType, RunType
<1>4. Types'
  BY <1>1, <1>2, <1>3 DEF IInv, Types
<1>5. FileTrue(account', file', runs')
  BY <1>1, RunBounds DEF FileTrue
<1>6. NothingOrphaned'
  <2>1. Ids(<<run.item>>) = {}
    <3>1. run.item = NoItem
      BY <1>1 DEF IInv, Stepwise
    <3> QED
      BY <3>1, NoItemType, IdsOne
  <2>2. NamedBy(run) = Ids(file'.items)
    BY <1>1, <2>1 DEF NamedBy
  <2>3. Ids(file.items) \subseteq NamedBy(run) \cup unfiled
    BY <1>1 DEF IInv, TakenOver
  <2>4. \A i \in DOMAIN account : account[i].known /\ i \notin unfiled =>
          i \in NamedBy(run) \cup Ids(file.items)
    BY DEF IInv, NothingOrphaned, NamedBy
  <2>5. \A i \in DOMAIN account : account[i].known /\ i \notin unfiled => i \in Ids(file'.items)
    BY <2>2, <2>3, <2>4
  <2> QED
    BY <1>1, <2>5 DEF NothingOrphaned
<1> QED
  BY <1>2, <1>4, <1>5, <1>6 DEF IInv

\* What a process takes with it is let go of.
LEMMA LoseKeeps ==
  ASSUME IInv, NEW torn \in BOOLEAN, Lose(torn)
  PROVE  IInv'
<1> DEFINE known == NamedBy(run)
           old   == Ids(file.items)
<1>1. /\ account' = account /\ runs' = runs /\ run' = IdleRun
      /\ file' = IF torn THEN TornFile ELSE file
      /\ unfiled' = unfiled \cup (IF torn THEN known \cup old ELSE known \ old)
  BY DEF Lose, NamedBy
<1>2. /\ Stepwise(account', run') /\ RunTrue(account', run', runs') /\ Paid(account', run', runs')
      /\ TakenOver' /\ run' \in RunType /\ NamedBy(run') = {}
  BY <1>1, IdleKeeps
<1>3. TornFile \in ManifestType /\ TornFile.state = "torn" /\ TornFile.items = <<>>
  <2>1. TornFile = [state |-> "torn", tag |-> 0, seed |-> None, since |-> 0, items |-> <<>>]
    BY DEF TornFile, NoManifest, None
  <2>2. <<>> \in Seq(Item) /\ None \in Seeds \cup {None}
    OBVIOUS
  <2> QED
    BY <2>1, <2>2 DEF ManifestType
<1>4. file' \in ManifestType
  BY <1>1, <1>3, FileBook
<1>5. known \subseteq DOMAIN account /\ old \subseteq DOMAIN account
  BY NamedIsThere, FileBook
<1>6. \A i \in DOMAIN account : account[i].known /\ i \notin unfiled => i \in known \cup old
  BY DEF IInv, NothingOrphaned, NamedBy
<1> HIDE DEF known, old
<1>7. unfiled' \subseteq DOMAIN account
  BY <1>1, <1>5 DEF IInv, Types
<1>8. Types'
  BY <1>1, <1>2, <1>4, <1>7 DEF IInv, Types
<1>9. FileTrue(account', file', runs')
  BY <1>1, <1>3 DEF IInv, FileTrue
<1>10. NothingOrphaned'
  <2>1. ASSUME NEW i \in DOMAIN account, account[i].known, i \notin unfiled'
        PROVE  i \in Ids(file'.items)
    <3>1. i \in known \cup old /\ i \notin unfiled
      BY <1>1, <1>6, <2>1
    <3>2. ~torn /\ i \in old
      BY <1>1, <2>1, <3>1
    <3> QED
      BY <1>1, <3>2 DEF old
  <2> QED
    BY <1>1, <2>1 DEF NothingOrphaned
<1> QED
  BY <1>2, <1>8, <1>9, <1>10 DEF IInv

LEMMA WriteFailsKeeps ==
  ASSUME IInv, WriteFails
  PROVE  IInv'
BY LoseKeeps DEF WriteFails

LEMMA CrashKeeps ==
  ASSUME IInv, Crash
  PROVE  IInv'
<1>1. PICK torn \in {FALSE, run.stage = "write"} : Lose(torn)
  BY DEF Crash
<1>2. torn \in BOOLEAN
  OBVIOUS
<1> QED
  BY <1>1, <1>2, LoseKeeps

LEMMA StartKeeps ==
  ASSUME IInv, NEW tag \in Nat, NEW named \in BOOLEAN, NEW seed \in Seeds, NEW force \in BOOLEAN,
         StartRun(tag, named, seed, force)
  PROVE  IInv'
<1>1. PICK prior : prior = IF force THEN NoManifest ELSE file
  OBVIOUS
<1>2. PICK planTag : planTag = IF named \/ prior.tag = None THEN tag ELSE prior.tag
  OBVIOUS
<1>3. /\ run.stage = "idle" /\ runs < MaxRuns
      /\ prior.state # "torn"
      /\ Resumable(prior, planTag, seed)
      /\ runs' = runs + 1
      /\ run' = NextEntry([IdleRun EXCEPT !.tag = planTag, !.seed = seed,
                             !.since = FirstAttempt(prior), !.items = Created(prior.items)],
                          CustomerLeft(prior))
      /\ unfiled' = IF force THEN unfiled \cup Ids(file.items) ELSE unfiled
      /\ account' = account /\ file' = file
  BY <1>1, <1>2 DEF StartRun
<1>4. NoManifest \in ManifestType /\ NoManifest.items = <<>> /\ NoManifest.since = 0
  BY DEF NoManifest, ManifestType, None
<1>5. /\ prior \in ManifestType /\ prior.items \in Seq(Item) /\ prior.tag \in Nat /\ prior.since \in Nat
      /\ planTag \in Nat
  <2>1. prior \in ManifestType
    BY <1>1, <1>4, FileBook
  <2> QED
    BY <1>2, <2>1 DEF ManifestType
<1>6. Types /\ runs \in Nat /\ account \in Seq(Resource)
  BY SeedAssumption DEF IInv, Types
<1>7. PICK since : since = FirstAttempt(prior)
  OBVIOUS
<1>8. since \in 1..runs + 1
  <2>1. prior.since # 0 => prior.since \in 1..runs
    <3>1. prior.since # 0 => prior = file /\ file.state = "written"
      BY <1>1, <1>4, FileBook
    <3> QED
      BY <3>1 DEF IInv, FileTrue
  <2> QED
    BY <1>5, <1>6, <1>7, <2>1 DEF FirstAttempt
<1>9. TrueBook(account, prior.items, planTag, seed, since)
  <2>1. CASE prior.items = <<>>
    BY <2>1, EmptyBook
  <2>2. CASE prior.items # <<>>
    <3>1. prior = file /\ file.state = "written"
      BY <1>1, <1>4, <2>2, FileBook
    <3>2. /\ file.seed \in Seeds /\ file.since \in 1..runs
          /\ TrueBook(account, file.items, file.tag, file.seed, file.since)
      BY <3>1 DEF IInv, FileTrue
    <3>3. planTag = file.tag /\ Fits(file, seed, "invoice") /\ Fits(file, seed, "order")
      BY <1>3, <2>2, <3>1 DEF Resumable
    <3>4. since = file.since
      BY <1>7, <3>1, <3>2 DEF FirstAttempt
    <3>5. \A kind \in Kinds : IsPrefix(Amounts(OfKind(file.items, kind)), Amounts(Plans[seed][kind]))
      BY <3>3 DEF Fits, Kinds
    <3>6. TrueBook(account, file.items, file.tag, seed, file.since)
      BY <1>5, <3>1, <3>2, <3>5, BookOfOtherSeed
    <3> QED
      BY <3>1, <3>3, <3>4, <3>6
  <2> QED
    BY <2>1, <2>2
<1>10. PICK items : items = Created(prior.items)
  OBVIOUS
<1>11. PICK customer : customer = CustomerLeft(prior)
  OBVIOUS
<1>12. /\ items \in Seq(Item) /\ AllCreated(items)
       /\ TrueBook(account, items, planTag, seed, since)
       /\ customer \in Nat
       /\ customer # None =>
            /\ Len(OfKind(items, "invoice")) < Len(Plans[seed].invoice)
            /\ CustomerOf(account, customer, planTag, Len(OfKind(items, "invoice")) + 1)
       /\ \A x \in Ids(prior.items) : x \in Ids(items) \/ x = customer
  BY <1>5, <1>9, <1>10, <1>11, Carried
<1>13. PICK r : r = [IdleRun EXCEPT !.tag = planTag, !.seed = seed, !.since = since, !.items = items]
  OBVIOUS
<1>14. /\ r \in RunType /\ r.tag = planTag /\ r.seed = seed /\ r.since = since /\ r.items = items
       /\ r.used = 0 /\ r.retry = "none"
  <2>1. planTag \in Nat /\ seed \in Seeds \cup {None} /\ since \in Nat /\ items \in Seq(Item)
    BY <1>5, <1>6, <1>8, <1>12
  <2>2. 0 \in 0..CallBudget /\ 0 \in 0..MaxBurstWaits
    BY SeedAssumption
  <2>3. r = [stage |-> "idle", tag |-> planTag, seed |-> seed, since |-> since, items |-> items,
             item |-> NoItem, used |-> 0, waits |-> 0, retry |-> "none"]
    BY <1>13 DEF IdleRun
  <2>4. r \in RunType
    BY <2>1, <2>2, <2>3, NoItemType DEF RunType, Stages
  <2> QED
    BY <2>3, <2>4
<1>15. PICK q : q = run'
  OBVIOUS
<1>16. /\ q \in RunType /\ q.stage # "idle"
       /\ q.tag = r.tag /\ q.seed = r.seed /\ q.since = r.since /\ q.items = r.items
       /\ q.used = r.used /\ q.retry = r.retry
       /\ q.item.id = None /\ q.item.customer = customer /\ Stepwise(account, q)
  <2>1. q = NextEntry(r, customer)
    BY <1>3, <1>7, <1>10, <1>11, <1>13, <1>15
  <2>2. Awaits(account, r, customer)
    BY <1>12, <1>14 DEF Awaits
  <2>3. r.seed \in Seeds /\ AllCreated(r.items) /\ TrueBook(account, r.items, r.tag, r.seed, r.since)
    BY <1>12, <1>14
  <2> QED
    BY <1>12, <1>14, <2>1, <2>2, <2>3, NextEntryIs
<1>17. unfiled' \subseteq DOMAIN account
  BY <1>3, <1>6, FileBook DEF Types
<1>18. Types'
  <2>1. runs' \in 0..MaxRuns /\ \A i \in DOMAIN account : account[i].during <= runs'
    <3>1. \A i \in DOMAIN account : account[i].during \in Nat
      BY <1>6, AccountBounds, SeedAssumption DEF Resource
    <3> QED
      BY <1>3, <1>6, <3>1, SeedAssumption DEF Types
  <2> QED
    BY <1>3, <1>6, <1>15, <1>16, <1>17, <2>1 DEF Types
<1>19. RunTrue(account', run', runs') /\ Stepwise(account', run')
  BY <1>3, <1>8, <1>12, <1>14, <1>15, <1>16 DEF RunTrue
<1>20. FileTrue(account', file', runs')
  BY <1>3, <1>6 DEF IInv, FileTrue
<1>21. NothingOrphaned'
  <2>1. NamedBy(run) = {}
    BY <1>3, NamedByNone DEF IInv, Stepwise
  <2>2. \A i \in DOMAIN account : account[i].known /\ i \notin unfiled => i \in Ids(file.items)
    BY <2>1 DEF IInv, NothingOrphaned, NamedBy
  <2>3. unfiled \subseteq unfiled'
    BY <1>3
  <2> QED
    BY <1>3, <2>2, <2>3 DEF NothingOrphaned
<1>22. TakenOver'
  <2>1. CASE force
    BY <1>3, <2>1 DEF TakenOver
  <2>2. CASE ~force
    <3>1. ASSUME NEW x \in Ids(file.items)
          PROVE  x \in NamedBy(q)
      <4>1. x \in Ids(items) \/ x = customer
        BY <1>1, <1>12, <2>2, <3>1
      <4>2. x # None
        BY <3>1, IdsHold
      <4>3. x = customer => x \in Ids(<<q.item>>)
        BY <1>16, <4>2, IdsOne
      <4> QED
        BY <1>14, <1>16, <4>1, <4>3 DEF NamedBy
    <3> QED
      BY <1>3, <1>15, <3>1 DEF TakenOver
  <2> QED
    BY <2>1, <2>2
<1>23. Paid(account', run', runs')
  <2>1. MadeIn(account, runs + 1) = {}
    <3>1. ASSUME NEW i \in DOMAIN account
          PROVE  account[i].during # runs + 1
      <4>1. account[i].during \in Nat /\ account[i].during <= runs
        BY <1>6, AccountBounds, SeedAssumption DEF Types, Resource
      <4> QED
        BY <1>6, <4>1
    <3> QED
      BY <3>1 DEF MadeIn
  <2>2. Cardinality(MadeIn(account, runs + 1)) = 0
    BY <2>1, FS_EmptySet
  <2>3. CallBudget \in Nat
    BY SeedAssumption
  <2> QED
    BY <1>3, <1>14, <1>15, <1>16, <2>2, <2>3 DEF Paid
<1> QED
  BY <1>18, <1>19, <1>20, <1>21, <1>22, <1>23 DEF IInv

-----------------------------------------------------------------------------
(* The invariant holds always.                                             *)

LEMMA InitHolds ==
  ASSUME Init
  PROVE  IInv
<1>1. account = <<>> /\ file = NoManifest /\ run = IdleRun /\ runs = 0 /\ unfiled = {}
  BY DEF Init
<1>2. /\ <<>> \in Seq(Resource) /\ DOMAIN <<>> = {}
      /\ IdleRun.stage = "idle" /\ IdleRun \in RunType
  BY IdleRunType
<1>3. NoManifest \in ManifestType /\ NoManifest.state = "absent"
  BY DEF NoManifest, ManifestType, None
<1>4. MadeIn(<<>>, 0) = {} /\ Cardinality({}) = 0
  BY FS_EmptySet DEF MadeIn
<1>5. Types
  <2>1. 0 \in 0..MaxRuns
    BY SeedAssumption
  <2>2. \A i \in DOMAIN account : account[i].during <= runs
    BY <1>1, <1>2
  <2> QED
    BY <1>1, <1>2, <1>3, <2>1, <2>2 DEF Types
<1>6. Stepwise(account, run) /\ RunTrue(account, run, runs)
  BY <1>1, <1>2 DEF Stepwise, RunTrue
<1>7. FileTrue(account, file, runs)
  BY <1>1, <1>3 DEF FileTrue
<1>8. NothingOrphaned /\ TakenOver
  BY <1>1, <1>2 DEF NothingOrphaned, TakenOver
<1>9. Paid(account, run, runs)
  <2>1. Cardinality(MadeIn(account, runs)) = 0
    BY <1>1, <1>4
  <2>2. 0 <= CallBudget /\ run.stage = "idle"
    BY <1>1, <1>2, SeedAssumption
  <2> QED
    BY <2>1, <2>2 DEF Paid
<1> QED
  BY <1>5, <1>6, <1>7, <1>8, <1>9 DEF IInv

LEMMA ReachesKeeps ==
  ASSUME IInv, NEW answered \in BOOLEAN, Reaches(answered)
  PROVE  IInv'
<1>1. CASE CreateCustomer(answered)
  BY <1>1, CreateCustomerKeeps
<1>2. CASE CreateInvoice(answered)
  BY <1>2, CreateInvoiceKeeps
<1>3. CASE IssueInvoice(answered)
  BY <1>3, IssueInvoiceKeeps
<1>4. CASE CreateOrder(answered)
  BY <1>4, CreateOrderKeeps
<1> QED
  BY <1>1, <1>2, <1>3, <1>4 DEF Reaches

LEMMA StepKeeps ==
  ASSUME IInv, Step
  PROVE  IInv'
<1>1. CASE \E answered \in BOOLEAN : Reaches(answered)
  <2>1. PICK answered \in BOOLEAN : Reaches(answered)
    BY <1>1
  <2> QED
    BY <2>1, ReachesKeeps
<1>2. CASE CallFails
  BY <1>2, CallFailsKeeps
<1>3. CASE BurstQuota
  BY <1>3, BurstQuotaKeeps
<1>4. CASE WaitEnds
  BY <1>4, WaitEndsKeeps
<1>5. CASE OutOfBudget
  BY <1>5, OutOfBudgetKeeps
<1>6. CASE Write
  BY <1>6, WriteKeeps
<1>7. CASE WriteFails
  BY <1>7, WriteFailsKeeps
<1> QED
  BY <1>1, <1>2, <1>3, <1>4, <1>5, <1>6, <1>7 DEF Step

LEMMA AnyStartKeeps ==
  ASSUME IInv, Start
  PROVE  IInv'
<1>1. PICK seed \in Seeds, force \in BOOLEAN :
         \/ StartRun(runs + 1, FALSE, seed, force)
         \/ \E tag \in NamedTags : StartRun(tag, TRUE, seed, force)
  BY DEF Start
<1>2. PICK now : now = runs + 1
  OBVIOUS
<1>3. now \in Nat
  BY <1>2, SeedAssumption DEF IInv, Types
<1>4. CASE StartRun(runs + 1, FALSE, seed, force)
  <2>1. PICK named \in BOOLEAN : StartRun(now, named, seed, force)
    BY <1>2, <1>4
  <2> QED
    BY <1>1, <1>3, <2>1, StartKeeps
<1>5. CASE \E tag \in NamedTags : StartRun(tag, TRUE, seed, force)
  <2>1. PICK tag \in NamedTags : StartRun(tag, TRUE, seed, force)
    BY <1>5
  <2>2. PICK named \in BOOLEAN : StartRun(tag, named, seed, force)
    BY <2>1
  <2>3. tag \in Nat
    BY <2>1, SeedAssumption
  <2> QED
    BY <1>1, <2>2, <2>3, StartKeeps
<1> QED
  BY <1>1, <1>4, <1>5

LEMMA StutterKeeps ==
  ASSUME IInv, UNCHANGED vars
  PROVE  IInv'
<1>1. account' = account /\ file' = file /\ run' = run /\ runs' = runs /\ unfiled' = unfiled
  BY DEF vars
<1>2. Types' /\ NothingOrphaned' /\ TakenOver'
  BY <1>1 DEF IInv, Types, NothingOrphaned, TakenOver
<1> QED
  BY <1>1, <1>2 DEF IInv

LEMMA NextKeeps ==
  ASSUME IInv, [Next]_vars
  PROVE  IInv'
BY AnyStartKeeps, StepKeeps, CrashKeeps, StutterKeeps DEF Next

THEOREM InvariantAlways == Spec => []IInv
<1>1. Init => IInv
  BY InitHolds
<1>2. IInv /\ [Next]_vars => IInv'
  BY NextKeeps
<1> QED
  BY <1>1, <1>2, PTL DEF Spec

-----------------------------------------------------------------------------
(* What it gives.                                                          *)

\* The values the state takes, and every id that a manifest or a process names
\* is a resource's (Item.ID, Item.CustomerID).
THEOREM TypeCorrect == Spec => []TypeOK
<1>1. IInv => TypeOK
  <2> SUFFICES ASSUME IInv PROVE TypeOK
    OBVIOUS
  <2>1. /\ account \in Seq(Resource) /\ unfiled \subseteq DOMAIN account
        /\ run \in RunType
    BY DEF IInv, Types
  <2>2. NamedBy(run) \subseteq DOMAIN account /\ Ids(file.items) \subseteq DOMAIN account
    BY NamedIsThere, FileBook
  <2>3. run.used \in 0..CallBudget /\ run.waits \in 0..MaxBurstWaits /\ run.stage \in Stages
    BY <2>1 DEF RunType
  <2>4. file.state \in {"absent", "torn", "written"}
    BY FileBook DEF ManifestType
  <2> QED
    BY <2>1, <2>2, <2>3, <2>4 DEF TypeOK, NamedBy, Stages
<1> QED
  BY <1>1, InvariantAlways, PTL

\* Stopping and resuming orphan nothing: what Razorpay told a run it had created
\* is named by the run or by the file, until a crash, a failed write or -force
\* lets it go (executePlan, planFor).
THEOREM OrphansNothing == Spec => []NothingOrphaned
<1>1. IInv => NothingOrphaned
  BY DEF IInv
<1> QED
  BY <1>1, InvariantAlways, PTL

\* All that is known and not let go of is in one book.
LEMMA OneBook ==
  ASSUME IInv
  PROVE  \E items, tag, seed, since :
           /\ items \in Seq(Item)
           /\ TrueBook(account, items, tag, seed, since)
           /\ \A i \in DOMAIN account :
                account[i].known /\ i \notin unfiled => i \in Ids(items)
<1>1. \A i \in DOMAIN account : account[i].known /\ i \notin unfiled =>
        i \in NamedBy(run) \cup Ids(file.items)
  BY DEF IInv, NothingOrphaned, NamedBy
<1>2. CASE run.stage = "idle"
  <2>1. NamedBy(run) = {}
    BY <1>2, NamedByNone DEF IInv, Stepwise
  <2> QED
    BY <1>1, <2>1, FileBook
<1>3. CASE run.stage # "idle"
  <2>1. PICK items \in Seq(Item) :
               /\ TrueBook(account, items, run.tag, run.seed, run.since)
               /\ Ids(items) = NamedBy(run)
    BY <1>3, RunBook
  <2>2. Ids(file.items) \subseteq NamedBy(run) \cup unfiled
    BY <1>3 DEF IInv, TakenOver
  <2> QED
    BY <1>1, <2>1, <2>2
<1> QED
  BY <1>2, <1>3

\* No entry of a tagged plan is made twice by runs that resume each other
\* (resumeFrom, customerFor).
THEOREM MadeOnce == Spec => []NothingMadeTwice
<1>1. IInv => NothingMadeTwice
  <2> SUFFICES ASSUME IInv,
                      NEW i \in DOMAIN account, NEW j \in DOMAIN account,
                      i # j, {i, j} \cap unfiled = {},
                      account[i].known, account[j].known,
                      account[i].kind = account[j].kind, account[i].tag = account[j].tag,
                      account[i].at = account[j].at
               PROVE  FALSE
    BY DEF NothingMadeTwice
  <2>1. PICK items, tag, seed, since :
           /\ items \in Seq(Item)
           /\ TrueBook(account, items, tag, seed, since)
           /\ \A x \in DOMAIN account :
                account[x].known /\ x \notin unfiled => x \in Ids(items)
    BY OneBook
  <2>2. i \in Ids(items) /\ j \in Ids(items)
    BY <2>1
  <2>3. account \in Seq(Resource)
    BY DEF IInv, Types
  <2>4. i = j
    BY <2>1, <2>2, <2>3, OneEach
  <2> QED
    BY <2>4
<1> QED
  BY <1>1, InvariantAlways, PTL

\* However a run stops, a later run under the same tag and seed takes its
\* manifest up: resumeFrom's checks never refuse their own writer.
THEOREM NeverRefusesItself == Spec => []AlwaysResumable
<1>1. IInv => AlwaysResumable
  <2> SUFFICES ASSUME IInv, file.state = "written"
               PROVE  Resumable(file, file.tag, file.seed)
    BY DEF AlwaysResumable
  <2>1. /\ file.items \in Seq(Item) /\ file.seed \in Seeds
        /\ TrueBook(account, file.items, file.tag, file.seed, file.since)
    BY FileBook DEF IInv, FileTrue
  <2>2. \A kind \in Kinds : Fits(file, file.seed, kind)
    BY <2>1, BookFits DEF Fits
  <2>3. \A k \in DOMAIN file.items : file.items[k].id = None => k = Len(file.items)
    <3>1. DOMAIN file.items = 1..Len(file.items)
      BY <2>1
    <3> QED
      BY <2>1, <3>1 DEF TrueBook, LeftOver
  <2> QED
    BY <2>2, <2>3 DEF Resumable, Kinds
<1> QED
  BY <1>1, InvariantAlways, PTL

\* What the manifest says is so, also of what a resumed run took over from an
\* earlier one (Manifest, Manifest.CreatedAt).
THEOREM ManifestAlwaysTrue == Spec => []ManifestIsTrue
<1>1. IInv => ManifestIsTrue
  <2> SUFFICES ASSUME IInv, NEW kind \in Kinds, NEW k \in DOMAIN OfKind(file.items, kind)
               PROVE  LET made     == OfKind(file.items, kind)
                          resource == account[made[k].id]
                          customer == account[made[k].customer]
                      IN /\ resource.kind = kind /\ resource.tag = file.tag /\ resource.at = k
                         /\ made[k].status = "issued" => resource.issued
                         /\ file.since <= resource.during
                         /\ kind = "invoice" =>
                              /\ resource.customer = made[k].customer
                              /\ customer.kind = "customer" /\ customer.tag = file.tag
                              /\ customer.at = k
    BY DEF ManifestIsTrue, Kinds
  <2>1. /\ file.items \in Seq(Item)
        /\ TrueBook(account, file.items, file.tag, file.seed, file.since)
    BY FileBook
  <2> DEFINE it == OfKind(file.items, kind)[k]
  <2>2. k \in 1..Len(OfKind(file.items, kind)) /\ it.kind = kind
    <3>1. DOMAIN OfKind(file.items, kind) = 1..Len(OfKind(file.items, kind))
      BY <2>1, OfKindType
    <3> QED
      BY <2>1, <3>1, OfKindType
  <2>3. Stands(account, it, k, file.tag, file.seed, file.since)
    BY <2>1, <2>2 DEF TrueBook, Kinds
  <2> QED
    BY <2>2, <2>3 DEF Stands, CustomerOf
<1> QED
  BY <1>1, InvariantAlways, PTL

\* A run brings no more resources into being than the calls it was allowed
\* (budget.spend, callWithBurstRetry).
THEOREM BookWithinBudget == Spec => []BudgetBoundsTheBook
<1>1. IInv => BudgetBoundsTheBook
  BY DEF IInv, Paid, MadeIn, BudgetBoundsTheBook
<1> QED
  BY <1>1, InvariantAlways, PTL

-----------------------------------------------------------------------------
(* Why every run ends.  Fairness and ENABLED are out of the prover's reach,*)
(* so this is the part of EveryRunEnds that is about the code: each step   *)
(* of a run uses up some of what its budget and its waits allow.           *)

\* A retry that is due goes first through its wait, which goes first through a
\* wait of the allowance.
RetryCost(retry) == CASE retry = "waiting" -> 2 [] retry = "due" -> 1 [] OTHER -> 0

Allowance(r) ==
  CASE r.stage = "idle"  -> 0
    [] r.stage = "write" -> 1 + RetryCost(r.retry)
    [] OTHER -> 2 + 3 * (CallBudget - r.used) + 3 * (MaxBurstWaits - r.waits) + RetryCost(r.retry)

LEMMA AllowanceOf ==
  ASSUME NEW r \in RunType
  PROVE  /\ Allowance(r) \in Nat
         /\ r.stage = "idle" => Allowance(r) = 0
         /\ r.stage = "write" => Allowance(r) = 1 + RetryCost(r.retry)
         /\ r.stage \notin {"idle", "write"} =>
              /\ Allowance(r) > 1
              /\ Allowance(r) = 2 + 3 * (CallBudget - r.used) + 3 * (MaxBurstWaits - r.waits)
                                   + RetryCost(r.retry)
<1>1. CallBudget - r.used \in Nat /\ MaxBurstWaits - r.waits \in Nat
  BY SeedAssumption DEF RunType
<1>2. RetryCost(r.retry) \in 0..2
  BY DEF RetryCost
<1>3. r.stage = "idle" => Allowance(r) = 0
  BY DEF Allowance
<1>4. r.stage = "write" => Allowance(r) = 1 + RetryCost(r.retry)
  BY DEF Allowance
<1>5. r.stage \notin {"idle", "write"} =>
        Allowance(r) = 2 + 3 * (CallBudget - r.used) + 3 * (MaxBurstWaits - r.waits)
                         + RetryCost(r.retry)
  BY DEF Allowance
<1> QED
  BY <1>1, <1>2, <1>3, <1>4, <1>5


\* A run goes on only at what is left of an allowance.
LEMMA GoesOnWithin ==
  ASSUME NEW r \in RunType, r.stage \notin {"idle", "write"},
         NEW q \in RunType, q.stage # "idle",
         q.used = r.used, q.waits = r.waits, q.retry = r.retry
  PROVE  Allowance(q) <= Allowance(r)
<1>1. CASE q.stage = "write"
  <2>1. Allowance(q) = 1 + RetryCost(r.retry)
    BY <1>1, AllowanceOf
  <2>2. Allowance(r) = 2 + 3 * (CallBudget - r.used) + 3 * (MaxBurstWaits - r.waits)
                         + RetryCost(r.retry)
    BY AllowanceOf
  <2>3. CallBudget - r.used \in Nat /\ MaxBurstWaits - r.waits \in Nat
    BY SeedAssumption DEF RunType
  <2>4. RetryCost(r.retry) \in Nat
    BY DEF RetryCost
  <2> QED
    BY <2>1, <2>2, <2>3, <2>4
<1>2. CASE q.stage # "write"
  <2>1. Allowance(q) = Allowance(r)
    BY <1>2, AllowanceOf
  <2> QED
    BY <2>1, AllowanceOf
<1> QED
  BY <1>1, <1>2

\* A call costs the budget, or it was paid for and costs its free pass.
LEMMA ChargedCosts ==
  ASSUME IInv, Calling, Affordable, NEW r, r = Charged
  PROVE  /\ r \in RunType /\ r.stage = run.stage /\ r.waits = run.waits /\ r.retry = "none"
         /\ Allowance(r) < Allowance(run)
<1>1. /\ r \in RunType /\ r.stage = run.stage /\ r.waits = run.waits /\ r.retry = "none"
      /\ run \in RunType
  BY ChargedIs DEF IInv, Types
<1>2. /\ run.retry \in {"none", "due"} /\ run.used \in Nat /\ run.used <= CallBudget
      /\ run.stage \notin {"idle", "write"} /\ CallBudget \in Nat /\ run.waits \in Nat /\ MaxBurstWaits \in Nat
  BY <1>1, SeedAssumption DEF Calling, RunType
<1>3. r.used = IF run.retry = "due" THEN run.used ELSE run.used + 1
  BY <1>1 DEF Charged, RunType
<1>4. /\ RetryCost("none") = 0 /\ RetryCost("due") = 1
  BY DEF RetryCost
<1>5. Allowance(r) = 2 + 3 * (CallBudget - r.used) + 3 * (MaxBurstWaits - run.waits)
  <2>1. Allowance(r) = 2 + 3 * (CallBudget - r.used) + 3 * (MaxBurstWaits - r.waits)
                         + RetryCost(r.retry)
    BY <1>1, <1>2, AllowanceOf
  <2>2. CallBudget - r.used \in Int /\ MaxBurstWaits - run.waits \in Int
    BY <1>1, <1>2 DEF RunType
  <2> QED
    BY <1>1, <1>4, <2>1, <2>2
<1>6. Allowance(run) = 2 + 3 * (CallBudget - run.used) + 3 * (MaxBurstWaits - run.waits)
                         + RetryCost(run.retry)
  BY <1>1, <1>2, AllowanceOf
<1>7. CASE run.retry = "due"
  BY <1>1, <1>2, <1>3, <1>4, <1>5, <1>6, <1>7
<1>8. CASE run.retry = "none"
  BY <1>1, <1>2, <1>3, <1>4, <1>5, <1>6, <1>8
<1> QED
  BY <1>2, <1>7, <1>8

\* Whatever stops goes to the write, which is the last of an allowance.
LEMMA StopCosts ==
  ASSUME IInv, run.stage \notin {"idle", "write"}, NEW r \in RunType, run' = Stop(r),
         run' \in RunType
  PROVE  Allowance(run') < Allowance(run)
<1>1. run'.stage = "write" /\ run'.retry = "none"
  BY DEF Stop, RunType
<1>2. run \in RunType /\ RetryCost("none") = 0
  BY DEF IInv, Types, RetryCost
<1>3. Allowance(run') = 1 /\ Allowance(run) > 1
  BY <1>1, <1>2, AllowanceOf
<1> QED
  BY <1>2, <1>3, AllowanceOf

LEMMA FinishTakesNothing ==
  ASSUME NEW r \in RunType, r.stage # "idle", NEW item, NEW q, q = Finish(r, item)
  PROVE  q.stage # "idle" /\ q.used = r.used /\ q.waits = r.waits /\ q.retry = r.retry
<1>1. PICK p : p = [r EXCEPT !.items = Append(r.items, item)]
  OBVIOUS
<1>2. q = NextEntry(p, None)
  BY <1>1 DEF Finish
<1>3. \E stage \in {"customer", "invoice", "order", "write"} : \E it :
        q = [p EXCEPT !.stage = stage, !.item = it]
  BY <1>2 DEF NextEntry
<1>4. p.used = r.used /\ p.waits = r.waits /\ p.retry = r.retry
      /\ q.used = p.used /\ q.waits = p.waits /\ q.retry = p.retry /\ q.stage # "idle"
  BY <1>1, <1>3 DEF RunType
<1> QED
  BY <1>4

LEMMA ReachesCosts ==
  ASSUME IInv, NEW answered \in BOOLEAN, Reaches(answered), run' \in RunType
  PROVE  Allowance(run') < Allowance(run)
<1>1. Calling /\ Affordable /\ run.stage \notin {"idle", "write"}
  BY DEF Reaches, CreateCustomer, CreateInvoice, IssueInvoice, CreateOrder, Calling
<1>2. PICK c \in RunType : /\ c = Charged /\ c.stage = run.stage /\ Allowance(c) < Allowance(run)
  BY <1>1, ChargedCosts
<1>a. PICK q \in RunType : q = run'
  OBVIOUS
<1>3. CASE ~answered
  <2>1. run' = Stop(c)
    BY <1>2, <1>3 DEF Reaches, CreateCustomer, CreateInvoice, IssueInvoice, CreateOrder
  <2> QED
    BY <1>1, <2>1, StopCosts
<1>4. CASE answered
  <2>1. q.stage # "idle" /\ q.used = c.used /\ q.waits = c.waits /\ q.retry = c.retry
    <3>1. CASE CreateCustomer(answered)
      <4>1. PICK id : run' = [c EXCEPT !.stage = "invoice", !.item.customer = id]
        BY <1>2, <1>4, <3>1 DEF CreateCustomer
      <4> QED
        BY <1>a, <4>1 DEF RunType
    <3>2. CASE CreateInvoice(answered)
      <4>1. PICK id : run' = [c EXCEPT !.stage = "issue", !.item.id = id, !.item.status = "draft"]
        BY <1>2, <1>4, <3>2 DEF CreateInvoice
      <4> QED
        BY <1>a, <4>1 DEF RunType
    <3>3. CASE IssueInvoice(answered) \/ CreateOrder(answered)
      <4>1. PICK item : q = Finish(c, item)
        BY <1>2, <1>4, <1>a, <3>3 DEF IssueInvoice, CreateOrder
      <4> QED
        BY <1>1, <1>2, <4>1, FinishTakesNothing
    <3> QED
      BY <3>1, <3>2, <3>3 DEF Reaches
  <2>2. Allowance(q) <= Allowance(c)
    BY <1>1, <1>2, <2>1, GoesOnWithin
  <2>3. Allowance(q) \in Nat /\ Allowance(c) \in Nat /\ Allowance(run) \in Nat
    BY AllowanceOf DEF IInv, Types
  <2> QED
    BY <1>2, <1>a, <2>2, <2>3
<1> QED
  BY <1>3, <1>4

LEMMA BurstQuotaCosts ==
  ASSUME IInv, BurstQuota, run' \in RunType
  PROVE  Allowance(run') < Allowance(run)
<1>1. Calling /\ Affordable /\ run.stage \notin {"idle", "write"}
  BY DEF BurstQuota, Calling
<1>2. PICK c \in RunType : /\ c = Charged /\ c.stage = run.stage /\ Allowance(c) < Allowance(run)
                           /\ c.waits = run.waits /\ c.retry = "none"
  BY <1>1, ChargedCosts
<1>a. PICK q \in RunType : q = run'
  OBVIOUS
<1>3. CASE run.waits >= MaxBurstWaits
  <2>1. run' = Stop(c)
    BY <1>2, <1>3 DEF BurstQuota
  <2> QED
    BY <1>1, <2>1, StopCosts
<1>4. CASE ~(run.waits >= MaxBurstWaits)
  <2>1. q = [c EXCEPT !.waits = c.waits + 1, !.retry = "waiting"]
    BY <1>2, <1>4, <1>a DEF BurstQuota
  <2>2. q.stage = c.stage /\ q.used = c.used /\ q.waits = c.waits + 1 /\ q.retry = "waiting"
    BY <2>1 DEF RunType
  <2>3. c.used \in Nat /\ c.waits \in Nat /\ CallBudget \in Nat /\ MaxBurstWaits \in Nat
    BY SeedAssumption DEF RunType
  <2>4. RetryCost("waiting") = 2 /\ RetryCost("none") = 0
    BY DEF RetryCost
  <2>5. Allowance(q) = 2 + 3 * (CallBudget - c.used) + 3 * (MaxBurstWaits - (c.waits + 1)) + 2
    BY <1>1, <1>2, <2>2, <2>4, AllowanceOf
  <2>6. Allowance(c) = 2 + 3 * (CallBudget - c.used) + 3 * (MaxBurstWaits - c.waits) + 0
    BY <1>1, <1>2, <2>4, AllowanceOf
  <2>7. Allowance(q) < Allowance(c)
    BY <2>3, <2>5, <2>6
  <2>8. Allowance(q) \in Nat /\ Allowance(c) \in Nat /\ Allowance(run) \in Nat
    BY AllowanceOf DEF IInv, Types
  <2> QED
    BY <1>2, <1>a, <2>7, <2>8
<1> QED
  BY <1>3, <1>4

LEMMA WaitEndsCosts ==
  ASSUME IInv, WaitEnds, run' \in RunType
  PROVE  Allowance(run') < Allowance(run)
<1>1. run.retry = "waiting" /\ run \in RunType /\ run.stage # "idle"
  BY DEF WaitEnds, IInv, Types, Stepwise, IdleRun
<1>a. PICK q \in RunType : q = run'
  OBVIOUS
<1>2. /\ RetryCost("waiting") = 2 /\ RetryCost("due") = 1 /\ RetryCost("none") = 0
      /\ run.used \in Nat /\ run.waits \in Nat /\ CallBudget \in Nat /\ MaxBurstWaits \in Nat
  BY <1>1, SeedAssumption DEF RetryCost, RunType
<1>3. CASE run' = Stop(run)
  <2>1. q.stage = "write" /\ q.retry = "none"
    BY <1>1, <1>3, <1>a DEF Stop, RunType
  <2>2. Allowance(q) = 1
    BY <1>2, <2>1, AllowanceOf
  <2>3. Allowance(run) > 1
    BY <1>1, <1>2, AllowanceOf
  <2> QED
    BY <1>a, <2>2, <2>3
<1>4. CASE run' = [run EXCEPT !.retry = "due"]
  <2>1. q.stage = run.stage /\ q.used = run.used /\ q.waits = run.waits /\ q.retry = "due"
    BY <1>1, <1>4, <1>a DEF RunType
  <2>2. CASE run.stage = "write"
    <3>1. Allowance(q) = 2 /\ Allowance(run) = 3
      BY <1>1, <1>2, <2>1, <2>2, AllowanceOf
    <3> QED
      BY <1>a, <3>1
  <2>3. CASE run.stage # "write"
    <3>1. /\ Allowance(q) = 2 + 3 * (CallBudget - run.used) + 3 * (MaxBurstWaits - run.waits) + 1
          /\ Allowance(run) = 2 + 3 * (CallBudget - run.used) + 3 * (MaxBurstWaits - run.waits) + 2
      BY <1>1, <1>2, <2>1, <2>3, AllowanceOf
    <3> QED
      BY <1>2, <1>a, <3>1
  <2> QED
    BY <2>2, <2>3
<1> QED
  BY <1>3, <1>4 DEF WaitEnds

\* However often the quota is hit, every step of a run uses up a part of what its
\* budget and its waits allow, down to the write that ends it: the calls made
\* again for free after a wait cannot go round for ever.
THEOREM RunsRunDown ==
  Spec => [][Step => Allowance(run) \in Nat /\ Allowance(run') < Allowance(run)]_vars
<1>1. IInv /\ Step => Allowance(run) \in Nat /\ Allowance(run') < Allowance(run)
  <2> SUFFICES ASSUME IInv, Step
               PROVE  Allowance(run) \in Nat /\ Allowance(run') < Allowance(run)
    OBVIOUS
  <2>1. run \in RunType /\ run' \in RunType
    BY StepKeeps DEF IInv, Types
  <2>a. SUFFICES Allowance(run') < Allowance(run)
    BY <2>1, AllowanceOf
  <2>2. CASE \E answered \in BOOLEAN : Reaches(answered)
    BY <2>1, <2>2, ReachesCosts
  <2>3. CASE CallFails
    <3>1. run.stage \notin {"idle", "write"} /\ Charged \in RunType /\ run' = Stop(Charged)
      BY <2>3, ChargedIs DEF CallFails, Calling
    <3> QED
      BY <2>1, <3>1, StopCosts
  <2>4. CASE BurstQuota
    BY <2>1, <2>4, BurstQuotaCosts
  <2>5. CASE WaitEnds
    BY <2>1, <2>5, WaitEndsCosts
  <2>6. CASE OutOfBudget
    BY <2>1, <2>6, StopCosts DEF OutOfBudget, Calling
  <2>7. CASE Write \/ WriteFails
    <3>1. run.stage = "write" /\ run'.stage = "idle"
      BY <2>7 DEF Write, WriteFails, Lose, IdleRun
    <3>2. Allowance(run) = 1 + RetryCost(run.retry) /\ Allowance(run') = 0
      BY <2>1, <3>1, AllowanceOf
    <3>3. RetryCost(run.retry) \in Nat
      BY DEF RetryCost
    <3> QED
      BY <3>2, <3>3
  <2> QED
    BY <2>2, <2>3, <2>4, <2>5, <2>6, <2>7 DEF Step
<1>2. IInv /\ [Next]_vars =>
        [Step => Allowance(run) \in Nat /\ Allowance(run') < Allowance(run)]_vars
  BY <1>1
<1> QED
  BY <1>2, InvariantAlways, PTL DEF Spec
=============================================================================
