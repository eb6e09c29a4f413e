------------------------------- MODULE SeedRun -------------------------------
(***************************************************************************)
(* The seeder: cmd/seedbook over internal/seed.  A run walks a plan in     *)
(* order, invoices and then orders, a few API calls to an entry, stops at  *)
(* its first failure and writes a manifest of what exists.  The next run   *)
(* reads that file as a position in its own plan and goes on from there.   *)
(* Nothing is ever deleted at Razorpay, so what no manifest names is       *)
(* orphaned.  One run at a time; names, ages and notes are left out, and   *)
(* an entry's customer is told from another's by its seed and position.    *)
(***************************************************************************)
EXTENDS Naturals, FiniteSets, SequencesExt

CONSTANTS
  Plans,         \* GeneratePlan: for each seed, the invoices and the orders
  NamedTags,     \* the values an operator gives -run-tag
  CallBudget,
  MaxBurstWaits, \* RunOptions.MaxBurstWaits, with its default filled in
  MaxRuns        \* bound: how often the seeder is started

Seeds == DOMAIN Plans

\* One entry of a plan: its amount, and whether its customer has an email.
Entry == [amount : Nat, email : BOOLEAN]

ASSUME SeedAssumption ==
  /\ \A seed \in Seeds : Plans[seed] \in [invoice : Seq(Entry), order : Seq(Entry)]
  \* One profile sizes every plan.
  /\ \A s, t \in Seeds, kind \in {"invoice", "order"} : Len(Plans[s][kind]) = Len(Plans[t][kind])
  /\ NamedTags \subseteq Nat \ {0}
  /\ CallBudget \in Nat \ {0}
  /\ MaxBurstWaits \in Nat
  /\ MaxRuns \in Nat

VARIABLES
  account, \* what exists at Razorpay, a sequence: a resource's id is its index
  file,    \* the manifest at -out
  run,     \* the process
  runs,    \* how many were started; the time, as far as tags and sweeps need it
  unfiled  \* history: ids whose manifest was lost or forced over

vars == <<account, file, run, runs, unfiled>>

None == 0

NoItem == [kind |-> "none", id |-> None, customer |-> None, amount |-> 0, status |-> "none"]

\* The zero Manifest, which is also what a fresh run resumes from.
NoManifest == [state |-> "absent", tag |-> None, seed |-> None, since |-> 0, items |-> <<>>]
TornFile   == [NoManifest EXCEPT !.state = "torn"]

IdleRun ==
  [stage |-> "idle", tag |-> None, seed |-> None, since |-> 0,
   items |-> <<>>, item |-> NoItem, used |-> 0, waits |-> 0, retry |-> "none"]

Resource ==
  [kind : {"customer", "invoice", "order"}, tag : Nat, seed : Seeds, at : Nat \ {0},
   customer : Nat, during : 1..MaxRuns,
   issued : BOOLEAN, known : BOOLEAN]  \* known: the answer that made it arrived

-----------------------------------------------------------------------------
(* Reading a manifest as a position in a plan. *)

\* Mutant of Created: the incomplete item is carried over with the others.
CreatedOrNot(items) == items

\* The items of these kinds that have an id, in their order.
CreatedOf(items, kinds) ==
  LET upTo[n \in 0..Len(items)] ==
        IF n = 0 THEN <<>>
        ELSE IF items[n].id # None /\ items[n].kind \in kinds
             THEN Append(upTo[n - 1], items[n])
             ELSE upTo[n - 1]
  IN upTo[Len(items)]

Created(items)      == CreatedOf(items, {"invoice", "order"})
OfKind(items, kind) == CreatedOf(items, {kind})

Amounts(list) == [k \in DOMAIN list |-> list[k].amount]

Fits(prior, seed, kind) ==
  IsPrefix(Amounts(OfKind(prior.items, kind)), Amounts(Plans[seed][kind]))

\* resumeFrom answers no ErrResumeMismatch.
Resumable(prior, tag, seed) ==
  \/ prior.tag = None /\ prior.items = <<>>
  \/ /\ prior.tag = tag
     /\ \A k \in DOMAIN prior.items : prior.items[k].id = None => k = Len(prior.items)
     /\ Fits(prior, seed, "invoice") /\ Fits(prior, seed, "order")

\* Mutants of CustomerLeft: a second customer is created, or the customer of an
\* entry that got its invoice is taken for the next one.
CustomerForgotten(prior) == None

CustomerOfLast(prior) ==
  IF prior.items # <<>> /\ Last(prior.items).kind = "invoice"
  THEN Last(prior.items).customer ELSE None

\* The customer of an entry the earlier attempt got no invoice out of.
CustomerLeft(prior) ==
  IF prior.items # <<>> /\ Last(prior.items).id = None /\ Last(prior.items).kind = "invoice"
  THEN Last(prior.items).customer ELSE None

\* Plan.Remaining leaves nothing.
Complete(prior, seed) ==
  \A kind \in {"invoice", "order"} : Len(OfKind(prior.items, kind)) = Len(Plans[seed][kind])

Ids(items) == (UNION {{items[k].id, items[k].customer} : k \in DOMAIN items}) \ {None}

\* Move r on to the next entry of its plan, or to the end of it.
NextEntry(r, customer) ==
  LET plan     == Plans[r.seed]
      invoices == Len(OfKind(r.items, "invoice"))
      orders   == Len(OfKind(r.items, "order"))
      Blank(kind, k) == [NoItem EXCEPT !.kind = kind, !.amount = plan[kind][k].amount]
  IN CASE invoices < Len(plan.invoice) ->
            [r EXCEPT !.stage = IF customer = None THEN "customer" ELSE "invoice",
                      !.item = [Blank("invoice", invoices + 1) EXCEPT !.customer = customer]]
       [] invoices >= Len(plan.invoice) /\ orders < Len(plan.order) ->
            [r EXCEPT !.stage = "order", !.item = Blank("order", orders + 1)]
       [] OTHER -> [r EXCEPT !.stage = "write", !.item = NoItem]

\* A resumed manifest keeps the clock reading of the first attempt.
FirstAttempt(prior) == IF prior.since = 0 THEN runs + 1 ELSE prior.since

\* planFor and the head of executePlan.
StartRun(tag, named, seed, force) ==
  LET prior   == IF force THEN NoManifest ELSE file
      planTag == IF named \/ prior.tag = None THEN tag ELSE prior.tag
  IN /\ run.stage = "idle" /\ runs < MaxRuns
     /\ prior.state # "torn"
     /\ Resumable(prior, planTag, seed)
     /\ prior.state = "written" => ~Complete(prior, seed)
     /\ runs' = runs + 1
     /\ run' = NextEntry([IdleRun EXCEPT !.tag = planTag, !.seed = seed,
                            !.since = FirstAttempt(prior),
                            !.items = Created(prior.items)],
                         CustomerLeft(prior))
     /\ unfiled' = IF force THEN unfiled \cup Ids(file.items) ELSE unfiled
     /\ UNCHANGED <<account, file>>

\* The default tag is the time of the start.
Start ==
  \E seed \in Seeds, force \in BOOLEAN :
    \/ StartRun(runs + 1, FALSE, seed, force)
    \/ \E tag \in NamedTags : StartRun(tag, TRUE, seed, force)

-----------------------------------------------------------------------------
(* The calls.  A call is charged before it is made, once: the same call    *)
(* made again after a burst wait is already paid for.                      *)

Calling == run.stage \in {"customer", "invoice", "issue", "order"} /\ run.retry # "waiting"

\* Mutant of Charged: a retry's free pass also serves every call after it.
ChargedStillPaid == [run EXCEPT !.used = IF run.retry = "due" THEN @ ELSE @ + 1]

Affordable == run.retry = "due" \/ run.used < CallBudget
Charged == [run EXCEPT !.used = IF run.retry = "due" THEN @ ELSE @ + 1, !.retry = "none"]

\* Mutant of Kept: only an item with an id is kept.
KeptIfCreated(r) == IF r.item.id # None THEN Append(r.items, r.item) ELSE r.items

\* Stop at the first failure.  What the current item left behind is kept.
Kept(r) == IF r.item.id # None \/ r.item.customer # None THEN Append(r.items, r.item) ELSE r.items
Stop(r) == [r EXCEPT !.stage = "write", !.items = Kept(r), !.item = NoItem, !.retry = "none"]

Position == Len(OfKind(run.items, run.item.kind)) + 1

New(kind, answered) ==
  [kind |-> kind, tag |-> run.tag, seed |-> run.seed, at |-> Position,
   customer |-> run.item.customer, during |-> runs, issued |-> FALSE, known |-> answered]

\* Razorpay answers a known email with the customer it already holds.
CustomersHeld ==
  {c \in DOMAIN account :
     /\ account[c].kind = "customer" /\ account[c].tag = run.tag
     /\ account[c].seed = run.seed /\ account[c].at = Position
     /\ Plans[run.seed].invoice[Position].email}

\* A call that reaches Razorpay takes effect there; its answer may be lost.
CreateCustomer(answered) ==
  /\ run.stage = "customer" /\ Calling /\ Affordable
  /\ \E id \in IF CustomersHeld = {} THEN {Len(account) + 1} ELSE CustomersHeld :
       /\ account' = IF CustomersHeld = {}
                     THEN Append(account, New("customer", answered))
                     ELSE [account EXCEPT ![id].known = @ \/ answered]
       /\ run' = IF answered
                 THEN [Charged EXCEPT !.stage = "invoice", !.item.customer = id]
                 ELSE Stop(Charged)
  /\ UNCHANGED <<file, runs, unfiled>>

CreateInvoice(answered) ==
  /\ run.stage = "invoice" /\ Calling /\ Affordable
  /\ account' = Append(account, New("invoice", answered))
  /\ run' = IF answered
            THEN [Charged EXCEPT !.stage = "issue", !.item.id = Len(account'),
                                 !.item.status = "draft"]
            ELSE Stop(Charged)
  /\ UNCHANGED <<file, runs, unfiled>>

\* Append the finished item and go on.
Finish(r, item) == NextEntry([r EXCEPT !.items = Append(@, item)], None)

IssueInvoice(answered) ==
  /\ run.stage = "issue" /\ Calling /\ Affordable
  /\ account' = [account EXCEPT ![run.item.id].issued = TRUE]
  /\ run' = IF answered THEN Finish(Charged, [run.item EXCEPT !.status = "issued"])
                        ELSE Stop(Charged)
  /\ UNCHANGED <<file, runs, unfiled>>

CreateOrder(answered) ==
  /\ run.stage = "order" /\ Calling /\ Affordable
  /\ account' = Append(account, New("order", answered))
  /\ run' = IF answered
            THEN Finish(Charged, [run.item EXCEPT !.id = Len(account'), !.status = "created"])
            ELSE Stop(Charged)
  /\ UNCHANGED <<file, runs, unfiled>>

Reaches(answered) ==
  \/ CreateCustomer(answered) \/ CreateInvoice(answered)
  \/ IssueInvoice(answered) \/ CreateOrder(answered)

\* Refused, or cancelled in the wait before it: nothing happened at Razorpay.
CallFails ==
  /\ Calling /\ Affordable
  /\ run' = Stop(Charged)
  /\ UNCHANGED <<account, file, runs, unfiled>>

\* Mutant of BurstQuota: the waits are not counted.
BurstQuotaForever ==
  /\ Calling /\ Affordable
  /\ run' = [Charged EXCEPT !.retry = "waiting"]
  /\ UNCHANGED <<account, file, runs, unfiled>>

BurstQuota ==
  /\ Calling /\ Affordable
  /\ run' = IF run.waits >= MaxBurstWaits THEN Stop(Charged)
            ELSE [Charged EXCEPT !.waits = @ + 1, !.retry = "waiting"]
  /\ UNCHANGED <<account, file, runs, unfiled>>

\* The wait is over, or the context is.
WaitEnds ==
  /\ run.retry = "waiting"
  /\ run' \in {[run EXCEPT !.retry = "due"], Stop(run)}
  /\ UNCHANGED <<account, file, runs, unfiled>>

OutOfBudget ==
  /\ Calling /\ ~Affordable
  /\ run' = Stop(run)
  /\ UNCHANGED <<account, file, runs, unfiled>>

-----------------------------------------------------------------------------
(* The manifest is written once, at the end, and not atomically. *)

Manifest ==
  [state |-> "written", tag |-> run.tag, seed |-> run.seed, since |-> run.since,
   items |-> run.items]

Write ==
  /\ run.stage = "write"
  /\ file' = Manifest
  /\ run' = IdleRun
  /\ UNCHANGED <<account, runs, unfiled>>

\* What only the dead process knew, and what a torn file used to name.
Lose(torn) ==
  LET known == Ids(run.items) \cup Ids(<<run.item>>)
      old   == Ids(file.items)
  IN /\ file' = IF torn THEN TornFile ELSE file
     /\ unfiled' = unfiled \cup (IF torn THEN known \cup old ELSE known \ old)
     /\ run' = IdleRun
     /\ UNCHANGED <<account, runs>>

\* The write fails, before it opened the file or after it truncated it.
WriteFails == run.stage = "write" /\ \E torn \in BOOLEAN : Lose(torn)

\* The process is killed.
Crash == run.stage # "idle" /\ \E torn \in {FALSE, run.stage = "write"} : Lose(torn)

Init ==
  /\ account = <<>>
  /\ file = NoManifest
  /\ run = IdleRun
  /\ runs = 0
  /\ unfiled = {}

Step == Reaches(TRUE) \/ Reaches(FALSE) \/ CallFails \/ BurstQuota \/ WaitEnds
          \/ OutOfBudget \/ Write \/ WriteFails

Next == Start \/ Step \/ Crash

Spec     == Init /\ [][Next]_vars
\* A started process runs: its calls return, its waits end.
FairSpec == Spec /\ WF_vars(Step)

-----------------------------------------------------------------------------
(* Properties.  *)

\* The values the state takes; no run charges more than its budget (budget.spend).
TypeOK ==
  /\ account \in Seq(Resource)
  /\ run.used \in 0..CallBudget /\ run.waits \in 0..MaxBurstWaits
  /\ Ids(run.items) \cup Ids(<<run.item>>) \cup Ids(file.items) \cup unfiled
       \subseteq DOMAIN account
  /\ run.stage \in {"idle", "customer", "invoice", "issue", "order", "write"}
  /\ file.state \in {"absent", "torn", "written"}

\* Whatever Razorpay told a run it had created is named by that run's manifest
\* or by the file, until a crash, a failed write or -force lets it go: stopping
\* and resuming orphan nothing (the rule planFor exists for).
NothingOrphaned ==
  \A i \in DOMAIN account :
    account[i].known /\ i \notin unfiled =>
      i \in Ids(run.items) \cup Ids(<<run.item>>) \cup Ids(file.items)

\* No entry of a tagged plan is made twice by runs that resume each other: a
\* second one exists only of what a lost manifest named (resumeFrom, customerFor),
\* or of what no run was told it had made.
NothingMadeTwice ==
  \A i, j \in DOMAIN account :
    /\ i # j /\ {i, j} \cap unfiled = {}
    /\ account[i].known /\ account[j].known
    /\ account[i].kind = account[j].kind /\ account[i].tag = account[j].tag
    => account[i].at # account[j].at

\* However a run stops, the manifest it leaves is one a later run under the
\* same tag and seed takes up: resumeFrom's checks never refuse its own writer.
AlwaysResumable ==
  file.state = "written" => Resumable(file, file.tag, file.seed)

\* What the manifest says is so: each id it names is of the kind, the tag and the
\* place in the plan it stands for, also when a resumed run took the customer of
\* an entry an earlier one left unfinished; an invoice it calls issued is issued;
\* and the floor a sweep derives from it is not after the creation of anything it
\* names (Manifest, Manifest.CreatedAt).
ManifestIsTrue ==
  \A kind \in {"invoice", "order"} :
    LET made == OfKind(file.items, kind)
    IN \A k \in DOMAIN made :
         LET resource == account[made[k].id]
             customer == account[made[k].customer]
         IN /\ resource.kind = kind /\ resource.tag = file.tag /\ resource.at = k
            /\ made[k].status = "issued" => resource.issued
            /\ file.since <= resource.during
            /\ kind = "invoice" =>
                 /\ resource.customer = made[k].customer
                 /\ customer.kind = "customer" /\ customer.tag = file.tag /\ customer.at = k

\* A run brings no more resources into being than the calls it was allowed,
\* although the calls made again after a burst wait are not charged.
BudgetBoundsTheBook ==
  Cardinality({i \in DOMAIN account : account[i].during = runs}) <= CallBudget

\* Every run ends, however often the quota is hit: the waits are bounded.
EveryRunEnds == (run.stage # "idle") ~> (run.stage = "idle")

\* What manifest.go says of Status and cmd/seedbook of a complete run: every
\* invoice of a finished book is issued.
FinishedBookIsIssued ==
  file.state = "written" /\ Complete(file, file.seed) =>
    \A k \in DOMAIN file.items : file.items[k].kind = "invoice" => file.items[k].status = "issued"

\* What createInvoiceItem says of a carried customer: an earlier attempt at this
\* same spec created it, so an invoice is on its own entry's customer.
InvoiceOnItsOwnCustomer ==
  \A i \in DOMAIN account : account[i].kind = "invoice" =>
    account[account[i].customer].seed = account[i].seed

=============================================================================
