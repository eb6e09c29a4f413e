------------------------------ MODULE Recovery ------------------------------
(***************************************************************************)
(* rzp run, one recovery arm over a batch of orders, and rzp demo, one     *)
(* order through the same cycle (internal/recovery, internal/poller,       *)
(* cmd/rzp/run.go and demo.go).                                            *)
(*                                                                         *)
(* The loop takes one order after the other.  It polls the order until it  *)
(* is paid or MaxWait is spent, files what it saw, lets the arm act once,  *)
(* files that, reads the order back and writes one row.  Any call and any  *)
(* write may fail, and the order may be paid by somebody else in between.  *)
(* On the live layer an attempt is the four calls of Checkout.             *)
(*                                                                         *)
(* The rules arm was not ported to the current gate: its requests name no  *)
(* source.  What it would do behind an allow is its retry; the links it    *)
(* would raise are left out, for no verdict lets it get there.             *)
(***************************************************************************)
EXTENDS Policy, Store, Checkout, Sequences, FiniteSets

CONSTANTS
  SeenClasses, \* the classes that failed payments read as
  MaxSeeded,   \* bound: failed attempts an order arrives with
  NaiveMax,    \* ArmOptions.NaiveMaxAttempts
  Interval, MaxBackoff, MaxWait  \* poller.Options

\* The orders are numbered in the order of the run.
Orders == Cardinality(Batch)

ASSUME RecoveryAssumption ==
  /\ Orders \in Nat \ {0} /\ Batch = 1..Orders /\ MaxSeeded \in Nat \ {0} /\ NaiveMax \in Nat \ {0}
  /\ Interval \in Nat \ {0} /\ MaxBackoff \in Nat /\ MaxBackoff >= Interval
  /\ MaxWait \in Nat

VARIABLES
  arm,       \* the arm of this run, or "demo"
  layer,     \* the gateway it runs against
  killed,    \* what the kill switch file said
  seeded,    \* the failed attempts each order arrived with
  sent,      \* history: attempts the arm made on each order
  reached,   \* history: the calls of those attempts the gateway had
  contacted, \* history: the orders whose customer may have been written to
  store,     \* the attempt ledger
  current,   \* the order being processed
  pc,        \* where ProcessOrder is
  poll,      \* the memory of PollUntilTerminal
  outcome,   \* the Outcome being filled
  ledger,    \* the kinds of audit row on file for each order
  rows,      \* outcomes.jsonl
  exit       \* how the run ended

history == <<sent, reached, contacted>>
gateway == <<orders, attempt>>
run     == <<arm, layer, killed, seeded>>
files   == <<ledger, rows, exit>>
vars    == <<run, gateway, history, store, current, pc, poll, outcome, files>>

Arms == {"control", "naive", "rules"}

Programs == Arms \cup {"demo"}

\* The class the failed payment reads as, and the action of the rules arm.
ActionForClass ==
  [ retry_eligible  |-> "retry_same_instrument",
    reauth_required |-> "request_reauth",
    new_instrument  |-> "request_new_instrument",
    never_retry     |-> "do_nothing",
    unclassified    |-> "do_nothing" ]

\* No instant matters: no rule that reads one is reached.
Instant == 1

FreshPoll == [elapsed |-> 0, backoff |-> Interval, waited |-> 0, seen |-> "none"]

FreshOutcome ==
  [action |-> "none", verdict |-> "none", side |-> FALSE, claimed |-> FALSE,
   final |-> "none", recovered |-> FALSE, failed |-> FALSE, calls |-> 0]

\* Only the naive arm and the demo make attempts, and the demo is live; only
\* the rules arm asks the kill switch.
Init ==
  /\ arm \in Programs
  /\ layer \in IF arm = "naive" THEN {"fake", "live"} ELSE {"live"}
  /\ killed \in IF arm = "rules" THEN BOOLEAN ELSE {FALSE}
  /\ orders \in [Batch -> [status : {"unpaid"}, class : SeenClasses]]
  /\ seeded \in IF arm = "demo" THEN [Batch -> {1}] ELSE [Batch -> 1..MaxSeeded]
  /\ attempt = FreshAttempt
  /\ sent = [d \in Batch |-> 0] /\ reached = [d \in Batch |-> 0] /\ contacted = {}
  /\ store = [NewStore(Batch) EXCEPT !.debt =
                [d \in Batch |-> Observe(NewStore(Batch), d, seeded[d]).debt[d]]]
  /\ current = 1 /\ pc = IF arm = "demo" THEN "create" ELSE "fetch"
  /\ poll = FreshPoll /\ outcome = FreshOutcome
  /\ ledger = [d \in Batch |-> {}] /\ rows = [d \in {} |-> FreshOutcome] /\ exit = "running"

\* An order that exists is paid from elsewhere.
PaysElsewhere(d) ==
  /\ arm = "demo" => d = current /\ pc # "create"
  /\ PaidElsewhere(d)
  /\ UNCHANGED <<run, history, store, current, pc, poll, outcome, files>>

-----------------------------------------------------------------------------
(* The poller.  Its two reads take a unit of time, or none that counts.    *)

Abort == pc' = "write" /\ outcome' = [outcome EXCEPT !.failed = TRUE]

Fetch ==
  /\ pc = "fetch"
  /\ \/ Abort /\ UNCHANGED poll
     \/ /\ pc' = "list"
        /\ poll' = [poll EXCEPT !.seen = orders[current].status]
        /\ UNCHANGED outcome
  /\ UNCHANGED <<run, gateway, history, store, current, files>>

\* Mutant of IsSpent: the deadline is noticed after the wait.
IsSpentLate(p) == p.elapsed > MaxWait

\* A wait that would end past the budget is not begun.
IsSpent(p) == p.elapsed + p.backoff > MaxWait

ListPayments ==
  /\ pc = "list"
  /\ \/ Abort /\ UNCHANGED poll
     \/ /\ \E t \in {0, 1} : poll' = [poll EXCEPT !.elapsed = @ + t]
        /\ pc' = IF poll.seen = "paid" \/ IsSpent(poll') THEN "classified" ELSE "wait"
        /\ UNCHANGED outcome
  /\ UNCHANGED <<run, gateway, history, store, current, files>>

Wait ==
  /\ pc = "wait"
  /\ \/ Abort /\ UNCHANGED poll
     \/ /\ pc' = "fetch"
        /\ poll' = [poll EXCEPT !.elapsed = @ + poll.backoff, !.waited = @ + poll.backoff,
                      !.backoff = IF 2 * @ < MaxBackoff THEN 2 * @ ELSE MaxBackoff]
        /\ UNCHANGED outcome
  /\ UNCHANGED <<run, gateway, history, store, current, files>>

-----------------------------------------------------------------------------
(* The audit rows of ProcessOrder.                                         *)

\* A row is filed and the cycle goes on, or it fails and the cycle ends.
Files(kind, next) ==
  \/ /\ ledger' = [ledger EXCEPT ![current] = @ \cup {kind}]
     /\ pc' = next
     /\ UNCHANGED outcome
  \/ Abort /\ UNCHANGED ledger

FileClassified ==
  /\ pc = "classified"
  /\ Files("classified", "act")
  /\ UNCHANGED <<run, gateway, history, store, current, poll, rows, exit>>

\* Filed as taken when something was done, or tried, or went wrong.
ActionKind(o) ==
  IF ~o.side /\ o.action = "none" /\ ~o.failed THEN "action_skipped" ELSE "action_taken"

FileAction ==
  /\ pc = "acted"
  /\ Files(ActionKind(outcome), "readback")
  /\ UNCHANGED <<run, gateway, history, store, current, poll, rows, exit>>

FileOutcome ==
  /\ pc = "observed"
  /\ Files("outcome_observed", "write")
  /\ UNCHANGED <<run, gateway, history, store, current, poll, rows, exit>>

-----------------------------------------------------------------------------
(* The arms.                                                               *)

Reports(o) == pc' = "acted" /\ outcome' = o

ActControl ==
  /\ pc = "act" /\ arm = "control"
  /\ Reports(outcome)
  /\ UNCHANGED <<run, gateway, history, store, current, poll, files>>

\* Mutant of Committed: an attempt without an answer is not counted.
CommittedIfAnswered(key, ok) ==
  IF ok THEN Commit(store, current, key, FALSE, Instant) ELSE store

\* The attempt goes into the store whether or not it was answered.
Committed(key, ok) == Commit(store, current, key, FALSE, Instant)

\* Mutant of Attempted: the result of an error is empty.
AttemptedIfAnswered(o, ok, calls) == [o EXCEPT !.side = ok, !.claimed = ok, !.failed = ~ok]

\* What an arm says of an attempt it made.
Attempted(o, ok, calls) ==
  [o EXCEPT !.side = TRUE, !.claimed = ok, !.failed = ~ok, !.calls = @ + calls]

Counts == sent' = [sent EXCEPT ![current] = @ + 1]

\* FakeAttempter: one call.  A paid order takes none; any other may settle
\* either way, answered or not, and a lost answer may mean nothing happened.
AttemptFake(o, key) ==
  \E ok \in BOOLEAN :
    /\ ok => orders[current].status # "paid"
    /\ \E status \in {orders[current].status, "paid"} :
         orders' = [orders EXCEPT ![current].status = status]
    /\ Counts /\ reached' = [reached EXCEPT ![current] = @ + 1]
    /\ store' = Committed(key, ok)
    /\ Reports(Attempted(o, ok, 1))
    /\ UNCHANGED attempt

\* LiveAttempter: the checkout is entered with what the rig has for the order.
AttemptLive(o) ==
  /\ \E told \in Outcomes : BeginAttempt(current, told)
  /\ Counts
  /\ pc' = "checkout" /\ outcome' = o
  /\ UNCHANGED <<orders, reached, store>>

Attempt(o, key) == IF layer = "fake" THEN AttemptFake(o, key) ELSE AttemptLive(o)

AtCap(attempts) == attempts >= NaiveMax

\* The naive arm reads neither the class nor what the poll saw.
ActNaive ==
  /\ pc = "act" /\ arm = "naive"
  /\ IF AtCap(store.debt[current].attempts)
     THEN Reports(outcome) /\ UNCHANGED <<gateway, sent, reached, store>>
     ELSE Attempt([outcome EXCEPT !.action = "retry_same_instrument"], NoKey)
  /\ UNCHANGED <<run, contacted, current, poll, files>>

\* The Request of the rules arm, every field it does not set at its zero.
Proposal(d) ==
  [item |-> d, source |-> "", action |-> ActionForClass[orders[d].class],
   class |-> orders[d].class, signal |-> FALSE, due |-> 0, email |-> FALSE,
   phone |-> FALSE, status |-> "", disputed |-> FALSE, since |-> 0, hold |-> 0,
   touchNo |-> store.debt[d].attempts + 1]

Key(d) == IdempotencyKey(d, Proposal(d).action, Proposal(d).touchNo)

Decision(d) == Evaluate(Snapshot(store, d, Key(d), killed), Proposal(d), Instant)

\* The verdict is filed before it is followed; when that fails the arm stops.
ActRules ==
  /\ pc = "act" /\ arm = "rules"
  /\ LET verdict  == Decision(current)
         evaluated == [outcome EXCEPT !.action = Proposal(current).action,
                                      !.verdict = verdict.verdict]
     IN \/ /\ Reports([evaluated EXCEPT !.failed = TRUE])
           /\ UNCHANGED <<gateway, sent, reached, store, ledger>>
        \/ /\ ledger' = [ledger EXCEPT ![current] = @ \cup {"policy_evaluated"}]
           /\ IF Allowed(verdict)
              THEN Attempt(evaluated, verdict.key)
              ELSE /\ Reports([evaluated EXCEPT !.action = "none"])
                   /\ UNCHANGED <<gateway, sent, reached, store>>
  /\ UNCHANGED <<run, contacted, current, poll, rows, exit>>

\* The calls of an attempt go by.
CheckoutCall ==
  /\ pc = "checkout"
  /\ Send \/ Answered
  /\ UNCHANGED <<run, history, store, current, pc, poll, outcome, files>>

CheckoutIsBack == pc = "checkout" /\ attempt.place = "idle"

Answer == attempt.result = "ok"

\* Back in naive, or in retry.  Only the naive arm gets here, with no key.
AttemptReturns ==
  /\ CheckoutIsBack /\ arm \in Arms
  /\ store' = Committed(NoKey, Answer)
  /\ Reports(Attempted(outcome, Answer, attempt.steps))
  /\ reached' = [reached EXCEPT ![current] = @ + attempt.reached]
  /\ UNCHANGED <<run, gateway, sent, contacted, current, poll, files>>

-----------------------------------------------------------------------------
(* rzp demo: one order, failed on purpose, then the cycle with an action   *)
(* of its own: a link, its notification and a second attempt.              *)

Quits == pc' = "over" /\ exit' = "error"

Create ==
  /\ pc = "create"
  /\ \/ Quits /\ UNCHANGED attempt
     \/ BeginAttempt(current, "F") /\ pc' = "checkout" /\ UNCHANGED exit
  /\ UNCHANGED <<run, orders, history, store, current, poll, outcome, ledger, rows>>

FirstReturns ==
  /\ CheckoutIsBack /\ arm = "demo" /\ outcome.action = "none"
  /\ \/ Answer /\ pc' = "fetch" /\ UNCHANGED exit
     \/ ~Answer /\ Quits
  /\ UNCHANGED <<run, gateway, history, store, current, poll, outcome, ledger, rows>>

\* The link is raised, without a notification.
ActDemo ==
  /\ pc = "act" /\ arm = "demo"
  /\ LET retry == [outcome EXCEPT !.action = "retry_same_instrument"]
     IN \/ Reports([retry EXCEPT !.failed = TRUE])
        \/ pc' = "notify" /\ outcome' = retry
  /\ UNCHANGED <<run, gateway, history, store, current, poll, files>>

\* The send may reach the customer whatever came back of it.
SendLink ==
  /\ pc = "notify"
  /\ \E refused, out \in BOOLEAN :
       /\ refused \/ out
       /\ contacted' = IF out THEN contacted \cup {current} ELSE contacted
       /\ outcome' = [outcome EXCEPT !.failed = refused]
  /\ pc' = "notice"
  /\ UNCHANGED <<run, gateway, sent, reached, store, current, poll, files>>

\* Mutant of GoesOn: the second attempt does not wait for its row.
GoesOnAnyway(filed) == ~outcome.failed

\* The second attempt is made behind a notification that was taken and filed.
GoesOn(filed) == filed /\ ~outcome.failed

FileNotice ==
  /\ pc = "notice"
  /\ \E filed \in BOOLEAN :
       /\ ledger' = IF filed
                    THEN [ledger EXCEPT ![current] = @ \cup {"notification_requested"}]
                    ELSE ledger
       /\ IF GoesOn(filed)
          THEN AttemptLive(outcome)
          ELSE Reports([outcome EXCEPT !.failed = TRUE])
                 /\ UNCHANGED <<gateway, sent, reached, store>>
  /\ UNCHANGED <<run, contacted, current, poll, rows, exit>>

\* The action says what it asked for, and of its side effect nothing.
SecondReturns ==
  /\ CheckoutIsBack /\ arm = "demo" /\ outcome.action # "none"
  /\ Reports([outcome EXCEPT !.failed = ~Answer, !.claimed = Answer /\ attempt.told = "S"])
  /\ reached' = [reached EXCEPT ![current] = @ + attempt.reached]
  /\ UNCHANGED <<run, gateway, sent, contacted, store, current, poll, files>>

\* The cycle's error is printed and the run still ends well, unless the ledger
\* cannot be read back or the traces cannot be flushed.
DemoEnds ==
  /\ pc = "write" /\ arm = "demo"
  /\ pc' = "over" /\ exit' \in {"ok", "error"}
  /\ UNCHANGED <<run, gateway, history, store, current, poll, outcome, ledger, rows>>

Demo == Create \/ FirstReturns \/ ActDemo \/ SendLink \/ FileNotice \/ SecondReturns \/ DemoEnds

-----------------------------------------------------------------------------
(* The read back, the row and the next order.                              *)

\* Recovery is what the gateway says after the action.
Recovered(o, status) == status = "paid"

ReadBack ==
  /\ pc = "readback"
  /\ \/ Abort
     \/ LET status == orders[current].status
        IN /\ outcome' = [outcome EXCEPT !.final = status, !.recovered = Recovered(outcome, status)]
           /\ pc' = "observed"
  /\ UNCHANGED <<run, gateway, history, store, current, poll, files>>

\* The row is written whatever became of the order.
WriteRow ==
  /\ pc = "write" /\ arm # "demo"
  /\ rows' = [d \in DOMAIN rows \cup {current} |-> IF d = current THEN outcome ELSE rows[d]]
  /\ current' = current + 1
  /\ pc' = IF current = Orders THEN "flush" ELSE "fetch"
  /\ poll' = FreshPoll /\ outcome' = FreshOutcome
  /\ UNCHANGED <<run, gateway, history, store, ledger, exit>>

\* A row that cannot be written ends the run.
WriteFails ==
  /\ pc = "write" /\ arm # "demo"
  /\ pc' = "over" /\ exit' = "error"
  /\ UNCHANGED <<run, gateway, history, store, current, poll, outcome, ledger, rows>>

Flush ==
  /\ pc = "flush"
  /\ pc' = "over"
  /\ exit' \in {"ok", "error"}
  /\ UNCHANGED <<run, gateway, history, store, current, poll, outcome, ledger, rows>>

ProcessOrder ==
  \/ Fetch \/ ListPayments \/ Wait
  \/ FileClassified \/ ActControl \/ ActNaive \/ ActRules \/ FileAction
  \/ CheckoutCall \/ AttemptReturns
  \/ ReadBack \/ FileOutcome

Step == ProcessOrder \/ Demo \/ WriteRow \/ WriteFails \/ Flush

Next == Step \/ \E d \in Batch : PaysElsewhere(d)

Spec == Init /\ [][Next]_vars

-----------------------------------------------------------------------------
(* Properties.                                                             *)

TypeOK ==
  /\ arm \in Programs /\ layer \in {"fake", "live"} /\ killed \in BOOLEAN
  /\ orders \in [Batch -> [status : {"unpaid", "paid"}, class : SeenClasses]]
  /\ seeded \in [Batch -> 1..MaxSeeded] /\ sent \in [Batch -> 0..1]
  /\ reached \in [Batch -> 0..LastCall] /\ contacted \subseteq Batch
  /\ current \in 1..(Orders + 1)
  /\ pc \in {"create", "fetch", "list", "wait", "classified", "act", "checkout", "notify",
            "notice", "acted", "readback", "observed", "write", "flush", "over"}
  /\ poll.seen \in {"none", "unpaid", "paid"}
  /\ \A d \in Batch : ledger[d] \subseteq
       {"classified", "policy_evaluated", "notification_requested", "action_taken",
        "action_skipped", "outcome_observed"}
  /\ DOMAIN rows \subseteq Batch /\ exit \in {"running", "ok", "error"}

\* The waits of a poll never add up to more than MaxWait, however they double
\* and whatever its reads cost: a wait that would end past it is not begun
\* (poller.go, PollUntilTerminal).
PollKeepsItsBudget ==
  poll.waited <= MaxWait /\ poll.backoff \in 1..MaxBackoff

\* The store never holds fewer attempts than an order has had, and the arm that
\* asks no gate stays under its own cap of them: it counts an attempt that was
\* not answered like any other (arms.go, naive).  No other arm makes one: a
\* request that names no source gets no allow (policy/deprecated.go).
AttemptsCounted ==
  \A d \in Batch :
    LET attempts == store.debt[d].attempts
        made     == IF d = current /\ pc = "checkout" THEN sent[d] - 1 ELSE sent[d]
    IN arm \in Arms =>
         /\ seeded[d] + made <= attempts
         /\ attempts <= NaiveMax \/ attempts = seeded[d]
         /\ sent[d] > 0 => arm = "naive"

\* Whether the cycle of an order carries an error.
Erred(d) == IF d \in DOMAIN rows THEN rows[d].failed ELSE outcome.failed

\* The row of an order says whether the arm reached the gateway on it, and
\* counts every call of it; a recovery is never the claim of the arm: the order
\* is paid.  Once it is through with an order, whatever was done to it or its
\* customer has its row on the ledger, unless the cycle carries an error, and
\* a run that says it finished has a row for every order (recovery.go).
RowsAreTrue ==
  /\ \A d \in DOMAIN rows :
       /\ rows[d].side <=> sent[d] > 0
       /\ reached[d] <= rows[d].calls
       /\ rows[d].recovered => orders[d].status = "paid"
  /\ \A d \in Batch : d < current \/ pc \in {"write", "over"} =>
       /\ sent[d] > 0 => "action_taken" \in ledger[d] \/ Erred(d)
       /\ d \in contacted => "notification_requested" \in ledger[d] \/ Erred(d)
  /\ exit = "ok" /\ arm \in Arms => DOMAIN rows = Batch

\* The demo makes its second attempt behind a decision to contact that is on
\* the ledger, and never before the failure it recovers from was classified.
DemoKeepsItsOrder ==
  arm = "demo" /\ sent[current] > 0
    => /\ {"classified", "notification_requested"} \subseteq ledger[current]
       /\ current \in contacted

\* "SideEffect reports that the action reached the gateway."  The demo's does
\* not.
SideEffectTold ==
  pc \in {"acted", "readback", "observed"} /\ sent[current] > 0 => outcome.side
=============================================================================
