# rzp-rebound in TLA+

`rzp-rebound` looks for money a merchant is owed and has not been paid (failed
payments, unpaid orders, overdue invoices), decides one debt at a time what may
be done about it, does it through Razorpay, and writes down why. This directory
holds the specifications kept beside that code, the TLC configurations that
check them on small instances, and the proofs that hold for every instance.

Run a configuration with `tlc -config X.cfg M` and check the proofs of a module
with `tlapm M.tla`, where `M` is one of `RiskRunProofs`, `McpSessionProofs`,
`SeedRunProofs`, `RecoveryProofs`, `DetectProofs`, `RereadProofs`,
`RazorpayClientProofs` and `DemoServerProofs`. `PROJECT.json` lists the runs, the
mutants that show each property can fail, the source lines of every definition,
the hazards, the findings and the theorems.

## 1. The system

| Component | State | Operations | Talks to |
|---|---|---|---|
| Policy gate (`internal/policy`, `internal/quiet`) | none: settings fixed at construction | `Evaluate(state, request)`, `KillSwitchFile` | called by every actor |
| Intervention engine (`internal/intervene`) | the guard: one slot per idempotency key | `Apply(item, action)` | Razorpay, promise ledger, escalation sink, audit |
| Risk run (`internal/riskrun`) | its ledger: touches and clocks per debt, one notify clock, an action count, committed keys | `Run`: sweep, collapse, assign arms, then `processItem` for each | detectors, gate, engine, audit, `results.jsonl` |
| MCP tool server (`internal/mcpserver`) | decisions, contacts per item, handles, action count, a tally per item, one mutex over actions | eight tools behind a middleware gate | gate, engine, store, promise ledger, audit |
| MCP invocation (`cmd/rzp-mcp`) | the item it serves, its outcome row | read and file the item, serve, read it back, file the row | MCP server, Razorpay, audit, `outcomes.jsonl` |
| Action store (`internal/store`) | attempts and clocks per debt, keys, action count | `Observe`, `Snapshot`, `Commit`, each under a lock of its own | MCP server, recovery arms |
| Promise ledger (`internal/promise`) | promises per item | `Log`, `ActiveHold`, `Breached` | engine writes, gate callers read |
| Audit ledger (`internal/audit`) | an append-only file | `Record` | everybody |
| Detectors (`internal/detect`) | none | a paged sweep per source, `Collapse` by debt | Razorpay |
| Razorpay client (`internal/razorpay`) | a semaphore, call counter | one method per endpoint, retry on 429 | Razorpay |
| Seeding (`internal/seed`, `cmd/seedbook`) | a call budget, the manifest file | `ExecutePlan`, resume, refuse, `-force` | Razorpay |
| Recovery arms (`internal/recovery`, `internal/poller`) | the store | `ProcessOrder` per arm, poll to a terminal status | checkout, Razorpay, gate, store |
| Checkout attempt (`internal/razorpay/attempt.go`) | the steps of one attempt | `Attempt`: create the payment, authenticate, reach the bank's page, settle | Razorpay's checkout |
| Demo (`cmd/rzp/demo.go`) | one order, two attempts | fail, classify, notify, try again, read back | checkout, Razorpay, gate, audit |
| Re-read (`internal/riskrun/poll.go`) | the results of a run and of the last poll | `Poll`, `Diff` | Razorpay |
| Demo server (`cmd/rzp-demo`) | one slot, a waiting line, a stream, a deadline | `handleRun`, shutdown | risk run |

What makes the system correct, and hard to test:

* **Decide, write down, then act.** Every action has a recorded verdict behind
  it, and any write may fail between the two.
* **Contact limits.** A cap per debt (R1), a cooldown per debt (R2), a window
  between notifications (R6), an action budget (R5). The instant the gate reads,
  the instant of the send and the instant of the commit differ.
* **Idempotency, twice.** The gate remembers keys (R9) and the engine's guard
  seals slots, at different moments.
* **Answers that never come.** A 5xx or a broken connection may have sent.
* **Parallel tool calls.** The MCP server reads some state before its mutex, and
  one outcome row sums up what all its calls did.
* **Seed runs that stop.** Nothing is deleted at Razorpay, so a run that dies
  halfway leaves resources only its manifest names, and the next run reads that
  manifest as a position in a plan.
* **An account that moves.** A sweep reads pages by offset, three detectors one
  after the other, while customers pay and orders arrive; the re-read reads one
  debt under up to three ids, twice.
* **Asking again.** Only an answer that says nothing happened may be retried, and
  a call that waits may hold no slot.
* **Claims and facts.** The recovery arms say what they did; only the gateway's
  own read back says what came of it.
* **Half an attempt.** A payment attempt is four calls, and any may be refused or
  go unanswered after the one before it took effect.
* **One slot for everybody.** A demo run holds the slot while its reader, its
  deadline, another's wait and the process may each end at any moment.
* **Escalations.** Handing a debt to a person is itself an action the gate judges.

## 2. The modules

| Module | Models | Extends |
|---|---|---|
| `Policy` | the settings, the cadence table, the rules, their order, `Evaluate`, `KillSwitchFile` | |
| `Intervene` | what an action refuses, calls and reports, for each answer; the guard's keys | |
| `ContactLimits` | abstract: what a customer is promised, with no gate in it | |
| `RiskRun` | one pass of the loop, its ledger, its files, the world | `Policy`, `Intervene`; instance of `ContactLimits` |
| `RiskRunProofs` | the theorems about `RiskRun` | `RiskRun` |
| `Store` | the methods of the store as operators on a record | |
| `McpServer` | the tool server with parallel callers | `Policy`, `Intervene`, `Store` |
| `McpSession` | one invocation of `rzp-mcp` around the server | `McpServer` |
| `McpSessionProofs` | the theorems about `McpServer` and `McpSession` | `McpSession` |
| `SeedRun` | the seeder: a plan call by call, the manifest, the next start | |
| `SeedRunProofs` | the theorems about `SeedRun` | `SeedRun` |
| `Detect` | the three detectors over pages and calls, `Collapse`, the account under them | |
| `DetectProofs` | the theorems about `Detect` | `Detect` |
| `RazorpayClient` | one call from its slot to its result, with its retries | |
| `RazorpayClientProofs` | the theorems about `RazorpayClient` | `RazorpayClient` |
| `Reread` | two readings of a book and the figure between them | |
| `RereadProofs` | the theorems about `Reread` | `Reread` |
| `Charge` | abstract: what one attempt on an instrument promises | |
| `Checkout` | the four calls of an attempt | instance of `Charge` |
| `Recovery` | `rzp run` (the poller, one order's cycle, the three arms, the rows) and `rzp demo` | `Policy`, `Store`, `Checkout` |
| `RecoveryProofs` | the theorems about `Checkout` and `Recovery` | `Recovery` |
| `DemoServer` | the slot, the line, the stream, the shutdown | |
| `DemoServerProofs` | the theorems about `DemoServer` | `DemoServer` |
| `MC*` | small instances | |

**Policy.** A rule is a member of a set of ids. `Fires` says when a rule refuses,
`Rank` is the fixed order, and `Evaluate` takes the firing rule of the lowest
rank. Instants are naturals, 0 is Go's zero time; a day has `MinutesPerDay`
units so quiet hours wrap as they do in `quiet.Window.Contains`. Keys are the
triple that the code hashes.

**Intervene.** The gateway is seven possible answers. Two of them, `failed` and
`lost`, look the same to the code and differ in the world.

**RiskRun.** The loop's program counter is `pc`, and a step is the code between two
points where the clock may move or a write may fail: `Classify`, `Propose`,
`Escalate`, `Skip`, `Apply`, `Commit`, `Write`. `touches`, `lastTouch`,
`lastNotify`, `actions`, `keys` are the fields of `ledger`; `slots` is the
guard; `trail` is the audit file per debt, `rows` the results file, `failures`
the items named by the returned error. `effects` and `sink` are the world.
The queue is any sequence of distinct debts, the arms any assignment
`AssignArms` can make (half of each source, rounded up, to the engine).

**McpServer.** One caller is one goroutine of the SDK. A call goes `idle`,
`handler`, then for a decision `decided`, for an action `waiting` (the item is
copied, the mutex is not held yet), `apply` or `refuse`, `settle`. `holder` is
the mutex. `Requests` are the calls a client may make. The two tools that only
read have no step after the gate. `evaluateGate` makes
separate locked reads and is one step, because every value it reads only moves
one way; the locked reads of `act` are one step because the mutex keeps every
writer of them out.

**McpSession.** `phase` is the place in `run` of `cmd/rzp-mcp/main.go`, `served` the
item it was started for, `tally` what `finishAction` counts once its row is
down, `outcome` the row that `recordOutcome` writes. `main.go` gives the server
the one item; the model lets it hold others beside it, which tells the tally of
an item from those of the rest. A client may leave while calls are served: the
SDK's `Run` comes back when they are over.

**SeedRun.** `account` is what exists at Razorpay, an id being an index, `file` the
manifest at `-out`, `run` the process. A step is one API call with its answer
(taken and answered, taken and unanswered, refused, cut by the quota), the end
of a wait, or the write. `retry` says whether the current call was charged
already. `StartRun` is `planFor` and the head of `executePlan`. Two histories
serve the properties: `known` (the answer that made a resource arrived) and
`unfiled` (ids whose only manifest died with its process, was torn, or was
forced over); `seed` in the file is a third, since the real manifest has no
such field. `NothingOrphaned` leaves `unfiled` ids out, and `NothingMadeTwice` a
creation whose answer was lost: the code keeps no trace of either to resume from. A customer is matched by email as `fail_existing: 0` asks.

**Detect.** `book` is the account: orders numbered as they were made, each with the
instant of the invoice that minted it. `stage` is the detector, `page` and `got`
its list so far, `walk` the place of the failed payment detector in its calls
per order. A step is one page or one call, answered or failed; `World` is what
merchant and customers do between two of them. `Queue` is `Collapse`.

**RazorpayClient.** `pc` places each call in `doWith`: `queued` for a slot of `sem`,
`asking` inside `roundTrip`, `answered`, `waiting` out a 429, `done`. `slots` is
the semaphore, `result` what the caller is told, and `done` what the gateway
really did, which a lost or failed answer does not tell. Contexts end while a
call is queued, waiting or asking. `refused` is a 4xx and also a 200 whose body says
the notification was not taken: the client returns the one as an error and the
other as a receipt (`Intervene` tells them apart), and neither is retried.

**Reread.** `todo` is what one `Poll` has still to read, and a read is made when
nothing that `Precedes` it is left: items in the order of the manifest, an
invoice before its order, the links last and in any order, since they are sorted
by ids that mean nothing here. `snapshots` holds the entries of the two polls,
`paid` and `linkPaid` the customers' side, `marks` what had come in when each poll
began and ended. `MarkOf` is the pair of duplicate markers, set from what was read
before; `RecoveredOf` is the share of a debt in what `Diff` reports.

**Charge and Checkout.** `attempt` is the attempt being made: its `call` is sent, then
answered, and only the first call and the last do anything at the gateway. A
step goes on the record as it is sent, but the first as it comes back. `reached`
and `payment` are the gateway's side. `Charge` has none of the calls: the bank
is told at most once, and a success means it was told as asked.

**Recovery.** `pc` is the place in `ProcessOrder` and its loop; a step is the code
up to the next call, wait or write, each of which may fail. `outcome` is the row
being filled, `rows` the file, `ledger` the audit kinds per order, `store` the
record `Store` works on, and `sent` a history of the attempts that went out. On
the live layer an attempt is the four calls of `Checkout`, one by one; on the
other layers it is one call. The rules arm builds its request as the code does,
with no source and an action of the retired vocabulary, so the gate of `Policy`
refuses it (R7, or R8 before it); `policy/deprecated.go` documents this. What
lies behind an allow is therefore cut to the retry. `rzp demo` is the same
module with `arm = "demo"`: one order, a first attempt that fails, the class, the
notification and a second attempt.

**DemoServer.** `pc` places each request in `handleRun`: `asking` for the slot,
`selecting`, `parked` in `line`, then streaming or refused. `slot` counts the
tokens, and a token that is let go passes to the head of the line, as a Go
channel does. `visit` holds the request's clock edges (`elapsed`, `expired`,
`gone`) and what its reader was `told`. A run is a count of items: its decisions
are `RiskRun`'s. `Leave`, `Deadline` and the shutdown may happen at any step.

## 3. What the runs check

| Run | Instance | Shows |
|---|---|---|
| `RiskRunWide` | pairs of 12 shapes of debt, every mode, time 2..3 | nothing acts before its allow is recorded; gate memory and guard agree; no silent effect; only R7 escalations are dropped |
| `RiskRunDeep` | 3 of 5 debts that act, time 2..5, budget 2 | accepted notifications a window apart; the budget; `ContactLimits` is implemented |
| `McpServer` | one debt with no handle and a cap of 3, 2 callers, 5 calls, budget 3, time 2..4 | one accepted effect per action; cap and spacing with lost sends; promises kept; the overshoot of the budget |
| `McpSurface` | an invocation over two debts, every tool, malformed calls, 2 callers, 3 calls, one lost row, kill switch | the verdict before the request; contacts reported; the outcome row true; every call answered |
| `SeedRun` | two plans of two invoices and an order, budget 4, one burst wait, three starts | stopping and resuming orphans nothing and makes nothing twice; every manifest can be resumed and says what is so; the budget against what is created; every run ends |
| `Detect` | up to 3 debts, pages of 1, 3 pages, 2 events | an invoice speaks for its order; two detectors never claim one order; what is lost was reported as an error |
| `RazorpayClient` | a read, a create and a resend, 1 slot, 3 requests each | a write happens once at most; results are true; every call ends |
| `DemoServer` | 2 visits, a book of 3, with and without a queue | whoever streams has the slot and nobody waits for a free one; a stream ends whole or excused; work stops with its reader; every request is answered |
| `Reread` | an item of any shape, paid in parts of 3 | the collected figure is not made up or doubled, and complete when both polls read the same ids; the ask counted once |
| `Recovery` | 2 orders, each arm on either layer and the demo, 1..2 seeded attempts, cap 2, a poll of up to two waits | the poll's budget; attempts counted; rows true; an attempt's steps tell all that reached the gateway; the demo's order; `Charge` is implemented |
| `RiskRunEscalation`, `SeedDraft` | as above | the findings below |

Each run checks the properties its question needs. The type invariant of a module
whose run does not name it is proved, or can be given as an INVARIANT of the
same configuration.

Bounds. `MaxTime`, `MaxCalls`, `MaxLost`, `MaxRuns`, `MaxEvents`, `MaxDebts`,
`MaxItems` and `MaxSeeded` are the only cuts, each in one action or in `Init`. The settings are scaled
down with the clock (a window of two units, a cap of one to three, a budget of
two or three) so that every rule both refuses and allows inside the bound. In `McpServer`
the debt starts with no handle, for the race of two callers to make its link; its
cap of three then leaves room for two notifications, which only the window keeps
apart, and its budget of three lets parallel callers try a fourth contact. Two parallel
callers are enough for a check-then-act race, three starts for a resume of a
resumed book (a plan is seven calls, so a budget of four never finishes it in
one) and three debts for a rule across debts. In `Detect` a page of one makes
every boundary between records a boundary between pages, and two events let
one shift a page and the other change a record read before. In `Reread` one
item is enough: every figure is a sum over debts, and no read of a debt looks at
another's; the order of reads across items is left to the proof, which holds for
a manifest of any length. In `Recovery` two orders let the store and the clock of the poll carry
over from one to the next, and a seeded count of two is at the arm's cap where
one is below it. In `DemoServer` one visit streams while the other waits, leaves or is
refused, and a third would only stand behind it. The proofs remove the bounds
where they exist.

Fairness. `McpSession!FairSession` is weak fairness of each caller: a goroutine whose
next step is enabled runs. A caller that waits for the mutex gets it because a
session makes finitely many calls. `SeedRun!FairSpec` is weak fairness of a
started process: its calls return and its sleeps end; nobody has to start it
again. `RazorpayClient!FairSpec` is weak fairness of each call: a request ends by
the client's timeout, a wait by its timer, and a queue of finitely many calls
drains. `DemoServer!FairSpec` is weak fairness of each handler, of the timer of
its wait and of the exit of a process that was told to stop; no deadline has to
pass for a request to be answered. No fairness is asked of the gateway, of
customers, of the client of a server or of the clock. `RiskRun`, `Detect`, `Reread`
and `Recovery` are single loops and are checked for safety only. Deadlock is not
checked: every model ends, as its program does; the three that could hang,
`McpSession`, `RazorpayClient` and `DemoServer`, have a liveness property instead.

### Findings

1. **An R7 escalation reaches nobody** (`RiskRunEscalation`). `processItem` puts
   the escalation through the gate again, and R7, which does not look at the
   action when the source or the failure is unreadable, refuses it again. The
   README says a person has to look. `OnlyFailClosedIsDropped` shows R7 is the
   only rule it happens to.
2. **A finished book can hold a draft** (`SeedDraft`). An invoice gets its id in
   the manifest before it is issued, and the resume counts every id as done, so
   a run that stops between the two calls leaves a draft that no run issues.

Also met while modelling. These definitions state what one would expect, and
the code does otherwise; no run checks them, and giving one as the INVARIANT of
the module's configuration shows the behaviour.

* `RiskRun!EverySendSpaced`: a notification that was sent and whose answer was
  lost spends neither a touch nor the window.
* `McpServer!DecisionOnRecord`: the map that opens the action tools is set before
  the decision row is written, and survives a write that fails.
* `McpServer!SideEffectIsACall`: the engine answers a repeated action from its
  guard, and the server files the replay as a side effect.
* `SeedRun!InvoiceOnItsOwnCustomer`: `resumeFrom` compares amounts of items with
  an id only; resumed with another `-seed`, the customer of the unfinished item
  is billed for an entry of another plan.
* `Detect!NoHandleMeansNothingToPay`: an invoice inside the grace is left out by
  its own detector while the order it minted is claimed as a bare one, with the
  handle that `riskitem.go` says means there is nothing to pay against.
* `Recovery!SideEffectTold`: the demo's outcome leaves `SideEffect` unset although
  its second attempt reached the gateway.
* `DemoServer!DeadlineIsReported`: `send` refuses once the run's context has ended, the
  deadline's end included, so the last event that should say why a stream stopped
  is not sent to a reader who is still there.
* `Reread!PaymentOnReadOrderCounted`: when one of two polls cannot read an
  invoice, its order is marked a duplicate in one reading only, `Diff` leaves it
  out, and a payment made between the two is in no figure. In the same way an
  item whose order could not be read while its invoice and its link were counts
  its ask twice in the gross; `AskCountedOnce` says so of wholly read debts only.

That parallel callers can pass the action budget is known (phase 3 report);
`BudgetOvershoot` says by how much.

## 4. What is proved

`RiskRunProofs` proves, for every book, cadence table, settings, queue length
and set of modes the assumptions allow:

* `TypeCorrect`: `TypeOK`.
* `EffectsAreDecided`: `DecisionPrecedesEffect`.
* `WithinBudget`: `BudgetBoundsTheRun`.
* `ContactLimitsKept`: the run implements `ContactLimits`.
* `SendsAreSpaced`: `NotificationsSpaced`.
* `GuardAndGateAgree`: `LedgerMatchesGuard`.
* `NothingIsSilent`: `EffectsAccountedFor`.
* `EscalationsArrive`: `OnlyFailClosedIsDropped`.

Only the first is inductive as it stands. For the next four the argument rests on `GateStillHolds`: what
the gate read when it allowed an action (the touches, the clocks and the count)
still holds when `Commit` runs, because between the two only the clock moves,
and it moves in the direction that keeps every distance large enough.
`AllowIsDown` says an item that has an action to run has its allow on the
trail; `BudgetSpent` ties the executed actions to the run's counter;
`SpacingInv` ties the sends to the notify clock. The assumptions are
`PolicyAssumption` and `RunAssumption`: the fields have their types, the day
has a unit, the clock starts after zero.

The last three are about what happens after an allow. The guard takes a key when
the engine acts and the gate takes it when `Commit` runs; `StepGuard` shows they
move in step, so no replay happens within a run. `EffectsAccountedFor` needs an item to
be told of by the one row `Apply` owes or by the error that ends the
item (`ApplyTells`, `StepAccounts`). For `EscalationsArrive`, an item is escalated by a rule that
came first among those that fired; unless it is R7, R7 did not fire, and R7 looks at
the item alone. The escalation has a key of its own that no earlier item
can have spent (`KeyIsFresh`), so the second `Evaluate` allows it and the guard lets it by.

`RazorpayClientProofs` proves, for any finite set of calls, any number of slots
and of requests, with or without a capture stream, `TypeCorrect`, `WritesOnce`
(`AtMostOneEffect`), `CallersToldTheTruth` (`ResultIsTrue`) and `SlotsNeverIdle`
(slots are the requests on their way, and never more than `MaxConcurrent`). The
invariant ties what the gateway did to the place of the call and its last answer:
a call that may still ask has done nothing. For termination it proves `CallsRunDown`
(each step uses up part of the finite allowance of one call, made of the attempts it
has left and its place in the present one, and gives none to another)
and `SomeCallGoesOn` (calls never all wait for one another: a call is queued only
while others have the slots, and those are on their way).

`DetectProofs` proves `DetectorsDisjoint` (`NeverBothClaim`) for any account,
paging and number of events. The filters of the two detectors exclude each other on one
reading of an order, but there are two readings. The invariant says that an order
the earlier detector claimed has an attempt on it for good (`SightingInv`), and
that no later page shows it without (`ReadInv`). It also proves `NothingLostSilently`
(`LostOnlyWithAnError`) and `InvoiceSpeaksAlways` (`InvoiceSpeaks`). Orders arrive at the
head of a list, so one that stands behind the next page can only move further back
(`Listing`); and the places of a list have no gaps (`PlaceTaken`), so a page with anything
behind it is full (`FullPage`) and a short page is rightly taken for the last. The walk of the
failed payment detector needs records to have a place each, or it would step over one
(`ReadTrue`). A sighting of each debt reaches the queue because there is a first one
(`QueueKeepsFirst`).

`McpSessionProofs` proves first of the server, for every book, any finite set of callers, every set of
calls, every setting and any bound on time and calls, the safety properties of the two
MCP runs that are the server's own: `VerdictBehindEverySend`
(`VerdictOnRecord`), `StaleCopyIsStopped` (`OneAcceptedEffect`), `CapHolds`
(`CapCountsLostContacts`), `SendsApart` (`SendsSpacedPerDebt`), `PromisesHold`
(`PromiseKept`) and `BudgetBounded` (`BudgetOvershoot`), beside `TypeCorrect`. The argument
is the mutex: `CallsInOrder` says that whoever applies or settles holds it, and
so what the policy read when it allowed a call still holds when the request
leaves and when the store takes it. What is outside the mutex needs an argument
of its own. The copy of the item may be stale, and the guard answers for it: a key
once accepted is sealed. The gate's look at the budget may be stale too: the
calls that passed it and are not charged yet are calls of distinct callers, so
there are never more of them than callers. `ServerInv` is also kept by the rows
an invocation files beside the calls (`FilesBeside`), so that `McpSession` inherits it.

Of an invocation it proves `SessionVerdictOnRecord`, `SessionReportsContacts`
(`ContactsReported`) and `SessionOutcomeIsTrue` (`OutcomeIsTrue`). The outcome row is
made of the tally, and the tally is written beside the ledger, so the invariant
relates the two. The hard conjunct is the verdict: a later call may overwrite it.
`OneVerdict` closes it: the verdict under which an item is acted on is a function of
the item alone, because an escalation that was itself escalated can only come
from R7, and R7 then lets nothing else through for that item. `SessionKeepsLimits`
states the server's other safety properties of a whole invocation. `CooldownHolds`
is R2 under parallel callers: after a notification that went out, even one whose
answer was lost, no later request about the debt leaves within the cooldown. No run
checks it. The argument is that the server commits nothing but notifications, so
the two clocks of a debt agree (`ClocksTogether`). `CallsGoForward`
gives a call a number of steps that its own steps lower and nothing raises; and
`WhoeverWaitsWaitsForAWorker` says that while a call is under way the session is
served, and it or the caller who has the mutex has a step to take.

`RecoveryProofs` proves of one attempt `StepsTellEverythingAlways` and
`CheckoutIsOneCharge` (`AttemptIsOneCharge`): the invariant says how many calls were sent and arrived at
each place, and that nothing but an answered last call settles a payment.
It then shows that every step of a run is a step of `Checkout` or leaves
it alone (`RunIsCheckout`), so a run inherits both (`RunsCharge`), and proves
`PollKeepsItsBudgetAlways`, `AttemptsCountedAlways` and `DemoKeepsItsOrderAlways` for any
batch, classes, cap and poll settings. `RowsAreTrueAlways` (`RowsAreTrue`) has the
longest argument: the outcome is followed stage by stage (`AtHand`), an order ahead has
had nothing (`Ahead`), and what a row says of an order behind stays true because a step is
about the order at hand, the ledger only grows and a paid order stays paid. The calls on
a row are no fewer than the gateway had by Checkout's invariant. That the rules arm makes no attempt rests
on `Policy`: a request with no source has no allow.

`DemoServerProofs` proves, for any finite set of visits and any book, `TypeCorrect`,
`SlotIsTheStreamAlways`, `StreamsEndToldAlways` and `WorkStopsAlways`. `SlotInv` needs
the line to name parked requests once each, or a token could be handed to one who
is not waiting; `WorkStops` needs the places where an item may be one ahead.
`RequestsGoForward` counts the steps a request has left, which its handler lowers
and nothing raises, the slot being handed to it included. `NobodyIsStranded` is
`InLine` the other way round: who is parked has a place in the line, and somebody
else has the slot that will be handed on.

`SeedRunProofs` proves, for any plans, tags, budget and number of starts,
`TypeCorrect`, `OrphansNothing` (`NothingOrphaned`), `MadeOnce` (`NothingMadeTwice`),
`NeverRefusesItself` (`AlwaysResumable`), `ManifestAlwaysTrue` (`ManifestIsTrue`) and
`BookWithinBudget` (`BudgetBoundsTheBook`). None is inductive. What a process
holds and what the file says are both a `TrueBook`: the item at place `k` of its kind
stands for entry `k` of its plan, with a customer of that entry, and only the last may
be unfinished. `Stepwise` says how far the entry at hand is at each stage.
`TakenOver` says that a process names whatever the file still answers for; with
`NothingOrphaned` it puts everything known in one book, and a book names an entry
once (`OneEach`), which is `NothingMadeTwice`. `Paid` counts the resources of a run
against its charged calls, one less while a call waits to be made again.
A start under another seed takes over the same places (`BookOfOtherSeed`), for
which plans must have the same length for every seed: one profile sizes them all
(`plan.go:168-178`), and `SeedAssumption` says so. `CreatedOf` is the only recursion;
that it selects what it should (`CreatedOfIsRight`) is proved by the least
counterexample instead of by induction. `RunsRunDown` gives a run an allowance that
every step lowers. A call that a burst refused is made again for free, so the
budget alone does not bound a run; but each such repeat costs one of the call's
waits, and the allowance counts those too.

`RereadProofs` proves, for a manifest of any length, whichever reads fail and
whenever customers pay, `TypeCorrect`, `AskAlwaysOnce` (`AskCountedOnce`) and
`CollectedAlwaysRight` (`CollectedIsRight`). A duplicate marker is set when only a part
of the book was read, and the figures read it when all was. `Marked` says it is what
the whole snapshot would give, and rests on `ReadInOrder`: what a marker looks at
comes first. `ReadInTime` puts each figure between what had come in when its poll
began and when it ended, and `OnlyRises` orders those, so a rise counted on one id
is a payment and a payment between the polls is a rise.

Only model-checked: the four liveness properties, `EveryRunEnds`, `EveryCallEnds`,
`EveryCallAnswered` and `EveryRequestAnswered`, since fairness and `ENABLED` are beyond
the prover; and the two findings, which are counterexamples. What the liveness rests
on is proved: the falling measure of each (`RunsRunDown`, `CallsRunDown`, `CallsGoForward`,
`RequestsGoForward`), and that whoever waits does so for one who can move. The
theorems about waiting speak of the guards of the steps, not of `ENABLED`.

## 5. What is left, in order

1. Proofs: that a session implements `ContactLimits` for each debt with its
   notifications as the contacts, of which `CapHolds`, `CooldownHolds` and `SendsApart`
   are the three conjuncts; and that the guards the theorems about waiting name
   are those of the steps.
2. The totals of a run (`riskrun/results.go`) over the rows `RiskRun` writes, and the
   counters of the session's tally.
3. `Classify` as a function from an error to a class, against its table.

### Not modelled

* Lookup tables: `classify`, `networkcodes`, `testcards` and `batch`. They keep no
  state; a model meets their result as the class of an item or of a payment.
* Formatting, redaction, tracing and the wire format of the tools: no property
  is about them, and a row is a record of what it says.
* The gateways that are not Razorpay (fakes, replays, the in-memory one of the
  demo) and `rzp capture` and `rzp probe`: they stand in for the gateway, which the
  models let answer anything, or only read it.
* Flag parsing and construction: what they fix about a run is a CONSTANT.
* `harness/`: an offline scorer in Python of files the programs wrote.
* `rzp seed`: it makes a batch out of a table and writes one file; it calls nobody
  and resumes nothing.
* `telemetry` and `notify`: set-up of tracing, and an interface the engine does
  not call.
