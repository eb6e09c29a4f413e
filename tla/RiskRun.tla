------------------------------- MODULE RiskRun -------------------------------
(***************************************************************************)
(* One pass of internal/riskrun over a collapsed queue of debts.           *)
(*                                                                         *)
(* The loop is sequential.  What it meets is not: the clock moves between  *)
(* any two of its steps, an audit row may not be written, the gateway may  *)
(* answer, refuse, or lose the answer to a call that happened, and the     *)
(* results file may stop taking rows.  Each step below is the code between *)
(* two such points.                                                        *)
(*                                                                         *)
(* effects and sink are the world outside the program, kept to state what  *)
(* the run did; everything else is the program's own memory and files.     *)
(***************************************************************************)
EXTENDS Policy, Intervene, Sequences, FiniteSets

CONSTANTS
  Book,      \* the debts a sweep can report, an item record for each id
  QueueLen,  \* how many of them the sweep found
  Modes,     \* how the run may have been started: live, dry or halted
  StartTime, \* when the run starts
  MaxTime    \* bound: the clock stops here

Items == DOMAIN Book

ASSUME RunAssumption ==
  /\ Book \in [Items -> ItemRecord]
  /\ QueueLen \in Nat
  /\ Modes \subseteq {"live", "dry", "halted"}
  /\ StartTime \in Nat \ {0}
  /\ MaxTime \in Nat

Arms  == {"a0-control", "a1-engine"}

VARIABLES
  queue, arm, mode,                                  \* fixed when a run starts
  now,                                               \* the clock
  pos, pc, cur,                                      \* the loop and its item
  touches, lastTouch, lastNotify, actions, keys,     \* riskrun.ledger
  slots,                                             \* intervene.guard
  executed,                                          \* summary.ActionsExecuted
  trail, rows, failures,                             \* ledger.jsonl, results.jsonl, runErr
  effects, sink                                      \* the gateway, escalations.jsonl

options == <<queue, arm, mode>>
ledger  == <<touches, lastTouch, lastNotify, actions, keys>>
world   == <<effects, sink>>
vars    == <<options, now, pos, pc, cur, ledger, slots, executed, trail, rows,
             failures, world>>

-----------------------------------------------------------------------------
(* Options of a run.                                                       *)

Queues == {q \in [1..QueueLen -> Items] :
             \A i, j \in 1..QueueLen : q[i] = q[j] => i = j}

Stratum(q, source) == {n \in 1..QueueLen : Book[q[n]].source = source}

\* AssignArms, by place in the queue: a shuffle inside each source, and the
\* first half of it (the larger one of an odd stratum) is the engine's.
FairArms(q) ==
  {a \in [1..QueueLen -> Arms] :
     \A source \in Sources :
       LET stratum == Stratum(q, source)
       IN Cardinality({n \in stratum : a[n] = "a1-engine"})
            = (Cardinality(stratum) + 1) \div 2}

-----------------------------------------------------------------------------
(* The item the loop is on.                                                *)

id   == queue[pos]
item == Book[id]

NoKey == <<>>
NoDecision == [verdict |-> "none", rule |-> "none"]
Fresh == [hold |-> 0, first |-> NoDecision, second |-> NoDecision,
          action |-> "", key |-> NoKey, ran |-> FALSE, accepted |-> FALSE,
          error |-> FALSE]

\* riskrun.ProposeAction.
ProposeAction(it) ==
  IF it.handle = "none" THEN "create_payment_link"
  ELSE IF it.email THEN "notify_email" ELSE "notify_sms"

TouchNo(i) == touches[i] + 1

\* Mutants of StateFor: the send rate read per debt, and a budget that counts
\* only what was accepted.
StateForItemClock(i, key) ==
  [touches |-> touches[i], lastTouch |-> lastTouch[i], lastNotify |-> lastTouch[i],
   actions |-> actions, killed |-> mode = "halted", keySeen |-> key \in keys]

StateForAccepted(i, key) ==
  [touches |-> touches[i], lastTouch |-> lastTouch[i], lastNotify |-> lastNotify,
   actions |-> Cardinality(keys), killed |-> mode = "halted", keySeen |-> key \in keys]

\* ledger.state.
StateFor(i, key) ==
  [touches |-> touches[i], lastTouch |-> lastTouch[i], lastNotify |-> lastNotify,
   actions |-> actions, killed |-> mode = "halted", keySeen |-> key \in keys]

RequestFor(i, action, hold) ==
  RequestFromClassified(i, Book[i], action, hold, TouchNo(i))

Decide(i, action, hold) ==
  Evaluate(StateFor(i, IdempotencyKey(i, action, TouchNo(i))),
           RequestFor(i, action, hold), now)

Verdict(d) == [verdict |-> d.verdict, rule |-> d.rule]

\* audit.Recorder.Record: a row that is written is appended to the item's trail.
Recorded(i, row) == trail' = [trail EXCEPT ![i] = Append(@, row)]

\* A step that could not write its row gives the item up: the row of results
\* carries the error and so does the run.
GiveUp(c) ==
  /\ cur' = [c EXCEPT !.error = TRUE]
  /\ failures' = failures \cup {pos}
  /\ pc' = "write"
  /\ UNCHANGED trail

-----------------------------------------------------------------------------
(* The steps of Run and processItem.                                       *)

Init ==
  /\ queue \in Queues
  /\ arm \in FairArms(queue)
  /\ mode \in Modes
  /\ now = StartTime
  /\ pos = 1
  /\ pc = IF QueueLen = 0 THEN "done" ELSE "classify"
  /\ cur = Fresh
  /\ touches = [i \in Items |-> 0]
  /\ lastTouch = [i \in Items |-> 0]
  /\ lastNotify = 0
  /\ actions = 0
  /\ keys = {}
  /\ slots = {}
  /\ executed = [a \in LawfulActions |-> 0]
  /\ trail = [i \in Items |-> <<>>]
  /\ rows = <<>>
  /\ failures = {}
  /\ effects = {}
  /\ sink = {}

\* The promise hold is read at the instant the item is taken up; the failure
\* evidence, when there is any, is put on the record first.
Classify ==
  /\ pc = "classify"
  /\ LET taken == [Fresh EXCEPT !.hold = IF now < item.hold THEN item.hold ELSE 0]
     IN \/ /\ item.signal
           /\ \/ Recorded(id, [kind |-> "classified", action |-> "", verdict |-> "none"])
                 /\ cur' = taken
                 /\ pc' = "propose"
                 /\ UNCHANGED failures
              \/ GiveUp(taken)
        \/ /\ ~item.signal
           /\ cur' = taken
           /\ pc' = "propose"
           /\ UNCHANGED <<trail, failures>>
  /\ UNCHANGED <<options, now, pos, ledger, slots, executed, rows, world>>

\* The proposed action meets the gate, and the decision goes down before
\* anything acts on it.
Propose ==
  /\ pc = "propose"
  /\ \E d \in {Decide(id, ProposeAction(item), cur.hold)} :
       \/ /\ Recorded(id, [kind |-> "policy_evaluated", action |-> ProposeAction(item),
                           verdict |-> d.verdict])
          /\ cur' = [cur EXCEPT !.first = Verdict(d), !.key = d.key,
                                !.action = IF Allowed(d) THEN ProposeAction(item) ELSE ""]
          /\ pc' = IF d.verdict = "escalate" THEN "escalate" ELSE "dispose"
          /\ UNCHANGED failures
       \/ GiveUp([cur EXCEPT !.first = Verdict(d)])
  /\ UNCHANGED <<options, now, pos, ledger, slots, executed, rows, world>>

\* An escalation is itself an action, so it meets the gate too.
Escalate ==
  /\ pc = "escalate"
  /\ \E d \in {Decide(id, "escalate", cur.hold)} :
       \/ /\ Recorded(id, [kind |-> "policy_evaluated", action |-> "escalate",
                           verdict |-> d.verdict])
          /\ cur' = [cur EXCEPT !.second = Verdict(d),
                                !.action = IF Allowed(d) THEN "escalate" ELSE "",
                                !.key = IF Allowed(d) THEN d.key ELSE @]
          /\ pc' = "dispose"
          /\ UNCHANGED failures
       \/ GiveUp([cur EXCEPT !.second = Verdict(d)])
  /\ UNCHANGED <<options, now, pos, ledger, slots, executed, rows, world>>

Executing == cur.action # "" /\ arm[pos] # "a0-control" /\ mode # "dry"

\* Nothing runs: the gate refused, the arm only decides, or the run is dry.
Skip ==
  /\ pc = "dispose"
  /\ ~Executing
  /\ \/ /\ Recorded(id, [kind |-> "action_skipped", action |-> ProposeAction(item),
                         verdict |-> cur.first.verdict])
        /\ pc' = "write"
        /\ UNCHANGED <<cur, failures>>
     \/ GiveUp(cur)
  /\ UNCHANGED <<options, now, pos, ledger, slots, executed, rows, world>>

\* What Apply joins into the run's error.
\* Mutant of Errs: a lost audit row is swallowed.
ErrsOnCallOnly(out, replay, written) == ~replay /\ out.failed

Errs(out, replay, written) == (~replay /\ out.failed) \/ ~written

\* Engine.Apply with the policy's key on the context.  The slot is sealed
\* before the row is written, so a lost row does not reopen the key.
Apply ==
  /\ pc = "dispose"
  /\ Executing
  /\ LET slot == GuardKey(cur.key, id, cur.action)
     IN \E answer \in AnswersTo(item, cur.action), written \in BOOLEAN :
          LET replay == slot \in slots
              out == Dispatch(item, cur.action, answer)
              accepted == replay \/ out.accepted
              happened == ~replay /\ out.effect
          IN /\ slots' = IF ~replay /\ Seals(out) THEN slots \cup {slot} ELSE slots
             /\ effects' = IF happened /\ cur.action # "escalate"
                             THEN effects \cup {[at |-> now, item |-> id, pos |-> pos,
                                                 action |-> cur.action, accepted |-> accepted]}
                             ELSE effects
             /\ sink' = IF happened /\ cur.action = "escalate" THEN sink \cup {id} ELSE sink
             /\ IF written
                  THEN Recorded(id, [kind |-> EventKind(out, out.attempted, replay),
                                     action |-> cur.action, verdict |-> "none"])
                  ELSE UNCHANGED trail
             /\ cur' = [cur EXCEPT !.ran = TRUE, !.accepted = accepted,
                                   !.error = ~replay /\ (~out.accepted \/ answer = "unread")]
             /\ failures' = IF Errs(out, replay, written)
                              THEN failures \cup {pos} ELSE failures
  /\ pc' = "commit"
  /\ UNCHANGED <<options, now, pos, ledger, executed, rows>>

\* ledger.commit, at the instant Apply came back, and the summary's count.
Commit ==
  /\ pc = "commit"
  /\ executed' = [executed EXCEPT ![cur.action] = @ + 1]
  /\ \/ /\ cur.accepted /\ cur.key \in keys
        /\ UNCHANGED ledger
     \/ /\ ~(cur.accepted /\ cur.key \in keys)
        /\ actions' = actions + 1
        /\ keys' = IF cur.accepted THEN keys \cup {cur.key} ELSE keys
        /\ IF cur.accepted /\ cur.action \in ContactActions
             THEN /\ touches' = [touches EXCEPT ![id] = @ + 1]
                  /\ lastTouch' = [lastTouch EXCEPT ![id] = now]
             ELSE UNCHANGED <<touches, lastTouch>>
        /\ lastNotify' = IF cur.accepted /\ cur.action \in NotifyActions
                           THEN now ELSE lastNotify
  /\ pc' = "write"
  /\ UNCHANGED <<options, now, pos, cur, slots, trail, rows, failures, world>>

\* The row goes out whatever happened; a results file that takes no row ends
\* the run.
Write ==
  /\ pc = "write"
  /\ \/ /\ rows' = Append(rows, [item |-> id, verdict |-> cur.first.verdict,
                                 rule |-> cur.first.rule, escalation |-> cur.second.verdict,
                                 executed |-> cur.ran, accepted |-> cur.accepted,
                                 error |-> cur.error])
        /\ pos' = pos + 1
        /\ pc' = IF pos = QueueLen THEN "done" ELSE "classify"
     \/ /\ pc' = "stopped"
        /\ UNCHANGED <<rows, pos>>
  /\ UNCHANGED <<options, now, cur, ledger, slots, executed, trail, failures, world>>

Tick ==
  /\ pc \notin {"done", "stopped"}
  /\ now < MaxTime
  /\ now' = now + 1
  /\ UNCHANGED <<options, pos, pc, cur, ledger, slots, executed, trail, rows,
                 failures, world>>

Step == Classify \/ Propose \/ Escalate \/ Skip \/ Apply \/ Commit \/ Write

Next == Step \/ Tick

Spec == Init /\ [][Next]_vars

-----------------------------------------------------------------------------
(* Properties.                                                             *)

Keys == Items \X LawfulActions \X (Nat \ {0})

TrailRow == [kind : {"classified", "policy_evaluated", "action_skipped",
                     "intervention_applied", "escalation_raised", "promise_logged"},
             action : LawfulActions \cup {""},
             verdict : Verdicts \cup {"none"}]

DecisionNote == [verdict : Verdicts \cup {"none"}, rule : Rules \cup {"R0", "none"}]

LoopType ==
  /\ queue \in Queues
  /\ arm \in [1..QueueLen -> Arms]
  /\ mode \in Modes
  /\ now \in Nat
  /\ pos \in 1..(QueueLen + 1)
  /\ pc \in {"classify", "propose", "escalate", "dispose", "commit", "write",
             "done", "stopped"}
  /\ pc # "done" => pos <= QueueLen

ItemType ==
  /\ cur \in [hold : Nat, first : DecisionNote, second : DecisionNote,
              action : LawfulActions \cup {""}, key : Keys \cup {NoKey},
              ran : BOOLEAN, accepted : BOOLEAN, error : BOOLEAN]
  /\ cur.action # "" => cur.key \in Keys
  /\ pc = "commit" => cur.action # ""

LedgerType ==
  /\ touches \in [Items -> Nat]
  /\ lastTouch \in [Items -> Nat]
  /\ lastNotify \in Nat
  /\ actions \in Nat
  /\ keys \subseteq Keys
  /\ slots \subseteq (Keys \cup {<<i>> : i \in Items}) \X LawfulActions
  /\ executed \in [LawfulActions -> Nat]

FilesType ==
  /\ trail \in [Items -> Seq(TrailRow)]
  /\ failures \subseteq 1..QueueLen
  /\ effects \subseteq [at : Nat, item : Items, pos : 1..QueueLen,
                       action : LawfulActions, accepted : BOOLEAN]
  /\ sink \subseteq Items

TypeOK == LoopType /\ ItemType /\ LedgerType /\ FilesType

\* Nothing reaches a customer, the gateway or the escalation queue unless the
\* ledger already holds the gate's allow for that very action on that debt:
\* Evaluate and its row come before Apply, whichever write fails.
AllowedOnRecord(i, action) ==
  \E n \in 1..Len(trail[i]) :
    /\ trail[i][n].kind = "policy_evaluated"
    /\ trail[i][n].action = action
    /\ trail[i][n].verdict = "allow"

DecisionPrecedesEffect ==
  /\ \A e \in effects : AllowedOnRecord(e.item, e.action)
  /\ \A i \in sink : AllowedOnRecord(i, "escalate")

\* R6 across items and across the time a send takes: two notifications the
\* gateway accepted left at least the window apart, although the clock read by
\* the gate, by the send and by the ledger are three different instants.
NotificationsSpaced ==
  \A e, f \in effects :
    /\ e.action \in NotifyActions /\ f.action \in NotifyActions
    /\ e.accepted /\ f.accepted
    /\ e.pos < f.pos
    => f.at - e.at >= Settings.notifyWindow

\* The same for every notification that went out, the accepted ones and the
\* ones whose answer was lost.
EverySendSpaced ==
  \A e, f \in effects :
    /\ e.action \in NotifyActions /\ f.action \in NotifyActions
    /\ e.pos < f.pos
    => f.at - e.at >= Settings.notifyWindow

\* R5: however escalations and refusals are interleaved with them, and
\* although they spend the same counter, a run executes no more unsafe actions
\* than its budget.
UnsafeExecuted ==
  executed["notify_email"] + executed["notify_sms"] + executed["resend_link"]
    + executed["create_payment_link"] + executed["cancel_write_off"]

BudgetBoundsTheRun == UnsafeExecuted <= Settings.budget

\* The policy's replay memory (R9) and the engine's guard are two records of
\* what was done, sealed at different steps.  They never disagree once an item
\* is over, so a replay the gate lets through is one the guard stops.
LedgerMatchesGuard ==
  LET sealed == {s[1] : s \in slots}
      settled == IF pc = "commit" /\ cur.accepted THEN keys \cup {cur.key} ELSE keys
  IN sealed = settled

\* A change in the world is the doing of an item of the engine arm in a run that
\* executes, and is never silent, the send whose answer is lost and that moves
\* neither the touches nor the clocks included: it has its intervention row on the
\* ledger, or the run returns an error that names the item.
EffectsAccountedFor ==
  \A e \in effects :
    /\ mode = "live" /\ arm[e.pos] = "a1-engine"
    /\ \/ e.pos \in failures
       \/ \E n \in 1..Len(trail[e.item]) :
            /\ trail[e.item][n].kind = "intervention_applied"
            /\ trail[e.item][n].action = e.action

\* "escalate means no automated action on this item at all and a person has to
\* look": a debt of the engine arm that ended with that verdict, in a run that
\* executes and met no error on it, is in the escalation queue.
EscalationReachesAPerson ==
  \A n \in 1..Len(rows) :
    /\ rows[n].verdict = "escalate"
    /\ arm[n] = "a1-engine" /\ mode = "live"
    /\ n \notin failures
    => rows[n].item \in sink

\* What the run does guarantee: the only escalations that reach nobody are the
\* fail-closed ones, whose rule refuses the escalation too.
OnlyFailClosedIsDropped ==
  \A n \in 1..Len(rows) :
    /\ rows[n].verdict = "escalate"
    /\ arm[n] = "a1-engine" /\ mode = "live"
    /\ n \notin failures
    => rows[n].item \in sink \/ rows[n].rule = "R7"

\* The ledger's touches and clocks keep the promise to the customer.
CapOf == [i \in Items |-> ParamsFor(Book[i].source).maxTouches]
GapOf == [i \in Items |-> ParamsFor(Book[i].source).cooldown]

Limits == INSTANCE ContactLimits
            WITH Debts  <- Items,
                 Cap    <- CapOf,
                 Gap    <- GapOf,
                 Window <- Settings.notifyWindow

KeepsContactLimits == Limits!Spec
=============================================================================
