------------------------------ MODULE McpServer ------------------------------
(***************************************************************************)
(* The tool server an agent drives: internal/mcpserver as cmd/rzp-mcp      *)
(* wires it to the policy, the store, the promise ledger and the engine.   *)
(*                                                                         *)
(* A client may issue tool calls in parallel, so each caller below is one  *)
(* goroutine of the SDK serving one call at a time.  A call passes the     *)
(* middleware (the gate), then its handler.  The action handlers share one *)
(* path, act, under one mutex, and take their copy of the item before they *)
(* have it.  The mutex mu covers single reads and writes; a step below is  *)
(* what no other caller can see the inside of.  The tally's counters are   *)
(* left out, and the decision is a flag: its text reaches only the rows.   *)
(***************************************************************************)
EXTENDS Policy, Intervene, Store, FiniteSets

CONSTANTS
  Book,         \* the served items, an item record for each id
  Requests,     \* the tool calls a client may make
  Callers,      \* calls served at once
  SwitchFiles,  \* what may lie at the kill-switch path when the server starts
  ActionBudget, \* Options.ActionBudget, with its default filled in
  PromiseHold,  \* how long the engine holds a promise
  StartTime,
  MaxCalls,     \* bound: tool calls of one session
  MaxLost,      \* bound: rows that cannot be written
  MaxTime       \* bound: the clock stops here

Items == DOMAIN Book

ReadTools   == {"list_risk_items", "get_risk_item"}
ActionTools == {"notify_item", "create_payment_link_for_item",
                "resend_link_for_item", "log_promise", "escalate_item"}
Tools       == ReadTools \cup ActionTools \cup {"record_decision"}

\* Who has the action mutex when no caller has.
Nobody == "nobody"

\* A call: the tool, the item it names ("" for none), the lawful action it
\* amounts to, and whether its other arguments are ones the handler takes.
Request == [tool : STRING, item : STRING, action : LawfulActions, valid : BOOLEAN]

ASSUME ServerAssumption ==
  /\ Book \in [Items -> ItemRecord] /\ Items \subseteq STRING \ {""}
  /\ Requests \subseteq Request
  /\ \A req \in Requests : req.tool = "escalate_item" => req.action = "escalate"
  /\ IsFiniteSet(Callers) /\ Nobody \notin Callers
  /\ SwitchFiles \subseteq {"present", "missing", "unreadable"}
  /\ ActionBudget \in Nat \ {0}
  /\ PromiseHold \in Nat \ {0}
  /\ StartTime \in Nat \ {0}
  /\ MaxCalls \in Nat
  /\ MaxLost \in Nat
  /\ MaxTime \in Nat

VARIABLES
  engaged,          \* Options.KillSwitchEngaged
  now,
  calls,            \* Server.toolCalls
  decided,          \* the items with an entry in Server.decisions
  handle, touched,  \* Server.allowed[i].PayHandle, Server.touched
  spent,            \* Server.actionsSpent
  holder,           \* who has actMu
  store,            \* internal/store
  promises,         \* internal/promise
  slots,            \* intervene.guard
  call,             \* what each caller is doing
  rows, lost,       \* ledger.jsonl, and how many rows it did not take
  errored,          \* the calls answered with an error
  sent              \* every request that reached the gateway

session == <<engaged, decided, spent>>
books   == <<touched, store, promises, slots>>
ledgerFile == <<rows, lost>>
vars    == <<session, now, calls, handle, holder, books, call, ledgerFile,
             errored, sent>>

-----------------------------------------------------------------------------
(* Calls, rows and the lock.                                               *)

NoRequest == [tool |-> "", item |-> "", action |-> "do_nothing", valid |-> FALSE]

Idle == [pc |-> "idle", no |-> 0, req |-> NoRequest, handle |-> "none",
         verdict |-> "none", key |-> <<>>, accepted |-> FALSE, failed |-> FALSE]

Row(kind, no, req, verdict, reached) ==
  [kind |-> kind, no |-> no, item |-> req.item, action |-> req.action,
   verdict |-> verdict, reached |-> reached]

\* A row goes down, or it does not.
Written(row) == rows' = rows \cup {row} /\ UNCHANGED lost

NotWritten == lost < MaxLost /\ lost' = lost + 1 /\ UNCHANGED rows

\* A row about the call w serves.
Recorded(w, kind, verdict, reached) ==
  Written(Row(kind, call[w].no, call[w].req, verdict, reached))

\* The call is over and its caller is free for the next one.
Answer(w) == call' = [call EXCEPT ![w] = Idle] /\ UNCHANGED errored

\* The same, with an error as the answer.
Fail(w) == call' = [call EXCEPT ![w] = Idle] /\ errored' = errored \cup {call[w].no}

At(w, pc) == call[w].pc = pc

\* Mutant of Free: the action path with no mutex.
FreeAlways == TRUE

Free == holder = Nobody

\* Mutant of Release: a return path that forgets the unlock.
ReleaseNot == UNCHANGED holder

Release == holder' = Nobody

-----------------------------------------------------------------------------
(* The middleware.                                                         *)

\* Server.evaluateGate.  Its reads are apart in the code, and all of them only
\* ever move one way, so the last of them is an instant they all hold at.
Admits(req) ==
  /\ ~engaged
  /\ req.tool \in Tools
  /\ req.item # "" => req.item \in Items
  /\ req.tool \in ActionTools =>
       req.item # "" /\ req.item \in decided /\ spent < ActionBudget

\* Server.gate: the row of the call goes down before the call does anything.
\* A read tool copies what is served and has no step after it.
Gate(w, req) ==
  LET no == calls + 1
      verdict == IF Admits(req) THEN "allow" ELSE "deny"
  IN /\ At(w, "idle")
     /\ calls < MaxCalls
     /\ calls' = no
     /\ \/ /\ Written(Row("tool_call", no, req, verdict, FALSE))
           /\ call' = IF Admits(req) /\ req.tool \notin ReadTools
                        THEN [call EXCEPT ![w] = [Idle EXCEPT !.pc = "handler", !.no = no,
                                                              !.req = req]]
                        ELSE call
           /\ errored' = IF ~engaged /\ req.tool \notin Tools THEN errored \cup {no}
                         ELSE errored
        \/ /\ NotWritten
           /\ errored' = errored \cup {no}
           /\ UNCHANGED call
     /\ UNCHANGED <<session, now, handle, holder, books, sent>>

-----------------------------------------------------------------------------
(* The handlers that do not act.                                           *)

\* handleRecordDecision sets the map first and writes the row after it.
RecordDecision(w) ==
  LET req == call[w].req
  IN /\ At(w, "handler")
     /\ req.tool = "record_decision"
     /\ \/ /\ req.valid /\ req.item \in Items
           /\ decided' = decided \cup {req.item}
           /\ call' = [call EXCEPT ![w].pc = "decided"]
           /\ UNCHANGED errored
        \/ /\ ~(req.valid /\ req.item \in Items)
           /\ Fail(w)
           /\ UNCHANGED decided
     /\ UNCHANGED <<engaged, spent, now, calls, handle, holder, books, ledgerFile, sent>>

WriteDecision(w) ==
  /\ At(w, "decided")
  /\ \/ Recorded(w, "decision_recorded", "none", FALSE) /\ Answer(w)
     \/ Fail(w) /\ NotWritten
  /\ UNCHANGED <<session, now, calls, handle, holder, books, sent>>

-----------------------------------------------------------------------------
(* act.                                                                    *)

\* Mutant of ActiveHold: the second the promise was made is outside it.
ActiveHoldLate(i) ==
  LET until == {p.until : p \in {q \in promises : q.item = i /\ q.at < now /\ now < q.until}}
  IN IF until = {} THEN 0 ELSE CHOOSE t \in until : \A u \in until : u <= t

\* promise.Store.ActiveHold: of the promises that cover now, the end of the
\* last one to end, and 0 when there is none.
ActiveHold(i) ==
  LET until == {p.until : p \in {q \in promises : q.item = i /\ q.at <= now /\ now < q.until}}
  IN IF until = {} THEN 0 ELSE CHOOSE t \in until : \A u \in until : u <= t

\* The item as the caller copied it, with the handle it had then.
Seen(w) == [Book[call[w].req.item] EXCEPT !.handle = call[w].handle]

TouchNo(i) == touched[i] + 1

StateFor(i, key) ==
  LET snapshot == Snapshot(store, i, key, engaged)
  IN [snapshot EXCEPT !.touches = IF touched[i] > @ THEN touched[i] ELSE @]

Decide(w) ==
  LET i == call[w].req.item
      action == call[w].req.action
  IN Evaluate(StateFor(i, IdempotencyKey(i, action, TouchNo(i))),
              RequestFromClassified(i, Seen(w), action, ActiveHold(i), TouchNo(i)), now)

\* Mutant of Passes: an escalate verdict opens every tool.
PassesEscalate(tool, decision) == decision.verdict # "deny"

Passes(tool, decision) ==
  Allowed(decision) \/ (tool = "escalate_item" /\ decision.verdict = "escalate")

\* The argument checks, and the copy of the item taken before the mutex is.
Lookup(w) ==
  /\ At(w, "handler")
  /\ call[w].req.tool \in ActionTools
  /\ \/ /\ call[w].req.valid
        /\ call' = [call EXCEPT ![w].pc = "waiting", ![w].handle = handle[call[w].req.item]]
        /\ UNCHANGED errored
     \/ /\ ~call[w].req.valid
        /\ Fail(w)
  /\ UNCHANGED <<session, now, calls, handle, holder, books, ledgerFile, sent>>

\* Mutant of Charged: charged by the handler and by act.
ChargedTwice(w, d) == IF Passes(call[w].req.tool, d) THEN spent + 2 ELSE spent

\* What is let through costs one action, whatever becomes of it.
Charged(w, d) == IF Passes(call[w].req.tool, d) THEN spent + 1 ELSE spent

\* The mutex is taken, the policy speaks, and its verdict goes on the record
\* before anything acts on it; an action let through is charged at once.
Enter(w) ==
  /\ At(w, "waiting")
  /\ Free
  /\ \E d \in {Decide(w)} :
       \/ /\ Recorded(w, "policy_evaluated", d.verdict, FALSE)
          /\ holder' = w
          /\ spent' = Charged(w, d)
          /\ call' = [call EXCEPT ![w].pc = IF Passes(call[w].req.tool, d) THEN "apply"
                                            ELSE "refuse",
                                  ![w].verdict = d.verdict, ![w].key = d.key]
          /\ UNCHANGED errored
       \/ /\ Fail(w)
          /\ NotWritten
          /\ UNCHANGED <<holder, spent>>
  /\ UNCHANGED <<engaged, decided, now, calls, handle, books, sent>>

\* Intervener.Apply with no key of the caller's on the context: the engine
\* collapses on the debt and the action alone.
Apply(w) ==
  LET i == call[w].req.item
      action == call[w].req.action
      slot == GuardKey(<<>>, i, action)
      replay == slot \in slots
  IN /\ At(w, "apply")
     /\ \E answer \in AnswersTo(Seen(w), action), written \in BOOLEAN :
          LET out == Dispatch(Seen(w), action, answer)
              reaches == ~replay /\ out.attempted
          IN /\ slots' = IF ~replay /\ Seals(out) THEN slots \cup {slot} ELSE slots
             /\ sent' = IF reaches /\ action \in ContactActions
                          THEN sent \cup {[no |-> call[w].no, item |-> i, action |-> action,
                                           at |-> now, accepted |-> out.accepted,
                                           happened |-> out.effect]}
                          ELSE sent
             /\ promises' = IF reaches /\ action = "log_promise" /\ out.effect
                              THEN promises \cup {[item |-> i, at |-> now,
                                                   until |-> now + PromiseHold]}
                              ELSE promises
             /\ IF written
                  THEN Recorded(w, EventKind(out, out.attempted, replay), "none", FALSE)
                  ELSE NotWritten
             /\ call' = [call EXCEPT ![w].pc = "settle",
                           ![w].accepted = replay \/ out.accepted,
                           ![w].failed = (~replay /\ out.failed) \/ ~written]
     /\ UNCHANGED <<session, now, calls, handle, holder, touched, store, errored>>

\* Mutant of ReachedGateway: what was not accepted was not sent.
ReachedIfAccepted(c) == c.req.action \in ContactActions /\ c.accepted

\* The side-effect flag of act.
ReachedGateway(c) == c.req.action \in ContactActions /\ (c.accepted \/ c.failed)

\* Mutant of ActionKind: filed by acceptance alone.
ActionKindIfAccepted(c) == IF c.accepted THEN "action_taken" ELSE "action_skipped"

\* The kind finishAction files the row under, by what happened.
ActionKind(c) ==
  IF ReachedGateway(c) \/ c.accepted \/ c.failed THEN "action_taken"
  ELSE "action_skipped"

\* finishAction's row, and the answer.
Finish(w) ==
  \/ Recorded(w, ActionKind(call[w]), call[w].verdict, ReachedGateway(call[w])) /\ Answer(w)
  \/ Fail(w) /\ NotWritten

Refuse(w) ==
  /\ At(w, "refuse")
  /\ Finish(w)
  /\ Release
  /\ UNCHANGED <<session, now, calls, handle, books, sent>>

\* What Apply came back with reaches the server's view of the item, the store
\* and the count of contacts, and the mutex is let go.
Settle(w) ==
  LET c == call[w]
      i == c.req.item
  IN /\ At(w, "settle")
     /\ handle' = IF c.accepted /\ c.req.action = "create_payment_link"
                    THEN [handle EXCEPT ![i] = "payment_link"] ELSE handle
     /\ store' = IF ReachedGateway(c) /\ c.req.action \in NotifyActions
                   THEN Commit(store, i, c.key, TRUE, now) ELSE store
     /\ touched' = IF ReachedGateway(c) THEN [touched EXCEPT ![i] = @ + 1] ELSE touched
     /\ Finish(w)
     /\ Release
     /\ UNCHANGED <<session, now, calls, promises, slots, sent>>

-----------------------------------------------------------------------------
\* An unreadable kill-switch file ends the program before it serves.
Init ==
  /\ \E file \in SwitchFiles : /\ ~KillSwitchFile(file).err
                               /\ engaged = KillSwitchFile(file).engaged
  /\ now = StartTime
  /\ calls = 0
  /\ decided = {}
  /\ spent = 0
  /\ handle = [i \in Items |-> Book[i].handle]
  /\ touched = [i \in Items |-> 0]
  /\ holder = Nobody
  /\ store = NewStore(Items)
  /\ promises = {}
  /\ slots = {}
  /\ call = [w \in Callers |-> Idle]
  /\ rows = {}
  /\ lost = 0
  /\ errored = {}
  /\ sent = {}

Tick ==
  /\ now < MaxTime
  /\ now' = now + 1
  /\ UNCHANGED <<session, calls, handle, holder, books, call, ledgerFile, errored, sent>>

Serve(w) == RecordDecision(w) \/ WriteDecision(w) \/ Lookup(w)
              \/ Enter(w) \/ Refuse(w) \/ Apply(w) \/ Settle(w)

Next == Tick \/ \E w \in Callers : Serve(w) \/ \E req \in Requests : Gate(w, req)

Spec == Init /\ [][Next]_vars
-----------------------------------------------------------------------------
(* Properties.                                                             *)

Keys == Items \X LawfulActions \X (Nat \ {0})

CallType ==
  [pc : {"idle", "handler", "decided", "waiting", "refuse", "apply", "settle"},
   no : Nat, req : Requests \cup {NoRequest},
   handle : {"none", "invoice", "payment_link"}, verdict : Verdicts \cup {"none"},
   key : Keys \cup {<<>>}, accepted : BOOLEAN, failed : BOOLEAN]

RowType ==
  [kind : {"tool_call", "decision_recorded", "policy_evaluated", "action_taken",
           "action_skipped", "intervention_applied", "escalation_raised",
           "promise_logged", "classified", "outcome_observed"},
   no : 0..calls, item : STRING, action : LawfulActions,
   verdict : Verdicts \cup {"none"}, reached : BOOLEAN]

TypeOK ==
  /\ engaged \in BOOLEAN
  /\ now \in Nat /\ calls \in Nat /\ spent \in Nat
  /\ decided \subseteq Items
  /\ handle \in [Items -> {"none", "invoice", "payment_link"}]
  /\ touched \in [Items -> Nat]
  /\ holder \in Callers \cup {Nobody}
  /\ store \in StoreType(Items, Keys)
  /\ promises \subseteq [item : Items, at : Nat, until : Nat]
  /\ slots \subseteq {<<i>> : i \in Items} \X LawfulActions
  /\ call \in [Callers -> CallType]
  /\ rows \subseteq RowType /\ lost \in 0..MaxLost
  /\ errored \subseteq 1..calls
  /\ sent \subseteq [no : 1..calls, item : Items, action : ContactActions,
                     at : Nat, accepted : BOOLEAN, happened : BOOLEAN]

\* "There is no branch in which the Intervener is reached without a recorded
\* verdict behind it": a request that left the process has the policy's allow
\* for that very call on the ledger, whichever tool asked and whichever row of
\* the call could not be written.
VerdictOnRecord ==
  \A e \in sent : \E r \in rows :
    r.no = e.no /\ r.kind = "policy_evaluated" /\ r.verdict = "allow"

\* One debt, one payment link, one accepted send of a kind, for the life of
\* the process: two callers that both copied the item before either had the
\* mutex act on a stale handle, and the engine's guard stops the second.
OneAcceptedEffect ==
  \A e, f \in sent :
    e.item = f.item /\ e.action = f.action /\ e.accepted /\ f.accepted => e.no = f.no

\* R1 under parallel callers and lost answers: what a customer was contacted
\* about a debt, the calls whose answer never came included, stays in the cap.
Contacts(i) == {e \in sent : e.item = i /\ e.happened}

CapCountsLostContacts ==
  \A i \in Items : Cardinality(Contacts(i)) <= ParamsFor(Book[i].source).maxTouches

\* R6 for one debt under parallel callers: two notifications that went out are
\* the window apart, the lost ones included, although each of them is judged,
\* sent and committed at three different instants.
Apart(s, t, gap) == s - t >= gap \/ t - s >= gap

SendsSpacedPerDebt ==
  \A e, f \in sent :
    /\ e.item = f.item /\ e.no # f.no
    /\ e.action \in NotifyActions /\ f.action \in NotifyActions
    /\ e.happened /\ f.happened
    => Apart(e.at, f.at, Settings.notifyWindow)

\* R15 under parallel callers: once a promise is logged no request about that
\* debt leaves until its hold ends, not even one that was already judged.
PromiseKept ==
  \A p \in promises, e \in sent :
    e.item = p.item /\ e.at > p.at => e.at >= p.until

\* M5: the gate checks the action budget before the mutex and act spends it
\* after, so parallel callers can pass it together, but by no more than the
\* callers that were past the gate.
BudgetOvershoot == spent <= ActionBudget + Cardinality(Callers) - 1

\* A call that went out is never reported as nothing: its action row says a
\* request was made, or the caller was told of an error.
ContactsReported ==
  \A e \in sent :
    \/ ~e.happened
    \/ \E w \in Callers : call[w].no = e.no
    \/ e.no \in errored
    \/ \E r \in rows : r.no = e.no /\ r.kind = "action_taken" /\ r.reached

\* "Actions are refused until a decision for that item is on the record."
DecisionOnRecord ==
  \A e \in sent : \E r \in rows : r.kind = "decision_recorded" /\ r.item = e.item

\* "sideEffect reports that a call to Razorpay was made."
SideEffectIsACall ==
  \A r \in rows : r.reached => \E e \in sent : e.no = r.no

\* Every call a client makes is answered, the ones that queue for the mutex
\* included: no failure on the way keeps it.
EveryCallAnswered == \A w \in Callers : call[w].pc # "idle" ~> call[w].pc = "idle"
=============================================================================
