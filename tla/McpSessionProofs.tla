--------------------------- MODULE McpSessionProofs ---------------------------
(***************************************************************************)
(* What holds of the tool server and of an invocation of rzp-mcp around it *)
(* for every book, every set of callers and calls, and every setting of    *)
(* the gate.                                                               *)
(*                                                                         *)
(* The argument for the server is the mutex.  Between the policy's verdict *)
(* on an action and the count of it nobody else judges, acts or counts, so *)
(* what the policy read still holds when the request leaves and when the   *)
(* store takes it.  Two things are read or written outside the mutex, the  *)
(* copy of the item and the gate's look at the budget: the guard of the    *)
(* engine answers for the first, the number of callers bounds the second.  *)
(*                                                                         *)
(* An invocation keeps all that, and its outcome row says what the ledger  *)
(* says.  The row is made of a tally that is written beside the ledger,    *)
(* once for every action row that went down.  That its verdict is the one  *)
(* behind what was done, although a later call can overwrite it, rests on  *)
(* the rules: all that is let through for one item is let through under    *)
(* one verdict.                                                            *)
(***************************************************************************)
EXTENDS McpSession, FiniteSetTheorems, WellFoundedInduction, TLAPS

-----------------------------------------------------------------------------
(* The tool server.                                                        *)

\* An invocation files rows of its own beside those of the calls.
FilesBeside ==
  /\ \/ \E i \in Items, kind \in {"classified", "outcome_observed"} :
          Written(Row(kind, 0, [NoRequest EXCEPT !.item = i], "none", FALSE))
     \/ NotWritten
  /\ UNCHANGED <<session, now, calls, handle, holder, books, call, errored, sent>>

ServerStep == Next \/ FilesBeside

-----------------------------------------------------------------------------
(* The inductive invariant.                                                *)

\* The stages of an action that has the mutex.
Held == {"apply", "refuse", "settle"}

\* Who is past the lookup has an item and a call of its own, and who acts has
\* the mutex.
CallsInOrder ==
  \A w \in Callers :
    /\ call[w].pc # "idle" => call[w].req \in Requests /\ call[w].no \in 1..calls
    /\ call[w].pc = "idle" => call[w].no = 0
    /\ call[w].pc \in {"waiting", "apply", "refuse", "settle"} =>
         call[w].req.item \in Items /\ call[w].req.tool \in ActionTools
    /\ call[w].pc = "handler" /\ call[w].req.tool \in ActionTools =>
         call[w].req.item \in Items
    /\ call[w].pc \in Held <=> holder = w

\* No two calls under way have one number.
NumbersDiffer ==
  \A w, v \in Callers : call[w].no = call[v].no /\ call[w].pc # "idle" => w = v

\* An action that is let through has its verdict on the ledger, and it is an
\* allow for everything but an escalation.
Judged ==
  \A w \in Callers :
    call[w].pc \in {"apply", "settle"} =>
      /\ call[w].verdict = "allow" \/ call[w].req.action = "escalate"
      /\ \E r \in rows : /\ r.no = call[w].no /\ r.kind = "policy_evaluated"
                         /\ r.verdict = call[w].verdict

\* The guard has a slot for every accepted request.
AcceptedIsSealed ==
  \A e \in sent : e.accepted => << <<e.item>>, e.action >> \in slots

\* The action calls that the gate let in and nobody has charged yet.
Uncharged == {w \in Callers : call[w].pc \in {"handler", "waiting"}
                               /\ call[w].req.tool \in ActionTools}

ChargedInTime ==
  spent + Cardinality(Uncharged) <= ActionBudget + Cardinality(Callers) - 1

Cap(i) == ParamsFor(Book[i].source).maxTouches

\* The contact that is made and not counted yet.
Uncounted(i) ==
  {w \in Callers : call[w].pc = "settle" /\ call[w].req.item = i /\ ReachedGateway(call[w])}

\* The contacts of a debt are counted, and an action that is let through still
\* has the room the policy saw.
ContactsCounted ==
  /\ \A i \in Items : touched[i] <= Cap(i)
  /\ \A w \in Callers :
       call[w].pc \in {"apply", "settle"} /\ call[w].req.action \in ContactActions =>
         touched[call[w].req.item] < Cap(call[w].req.item)
  /\ \A i \in Items :
       /\ IsFiniteSet(Contacts(i))
       /\ Uncounted(i) = {} => Cardinality(Contacts(i)) <= touched[i]
       /\ Cardinality(Contacts(i)) <= touched[i] + 1

\* A promise is as old as it says, and an action that is let through waits for none.
PromisesPast ==
  /\ \A p \in promises : p.at <= now /\ p.until = p.at + PromiseHold
  /\ \A e \in sent : e.at <= now
  /\ \A w \in Callers, p \in promises :
       call[w].pc = "apply" /\ call[w].req.action \in ContactActions
         /\ p.item = call[w].req.item => p.until <= now

\* What went out is on the notify clock of its debt, or its caller is about to
\* put it there with a key the store has not seen.
ClockCovers ==
  /\ \A w \in Callers :
       call[w].pc \in {"apply", "settle"} /\ call[w].req.action \in NotifyActions =>
         call[w].key \notin store.keys
  /\ \A w \in Callers :
       call[w].pc = "apply" /\ call[w].req.action \in NotifyActions =>
         ~Within(now, store.debt[call[w].req.item].lastNotify, Settings.notifyWindow)
  /\ \A i \in Items : store.debt[i].lastNotify <= now
  /\ \A e \in sent :
       e.happened /\ e.action \in NotifyActions =>
         /\ e.at > 0
         /\ \/ e.at <= store.debt[e.item].lastNotify
            \/ \E w \in Callers :
                 /\ call[w].pc = "settle" /\ call[w].req.item = e.item
                 /\ call[w].req.action \in NotifyActions /\ ReachedGateway(call[w])

\* A request belongs to one call, and while that call is under way it is in its
\* last stage and knows that it reached the gateway.
SentIsSettled ==
  \A e \in sent, w \in Callers :
    call[w].no = e.no => /\ call[w].pc = "settle"
                         /\ e.happened => ReachedGateway(call[w])

ServerInv ==
  /\ TypeOK /\ now > 0 /\ CallsInOrder /\ NumbersDiffer /\ Judged /\ VerdictOnRecord
  /\ AcceptedIsSealed /\ OneAcceptedEffect /\ ChargedInTime
  /\ ContactsCounted /\ PromisesPast /\ PromiseKept
  /\ ClockCovers /\ SendsSpacedPerDebt /\ SentIsSettled /\ ContactsReported

-----------------------------------------------------------------------------
(* The types.                                                              *)

\* What the assumption says of the constants, a few at a time.
LEMMA BookFact == \A i \in Items : Book[i] \in ItemRecord /\ i \in STRING /\ i # ""
<1>1. Book \in [Items -> ItemRecord] /\ Items \subseteq STRING \ {""}
  BY ServerAssumption
<1>. QED BY <1>1

LEMMA RequestFact == Requests \subseteq Request
  BY ServerAssumption

LEMMA EscalateFact ==
  \A req \in Requests : req.tool = "escalate_item" => req.action = "escalate"
  BY ServerAssumption

LEMMA CallersFact == IsFiniteSet(Callers) /\ Nobody \notin Callers
  BY ServerAssumption

LEMMA NumbersFact ==
  /\ ActionBudget \in Nat \ {0} /\ PromiseHold \in Nat \ {0} /\ StartTime \in Nat \ {0}
  /\ MaxLost \in Nat /\ MaxTime \in Nat
  BY ServerAssumption

\* A debt's cap is a number of contacts.
LEMMA CapType ==
  ASSUME NEW i \in Items
  PROVE  Cap(i) \in Nat
<1> DEFINE source == Book[i].source
           row == IF source \in DOMAIN SourceTable THEN SourceTable[source]
                  ELSE [grace |-> 0, requiresSignal |-> FALSE,
                        maxTouches |-> Defaults.maxTouches,
                        cooldown   |-> Defaults.cooldown]
<1>1. Settings.maxTouches \in Int
  BY PolicyAssumption DEF Settings, WithDefaults, OrDefault
<1>2. row \in [grace : Nat, maxTouches : Nat, cooldown : Int, requiresSignal : BOOLEAN]
  BY PolicyAssumption
<1>3. ParamsFor(source) = [row EXCEPT !.maxTouches = OrDefault(Settings.maxTouches, @),
                                      !.cooldown   = OrDefault(Settings.cooldown, @)]
  BY DEF ParamsFor
<1> HIDE DEF row
<1>4. ParamsFor(source).maxTouches = OrDefault(Settings.maxTouches, row.maxTouches)
  BY <1>2, <1>3
<1>. QED
  BY <1>1, <1>2, <1>4 DEF Cap, OrDefault

LEMMA WindowType == Settings.notifyWindow \in Int
  BY PolicyAssumption DEF Settings, WithDefaults, OrDefault

\* The policy answers one of its verdicts, with the key of the request.
LEMMA EvaluateType ==
  ASSUME NEW s, NEW q, NEW t
  PROVE  /\ Evaluate(s, q, t).verdict \in Verdicts
         /\ Evaluate(s, q, t).key = <<q.item, q.action, q.touchNo>>
  BY DEF Evaluate, Verdicts, IdempotencyKey

\* A caller whose record is replaced leaves the others alone.
LEMMA CallWritten ==
  ASSUME call \in [Callers -> CallType], NEW w \in Callers, NEW c \in CallType,
         call' = [call EXCEPT ![w] = c]
  PROVE  /\ call' \in [Callers -> CallType]
         /\ call'[w] = c
         /\ \A v \in Callers \ {w} : call'[v] = call[v]
  OBVIOUS

LEMMA IdleType == Idle \in CallType
  BY DEF Idle, CallType, NoRequest, LawfulActions, SafeActions

LEMMA RequestsType ==
  ASSUME NEW req \in Requests
  PROVE  req.item \in STRING /\ req.action \in LawfulActions
<1>1. ASSUME NEW r \in Request PROVE r.item \in STRING /\ r.action \in LawfulActions
  BY DEF Request
<1>. QED BY <1>1, RequestFact

\* The rows that can be filed while n calls were made.
RowOf(n) ==
  [kind : {"tool_call", "decision_recorded", "policy_evaluated", "action_taken",
           "action_skipped", "intervention_applied", "escalation_raised",
           "promise_logged", "classified", "outcome_observed"},
   no : 0..n, item : STRING, action : LawfulActions,
   verdict : Verdicts \cup {"none"}, reached : BOOLEAN]

\* The ledger keeps its type: a row is about a call that was made.
LEMMA RowsType ==
  ASSUME rows \subseteq RowType, lost \in 0..MaxLost, calls \in Nat, calls' \in Nat,
         calls <= calls',
         (\E row \in RowOf(calls') : Written(row)) \/ NotWritten \/ UNCHANGED ledgerFile
  PROVE  rows' \subseteq RowType' /\ lost' \in 0..MaxLost
<1>1. RowType \subseteq RowType' /\ RowType' = RowOf(calls')
  <2>1. 0..calls \subseteq 0..calls'
    OBVIOUS
  <2>. QED BY <2>1 DEF RowType, RowOf
<1>3. CASE \E row \in RowOf(calls') : Written(row)
  BY <1>1, <1>3 DEF Written
<1>4. CASE NotWritten
  BY <1>1, <1>4, NumbersFact DEF NotWritten
<1>5. CASE UNCHANGED ledgerFile
  BY <1>1, <1>5 DEF ledgerFile
<1>. QED BY <1>3, <1>4, <1>5

\* The rows of a call that is under way are rows.
LEMMA RecordedType ==
  ASSUME TypeOK, CallsInOrder, UNCHANGED calls, NEW w \in Callers, call[w].pc # "idle",
         NEW kind \in {"decision_recorded", "policy_evaluated", "action_taken",
           "action_skipped", "intervention_applied", "escalation_raised", "promise_logged"},
         NEW verdict \in Verdicts \cup {"none"}, NEW reached \in BOOLEAN,
         Recorded(w, kind, verdict, reached) \/ NotWritten
  PROVE  rows' \subseteq RowType' /\ lost' \in 0..MaxLost
<1>1. call[w].req \in Requests /\ call[w].no \in 1..calls
  BY DEF CallsInOrder
<1>2. call[w].req.item \in STRING /\ call[w].req.action \in LawfulActions
  BY <1>1, RequestsType
<1> DEFINE row == Row(kind, call[w].no, call[w].req, verdict, reached)
<1>3. calls \in Nat /\ call[w].no \in 0..calls'
  BY <1>1 DEF TypeOK
<1>4. row \in RowOf(calls')
  BY <1>2, <1>3 DEF Row, RowOf
<1>5. Written(row) \/ NotWritten
  BY DEF Recorded
<1>6. rows \subseteq RowType /\ lost \in 0..MaxLost
  BY DEF TypeOK
<1> HIDE DEF row
<1>. QED BY <1>3, <1>4, <1>5, <1>6, RowsType

LEMMA FinishedType ==
  ASSUME TypeOK, CallsInOrder, UNCHANGED calls, NEW w \in Callers, call[w].pc # "idle",
         Finish(w)
  PROVE  rows' \subseteq RowType' /\ lost' \in 0..MaxLost
<1>1. call[w].verdict \in Verdicts \cup {"none"} /\ call[w].accepted \in BOOLEAN
      /\ call[w].failed \in BOOLEAN
  BY DEF TypeOK, CallType
<1>2. ReachedGateway(call[w]) \in BOOLEAN
  BY <1>1 DEF ReachedGateway
<1>3. ActionKind(call[w]) \in {"action_taken", "action_skipped"}
  BY DEF ActionKind
<1>4. Recorded(w, ActionKind(call[w]), call[w].verdict, ReachedGateway(call[w])) \/ NotWritten
  BY DEF Finish
<1>. QED BY <1>1, <1>2, <1>3, <1>4, RecordedType

-----------------------------------------------------------------------------
(* Types and order.                                                        *)

LEMMA InitServer == Init => ServerInv
<1>. SUFFICES ASSUME Init PROVE ServerInv
  OBVIOUS
<1>1. \A w \in Callers : call[w] = Idle /\ call[w].pc = "idle" /\ call[w].no = 0
  BY DEF Init, Idle
<1>2. now \in Nat /\ now > 0
  BY NumbersFact DEF Init
<1>3. TypeOK
  <2>1. engaged \in BOOLEAN
    <3>1. PICK file \in SwitchFiles : engaged = KillSwitchFile(file).engaged
      BY DEF Init
    <3>2. file \in {"present", "missing", "unreadable"}
      BY ServerAssumption
    <3>. QED BY <3>1, <3>2 DEF KillSwitchFile
  <2>2. handle \in [Items -> {"none", "invoice", "payment_link"}]
    <3>1. \A i \in Items : Book[i].handle \in {"none", "invoice", "payment_link"}
      BY BookFact DEF ItemRecord
    <3>. QED BY <3>1 DEF Init
  <2>3. store \in StoreType(Items, Keys)
    BY DEF Init, NewStore, StoreType, Untouched
  <2>4. call \in [Callers -> CallType]
    BY IdleType DEF Init
  <2>. QED BY <1>2, <2>1, <2>2, <2>3, <2>4, NumbersFact DEF Init, TypeOK
<1>4. CallsInOrder /\ NumbersDiffer /\ Judged
  BY <1>1, CallersFact DEF Init, CallsInOrder, NumbersDiffer, Judged, Held
<1>5. VerdictOnRecord /\ AcceptedIsSealed /\ OneAcceptedEffect /\ PromiseKept
      /\ SendsSpacedPerDebt /\ SentIsSettled /\ ContactsReported
  BY DEF Init, VerdictOnRecord, AcceptedIsSealed, OneAcceptedEffect, PromiseKept,
         SendsSpacedPerDebt, SentIsSettled, ContactsReported
<1>6. ContactsCounted
  <2>1. \A i \in Items : Contacts(i) = {} /\ touched[i] = 0
    BY DEF Init, Contacts
  <2>. QED BY <1>1, <2>1, CapType, FS_EmptySet DEF ContactsCounted
<1>7. PromisesPast
  BY <1>1 DEF Init, PromisesPast
<1>8. ClockCovers
  <2>1. \A i \in Items : store.debt[i].lastNotify = 0
    BY DEF Init, NewStore, Untouched
  <2>2. sent = {}
    BY DEF Init
  <2>. QED BY <1>1, <1>2, <2>1, <2>2 DEF ClockCovers
<1>9. ChargedInTime
  <2>1. Uncharged = {} /\ spent = 0
    BY <1>1 DEF Init, Uncharged
  <2>2. Cardinality(Callers) \in Nat
    BY CallersFact, FS_CardinalityType
  <2>. QED BY <2>1, <2>2, FS_EmptySet, NumbersFact DEF ChargedInTime
<1>. QED BY <1>2, <1>3, <1>4, <1>5, <1>6, <1>7, <1>8, <1>9 DEF ServerInv

\* What an Apply can come back with.
LEMMA OutcomeType ==
  ASSUME NEW it, NEW action, NEW answer
  PROVE  LET out == Dispatch(it, action, answer)
         IN /\ out.accepted \in BOOLEAN /\ out.effect \in BOOLEAN /\ out.failed \in BOOLEAN
            /\ out.attempted \in BOOLEAN /\ out.action = action
<1> DEFINE called == Attempted(it, action)
           good == answer \in {"ok", "unread", "silent"}
<1>1. called \in BOOLEAN
  BY DEF Attempted
<1>2. good \in BOOLEAN
  OBVIOUS
<1>3. (IF called THEN good ELSE action = "do_nothing") \in BOOLEAN
  BY <1>2
<1>4. (called /\ answer \in {"failed", "lost"}) \in BOOLEAN
      /\ (called /\ (good \/ answer = "lost")) \in BOOLEAN
  OBVIOUS
<1>5. LET out == Dispatch(it, action, answer)
      IN /\ out.accepted = IF called THEN good ELSE action = "do_nothing"
         /\ out.failed = (called /\ answer \in {"failed", "lost"})
         /\ out.effect = (called /\ (good \/ answer = "lost"))
         /\ out.attempted = called /\ out.action = action
  BY DEF Dispatch
<1> HIDE DEF called, good
<1>. QED BY <1>1, <1>3, <1>4, <1>5

\* A record of a store's shape, with all its fields written.
LEMMA FieldsWritten ==
  ASSUME NEW A, NEW B, NEW C, NEW st \in [debt : A, keys : B, actions : C],
         NEW a \in A, NEW b \in B, NEW c \in C
  PROVE  LET w == [st EXCEPT !.keys = b, !.actions = c, !.debt = a]
         IN w \in [debt : A, keys : B, actions : C] /\ w.debt = a /\ w.keys = b
OBVIOUS

\* Commit of a notification.
Notified(st, i, key, t) == Commit(st, i, key, TRUE, t)

LEMMA NotifiedType ==
  ASSUME NEW st \in StoreType(Items, Keys), NEW i \in Items, NEW key \in Keys \cup {NoKey},
         NEW t \in Nat
  PROVE  Notified(st, i, key, t) \in StoreType(Items, Keys)
<1> DEFINE keys == st.keys \cup ({key} \ {NoKey})
           debt == [st.debt EXCEPT ![i].lastAction = t, ![i].lastNotify = t,
                                   ![i].attempts = st.debt[i].attempts]
<1>1. /\ st.keys \in SUBSET Keys /\ st.actions \in Nat
      /\ st.debt \in [Items -> [attempts : Nat, lastAction : Nat, lastNotify : Nat]]
  BY DEF StoreType
<1>2. debt \in [Items -> [attempts : Nat, lastAction : Nat, lastNotify : Nat]]
  BY <1>1
<1>3. Notified(st, i, key, t) \in
        {st, [st EXCEPT !.keys = keys, !.actions = st.actions + 1, !.debt = debt]}
  BY <1>1 DEF Notified, Commit, StoreType
<1> HIDE DEF debt
<1>4. keys \in SUBSET Keys /\ st.actions + 1 \in Nat
  BY <1>1
<1> HIDE DEF keys
<1>5. [st EXCEPT !.keys = keys, !.actions = st.actions + 1, !.debt = debt]
        \in StoreType(Items, Keys)
  BY <1>2, <1>4, FieldsWritten DEF StoreType
<1>. QED BY <1>3, <1>5

\* A notification that is committed with a key the store has not seen is on the
\* clock of its debt, and on no other.
LEMMA NotifiedClock ==
  ASSUME NEW st \in StoreType(Items, Keys), NEW i \in Items, NEW key, NEW t \in Nat,
         key \notin st.keys
  PROVE  \A j \in Items : Notified(st, i, key, t).debt[j].lastNotify =
                            IF j = i THEN t ELSE st.debt[j].lastNotify
<1>1. /\ st.debt \in [Items -> [attempts : Nat, lastAction : Nat, lastNotify : Nat]]
      /\ st = [debt |-> st.debt, keys |-> st.keys, actions |-> st.actions]
  BY DEF StoreType
<1>. QED BY <1>1 DEF Notified, Commit

\* Only what a step touches can lose its type.
LEMMA StepTypes == TypeOK /\ CallsInOrder /\ [ServerStep]_vars => TypeOK'
<1>. SUFFICES ASSUME TypeOK, CallsInOrder, [ServerStep]_vars PROVE TypeOK'
  OBVIOUS
<1> USE DEF session, books, ledgerFile
<1>1. CASE Tick
  BY <1>1 DEF Tick, TypeOK, RowType
<1>2. CASE FilesBeside
  <2>1. (\E row \in RowOf(calls') : Written(row)) \/ NotWritten
    <3>1. ASSUME NEW i \in STRING, NEW kind \in {"classified", "outcome_observed"}
          PROVE  Row(kind, 0, [NoRequest EXCEPT !.item = i], "none", FALSE) \in RowOf(calls')
      BY <1>2 DEF Row, RowOf, NoRequest, LawfulActions, SafeActions, FilesBeside, TypeOK
    <3>2. \A i \in Items : i \in STRING
      BY BookFact
    <3>. QED BY <1>2, <3>1, <3>2 DEF FilesBeside
  <2>2. calls' = calls /\ calls \in Nat
    BY <1>2 DEF FilesBeside, TypeOK
  <2>3. rows \subseteq RowType /\ lost \in 0..MaxLost
    BY DEF TypeOK
  <2>4. rows' \subseteq RowType' /\ lost' \in 0..MaxLost
    BY <2>1, <2>2, <2>3, RowsType
  <2>. QED BY <1>2, <2>4 DEF FilesBeside, TypeOK
<1>3. ASSUME NEW w \in Callers, NEW req \in Requests, Gate(w, req) PROVE TypeOK'
  <2>1. calls' = calls + 1 /\ calls \in Nat /\ calls' \in Nat
    BY <1>3 DEF Gate, TypeOK
  <2>2. call' \in [Callers -> CallType]
    <3>1. [Idle EXCEPT !.pc = "handler", !.no = calls + 1, !.req = req] \in CallType
      BY <2>1, IdleType DEF CallType, Idle
    <3>. QED BY <1>3, <3>1 DEF Gate, TypeOK
  <2>3. errored' \subseteq 1..calls'
    <3>1. errored' \in {errored, errored \cup {calls + 1}}
      BY <1>3 DEF Gate
    <3>2. errored \subseteq 1..calls
      BY DEF TypeOK
    <3>. QED BY <2>1, <3>1, <3>2
  <2>4. rows' \subseteq RowType' /\ lost' \in 0..MaxLost
    <3> DEFINE verdict == IF Admits(req) THEN "allow" ELSE "deny"
               row == Row("tool_call", calls + 1, req, verdict, FALSE)
    <3>1. Written(row) \/ NotWritten
      BY <1>3 DEF Gate
    <3>2. row \in RowOf(calls')
      BY <2>1, RequestsType DEF Row, RowOf, Verdicts
    <3>3. rows \subseteq RowType /\ lost \in 0..MaxLost
      BY DEF TypeOK
    <3> HIDE DEF row
    <3>. QED BY <2>1, <3>1, <3>2, <3>3, RowsType
  <2>5. sent \subseteq [no : 1..calls', item : Items, action : ContactActions,
                        at : Nat, accepted : BOOLEAN, happened : BOOLEAN]
    <3>1. 1..calls \subseteq 1..calls'
      BY <2>1
    <3>. QED BY <3>1 DEF TypeOK
  <2>. QED BY <1>3, <2>1, <2>2, <2>3, <2>4, <2>5 DEF Gate, TypeOK
<1>4. ASSUME NEW w \in Callers, RecordDecision(w) PROVE TypeOK'
  <2>1. call' \in [Callers -> CallType] /\ calls' = calls
    <3>1. call[w] \in CallType /\ call \in [Callers -> CallType]
      BY DEF TypeOK
    <3>2. [call[w] EXCEPT !.pc = "decided"] \in CallType
      BY <3>1 DEF CallType
    <3>3. \/ call' = [call EXCEPT ![w] = [call[w] EXCEPT !.pc = "decided"]]
          \/ call' = [call EXCEPT ![w] = Idle]
      BY <1>4 DEF RecordDecision, Fail
    <3>. QED BY <1>4, <3>1, <3>2, <3>3, IdleType DEF RecordDecision
  <2>2. call[w].no \in 1..calls
    BY <1>4 DEF RecordDecision, CallsInOrder, At
  <2>3. errored' \subseteq 1..calls /\ decided' \subseteq Items
    BY <1>4, <2>2 DEF RecordDecision, Fail, TypeOK
  <2>4. RowType' = RowType
    BY <2>1 DEF RowType
  <2>. QED BY <1>4, <2>1, <2>3, <2>4 DEF RecordDecision, TypeOK
<1>5. ASSUME NEW w \in Callers, WriteDecision(w) PROVE TypeOK'
  <2>1. call' \in [Callers -> CallType] /\ calls' = calls
    BY <1>5, IdleType DEF WriteDecision, TypeOK, Fail, Answer
  <2>2. call[w].no \in 1..calls /\ call[w].pc # "idle"
    BY <1>5 DEF WriteDecision, CallsInOrder, At
  <2>3. errored' \subseteq 1..calls
    BY <1>5, <2>2 DEF WriteDecision, Fail, Answer, TypeOK
  <2>4. rows' \subseteq RowType' /\ lost' \in 0..MaxLost
    BY <1>5, <2>1, <2>2, RecordedType DEF WriteDecision
  <2>. QED BY <1>5, <2>1, <2>3, <2>4 DEF WriteDecision, TypeOK
<1>6. ASSUME NEW w \in Callers, Lookup(w) PROVE TypeOK'
  <2>2. call[w].no \in 1..calls /\ call[w].pc = "handler" /\ call[w].req.item \in Items
    BY <1>6 DEF Lookup, CallsInOrder, At
  <2>1. call' \in [Callers -> CallType] /\ calls' = calls
    <3>1. call[w] \in CallType /\ call \in [Callers -> CallType]
          /\ handle[call[w].req.item] \in {"none", "invoice", "payment_link"}
      BY <2>2 DEF TypeOK
    <3> DEFINE c == [call[w] EXCEPT !.pc = "waiting", !.handle = handle[call[w].req.item]]
    <3>2. c \in CallType
      BY <3>1 DEF CallType
    <3>3. call' = [call EXCEPT ![w] = c] \/ call' = [call EXCEPT ![w] = Idle]
      BY <1>6, <3>1 DEF Lookup, Fail
    <3> HIDE DEF c
    <3>. QED BY <1>6, <3>1, <3>2, <3>3, IdleType DEF Lookup
  <2>3. errored' \subseteq 1..calls
    BY <1>6, <2>2 DEF Lookup, Fail, TypeOK
  <2>4. RowType' = RowType
    BY <2>1 DEF RowType
  <2>. QED BY <1>6, <2>1, <2>3, <2>4 DEF Lookup, TypeOK
<1>7. ASSUME NEW w \in Callers, Enter(w) PROVE TypeOK'
  <2>2. call[w].no \in 1..calls /\ call[w].pc = "waiting" /\ call[w].req.item \in Items
        /\ call[w].req \in Requests /\ call[w] \in CallType
    BY <1>7 DEF Enter, CallsInOrder, At, TypeOK
  <2>3. Decide(w).verdict \in Verdicts /\ Decide(w).key \in Keys
    <3> DEFINE i == call[w].req.item
               action == call[w].req.action
    <3>1. Decide(w).key = <<i, action, TouchNo(i)>> /\ Decide(w).verdict \in Verdicts
      BY EvaluateType DEF Decide, RequestFromClassified
    <3>2. TouchNo(i) \in Nat \ {0}
      BY <2>2 DEF TouchNo, TypeOK
    <3>. QED BY <2>2, <3>1, <3>2, RequestsType DEF Keys
  <2>1. call' \in [Callers -> CallType] /\ calls' = calls
    <3>1. call[w] \in CallType /\ call \in [Callers -> CallType]
      BY DEF TypeOK
    <3> DEFINE c(pc) == [call[w] EXCEPT !.pc = pc, !.verdict = Decide(w).verdict,
                                        !.key = Decide(w).key]
    <3>2. c("apply") \in CallType /\ c("refuse") \in CallType
      BY <2>3, <3>1 DEF CallType
    <3>3. \/ call' = [call EXCEPT ![w] = c("apply")]
          \/ call' = [call EXCEPT ![w] = c("refuse")]
          \/ call' = [call EXCEPT ![w] = Idle]
      BY <1>7, <3>1 DEF Enter, Fail
    <3> HIDE DEF c
    <3>. QED BY <1>7, <3>1, <3>2, <3>3, IdleType DEF Enter
  <2>4. errored' \subseteq 1..calls
    BY <1>7, <2>2 DEF Enter, Fail, TypeOK
  <2>5. rows' \subseteq RowType' /\ lost' \in 0..MaxLost
    BY <1>7, <2>1, <2>2, <2>3, RecordedType DEF Enter
  <2>6. spent' \in Nat
    <3>1. spent' \in {spent, spent + 1}
      BY <1>7 DEF Enter, Charged
    <3>. QED BY <3>1 DEF TypeOK
  <2>7. holder' \in Callers \cup {Nobody}
    BY <1>7 DEF Enter, TypeOK
  <2>. QED BY <1>7, <2>1, <2>4, <2>5, <2>6, <2>7 DEF Enter, TypeOK
<1>8. ASSUME NEW w \in Callers, Refuse(w) PROVE TypeOK'
  <2>2. call[w].no \in 1..calls /\ call[w].pc # "idle" /\ call[w] \in CallType
    BY <1>8 DEF Refuse, CallsInOrder, At, TypeOK
  <2>1. call' \in [Callers -> CallType] /\ calls' = calls
    BY <1>8, IdleType DEF Refuse, Finish, TypeOK, Fail, Answer
  <2>3. errored' \subseteq 1..calls
    BY <1>8, <2>2 DEF Refuse, Finish, Fail, Answer, TypeOK
  <2>4. rows' \subseteq RowType' /\ lost' \in 0..MaxLost
    BY <1>8, <2>1, <2>2, FinishedType DEF Refuse
  <2>. QED BY <1>8, <2>1, <2>3, <2>4 DEF Refuse, Release, TypeOK
<1>9. ASSUME NEW w \in Callers, Apply(w) PROVE TypeOK'
  <2> DEFINE i == call[w].req.item
             action == call[w].req.action
             slot == GuardKey(<<>>, i, action)
             replay == slot \in slots
  <2>2. /\ call[w].no \in 1..calls /\ call[w].pc # "idle" /\ call[w] \in CallType
        /\ i \in Items /\ call[w].req \in Requests /\ action \in LawfulActions
    BY <1>9, RequestsType DEF Apply, CallsInOrder, At, TypeOK
  <2>3. PICK answer \in AnswersTo(Seen(w), action), written \in BOOLEAN :
          LET out == Dispatch(Seen(w), action, answer)
              reaches == ~replay /\ out.attempted
          IN /\ slots' = IF ~replay /\ Seals(out) THEN slots \cup {slot} ELSE slots
             /\ sent' = IF reaches /\ action \in ContactActions
                          THEN sent \cup {[no |-> call[w].no, item |-> i, action |-> action,
                                           at |-> now, accepted |-> out.accepted,
                                           happened |-> out.effect]}
                          ELSE sent
             /\ promises' = IF reaches /\ action = "log_promise" /\ out.effect
                              THEN promises \cup {[item |-> i, at |-> now,
                                                   until |-> now + PromiseHold]}
                              ELSE promises
             /\ IF written
                  THEN Recorded(w, EventKind(out, out.attempted, replay), "none", FALSE)
                  ELSE NotWritten
             /\ call' = [call EXCEPT ![w].pc = "settle",
                           ![w].accepted = replay \/ out.accepted,
                           ![w].failed = (~replay /\ out.failed) \/ ~written]
    BY <1>9 DEF Apply
  <2> DEFINE out == Dispatch(Seen(w), action, answer)
  <2>4. out.accepted \in BOOLEAN /\ out.effect \in BOOLEAN /\ out.failed \in BOOLEAN
    BY OutcomeType
  <2>1. call' \in [Callers -> CallType] /\ calls' = calls
    <3> DEFINE c == [call[w] EXCEPT !.pc = "settle", !.accepted = replay \/ out.accepted,
                                    !.failed = (~replay /\ out.failed) \/ ~written]
    <3>1. call \in [Callers -> CallType]
      BY DEF TypeOK
    <3>2. /\ (replay \/ out.accepted) \in BOOLEAN
          /\ ((~replay /\ out.failed) \/ ~written) \in BOOLEAN
      OBVIOUS
    <3>3. c \in CallType
      BY <2>2, <3>2 DEF CallType
    <3>4. call' = [call EXCEPT ![w] = c]
      BY <2>2, <2>3, <3>1
    <3> HIDE DEF c
    <3>. QED BY <1>9, <3>1, <3>3, <3>4 DEF Apply
  <2>5. slots' \subseteq {<<j>> : j \in Items} \X LawfulActions
    <3>1. slot \in {<<j>> : j \in Items} \X LawfulActions
      BY <2>2 DEF GuardKey
    <3>2. slots' \subseteq slots \cup {slot}
      BY <2>3
    <3>. QED BY <3>1, <3>2 DEF TypeOK
  <2>6. sent' \subseteq [no : 1..calls', item : Items, action : ContactActions,
                        at : Nat, accepted : BOOLEAN, happened : BOOLEAN]
    BY <2>1, <2>2, <2>3, <2>4 DEF TypeOK
  <2>7. promises' \subseteq [item : Items, at : Nat, until : Nat]
    <3>1. now \in Nat /\ now + PromiseHold \in Nat
      BY NumbersFact DEF TypeOK
    <3>. QED BY <2>2, <2>3, <3>1 DEF TypeOK
  <2>8. rows' \subseteq RowType' /\ lost' \in 0..MaxLost
    <3>1. EventKind(out, out.attempted, replay) \in {"action_skipped", "escalation_raised",
                                                      "promise_logged", "intervention_applied"}
      BY DEF EventKind
    <3>2. Recorded(w, EventKind(out, out.attempted, replay), "none", FALSE) \/ NotWritten
      BY <2>3
    <3> HIDE DEF out, replay
    <3>. QED BY <2>1, <2>2, <3>1, <3>2, RecordedType
  <2>. QED BY <1>9, <2>1, <2>5, <2>6, <2>7, <2>8 DEF Apply, TypeOK
<1>10. ASSUME NEW w \in Callers, Settle(w) PROVE TypeOK'
  <2> DEFINE i == call[w].req.item
  <2>2. /\ call[w].no \in 1..calls /\ call[w].pc # "idle" /\ call[w] \in CallType
        /\ i \in Items /\ now \in Nat
    BY <1>10 DEF Settle, CallsInOrder, At, TypeOK
  <2>1. call' \in [Callers -> CallType] /\ calls' = calls
    BY <1>10, IdleType DEF Settle, Finish, TypeOK, Fail, Answer
  <2>3. errored' \subseteq 1..calls
    BY <1>10, <2>2 DEF Settle, Finish, Fail, Answer, TypeOK
  <2>4. rows' \subseteq RowType' /\ lost' \in 0..MaxLost
    BY <1>10, <2>1, <2>2, FinishedType DEF Settle
  <2>5. handle' \in [Items -> {"none", "invoice", "payment_link"}]
    BY <1>10, <2>2 DEF Settle, TypeOK
  <2>6. touched' \in [Items -> Nat]
    BY <1>10, <2>2 DEF Settle, TypeOK
  <2>7. store' \in StoreType(Items, Keys)
    <3>1. store' = store \/ store' = Notified(store, i, call[w].key, now)
      BY <1>10 DEF Settle, Notified
    <3>2. store \in StoreType(Items, Keys) /\ call[w].key \in Keys \cup {NoKey}
      BY <2>2 DEF TypeOK, CallType, NoKey
    <3>. QED BY <2>2, <3>1, <3>2, NotifiedType
  <2>8. holder' \in Callers \cup {Nobody}
    BY <1>10 DEF Settle, Release
  <2>. QED BY <1>10, <2>1, <2>3, <2>4, <2>5, <2>6, <2>7, <2>8 DEF Settle, TypeOK
<1>11. CASE UNCHANGED vars
  BY <1>11 DEF vars, TypeOK, RowType
<1>. QED
  BY <1>1, <1>2, <1>3, <1>4, <1>5, <1>6, <1>7, <1>8, <1>9, <1>10, <1>11
     DEF ServerStep, Next, Serve

-----------------------------------------------------------------------------
(* Calls keep their number and their place, and the mutex its owner.       *)

\* The stages a call goes through.
Onward == {<<"handler", "decided">>, <<"handler", "waiting">>, <<"waiting", "apply">>,
           <<"waiting", "refuse">>, <<"apply", "settle">>}

\* A step of a call moves it one stage on or answers it, and takes or gives
\* back the mutex only for itself.
Moves(w) ==
  /\ calls' = calls /\ call[w].pc # "idle"
  /\ \A v \in Callers \ {w} : call'[v] = call[v]
  /\ \/ call'[w] = Idle
     \/ /\ call'[w].no = call[w].no /\ call'[w].req = call[w].req
        /\ <<call[w].pc, call'[w].pc>> \in Onward
        /\ call'[w].pc = "waiting" => call[w].req.tool \in ActionTools
  /\ \/ holder' = holder /\ (call[w].pc \in Held <=> call'[w].pc \in Held)
     \/ holder = Nobody /\ holder' = w /\ call'[w].pc \in Held
     \/ holder' = Nobody /\ call[w].pc \in Held /\ call'[w] = Idle

LEMMA ApplyWrites ==
  ASSUME call \in [Callers -> CallType], NEW w \in Callers, Apply(w)
  PROVE  \E a, f : call' = [call EXCEPT ![w] = [call[w] EXCEPT !.pc = "settle",
                                              !.accepted = a, !.failed = f]]
<1>1. PICK a, f : call' = [call EXCEPT ![w].pc = "settle", ![w].accepted = a, ![w].failed = f]
  BY DEF Apply
<1>2. call' = [call EXCEPT ![w] = [call[w] EXCEPT !.pc = "settle", !.accepted = a, !.failed = f]]
  BY <1>1
<1>. QED BY <1>2

LEMMA ServeMoves ==
  ASSUME TypeOK, CallsInOrder, NEW w \in Callers, Serve(w)
  PROVE  Moves(w)
<1>1. call[w] \in CallType /\ call \in [Callers -> CallType]
  BY DEF TypeOK
<1>2. Idle.pc = "idle"
  BY DEF Idle
<1> USE DEF Onward, Held, At
<1>3. CASE RecordDecision(w)
  <2>1. \/ call' = [call EXCEPT ![w] = [call[w] EXCEPT !.pc = "decided"]]
        \/ call' = [call EXCEPT ![w] = Idle]
    BY <1>3 DEF RecordDecision, Fail
  <2>. QED BY <1>1, <1>2, <1>3, <2>1 DEF RecordDecision, Moves, CallType
<1>4. CASE WriteDecision(w)
  <2>1. call' = [call EXCEPT ![w] = Idle]
    BY <1>4 DEF WriteDecision, Fail, Answer
  <2>. QED BY <1>1, <1>2, <1>4, <2>1 DEF WriteDecision, Moves
<1>5. CASE Lookup(w)
  <2> DEFINE c == [call[w] EXCEPT !.pc = "waiting", !.handle = handle[call[w].req.item]]
  <2>1. c.pc = "waiting" /\ c.no = call[w].no /\ c.req = call[w].req
    BY <1>1 DEF CallType
  <2>2. call' = [call EXCEPT ![w] = c] \/ call' = [call EXCEPT ![w] = Idle]
    BY <1>1, <1>5 DEF Lookup, Fail
  <2> HIDE DEF c
  <2>. QED BY <1>1, <1>2, <1>5, <2>1, <2>2 DEF Lookup, Moves
<1>6. CASE Enter(w)
  <2> DEFINE c(pc) == [call[w] EXCEPT !.pc = pc, !.verdict = Decide(w).verdict,
                                      !.key = Decide(w).key]
  <2>1. \A pc \in {"apply", "refuse"} :
          c(pc).pc = pc /\ c(pc).no = call[w].no /\ c(pc).req = call[w].req
    BY <1>1 DEF CallType
  <2>2. \/ call' = [call EXCEPT ![w] = c("apply")] /\ holder' = w
        \/ call' = [call EXCEPT ![w] = c("refuse")] /\ holder' = w
        \/ call' = [call EXCEPT ![w] = Idle] /\ holder' = holder
    BY <1>1, <1>6 DEF Enter, Fail
  <2>3. holder = Nobody /\ call[w].pc = "waiting" /\ calls' = calls
    BY <1>6 DEF Enter, Free
  <2> HIDE DEF c
  <2>. QED BY <1>1, <1>2, <2>1, <2>2, <2>3 DEF Moves
<1>7. CASE Refuse(w)
  <2>1. call' = [call EXCEPT ![w] = Idle]
    BY <1>7 DEF Refuse, Finish, Fail, Answer
  <2>. QED BY <1>1, <1>2, <1>7, <2>1 DEF Refuse, Release, Moves
<1>8. CASE Apply(w)
  <2> DEFINE c(a, f) == [call[w] EXCEPT !.pc = "settle", !.accepted = a, !.failed = f]
  <2>1. \A a, f : c(a, f).pc = "settle" /\ c(a, f).no = call[w].no /\ c(a, f).req = call[w].req
    BY <1>1 DEF CallType
  <2>2. \E a, f : call' = [call EXCEPT ![w] = c(a, f)]
    BY <1>1, <1>8, ApplyWrites
  <2> HIDE DEF c
  <2>. QED BY <1>1, <1>8, <2>1, <2>2 DEF Apply, Moves
<1>9. CASE Settle(w)
  <2>1. call' = [call EXCEPT ![w] = Idle]
    BY <1>9 DEF Settle, Finish, Fail, Answer
  <2>. QED BY <1>1, <1>2, <1>9, <2>1 DEF Settle, Release, Moves
<1>. QED BY <1>3, <1>4, <1>5, <1>6, <1>7, <1>8, <1>9 DEF Serve

\* A call that the gate takes in is the latest one.
LEMMA GateMoves ==
  ASSUME TypeOK, CallsInOrder, NEW w \in Callers, NEW req \in Requests, Gate(w, req)
  PROVE  /\ call[w].pc = "idle" /\ calls' = calls + 1 /\ calls \in Nat /\ holder' = holder
         /\ \A v \in Callers \ {w} : call'[v] = call[v]
         /\ \/ call'[w] = call[w]
            \/ /\ call'[w].pc = "handler" /\ call'[w].no = calls + 1 /\ call'[w].req = req
               /\ Admits(req)
<1>1. call \in [Callers -> CallType]
  BY DEF TypeOK
<1> DEFINE c == [Idle EXCEPT !.pc = "handler", !.no = calls + 1, !.req = req]
<1>2. c.pc = "handler" /\ c.no = calls + 1 /\ c.req = req
  BY DEF Idle
<1> HIDE DEF c
<1>3. call' = call \/ (call' = [call EXCEPT ![w] = c] /\ Admits(req))
  BY DEF Gate, c
<1>. QED BY <1>1, <1>2, <1>3 DEF Gate, At, TypeOK

\* What is neither a call nor a step of one leaves the calls alone.
LEMMA StepCases ==
  ASSUME [ServerStep]_vars
  PROVE  \/ \E w \in Callers : Serve(w)
         \/ \E w \in Callers, req \in Requests : Gate(w, req)
         \/ /\ UNCHANGED <<session, calls, handle, holder, books, call, errored, sent>>
            /\ now' = now \/ now' = now + 1
            /\ rows \subseteq rows'
<1> USE DEF session, books, ledgerFile
<1>1. CASE Tick
  BY <1>1 DEF Tick
<1>2. CASE FilesBeside
  BY <1>2 DEF FilesBeside, Written, NotWritten
<1>3. CASE UNCHANGED vars
  BY <1>3 DEF vars
<1>. QED BY <1>1, <1>2, <1>3 DEF ServerStep, Next

LEMMA StepOrder ==
  TypeOK /\ CallsInOrder /\ NumbersDiffer /\ [ServerStep]_vars
    => CallsInOrder' /\ NumbersDiffer'
<1>. SUFFICES ASSUME TypeOK, CallsInOrder, NumbersDiffer, [ServerStep]_vars
              PROVE  CallsInOrder' /\ NumbersDiffer'
  OBVIOUS
<1>0. \A v \in Callers : call[v].no \in 0..calls
  BY DEF CallsInOrder, TypeOK
<1>1. CASE \E w \in Callers : Serve(w)
  <2>1. PICK w \in Callers : Moves(w)
    BY <1>1, ServeMoves
  <2>2. NumbersDiffer'
    BY <2>1 DEF Moves, NumbersDiffer, CallsInOrder, Idle
  <2>3. CallsInOrder'
    BY <2>1, CallersFact DEF Moves, CallsInOrder, Idle, Onward, Held
  <2>. QED BY <2>2, <2>3
<1>2. CASE \E w \in Callers, req \in Requests : Gate(w, req)
  <2>1. PICK w \in Callers, req \in Requests :
         /\ call[w].pc = "idle" /\ calls' = calls + 1 /\ calls \in Nat /\ holder' = holder
         /\ \A v \in Callers \ {w} : call'[v] = call[v]
         /\ \/ call'[w] = call[w]
            \/ /\ call'[w].pc = "handler" /\ call'[w].no = calls + 1 /\ call'[w].req = req
               /\ Admits(req)
    BY <1>2, GateMoves
  <2>2. NumbersDiffer'
    BY <1>0, <2>1 DEF NumbersDiffer, CallsInOrder
  <2>3. Admits(req) /\ req.tool \in ActionTools => req.item \in Items
    BY BookFact DEF Admits
  <2>4. 1..calls \subseteq 1..calls' /\ calls + 1 \in 1..calls'
    BY <2>1
  <2>5. CallsInOrder'
    BY <2>1, <2>3, <2>4 DEF CallsInOrder, Held
  <2>. QED BY <2>2, <2>5
<1>3. CASE UNCHANGED <<calls, holder, call>>
  BY <1>3 DEF CallsInOrder, NumbersDiffer
<1>. QED BY <1>1, <1>2, <1>3, StepCases

-----------------------------------------------------------------------------
(* What the steps that act do, in terms of the call before and after.      *)

\* What the policy said when it let an action in.
LEMMA EnterJudges ==
  ASSUME TypeOK, CallsInOrder, NEW w \in Callers, Enter(w), call'[w].pc = "apply"
  PROVE  /\ call'[w].verdict = Decide(w).verdict /\ call'[w].key = Decide(w).key
         /\ call'[w].req = call[w].req /\ call'[w].no = call[w].no
         /\ call[w].req \in Requests /\ call[w].req.item \in Items
         /\ \/ Allowed(Decide(w))
            \/ call[w].req.action = "escalate" /\ Decide(w).verdict = "escalate"
         /\ Recorded(w, "policy_evaluated", Decide(w).verdict, FALSE)
         /\ spent' = spent + 1
<1>1. call[w] \in CallType /\ call \in [Callers -> CallType]
  BY DEF TypeOK
<1>2. call[w].req \in Requests /\ call[w].req.item \in Items /\ call[w].pc = "waiting"
  BY DEF Enter, At, CallsInOrder
<1> DEFINE c(pc) == [call[w] EXCEPT !.pc = pc, !.verdict = Decide(w).verdict,
                                    !.key = Decide(w).key]
<1>3. \A pc \in {"apply", "refuse"} :
        /\ c(pc).pc = pc /\ c(pc).no = call[w].no /\ c(pc).req = call[w].req
        /\ c(pc).verdict = Decide(w).verdict /\ c(pc).key = Decide(w).key
  BY <1>1 DEF CallType
<1>4. \/ /\ Passes(call[w].req.tool, Decide(w)) /\ call' = [call EXCEPT ![w] = c("apply")]
         /\ Recorded(w, "policy_evaluated", Decide(w).verdict, FALSE) /\ spent' = spent + 1
      \/ call' = [call EXCEPT ![w] = c("refuse")]
      \/ call' = [call EXCEPT ![w] = Idle]
  BY <1>1 DEF Enter, Fail, Charged
<1> HIDE DEF c
<1>5. Idle.pc = "idle"
  BY DEF Idle
<1>6. /\ Passes(call[w].req.tool, Decide(w)) /\ call' = [call EXCEPT ![w] = c("apply")]
      /\ Recorded(w, "policy_evaluated", Decide(w).verdict, FALSE) /\ spent' = spent + 1
  BY <1>1, <1>3, <1>4, <1>5
<1>7. \/ Allowed(Decide(w))
      \/ call[w].req.action = "escalate" /\ Decide(w).verdict = "escalate"
  BY <1>2, <1>6, EscalateFact DEF Passes
<1>. QED BY <1>1, <1>2, <1>3, <1>6, <1>7

\* The request that the call of w would send now.
Sending(w, accepted, happened) ==
  [no |-> call[w].no, item |-> call[w].req.item, action |-> call[w].req.action,
   at |-> now, accepted |-> accepted, happened |-> happened]

\* What an Apply leaves behind: at most one request, with what the guard and
\* the call know of it.
LEMMA ApplyActs ==
  ASSUME TypeOK, CallsInOrder, NEW w \in Callers, Apply(w)
  PROVE  \E accepted, happened \in BOOLEAN :
    /\ \/ sent' = sent
       \/ /\ sent' = sent \cup {Sending(w, accepted, happened)}
          /\ call[w].req.action \in ContactActions
    /\ slots \subseteq slots'
    /\ sent' # sent /\ accepted =>
         /\ << <<call[w].req.item>>, call[w].req.action >> \in slots'
         /\ << <<call[w].req.item>>, call[w].req.action >> \notin slots
    /\ sent' # sent /\ happened => call'[w].accepted \/ call'[w].failed
    /\ \/ promises' = promises
       \/ /\ call[w].req.action = "log_promise"
          /\ promises' = promises \cup {[item |-> call[w].req.item, at |-> now,
                                         until |-> now + PromiseHold]}
    /\ call'[w].pc = "settle" /\ call'[w].no = call[w].no /\ call'[w].req = call[w].req
    /\ call'[w].verdict = call[w].verdict /\ call'[w].key = call[w].key
<1> DEFINE i == call[w].req.item
           action == call[w].req.action
           slot == GuardKey(<<>>, i, action)
           replay == slot \in slots
<1>1. call[w] \in CallType /\ call \in [Callers -> CallType]
  BY DEF TypeOK
<1>2. PICK answer \in AnswersTo(Seen(w), action), written \in BOOLEAN :
          LET out == Dispatch(Seen(w), action, answer)
              reaches == ~replay /\ out.attempted
          IN /\ slots' = IF ~replay /\ Seals(out) THEN slots \cup {slot} ELSE slots
             /\ sent' = IF reaches /\ action \in ContactActions
                          THEN sent \cup {[no |-> call[w].no, item |-> i, action |-> action,
                                           at |-> now, accepted |-> out.accepted,
                                           happened |-> out.effect]}
                          ELSE sent
             /\ promises' = IF reaches /\ action = "log_promise" /\ out.effect
                              THEN promises \cup {[item |-> i, at |-> now,
                                                   until |-> now + PromiseHold]}
                              ELSE promises
             /\ call' = [call EXCEPT ![w].pc = "settle",
                           ![w].accepted = replay \/ out.accepted,
                           ![w].failed = (~replay /\ out.failed) \/ ~written]
  BY DEF Apply
<1> DEFINE out == Dispatch(Seen(w), action, answer)
           c == [call[w] EXCEPT !.pc = "settle", !.accepted = replay \/ out.accepted,
                                !.failed = (~replay /\ out.failed) \/ ~written]
           request == Sending(w, out.accepted, out.effect)
<1>3. /\ c.pc = "settle" /\ c.no = call[w].no /\ c.req = call[w].req
      /\ c.verdict = call[w].verdict /\ c.key = call[w].key
      /\ c.accepted = (replay \/ out.accepted)
      /\ c.failed = ((~replay /\ out.failed) \/ ~written)
  BY <1>1 DEF CallType
<1>4. call' = [call EXCEPT ![w] = c]
  BY <1>1, <1>2
<1>5. out.accepted \in BOOLEAN /\ out.effect \in BOOLEAN /\ out.action = action
  BY OutcomeType
<1>6. out.effect => out.accepted \/ out.failed
  BY DEF Dispatch
<1>7. action \in ContactActions => action # "do_nothing"
  BY DEF ContactActions, NotifyActions
<1> HIDE DEF c, out, slot, request
<1>8. call'[w] = c
  BY <1>1, <1>4
<1>9. slots' = (IF ~replay /\ Seals(out) THEN slots \cup {slot} ELSE slots)
      /\ sent' = (IF ~replay /\ out.attempted /\ action \in ContactActions
                   THEN sent \cup {request} ELSE sent)
      /\ promises' = IF ~replay /\ out.attempted /\ action = "log_promise" /\ out.effect
                      THEN promises \cup {[item |-> i, at |-> now, until |-> now + PromiseHold]}
                      ELSE promises
  BY <1>2 DEF out, slot, request, Sending
<1>10. Seals(out) <=> out.accepted /\ action # "do_nothing"
  BY <1>5 DEF Seals, Guarded
<1>11. slot = << <<i>>, action >>
  BY DEF slot, GuardKey
<1>12. sent' # sent => ~replay /\ action \in ContactActions /\ sent' = sent \cup {request}
  BY <1>9
<1>13. sent' # sent /\ out.accepted => slot \in slots' /\ slot \notin slots
  BY <1>7, <1>9, <1>10, <1>12
<1>14. sent' # sent /\ out.effect => call'[w].accepted \/ call'[w].failed
  BY <1>3, <1>6, <1>8, <1>12
<1>15. request = Sending(w, out.accepted, out.effect)
  BY DEF request
<1>16. slots \subseteq slots'
  BY <1>9
<1>. QED BY <1>3, <1>5, <1>8, <1>9, <1>11, <1>12, <1>13, <1>14, <1>15, <1>16

\* Who writes what: requests, slots and promises are Apply's, the store and the
\* count of contacts Settle's, and no row and no error is taken back.
LEMMA ServeFrame ==
  ASSUME NEW w \in Callers, Serve(w)
  PROVE  /\ now' = now /\ rows \subseteq rows' /\ errored \subseteq errored'
         /\ (call[w].pc = "apply" /\ Apply(w)) \/ UNCHANGED <<sent, slots, promises>>
         /\ (call[w].pc = "settle" /\ Settle(w)) \/ UNCHANGED <<store, touched>>
         /\ call[w].pc = "waiting" => Enter(w)
         /\ call[w].pc # "waiting" => spent' = spent
<1> USE DEF session, books, ledgerFile, At
<1>1. CASE RecordDecision(w)
  BY <1>1 DEF RecordDecision, Fail
<1>2. CASE WriteDecision(w)
  BY <1>2 DEF WriteDecision, Fail, Answer, Recorded, Written, NotWritten
<1>3. CASE Lookup(w)
  BY <1>3 DEF Lookup, Fail
<1>4. CASE Enter(w)
  BY <1>4 DEF Enter, Fail, Recorded, Written, NotWritten
<1>5. CASE Refuse(w)
  BY <1>5 DEF Refuse, Finish, Fail, Answer, Recorded, Written, NotWritten
<1>6. CASE Apply(w)
  <2>1. rows \subseteq rows'
    BY <1>6 DEF Apply, Recorded, Written, NotWritten
  <2>. QED BY <1>6, <2>1 DEF Apply
<1>7. CASE Settle(w)
  BY <1>7 DEF Settle, Finish, Fail, Answer, Recorded, Written, NotWritten
<1>. QED BY <1>1, <1>2, <1>3, <1>4, <1>5, <1>6, <1>7 DEF Serve

\* Nor does the gate touch anything but its row, the calls and their number.
LEMMA GateFrame ==
  ASSUME NEW w \in Callers, NEW req \in Requests, Gate(w, req)
  PROVE  /\ UNCHANGED <<now, spent, sent, slots, promises, store, touched>>
         /\ rows \subseteq rows' /\ errored \subseteq errored'
  BY DEF Gate, Written, NotWritten, session, books

-----------------------------------------------------------------------------
(* The verdict and the guard.                                              *)

LEMMA ContactIsNoEscalation == "escalate" \notin ContactActions /\ "log_promise" \notin ContactActions
  BY DEF ContactActions, NotifyActions

LEMMA StepJudged ==
  ServerInv /\ [ServerStep]_vars => Judged' /\ VerdictOnRecord'
<1>. SUFFICES ASSUME ServerInv, [ServerStep]_vars PROVE Judged' /\ VerdictOnRecord'
  OBVIOUS
<1>0. TypeOK /\ CallsInOrder /\ Judged /\ VerdictOnRecord
  BY DEF ServerInv
<1>1. ASSUME NEW w \in Callers, Serve(w) PROVE Judged' /\ VerdictOnRecord'
  <2>1. Moves(w) /\ rows \subseteq rows'
    BY <1>0, <1>1, ServeMoves, ServeFrame
  <2>2. Judged'
    <3> SUFFICES ASSUME NEW v \in Callers, call'[v].pc \in {"apply", "settle"}
                 PROVE  /\ call'[v].verdict = "allow" \/ call'[v].req.action = "escalate"
                        /\ \E r \in rows' : /\ r.no = call'[v].no /\ r.kind = "policy_evaluated"
                                            /\ r.verdict = call'[v].verdict
      BY DEF Judged
    <3>1. CASE v # w
      BY <1>0, <2>1, <3>1 DEF Judged, Moves
    <3>2. CASE v = w /\ call'[w].pc = "apply"
      <4>1. call[w].pc = "waiting"
        BY <2>1, <3>2 DEF Moves, Onward, Idle
      <4>2. Enter(w)
        BY <1>1, <4>1, ServeFrame
      <4>3. /\ call'[w].verdict = Decide(w).verdict
            /\ call'[w].req = call[w].req /\ call'[w].no = call[w].no
            /\ Allowed(Decide(w)) \/ call[w].req.action = "escalate"
            /\ Recorded(w, "policy_evaluated", Decide(w).verdict, FALSE)
        BY <1>0, <3>2, <4>2, EnterJudges
      <4> DEFINE row == Row("policy_evaluated", call[w].no, call[w].req, Decide(w).verdict, FALSE)
      <4>4. row \in rows' /\ row.no = call[w].no /\ row.kind = "policy_evaluated"
            /\ row.verdict = Decide(w).verdict
        BY <4>3 DEF Recorded, Written, Row
      <4>. QED BY <3>2, <4>3, <4>4 DEF Allowed
    <3>3. CASE v = w /\ call'[w].pc = "settle"
      <4>1. call[w].pc = "apply"
        BY <2>1, <3>3 DEF Moves, Onward, Idle
      <4>2. Apply(w)
        BY <1>1, <4>1 DEF Serve, RecordDecision, WriteDecision, Lookup, Enter, Refuse, Settle, At
      <4>3. call'[w].verdict = call[w].verdict /\ call'[w].req = call[w].req
            /\ call'[w].no = call[w].no
        BY <1>0, <4>2, ApplyActs
      <4>. QED BY <1>0, <2>1, <3>3, <4>1, <4>3 DEF Judged
    <3>. QED BY <3>1, <3>2, <3>3
  <2>3. VerdictOnRecord'
    <3>1. CASE sent' = sent
      BY <1>0, <2>1, <3>1 DEF VerdictOnRecord
    <3>2. CASE sent' # sent
      <4>1. call[w].pc = "apply" /\ Apply(w)
        BY <1>1, <3>2, ServeFrame
      <4>2. PICK accepted, happened \in BOOLEAN :
              /\ call[w].req.action \in ContactActions
              /\ sent' = sent \cup {Sending(w, accepted, happened)}
        BY <1>0, <3>2, <4>1, ApplyActs
      <4>5. \A e \in sent' : e \in sent \/ e.no = call[w].no
        BY <4>2 DEF Sending
      <4>3. \E r \in rows : /\ r.no = call[w].no /\ r.kind = "policy_evaluated"
                            /\ r.verdict = "allow"
        BY <1>0, <4>1, <4>2, ContactIsNoEscalation DEF Judged
      <4>. QED BY <1>0, <2>1, <4>3, <4>5 DEF VerdictOnRecord
    <3>. QED BY <3>1, <3>2
  <2>. QED BY <2>2, <2>3
<1>2. ASSUME NEW w \in Callers, NEW req \in Requests, Gate(w, req)
      PROVE  Judged' /\ VerdictOnRecord'
  <2>1. sent' = sent /\ rows \subseteq rows'
    BY <1>2, GateFrame
  <2>2. \A v \in Callers : call'[v] = call[v] \/ call'[v].pc = "handler"
    BY <1>0, <1>2, GateMoves
  <2>. QED BY <1>0, <2>1, <2>2 DEF Judged, VerdictOnRecord
<1>3. CASE UNCHANGED <<call, sent>> /\ rows \subseteq rows'
  BY <1>0, <1>3 DEF Judged, VerdictOnRecord
<1>. QED BY <1>1, <1>2, <1>3, StepCases

LEMMA StepSealed ==
  ServerInv /\ [ServerStep]_vars => AcceptedIsSealed' /\ OneAcceptedEffect'
<1>. SUFFICES ASSUME ServerInv, [ServerStep]_vars PROVE AcceptedIsSealed' /\ OneAcceptedEffect'
  OBVIOUS
<1>0. TypeOK /\ CallsInOrder /\ AcceptedIsSealed /\ OneAcceptedEffect
  BY DEF ServerInv
<1>1. CASE sent' = sent /\ slots \subseteq slots'
  BY <1>0, <1>1 DEF AcceptedIsSealed, OneAcceptedEffect
<1>2. ASSUME NEW w \in Callers, Apply(w), sent' # sent
      PROVE  AcceptedIsSealed' /\ OneAcceptedEffect'
  <2> DEFINE slot == << <<call[w].req.item>>, call[w].req.action >>
  <2>1. PICK accepted, happened \in BOOLEAN :
          /\ sent' = sent \cup {Sending(w, accepted, happened)}
          /\ slots \subseteq slots'
          /\ accepted => slot \in slots' /\ slot \notin slots
    BY <1>0, <1>2, ApplyActs
  <2> DEFINE request == Sending(w, accepted, happened)
  <2>2. /\ request.no = call[w].no /\ request.item = call[w].req.item
        /\ request.action = call[w].req.action /\ request.accepted = accepted
    BY DEF Sending
  <2> HIDE DEF request
  <2>3. sent' = sent \cup {request}
    BY <2>1 DEF request
  <2>4. AcceptedIsSealed'
    BY <1>0, <2>1, <2>2, <2>3 DEF AcceptedIsSealed
  <2>5. ASSUME NEW e \in sent, e.accepted, request.accepted,
               e.item = request.item, e.action = request.action
        PROVE  FALSE
    BY <1>0, <2>1, <2>2, <2>5 DEF AcceptedIsSealed
  <2>6. OneAcceptedEffect'
    BY <1>0, <2>3, <2>5 DEF OneAcceptedEffect
  <2>. QED BY <2>4, <2>6
<1>3. ASSUME NEW w \in Callers, Serve(w) PROVE AcceptedIsSealed' /\ OneAcceptedEffect'
  <2>1. CASE Apply(w)
    <3>1. slots \subseteq slots'
      BY <1>0, <2>1, ApplyActs
    <3>. QED BY <1>1, <1>2, <2>1, <3>1
  <2>2. CASE UNCHANGED <<sent, slots>>
    BY <1>1, <2>2
  <2>. QED BY <1>3, <2>1, <2>2, ServeFrame
<1>4. ASSUME NEW w \in Callers, NEW req \in Requests, Gate(w, req)
      PROVE  AcceptedIsSealed' /\ OneAcceptedEffect'
  BY <1>1, <1>4, GateFrame
<1>5. CASE UNCHANGED <<books, sent>>
  BY <1>1, <1>5 DEF books
<1>. QED BY <1>3, <1>4, <1>5, StepCases

-----------------------------------------------------------------------------
(* The budget.                                                             *)

LEMMA StepCharged == ServerInv /\ [ServerStep]_vars => ChargedInTime'
<1>. SUFFICES ASSUME ServerInv, [ServerStep]_vars PROVE ChargedInTime'
  OBVIOUS
<1>0. TypeOK /\ CallsInOrder /\ ChargedInTime /\ spent \in Nat /\ ActionBudget \in Nat \ {0}
  BY NumbersFact DEF ServerInv, TypeOK
<1>1. /\ IsFiniteSet(Uncharged) /\ Cardinality(Uncharged) \in Nat
      /\ Cardinality(Callers) \in Nat /\ Uncharged' \in SUBSET Callers
      /\ IsFiniteSet(Uncharged') /\ Cardinality(Uncharged') \in Nat
      /\ Cardinality(Uncharged') <= Cardinality(Callers)
  <2>1. Uncharged \in SUBSET Callers /\ Uncharged' \in SUBSET Callers
    BY DEF Uncharged
  <2>. QED BY <2>1, CallersFact, FS_Subset, FS_CardinalityType
<1>2. ASSUME Uncharged' \subseteq Uncharged, spent' = spent PROVE ChargedInTime'
  <2>1. Cardinality(Uncharged') <= Cardinality(Uncharged)
    BY <1>1, <1>2, FS_Subset
  <2>. QED BY <1>0, <1>1, <1>2, <2>1 DEF ChargedInTime
<1>3. ASSUME NEW w \in Callers, Serve(w) PROVE ChargedInTime'
  <2>1. Moves(w)
    BY <1>0, <1>3, ServeMoves
  <2>2. Uncharged' \subseteq Uncharged
    BY <2>1 DEF Uncharged, Moves, Onward, Idle
  <2>3. CASE call[w].pc # "waiting"
    BY <1>2, <1>3, <2>2, <2>3, ServeFrame
  <2>4. CASE call[w].pc = "waiting"
    <3>1. w \in Uncharged /\ w \notin Uncharged'
      BY <1>0, <2>1, <2>4 DEF Uncharged, CallsInOrder, Moves, Onward, Idle
    <3>2. Cardinality(Uncharged') <= Cardinality(Uncharged) - 1
      <4>1. Uncharged' \in SUBSET (Uncharged \ {w})
        BY <2>2, <3>1
      <4>2. IsFiniteSet(Uncharged \ {w})
            /\ Cardinality(Uncharged \ {w}) = Cardinality(Uncharged) - 1
        BY <1>1, <3>1, FS_RemoveElement
      <4>. QED BY <1>1, <4>1, <4>2, FS_Subset
    <3>3. spent' \in {spent, spent + 1}
      BY <1>3, <2>4, ServeFrame DEF Enter, Charged
    <3>. QED BY <1>0, <1>1, <3>2, <3>3 DEF ChargedInTime
  <2>. QED BY <2>3, <2>4
<1>4. ASSUME NEW w \in Callers, NEW req \in Requests, Gate(w, req) PROVE ChargedInTime'
  <2>1. spent' = spent
    BY <1>4, GateFrame
  <2>2. CASE Admits(req) /\ req.tool \in ActionTools
    <3>1. spent < ActionBudget
      BY <2>2 DEF Admits
    <3>. QED BY <1>0, <1>1, <2>1, <3>1 DEF ChargedInTime
  <2>3. CASE ~(Admits(req) /\ req.tool \in ActionTools)
    <3>1. Uncharged' \subseteq Uncharged
      <4>1. /\ \A v \in Callers \ {w} : call'[v] = call[v]
            /\ call'[w] = call[w] \/ (call'[w].req = req /\ Admits(req))
        BY <1>0, <1>4, GateMoves
      <4>. QED BY <2>3, <4>1 DEF Uncharged
    <3>. QED BY <1>2, <2>1, <3>1
  <2>. QED BY <2>2, <2>3
<1>5. CASE UNCHANGED <<session, call>>
  BY <1>0, <1>5 DEF ChargedInTime, Uncharged, session
<1>. QED BY <1>3, <1>4, <1>5, StepCases

-----------------------------------------------------------------------------
(* What an allow says.                                                     *)

\* An allow is the absence of every refusal.
LEMMA EvaluateAllows ==
  ASSUME NEW s, NEW q, NEW t, Allowed(Evaluate(s, q, t)), NEW r \in Rules
  PROVE  ~Fires(r, s, q, t)
  BY DEF Allowed, Evaluate, Refusals

\* A bounded set of numbers that is not empty has a largest one.
LEMMA LargestOne ==
  ASSUME NEW S \in SUBSET Nat, NEW bound \in Nat, \A x \in S : x <= bound, S # {}
  PROVE  \E t \in S : \A u \in S : u <= t
<1> DEFINE Down == {bound - x : x \in S}
<1>1. Down \subseteq Nat /\ Down # {}
  <2>1. \A x \in S : bound - x \in Nat
    OBVIOUS
  <2>2. PICK x \in S : TRUE
    OBVIOUS
  <2>3. bound - x \in Down
    OBVIOUS
  <2>. QED BY <2>1, <2>3
<1>2. IsWellFoundedOn(OpToRel(<, Nat), Nat)
  BY NatLessThanWellFounded
<1>3. PICK d \in Down : \A y \in Down : ~(<<y, d>> \in OpToRel(<, Nat))
  BY <1>1, <1>2, WFMin
<1>4. PICK t \in S : d = bound - t
  BY <1>3
<1>5. ASSUME NEW u \in S PROVE u <= t
  <2>1. bound - u \in Down /\ bound - u \in Nat /\ d \in Nat
    BY <1>1, <1>3
  <2>2. bound - u < d => <<bound - u, d>> \in {p \in Nat \X Nat : p[1] < p[2]}
    BY <2>1
  <2>3. ~(bound - u < d)
    BY <1>3, <2>1, <2>2 DEF OpToRel
  <2>. QED BY <1>4, <2>1, <2>3
<1>. QED BY <1>5

\* A promise that covers now keeps the hold in force.
LEMMA HoldCovers ==
  ASSUME TypeOK, PromisesPast, NEW p \in promises, now < p.until
  PROVE  ActiveHold(p.item) # 0 /\ now < ActiveHold(p.item)
<1> DEFINE U == {q.until : q \in {r \in promises : r.item = p.item /\ r.at <= now /\ now < r.until}}
<1>1. /\ \A q \in promises : q.at \in Nat /\ q.until \in Nat
      /\ now \in Nat /\ now + PromiseHold \in Nat
  BY NumbersFact DEF TypeOK
<1>2. U \in SUBSET Nat /\ \A u \in U : u <= now + PromiseHold /\ now < u
  BY <1>1, NumbersFact DEF PromisesPast
<1>3. p.until \in U
  BY DEF PromisesPast
<1>4. \E t \in U : \A u \in U : u <= t
  BY <1>1, <1>2, <1>3, LargestOne
<1>5. ActiveHold(p.item) \in U
  BY <1>3, <1>4 DEF ActiveHold
<1>. QED BY <1>1, <1>2, <1>5

\* What the policy saw when it let a contact in.
LEMMA AllowSaw ==
  ASSUME TypeOK, NEW w \in Callers, call[w].req.item \in Items,
         call[w].req.action \in ContactActions, Allowed(Decide(w))
  PROVE  LET i == call[w].req.item
         IN /\ touched[i] < Cap(i)
            /\ Decide(w).key \notin store.keys
            /\ ActiveHold(i) = 0 \/ ~(now < ActiveHold(i))
            /\ call[w].req.action \in NotifyActions =>
                 ~Within(now, store.debt[i].lastNotify, Settings.notifyWindow)
<1> DEFINE i == call[w].req.item
           action == call[w].req.action
           key == IdempotencyKey(i, action, TouchNo(i))
           s == StateFor(i, key)
           q == RequestFromClassified(i, Seen(w), action, ActiveHold(i), TouchNo(i))
<1>1. /\ q.item = i /\ q.action = action /\ q.touchNo = TouchNo(i) /\ q.hold = ActiveHold(i)
      /\ q.source = Book[i].source
  <2>1. Book[i] \in ItemRecord
    BY BookFact
  <2>2. Seen(w).source = Book[i].source
    BY <2>1 DEF Seen, ItemRecord
  <2>. QED BY <2>2 DEF RequestFromClassified
<1>2. /\ s.touches = IF touched[i] > store.debt[i].attempts THEN touched[i]
                     ELSE store.debt[i].attempts
      /\ s.lastNotify = store.debt[i].lastNotify
      /\ s.keySeen = (key \in store.keys)
  BY DEF StateFor, Snapshot
<1>3. Decide(w) = Evaluate(s, q, now) /\ Decide(w).key = key
  BY <1>1, EvaluateType DEF Decide, IdempotencyKey
<1>4. /\ touched[i] \in Nat /\ store.debt[i].attempts \in Nat /\ Cap(i) \in Nat
  BY CapType DEF TypeOK, StoreType
<1> HIDE DEF s, q, key
<1>5. /\ ~Fires("R9", s, q, now) /\ ~Fires("R15", s, q, now) /\ ~Fires("R1", s, q, now)
      /\ ~Fires("R6", s, q, now)
  BY <1>3, EvaluateAllows DEF Rules, Rank
<1>6. touched[i] < Cap(i)
  <2>1. ~(s.touches >= Cap(i))
    BY <1>1, <1>5 DEF Fires, IsContact, Cap
  <2>. QED BY <1>2, <1>4, <2>1
<1>7. key \notin store.keys
  BY <1>2, <1>5 DEF Fires
<1>8. ActiveHold(i) = 0 \/ ~(now < ActiveHold(i))
  <2>1. action \notin SafeActions
    BY DEF SafeActions, ContactActions, NotifyActions
  <2>. QED BY <1>1, <1>5, <2>1 DEF Fires, IsSafe
<1>9. action \in NotifyActions => ~Within(now, store.debt[i].lastNotify, Settings.notifyWindow)
  BY <1>1, <1>2, <1>5 DEF Fires, IsNotify
<1>. QED BY <1>3, <1>6, <1>7, <1>8, <1>9

-----------------------------------------------------------------------------
(* Four kinds of step.                                                     *)

\* The stages between an allow and the count of what it led to.
Acting == {"apply", "settle"}

\* Nobody but w acts, before the step or after it.
Alone(w) ==
  /\ now' = now
  /\ \A v \in Callers \ {w} : call'[v] = call[v] /\ call[v].pc \notin Acting

\* A step that neither lets an action in nor carries one on.
NothingDone ==
  /\ UNCHANGED <<sent, promises, store, touched>>
  /\ now' = now \/ now' = now + 1
  /\ \A v \in Callers : call[v].pc \in Acting \/ call'[v].pc \in Acting => call'[v] = call[v]

LetIn(w) ==
  /\ Alone(w) /\ Enter(w) /\ call[w].pc = "waiting" /\ call'[w].pc = "apply"
  /\ UNCHANGED <<sent, promises, store, touched>>

Acts(w) ==
  /\ Alone(w) /\ Apply(w) /\ call[w].pc = "apply" /\ call'[w].pc = "settle"
  /\ UNCHANGED <<store, touched>>

Settles(w) ==
  /\ Alone(w) /\ Settle(w) /\ call[w].pc = "settle" /\ call'[w] = Idle
  /\ UNCHANGED <<sent, promises>>

LEMMA ServeKinds ==
  ASSUME TypeOK, CallsInOrder, NEW w \in Callers, Serve(w)
  PROVE  NothingDone \/ LetIn(w) \/ Acts(w) \/ Settles(w)
<1>1. Moves(w) /\ now' = now
  BY ServeMoves, ServeFrame
<1>2. Idle.pc = "idle"
  BY DEF Idle
<1>3. \A v \in Callers \ {w} : call'[v] = call[v]
  BY <1>1 DEF Moves
<1>4. call[w].pc \in Held => \A v \in Callers \ {w} : call[v].pc \notin Acting
  BY DEF CallsInOrder, Held, Acting
<1>5. CASE call[w].pc = "waiting"
  <2>1. Enter(w) /\ UNCHANGED <<sent, promises, store, touched>>
    BY <1>5, ServeFrame
  <2>2. \A v \in Callers \ {w} : call[v].pc \notin Acting
    BY <2>1, CallersFact DEF Enter, Free, CallsInOrder, Held, Acting
  <2>3. CASE call'[w].pc = "apply"
    BY <1>1, <1>3, <1>5, <2>1, <2>2, <2>3 DEF LetIn, Alone
  <2>4. CASE call'[w].pc # "apply"
    <3>1. call'[w].pc \notin Acting
      BY <1>1, <1>2, <1>5, <2>4 DEF Moves, Onward, Acting
    <3>. QED BY <1>1, <1>3, <1>5, <2>1, <3>1 DEF NothingDone, Acting
  <2>. QED BY <2>3, <2>4
<1>6. CASE call[w].pc = "apply"
  <2>1. Apply(w)
    BY <1>6, ServeFrame
       DEF Serve, RecordDecision, WriteDecision, Lookup, Enter, Refuse, Settle, At
  <2>2. call'[w].pc = "settle"
    BY <2>1, ApplyActs
  <2>3. UNCHANGED <<store, touched>>
    BY <1>6, ServeFrame
  <2>. QED BY <1>1, <1>3, <1>4, <1>6, <2>1, <2>2, <2>3 DEF Acts, Alone, Held
<1>7. CASE call[w].pc = "settle"
  <2>1. Settle(w)
    BY <1>7 DEF Serve, RecordDecision, WriteDecision, Lookup, Enter, Refuse, Apply, At
  <2>2. call'[w] = Idle
    BY <1>1, <1>7 DEF Moves, Onward
  <2>3. UNCHANGED <<sent, promises>>
    BY <1>7, ServeFrame
  <2>. QED BY <1>1, <1>3, <1>4, <1>7, <2>1, <2>2, <2>3 DEF Settles, Alone, Held
<1>8. CASE call[w].pc \notin {"waiting", "apply", "settle"}
  <2>1. call'[w].pc \notin Acting
    BY <1>1, <1>2, <1>8 DEF Moves, Onward, Acting
  <2>2. UNCHANGED <<sent, promises, store, touched>>
    BY <1>8, ServeFrame
  <2>. QED BY <1>1, <1>3, <1>8, <2>1, <2>2 DEF NothingDone, Acting
<1>. QED BY <1>5, <1>6, <1>7, <1>8

LEMMA StepKinds ==
  ASSUME TypeOK, CallsInOrder, [ServerStep]_vars
  PROVE  NothingDone \/ \E w \in Callers : LetIn(w) \/ Acts(w) \/ Settles(w)
<1>1. ASSUME NEW w \in Callers, NEW req \in Requests, Gate(w, req) PROVE NothingDone
  <2>1. UNCHANGED <<now, sent, promises, store, touched>>
    BY <1>1, GateFrame
  <2>2. \A v \in Callers : call'[v] = call[v] \/ (call[v].pc = "idle" /\ call'[v].pc = "handler")
    BY <1>1, GateMoves
  <2>. QED BY <2>1, <2>2 DEF NothingDone, Acting
<1>2. CASE /\ UNCHANGED <<session, calls, handle, holder, books, call, errored, sent>>
           /\ now' = now \/ now' = now + 1
  BY <1>2 DEF NothingDone, books
<1>. QED BY <1>1, <1>2, ServeKinds, StepCases

-----------------------------------------------------------------------------
(* The clocks.                                                             *)

LEMMA StepClock ==
  ServerInv /\ [ServerStep]_vars => ClockCovers' /\ SendsSpacedPerDebt'
<1>. SUFFICES ASSUME ServerInv, [ServerStep]_vars PROVE ClockCovers' /\ SendsSpacedPerDebt'
  OBVIOUS
<1>0. TypeOK /\ CallsInOrder /\ ClockCovers /\ SendsSpacedPerDebt /\ PromisesPast /\ now > 0
  BY DEF ServerInv
<1>a. /\ now \in Nat /\ Settings.notifyWindow \in Int
      /\ \A i \in Items : store.debt[i].lastNotify \in Nat
      /\ \A e \in sent : e.at \in Nat /\ e.item \in Items
  BY <1>0, WindowType DEF TypeOK, StoreType
<1>1. CASE NothingDone
  <2>1. SendsSpacedPerDebt'
    BY <1>0, <1>1 DEF NothingDone, SendsSpacedPerDebt
  <2>2. \A v \in Callers : call'[v].pc \in Acting => call'[v] = call[v]
    BY <1>1 DEF NothingDone
  <2>3. store' = store /\ sent' = sent
    BY <1>1 DEF NothingDone
  <2>4. \A w \in Callers :
          call'[w].pc \in Acting /\ call'[w].req.action \in NotifyActions =>
            call'[w].key \notin store.keys
    BY <1>0, <2>2 DEF ClockCovers, Acting
  <2>5. \A w \in Callers :
          call'[w].pc = "apply" /\ call'[w].req.action \in NotifyActions =>
            ~Within(now', store.debt[call'[w].req.item].lastNotify, Settings.notifyWindow)
    <3> SUFFICES ASSUME NEW w \in Callers, call'[w].pc = "apply",
                        call'[w].req.action \in NotifyActions
                 PROVE  ~Within(now', store.debt[call[w].req.item].lastNotify,
                                Settings.notifyWindow)
      BY <2>2 DEF Acting
    <3>1. ~Within(now, store.debt[call[w].req.item].lastNotify, Settings.notifyWindow)
      BY <1>0, <2>2 DEF ClockCovers, Acting
    <3>2. call[w].req.item \in Items
      BY <1>0, <2>2 DEF CallsInOrder, Acting
    <3>. QED BY <1>1, <1>a, <3>1, <3>2 DEF NothingDone, Within
  <2>6. \A i \in Items : store.debt[i].lastNotify <= now'
    BY <1>0, <1>1, <1>a DEF ClockCovers, NothingDone
  <2>7. \A v \in Callers : call[v].pc \in Acting => call'[v] = call[v]
    BY <1>1 DEF NothingDone
  <2>8. \A e \in sent : \A w \in Callers :
          call[w].pc = "settle" => call'[w] = call[w]
    BY <2>7 DEF Acting
  <2>. QED BY <1>0, <2>1, <2>3, <2>4, <2>5, <2>6, <2>8 DEF ClockCovers, Acting
<1>2. ASSUME NEW w \in Callers, LetIn(w) PROVE ClockCovers' /\ SendsSpacedPerDebt'
  <2>1. /\ store' = store /\ sent' = sent /\ now' = now
        /\ \A v \in Callers \ {w} : call'[v] = call[v] /\ call[v].pc \notin Acting
        /\ call[w].pc = "waiting" /\ call'[w].pc = "apply"
    BY <1>2 DEF LetIn, Alone
  <2>2. /\ call'[w].key = Decide(w).key /\ call'[w].req = call[w].req
        /\ call[w].req.item \in Items
        /\ Allowed(Decide(w)) \/ call[w].req.action = "escalate"
    BY <1>0, <1>2, EnterJudges DEF LetIn
  <2>3. call[w].req.action \in NotifyActions =>
          call[w].req.action \in ContactActions /\ call[w].req.action # "escalate"
    BY DEF ContactActions, NotifyActions
  <2>4. call[w].req.action \in NotifyActions =>
          /\ Decide(w).key \notin store.keys
          /\ ~Within(now, store.debt[call[w].req.item].lastNotify, Settings.notifyWindow)
    BY <1>0, <2>2, <2>3, AllowSaw
  <2>5. SendsSpacedPerDebt'
    BY <1>0, <2>1 DEF SendsSpacedPerDebt
  <2>. QED BY <1>0, <2>1, <2>2, <2>4, <2>5 DEF ClockCovers, Acting
<1>3. ASSUME NEW w \in Callers, Acts(w) PROVE ClockCovers' /\ SendsSpacedPerDebt'
  <2>1. /\ store' = store /\ now' = now
        /\ \A v \in Callers \ {w} : call'[v] = call[v] /\ call[v].pc \notin Acting
        /\ call[w].pc = "apply" /\ call'[w].pc = "settle" /\ Apply(w)
    BY <1>3 DEF Acts, Alone
  <2>2. PICK accepted, happened \in BOOLEAN :
          /\ \/ sent' = sent
             \/ /\ sent' = sent \cup {Sending(w, accepted, happened)}
                /\ call[w].req.action \in ContactActions
          /\ sent' # sent /\ happened => call'[w].accepted \/ call'[w].failed
          /\ call'[w].req = call[w].req /\ call'[w].key = call[w].key
    BY <1>0, <2>1, ApplyActs
  <2>3. \A e \in sent : e.happened /\ e.action \in NotifyActions =>
                          e.at > 0 /\ e.at <= store.debt[e.item].lastNotify
    BY <1>0, <2>1 DEF ClockCovers, Acting
  <2> DEFINE request == Sending(w, accepted, happened)
  <2>4. /\ request.no = call[w].no /\ request.item = call[w].req.item /\ request.at = now
        /\ request.action = call[w].req.action /\ request.happened = happened
    BY DEF Sending
  <2> HIDE DEF request
  <2>5. sent' = sent \/ (sent' = sent \cup {request} /\ call[w].req.action \in ContactActions)
    BY <2>2 DEF request
  <2>6. ClockCovers'
    <3>1. sent' # sent /\ happened => ReachedGateway(call'[w])
      BY <2>2 DEF ReachedGateway
    <3>2. \A e \in sent' : e.happened /\ e.action \in NotifyActions =>
            /\ e.at > 0
            /\ \/ e.at <= store.debt[e.item].lastNotify
               \/ /\ call'[w].pc = "settle" /\ call'[w].req.item = e.item
                  /\ call'[w].req.action \in NotifyActions /\ ReachedGateway(call'[w])
      BY <1>0, <2>1, <2>2, <2>3, <2>4, <2>5, <3>1
    <3>. QED BY <1>0, <2>1, <2>2, <3>2 DEF ClockCovers, Acting
  <2>7. ASSUME NEW f \in sent, f.item = request.item, f.action \in NotifyActions, f.happened,
               request.action \in NotifyActions
        PROVE  now - f.at >= Settings.notifyWindow
    <3>1. ~Within(now, store.debt[f.item].lastNotify, Settings.notifyWindow)
      BY <1>0, <2>1, <2>4, <2>7 DEF ClockCovers
    <3>. QED BY <1>a, <2>3, <2>7, <3>1 DEF Within
  <2>8. SendsSpacedPerDebt'
    <3> SUFFICES ASSUME NEW e \in sent', NEW f \in sent', e.item = f.item, e.no # f.no,
                        e.action \in NotifyActions, f.action \in NotifyActions,
                        e.happened, f.happened
                 PROVE  Apart(e.at, f.at, Settings.notifyWindow)
      BY DEF SendsSpacedPerDebt
    <3>1. CASE e \in sent /\ f \in sent
      BY <1>0, <3>1 DEF SendsSpacedPerDebt
    <3>2. CASE e = request /\ f \in sent
      BY <2>4, <2>7, <3>2 DEF Apart
    <3>3. CASE e \in sent /\ f = request
      BY <2>4, <2>7, <3>3 DEF Apart
    <3>. QED BY <2>5, <3>1, <3>2, <3>3
  <2>. QED BY <2>6, <2>8
<1>4. ASSUME NEW w \in Callers, Settles(w) PROVE ClockCovers' /\ SendsSpacedPerDebt'
  <2> DEFINE i == call[w].req.item
             key == call[w].key
             notified == ReachedGateway(call[w]) /\ call[w].req.action \in NotifyActions
  <2>1. /\ sent' = sent /\ now' = now
        /\ \A v \in Callers \ {w} : call'[v] = call[v] /\ call[v].pc \notin Acting
        /\ call[w].pc = "settle" /\ call'[w].pc = "idle"
        /\ store' = IF notified THEN Notified(store, i, key, now) ELSE store
    BY <1>4 DEF Settles, Alone, Settle, Idle, Notified
  <2>2. i \in Items /\ store \in StoreType(Items, Keys)
    BY <1>0, <2>1 DEF CallsInOrder, TypeOK
  <2>3. notified => key \notin store.keys
    BY <1>0, <2>1 DEF ClockCovers
  <2> HIDE DEF i, key, notified
  <2>4. \A j \in Items : store'.debt[j].lastNotify =
                           IF notified /\ j = i THEN now ELSE store.debt[j].lastNotify
    BY <1>a, <2>1, <2>2, <2>3, NotifiedClock
  <2>5. \A v \in Callers : call'[v].pc \notin Acting
    BY <2>1 DEF Acting
  <2>6. \A j \in Items : /\ store'.debt[j].lastNotify <= now
                         /\ store.debt[j].lastNotify <= store'.debt[j].lastNotify
    <3>1. \A j \in Items : store.debt[j].lastNotify <= now
      BY <1>0 DEF ClockCovers
    <3>. QED BY <1>a, <2>4, <3>1
  <2>7. \A e \in sent : e.happened /\ e.action \in NotifyActions =>
                          e.at > 0 /\ e.at <= store'.debt[e.item].lastNotify
    <3> SUFFICES ASSUME NEW e \in sent, e.happened, e.action \in NotifyActions
                 PROVE  e.at > 0 /\ e.at <= store'.debt[e.item].lastNotify
      OBVIOUS
    <3>1. \/ e.at > 0 /\ e.at <= store.debt[e.item].lastNotify
          \/ e.at > 0 /\ e.item = i /\ notified
      <4>1. \A v \in Callers : call[v].pc = "settle" => v = w
        BY <2>1 DEF Acting
      <4>. QED BY <1>0, <4>1 DEF ClockCovers, i, notified
    <3>2. e.at <= now
      BY <1>0 DEF PromisesPast
    <3>. QED BY <1>a, <2>4, <2>6, <3>1, <3>2
  <2>8. SendsSpacedPerDebt'
    BY <1>0, <2>1 DEF SendsSpacedPerDebt
  <2>. QED BY <2>1, <2>5, <2>6, <2>7, <2>8 DEF ClockCovers, Acting
<1>. QED BY <1>0, <1>1, <1>2, <1>3, <1>4, StepKinds

-----------------------------------------------------------------------------
(* The promises.                                                           *)

LEMMA StepPromises ==
  ServerInv /\ [ServerStep]_vars => PromisesPast' /\ PromiseKept'
<1>. SUFFICES ASSUME ServerInv, [ServerStep]_vars PROVE PromisesPast' /\ PromiseKept'
  OBVIOUS
<1>0. TypeOK /\ CallsInOrder /\ PromisesPast /\ PromiseKept
  BY DEF ServerInv
<1>a. /\ now \in Nat /\ \A p \in promises : p.at \in Nat /\ p.until \in Nat
      /\ \A e \in sent : e.at \in Nat
  BY <1>0 DEF TypeOK
<1>1. CASE NothingDone
  <2>1. PromiseKept'
    BY <1>0, <1>1 DEF NothingDone, PromiseKept
  <2>2. \A v \in Callers : call'[v].pc = "apply" => call'[v] = call[v]
    BY <1>1 DEF NothingDone, Acting
  <2>3. promises' = promises /\ sent' = sent /\ (now' = now \/ now' = now + 1)
    BY <1>1 DEF NothingDone
  <2>4. /\ \A p \in promises : p.at <= now' /\ p.until = p.at + PromiseHold
        /\ \A e \in sent : e.at <= now'
    BY <1>0, <1>a, <2>3 DEF PromisesPast
  <2>5. \A w \in Callers, p \in promises :
          call[w].pc = "apply" /\ call[w].req.action \in ContactActions
            /\ p.item = call[w].req.item => p.until <= now'
    <3>1. \A p \in promises : p.until <= now => p.until <= now'
      BY <1>a, <2>3
    <3>. QED BY <1>0, <3>1 DEF PromisesPast
  <2>. QED BY <2>1, <2>2, <2>3, <2>4, <2>5 DEF PromisesPast
<1>2. ASSUME NEW w \in Callers, LetIn(w) PROVE PromisesPast' /\ PromiseKept'
  <2>1. /\ promises' = promises /\ sent' = sent /\ now' = now
        /\ \A v \in Callers \ {w} : call'[v] = call[v]
    BY <1>2 DEF LetIn, Alone
  <2>2. /\ call'[w].req = call[w].req /\ call[w].req.item \in Items
        /\ Allowed(Decide(w)) \/ call[w].req.action = "escalate"
    BY <1>0, <1>2, EnterJudges DEF LetIn
  <2>3. ASSUME NEW p \in promises, p.item = call[w].req.item,
               call[w].req.action \in ContactActions
        PROVE  p.until <= now
    <3>1. ActiveHold(p.item) = 0 \/ ~(now < ActiveHold(p.item))
      BY <1>0, <2>2, <2>3, ContactIsNoEscalation, AllowSaw
    <3>2. ~(now < p.until)
      BY <1>0, <3>1, HoldCovers
    <3>. QED BY <1>a, <3>2
  <2>4. PromiseKept'
    BY <1>0, <2>1 DEF PromiseKept
  <2>. QED BY <1>0, <2>1, <2>2, <2>3, <2>4 DEF PromisesPast
<1>3. ASSUME NEW w \in Callers, Acts(w) PROVE PromisesPast' /\ PromiseKept'
  <2>1. /\ now' = now /\ call[w].pc = "apply" /\ call'[w].pc = "settle" /\ Apply(w)
        /\ \A v \in Callers \ {w} : call'[v] = call[v] /\ call[v].pc # "apply"
    BY <1>3 DEF Acts, Alone, Acting
  <2> DEFINE promise == [item |-> call[w].req.item, at |-> now, until |-> now + PromiseHold]
  <2>2. PICK accepted, happened \in BOOLEAN :
          /\ \/ sent' = sent
             \/ /\ sent' = sent \cup {Sending(w, accepted, happened)}
                /\ call[w].req.action \in ContactActions
          /\ \/ promises' = promises
             \/ call[w].req.action = "log_promise" /\ promises' = promises \cup {promise}
    BY <1>0, <2>1, ApplyActs
  <2>3. promise.at = now /\ promise.until = now + PromiseHold
    OBVIOUS
  <2> DEFINE request == Sending(w, accepted, happened)
  <2>4. request.item = call[w].req.item /\ request.at = now
    BY DEF Sending
  <2> HIDE DEF request, promise
  <2>5. \/ sent' = sent /\ promises' = promises
        \/ /\ sent' = sent \cup {request} /\ promises' = promises
           /\ call[w].req.action \in ContactActions
        \/ sent' = sent /\ promises' = promises \cup {promise}
    BY <2>2, ContactIsNoEscalation DEF request
  <2>6. PromisesPast'
    <3>1. \A p \in promises' : p.at <= now /\ p.until = p.at + PromiseHold
      BY <1>0, <1>a, <2>3, <2>5 DEF PromisesPast
    <3>2. \A e \in sent' : e.at <= now
      BY <1>0, <1>a, <2>4, <2>5 DEF PromisesPast
    <3>3. \A v \in Callers : call'[v].pc # "apply"
      BY <2>1
    <3>. QED BY <2>1, <3>1, <3>2, <3>3 DEF PromisesPast
  <2>7. PromiseKept'
    <3> SUFFICES ASSUME NEW p \in promises', NEW e \in sent', e.item = p.item, e.at > p.at
                 PROVE  e.at >= p.until
      BY DEF PromiseKept
    <3>1. CASE p \in promises /\ e \in sent
      BY <1>0, <3>1 DEF PromiseKept
    <3>2. CASE p \in promises /\ e = request /\ call[w].req.action \in ContactActions
      <4>1. p.until <= now
        BY <1>0, <2>1, <2>4, <3>2 DEF PromisesPast
      <4>. QED BY <1>a, <2>4, <3>2, <4>1
    <3>3. CASE p = promise /\ e \in sent
      BY <1>0, <1>a, <2>3, <3>3 DEF PromisesPast
    <3>. QED BY <2>5, <3>1, <3>2, <3>3
  <2>. QED BY <2>6, <2>7
<1>4. ASSUME NEW w \in Callers, Settles(w) PROVE PromisesPast' /\ PromiseKept'
  <2>1. /\ promises' = promises /\ sent' = sent /\ now' = now
        /\ \A v \in Callers \ {w} : call'[v] = call[v] /\ call[v].pc # "apply"
        /\ call'[w].pc = "idle"
    BY <1>4 DEF Settles, Alone, Acting, Idle
  <2>. QED BY <1>0, <2>1 DEF PromisesPast, PromiseKept
<1>. QED BY <1>0, <1>1, <1>2, <1>3, <1>4, StepKinds

-----------------------------------------------------------------------------
(* The contacts of a debt.                                                 *)

\* Where there is no contact to count, the count says it all.
LEMMA CapFromCount ==
  ASSUME TypeOK, ContactsCounted
  PROVE  CapCountsLostContacts
<1> SUFFICES ASSUME NEW i \in Items PROVE Cardinality(Contacts(i)) <= Cap(i)
  BY DEF CapCountsLostContacts, Cap
<1>1. touched[i] \in Nat /\ Cap(i) \in Nat /\ Cardinality(Contacts(i)) \in Nat
  BY CapType, FS_CardinalityType DEF TypeOK, ContactsCounted
<1>2. CASE Uncounted(i) = {}
  BY <1>1, <1>2 DEF ContactsCounted
<1>3. CASE Uncounted(i) # {}
  <2>1. PICK w \in Callers : w \in Uncounted(i)
    BY <1>3 DEF Uncounted
  <2>2. touched[i] < Cap(i)
    BY <2>1 DEF ContactsCounted, Uncounted, ReachedGateway
  <2>. QED BY <1>1, <2>2 DEF ContactsCounted
<1>. QED BY <1>2, <1>3

LEMMA StepContacts == ServerInv /\ [ServerStep]_vars => ContactsCounted'
<1>. SUFFICES ASSUME ServerInv, [ServerStep]_vars PROVE ContactsCounted'
  OBVIOUS
<1>0. TypeOK /\ CallsInOrder /\ ContactsCounted
  BY DEF ServerInv
<1>a. \A i \in Items : /\ touched[i] \in Nat /\ Cap(i) \in Nat
                       /\ IsFiniteSet(Contacts(i)) /\ Cardinality(Contacts(i)) \in Nat
                       /\ touched[i] <= Cap(i)
                       /\ Uncounted(i) = {} => Cardinality(Contacts(i)) <= touched[i]
                       /\ Cardinality(Contacts(i)) <= touched[i] + 1
  BY <1>0, CapType, FS_CardinalityType DEF TypeOK, ContactsCounted
<1>1. CASE NothingDone
  <2>1. /\ sent' = sent /\ touched' = touched
        /\ \A v \in Callers : call[v].pc \in Acting \/ call'[v].pc \in Acting
                                => call'[v] = call[v]
    BY <1>1 DEF NothingDone
  <2>2. \A i : Contacts(i)' = Contacts(i) /\ Uncounted(i)' = Uncounted(i)
    BY <2>1 DEF Contacts, Uncounted, ReachedGateway, Acting
  <2>. QED BY <1>0, <2>1, <2>2 DEF ContactsCounted, Acting
<1>2. ASSUME NEW w \in Callers, LetIn(w) PROVE ContactsCounted'
  <2>1. /\ sent' = sent /\ touched' = touched
        /\ \A v \in Callers \ {w} : call'[v] = call[v] /\ call[v].pc \notin Acting
        /\ call[w].pc = "waiting" /\ call'[w].pc = "apply"
    BY <1>2 DEF LetIn, Alone
  <2>2. /\ call'[w].req = call[w].req /\ call[w].req.item \in Items
        /\ Allowed(Decide(w)) \/ call[w].req.action = "escalate"
    BY <1>0, <1>2, EnterJudges DEF LetIn
  <2>3. call[w].req.action \in ContactActions =>
          touched[call[w].req.item] < Cap(call[w].req.item)
    BY <1>0, <2>2, ContactIsNoEscalation, AllowSaw
  <2>4. \A i : Contacts(i)' = Contacts(i) /\ Uncounted(i)' = {} /\ Uncounted(i) = {}
    BY <2>1 DEF Contacts, Uncounted, Acting
  <2>. QED BY <1>0, <2>1, <2>2, <2>3, <2>4 DEF ContactsCounted, Acting
<1>3. ASSUME NEW w \in Callers, Acts(w) PROVE ContactsCounted'
  <2>1. /\ touched' = touched
        /\ \A v \in Callers \ {w} : call'[v] = call[v] /\ call[v].pc \notin Acting
        /\ call[w].pc = "apply" /\ call'[w].pc = "settle" /\ Apply(w)
    BY <1>3 DEF Acts, Alone
  <2>2. PICK accepted, happened \in BOOLEAN :
          /\ \/ sent' = sent
             \/ /\ sent' = sent \cup {Sending(w, accepted, happened)}
                /\ call[w].req.action \in ContactActions
          /\ sent' # sent /\ happened => call'[w].accepted \/ call'[w].failed
          /\ call'[w].req = call[w].req
    BY <1>0, <2>1, ApplyActs
  <2> DEFINE request == Sending(w, accepted, happened)
  <2>3. request.item = call[w].req.item /\ request.happened = happened
    BY DEF Sending
  <2> HIDE DEF request
  <2>4. /\ \A i \in Items : touched[i] <= Cap(i)
        /\ \A v \in Callers :
             call'[v].pc \in {"apply", "settle"} /\ call'[v].req.action \in ContactActions =>
               touched[call'[v].req.item] < Cap(call'[v].req.item)
    BY <1>0, <2>1, <2>2 DEF ContactsCounted, Acting
  <2>5. ASSUME NEW i \in Items
        PROVE  /\ IsFiniteSet(Contacts(i)')
               /\ Uncounted(i)' = {} => Cardinality(Contacts(i)') <= touched[i]
               /\ Cardinality(Contacts(i)') <= touched[i] + 1
    <3>1. Uncounted(i) = {}
      BY <2>1 DEF Uncounted, Acting
    <3>2. CASE Contacts(i)' = Contacts(i)
      BY <1>a, <3>1, <3>2
    <3>3. CASE Contacts(i)' # Contacts(i)
      <4>1. sent' = sent \cup {request} /\ call[w].req.action \in ContactActions /\ sent' # sent
        BY <2>2, <3>3 DEF Contacts, request
      <4>2. request.item = i /\ request.happened
        BY <3>3, <4>1 DEF Contacts
      <4>3. Contacts(i)' = Contacts(i) \cup {request}
        BY <4>1, <4>2 DEF Contacts
      <4>4. w \in Uncounted(i)'
        BY <2>1, <2>2, <2>3, <4>1, <4>2 DEF Uncounted, ReachedGateway
      <4>5. IsFiniteSet(Contacts(i)')
            /\ Cardinality(Contacts(i)') \in {Cardinality(Contacts(i)),
                                              Cardinality(Contacts(i)) + 1}
        BY <1>a, <4>3, FS_AddElement
      <4>. QED BY <1>a, <3>1, <4>4, <4>5
    <3>. QED BY <3>2, <3>3
  <2>. QED BY <2>1, <2>4, <2>5 DEF ContactsCounted
<1>4. ASSUME NEW w \in Callers, Settles(w) PROVE ContactsCounted'
  <2> DEFINE j == call[w].req.item
             reached == ReachedGateway(call[w])
  <2>1. /\ sent' = sent
        /\ \A v \in Callers \ {w} : call'[v] = call[v] /\ call[v].pc \notin Acting
        /\ call[w].pc = "settle" /\ call'[w].pc = "idle"
        /\ touched' = IF reached THEN [touched EXCEPT ![j] = @ + 1] ELSE touched
    BY <1>4 DEF Settles, Alone, Settle, Idle
  <2>2. \A v \in Callers : call'[v].pc \notin Acting
    BY <2>1 DEF Acting
  <2>3. \A i : Contacts(i)' = Contacts(i) /\ Uncounted(i)' = {}
    BY <2>1, <2>2 DEF Contacts, Uncounted, Acting
  <2>4. j \in Items /\ touched \in [Items -> Nat]
    BY <1>0, <2>1 DEF CallsInOrder, TypeOK
  <2>5. reached => touched[j] < Cap(j)
    BY <1>0, <2>1 DEF ContactsCounted, ReachedGateway
  <2>6. \A i \in Items : Uncounted(i) # {} => i = j /\ reached
    BY <2>1 DEF Uncounted, Acting
  <2> HIDE DEF j, reached
  <2>7. ASSUME NEW i \in Items
        PROVE  touched'[i] <= Cap(i) /\ Cardinality(Contacts(i)) <= touched'[i]
    <3>1. CASE reached /\ i = j
      <4>1. touched'[i] = touched[i] + 1
        BY <2>1, <2>4, <3>1
      <4>. QED BY <1>a, <2>5, <3>1, <4>1
    <3>2. CASE ~(reached /\ i = j)
      <4>1. touched'[i] = touched[i]
        BY <2>1, <2>4, <3>2
      <4>. QED BY <1>a, <2>6, <3>2, <4>1
    <3>. QED BY <3>1, <3>2
  <2>8. \A i \in Items : touched'[i] \in Nat
    BY <2>1, <2>4
  <2>. QED BY <1>a, <2>2, <2>3, <2>7, <2>8 DEF ContactsCounted, Acting
<1>. QED BY <1>0, <1>1, <1>2, <1>3, <1>4, StepKinds

-----------------------------------------------------------------------------
(* What the agent is told.                                                 *)

LEMMA StepSettled ==
  ServerInv /\ [ServerStep]_vars => SentIsSettled' /\ ContactsReported'
<1>. SUFFICES ASSUME ServerInv, [ServerStep]_vars PROVE SentIsSettled' /\ ContactsReported'
  OBVIOUS
<1>0. /\ TypeOK /\ CallsInOrder /\ NumbersDiffer /\ SentIsSettled /\ ContactsReported
      /\ calls \in Nat /\ \A e \in sent : e.no \in 1..calls
      /\ \A v \in Callers : call[v].no \in 0..calls /\ (call[v].pc = "idle" => call[v].no = 0)
      /\ Idle.pc = "idle" /\ Idle.no = 0
  BY DEF ServerInv, TypeOK, CallsInOrder, Idle
<1>1. ASSUME NEW w \in Callers, Serve(w) PROVE SentIsSettled' /\ ContactsReported'
  <2>1. /\ Moves(w) /\ rows \subseteq rows' /\ errored \subseteq errored'
        /\ \A v \in Callers \ {w} : call'[v] = call[v]
        /\ call[w].pc # "idle"
    BY <1>0, <1>1, ServeMoves, ServeFrame DEF Moves
  <2>2. CASE call[w].pc = "settle"
    <3>1. Settle(w) /\ call'[w] = Idle /\ sent' = sent
      BY <1>1, <2>1, <2>2, ServeFrame
         DEF Serve, RecordDecision, WriteDecision, Lookup, Enter, Refuse, Apply, At,
             Moves, Onward
    <3>2. SentIsSettled'
      BY <1>0, <2>1, <3>1 DEF SentIsSettled
    <3>3. ASSUME NEW e \in sent, e.happened, e.no = call[w].no
          PROVE  \/ e.no \in errored'
                 \/ \E r \in rows' : r.no = e.no /\ r.kind = "action_taken" /\ r.reached
      <4>1. ReachedGateway(call[w])
        BY <1>0, <3>3 DEF SentIsSettled
      <4>2. CASE Fail(w)
        BY <3>3, <4>2 DEF Fail
      <4>3. CASE Recorded(w, ActionKind(call[w]), call[w].verdict, ReachedGateway(call[w]))
        <5> DEFINE row == Row("action_taken", call[w].no, call[w].req, call[w].verdict,
                              ReachedGateway(call[w]))
        <5>1. ActionKind(call[w]) = "action_taken"
          BY <4>1 DEF ActionKind
        <5>2. row \in rows' /\ row.no = call[w].no /\ row.kind = "action_taken" /\ row.reached
          BY <4>1, <4>3, <5>1 DEF Recorded, Written, Row
        <5>. QED BY <3>3, <5>2
      <4>. QED BY <3>1, <4>2, <4>3 DEF Settle, Finish
    <3>4. ContactsReported'
      <4> SUFFICES ASSUME NEW e \in sent, e.happened, ~(\E v \in Callers : call'[v].no = e.no)
                   PROVE  \/ e.no \in errored'
                          \/ \E r \in rows' : r.no = e.no /\ r.kind = "action_taken" /\ r.reached
        BY <3>1 DEF ContactsReported
      <4>1. CASE e.no = call[w].no
        BY <3>3, <4>1
      <4>2. CASE e.no # call[w].no
        <5>1. ~(\E v \in Callers : call[v].no = e.no)
          BY <2>1, <4>2
        <5>. QED BY <1>0, <2>1, <5>1 DEF ContactsReported
      <4>. QED BY <4>1, <4>2
    <3>. QED BY <3>2, <3>4
  <2>3. CASE call[w].pc = "apply"
    <3>1. Apply(w)
      BY <1>1, <2>3
         DEF Serve, RecordDecision, WriteDecision, Lookup, Enter, Refuse, Settle, At
    <3>2. PICK accepted, happened \in BOOLEAN :
            /\ \/ sent' = sent
               \/ /\ sent' = sent \cup {Sending(w, accepted, happened)}
                  /\ call[w].req.action \in ContactActions
            /\ sent' # sent /\ happened => call'[w].accepted \/ call'[w].failed
            /\ call'[w].pc = "settle" /\ call'[w].no = call[w].no
            /\ call'[w].req = call[w].req
      BY <1>0, <3>1, ApplyActs
    <3> DEFINE request == Sending(w, accepted, happened)
    <3>3. request.no = call[w].no /\ request.happened = happened
      BY DEF Sending
    <3> HIDE DEF request
    <3>4. \/ sent' = sent
          \/ /\ sent' = sent \cup {request}
             /\ happened => ReachedGateway(call'[w])
      BY <3>2 DEF request, ReachedGateway
    <3>5. \A v \in Callers : call'[v].no = call[v].no
      BY <2>1, <3>2
    <3>6. \A e \in sent : e.no # call[w].no
      BY <1>0, <2>3 DEF SentIsSettled
    <3>7. \A v \in Callers : v # w => call[v].no # call[w].no
      BY <1>0, <2>1 DEF NumbersDiffer
    <3>8. SentIsSettled'
      <4> SUFFICES ASSUME NEW e \in sent', NEW v \in Callers, call'[v].no = e.no
                   PROVE  call'[v].pc = "settle" /\ (e.happened => ReachedGateway(call'[v]))
        BY DEF SentIsSettled
      <4>1. CASE e \in sent
        <5>1. v # w
          BY <3>5, <3>6, <4>1
        <5>. QED BY <1>0, <2>1, <4>1, <5>1 DEF SentIsSettled
      <4>2. CASE e = request /\ sent' # sent
        <5>1. v = w
          BY <3>3, <3>5, <3>7, <4>2
        <5>. QED BY <3>2, <3>3, <3>4, <4>2, <5>1
      <4>. QED BY <3>4, <4>1, <4>2
    <3>9. ContactsReported'
      <4> SUFFICES ASSUME NEW e \in sent', e.happened
                   PROVE  \/ \E v \in Callers : call'[v].no = e.no
                          \/ e.no \in errored'
                          \/ \E r \in rows' : r.no = e.no /\ r.kind = "action_taken" /\ r.reached
        BY DEF ContactsReported
      <4>1. CASE e \in sent
        BY <1>0, <2>1, <3>5, <4>1 DEF ContactsReported
      <4>2. CASE e = request
        BY <3>3, <3>5, <4>2
      <4>. QED BY <3>4, <4>1, <4>2
    <3>. QED BY <3>8, <3>9
  <2>4. CASE call[w].pc \notin {"apply", "settle"}
    <3>1. sent' = sent
      BY <1>1, <2>4, ServeFrame
    <3>2. \A e \in sent : e.no # call[w].no
      BY <1>0, <2>4 DEF SentIsSettled
    <3>3. call'[w].no \in {0, call[w].no}
      BY <1>0, <2>1 DEF Moves
    <3>4. \A e \in sent : e.no # call'[w].no
      BY <1>0, <3>2, <3>3
    <3>5. SentIsSettled'
      BY <1>0, <2>1, <3>1, <3>4 DEF SentIsSettled
    <3>6. ContactsReported'
      <4> SUFFICES ASSUME NEW e \in sent, e.happened
                   PROVE  \/ \E v \in Callers : call'[v].no = e.no
                          \/ e.no \in errored'
                          \/ \E r \in rows' : r.no = e.no /\ r.kind = "action_taken" /\ r.reached
        BY <3>1 DEF ContactsReported
      <4>1. \A v \in Callers : call[v].no = e.no => call'[v].no = e.no
        BY <2>1, <3>2
      <4>. QED BY <1>0, <2>1, <4>1 DEF ContactsReported
    <3>. QED BY <3>5, <3>6
  <2>. QED BY <2>2, <2>3, <2>4
<1>2. ASSUME NEW w \in Callers, NEW req \in Requests, Gate(w, req)
      PROVE  SentIsSettled' /\ ContactsReported'
  <2>1. /\ sent' = sent /\ rows \subseteq rows' /\ errored \subseteq errored'
        /\ call[w].pc = "idle"
        /\ \A v \in Callers \ {w} : call'[v] = call[v]
        /\ call'[w] = call[w] \/ call'[w].no = calls + 1
    BY <1>0, <1>2, GateMoves, GateFrame
  <2>2. \A e \in sent : e.no # call[w].no /\ e.no # call'[w].no
    BY <1>0, <2>1
  <2>3. SentIsSettled'
    BY <1>0, <2>1, <2>2 DEF SentIsSettled
  <2>4. ContactsReported'
    <3> SUFFICES ASSUME NEW e \in sent, e.happened
                 PROVE  \/ \E v \in Callers : call'[v].no = e.no
                        \/ e.no \in errored'
                        \/ \E r \in rows' : r.no = e.no /\ r.kind = "action_taken" /\ r.reached
      BY <2>1 DEF ContactsReported
    <3>1. \A v \in Callers : call[v].no = e.no => call'[v].no = e.no
      BY <2>1, <2>2
    <3>. QED BY <1>0, <2>1, <3>1 DEF ContactsReported
  <2>. QED BY <2>3, <2>4
<1>3. CASE UNCHANGED <<call, errored, sent>> /\ rows \subseteq rows'
  BY <1>0, <1>3 DEF SentIsSettled, ContactsReported
<1>. QED BY <1>1, <1>2, <1>3, StepCases

-----------------------------------------------------------------------------
(* The theorems.                                                           *)

LEMMA StepServer == ServerInv /\ [ServerStep]_vars => ServerInv'
<1>. SUFFICES ASSUME ServerInv, [ServerStep]_vars PROVE ServerInv'
  OBVIOUS
<1>1. now' > 0
  <2>1. now' = now \/ now' = now + 1
    BY ServeFrame, GateFrame, StepCases
  <2>. QED BY <2>1 DEF ServerInv, TypeOK
<1>. QED
  BY <1>1, StepTypes, StepOrder, StepJudged, StepSealed, StepCharged, StepContacts,
     StepPromises, StepClock, StepSettled DEF ServerInv

\* The server of internal/mcpserver, for any parallel callers, keeps its types
\* and everything that the mutex of act is there for.
THEOREM ServerCorrect == Spec => []ServerInv
<1>1. ServerInv /\ [Next]_vars => ServerInv'
  BY StepServer DEF ServerStep
<1>. QED BY InitServer, <1>1, PTL DEF Spec

\* The types of the server's state.
THEOREM TypeCorrect == Spec => []TypeOK
<1>1. ServerInv => TypeOK
  BY DEF ServerInv
<1>. QED BY ServerCorrect, <1>1, PTL

\* No request leaves without an allow for that very call on the ledger.
THEOREM VerdictBehindEverySend == Spec => []VerdictOnRecord
<1>1. ServerInv => VerdictOnRecord
  BY DEF ServerInv
<1>. QED BY ServerCorrect, <1>1, PTL

\* A debt has one accepted request of each kind, although callers copy the item
\* before they have the mutex.
THEOREM StaleCopyIsStopped == Spec => []OneAcceptedEffect
<1>1. ServerInv => OneAcceptedEffect
  BY DEF ServerInv
<1>. QED BY ServerCorrect, <1>1, PTL

\* The contacts of a debt, the ones whose answer was lost included, stay in its cap.
THEOREM CapHolds == Spec => []CapCountsLostContacts
<1>1. ServerInv => CapCountsLostContacts
  BY CapFromCount DEF ServerInv
<1>. QED BY ServerCorrect, <1>1, PTL

\* Two notifications about a debt are the notify window apart.
THEOREM SendsApart == Spec => []SendsSpacedPerDebt
<1>1. ServerInv => SendsSpacedPerDebt
  BY DEF ServerInv
<1>. QED BY ServerCorrect, <1>1, PTL

\* Between a promise and its end nothing about that debt leaves.
THEOREM PromisesHold == Spec => []PromiseKept
<1>1. ServerInv => PromiseKept
  BY DEF ServerInv
<1>. QED BY ServerCorrect, <1>1, PTL

LEMMA OvershootFromCount == ServerInv => BudgetOvershoot
<1>. SUFFICES ASSUME ServerInv PROVE BudgetOvershoot
  OBVIOUS
<1>1. Uncharged \in SUBSET Callers
  BY DEF Uncharged
<1>2. Cardinality(Uncharged) \in Nat /\ Cardinality(Callers) \in Nat
  BY <1>1, CallersFact, FS_Subset, FS_CardinalityType
<1>3. spent \in Nat /\ ActionBudget \in Nat
  BY NumbersFact DEF ServerInv, TypeOK
<1>. QED BY <1>2, <1>3 DEF ServerInv, ChargedInTime, BudgetOvershoot

\* The gate's unlocked look at the budget lets in as many calls too many as
\* there are other callers, whatever the budget.
THEOREM BudgetBounded == Spec => []BudgetOvershoot
  BY OvershootFromCount, ServerCorrect, PTL

-----------------------------------------------------------------------------
(* The invocation around it.                                               *)

\* R7 refuses whatever is proposed for an item of this kind.
Barred(it) ==
  \/ it.source \notin DOMAIN SourceTable
  \/ ParamsFor(it.source).requiresSignal /\ ~it.signal
  \/ it.signal /\ it.class = "unclassified"

\* The verdict under which an item is acted on, whatever the action.
VerdictFor(i) == IF Barred(Book[i]) THEN "escalate" ELSE "allow"

\* A call under way has not failed yet, and has nothing to show before it acts.
CallsUnspoiled ==
  \A w \in Callers :
    /\ call[w].pc # "idle" => call[w].no \notin errored
    /\ call[w].pc \in {"handler", "waiting", "refuse"} =>
         ~call[w].accepted /\ ~call[w].failed
    /\ call[w].pc \in Acting => call[w].verdict = VerdictFor(call[w].req.item)
    /\ \A e \in sent : call[w].no = e.no => call[w].req.item = e.item

\* The action rows of an item.
Taken(i) == {r \in rows : r.item = i /\ r.kind = "action_taken"}

TallyType ==
  [reached : BOOLEAN, escalated : BOOLEAN, action : LawfulActions,
   allowed : Verdicts \cup {"none"}, refused : Verdicts \cup {"none"}]

\* What the tally of an item, t, says is on the ledger.
TallyIsTrue(i, t) ==
  /\ t.reached <=> \E r \in Taken(i) : r.reached
  /\ t.allowed \in {"none", VerdictFor(i)}
  /\ t.reached => t.allowed = "allow"
  /\ t.action # "do_nothing" =>
       /\ t.allowed # "none"
       /\ \E r \in Taken(i) : r.action = t.action /\ r.verdict = t.allowed
  /\ t.escalated => \E r \in Taken(i) : r.action = "escalate"

\* And what went out is in the tally, in an error, or in a call under way.
SentIsTallied ==
  \A e \in sent :
    e.happened => \/ tally[e.item].reached
                  \/ e.no \in errored
                  \/ \E w \in Callers : call[w].no = e.no

\* The end of the invocation is observed once, after the last call.
Observed == \E r \in rows : r.item = served /\ r.kind = "outcome_observed"

PhaseInOrder ==
  /\ phase \in {"observing", "serving", "reading", "blind", "observed", "over"}
  /\ phase # "serving" => \A w \in Callers : call[w].pc = "idle"
  /\ phase \in {"observing", "serving", "reading", "blind"} => ~Observed
  /\ phase = "observed" => Observed
  /\ outcome.filed => phase = "over"
  /\ outcome.filed \in BOOLEAN

SessionInv ==
  /\ ServerInv /\ served \in Items
  /\ CallsUnspoiled
  /\ tally \in [Items -> TallyType]
  /\ \A i \in Items : TallyIsTrue(i, tally[i])
  /\ SentIsTallied /\ PhaseInOrder /\ OutcomeIsTrue

-----------------------------------------------------------------------------
(* One item, one verdict.                                                  *)

LEMMA RankType == \A r \in Rules : Rank[r] \in Nat
  BY DEF Rules, Rank

\* The rule that decides is one that fires.
LEMMA DecidingRule ==
  ASSUME NEW s, NEW q, NEW t, Evaluate(s, q, t).verdict = "escalate"
  PROVE  \E r \in Escalating : Fires(r, s, q, t)
<1> DEFINE hit == Refusals(s, q, t)
           ranks == {Rank[r] : r \in hit}
<1>1. hit # {} /\ hit \subseteq Rules
  BY DEF Evaluate, Refusals
<1>2. ranks \subseteq Nat /\ ranks # {}
  BY <1>1, RankType
<1>3. PICK m \in ranks : \A y \in ranks : ~(<<y, m>> \in OpToRel(<, Nat))
  <2>1. IsWellFoundedOn(OpToRel(<, Nat), Nat)
    BY NatLessThanWellFounded
  <2>. QED BY <1>2, <2>1, WFMin
<1>4. PICK r \in hit : m = Rank[r]
  BY <1>3
<1>5. ASSUME NEW o \in hit PROVE Rank[r] <= Rank[o]
  <2>1. Rank[o] \in Nat /\ Rank[r] \in Nat /\ Rank[o] \in ranks
    BY <1>1, RankType
  <2>2. Rank[o] < m => <<Rank[o], m>> \in {p \in Nat \X Nat : p[1] < p[2]}
    BY <1>4, <2>1
  <2>3. ~(Rank[o] < m)
    BY <1>3, <2>1, <2>2 DEF OpToRel
  <2>. QED BY <1>4, <2>1, <2>3
<1> DEFINE chosen == CHOOSE x \in hit : \A o \in hit : Rank[x] <= Rank[o]
<1>6. chosen \in hit
  BY <1>5
<1>7. chosen \in Escalating
  <2> HIDE DEF chosen
  <2>1. Evaluate(s, q, t).verdict = IF chosen \in Escalating THEN "escalate" ELSE "deny"
    BY <1>1 DEF Evaluate, chosen
  <2>. QED BY <2>1
<1> HIDE DEF chosen
<1>. QED BY <1>6, <1>7 DEF Refusals

\* What act lets through for an item has the one verdict of that item: nothing
\* but R7 escalates an escalation, and R7 leaves nothing else to allow.
LEMMA OneVerdict ==
  ASSUME NEW w \in Callers, call[w].req \in Requests, call[w].req.item \in Items,
         \/ Allowed(Decide(w))
         \/ call[w].req.action = "escalate" /\ Decide(w).verdict = "escalate"
  PROVE  Decide(w).verdict = VerdictFor(call[w].req.item)
<1> DEFINE i == call[w].req.item
           action == call[w].req.action
           s == StateFor(i, IdempotencyKey(i, action, TouchNo(i)))
           q == RequestFromClassified(i, Seen(w), action, ActiveHold(i), TouchNo(i))
<1>1. action \in LawfulActions
  BY RequestsType
<1>2. Unrecognised(q) <=> Barred(Book[i])
  <2>1. Book[i] \in ItemRecord
    BY BookFact
  <2>2. /\ Seen(w).source = Book[i].source /\ Seen(w).signal = Book[i].signal
        /\ Seen(w).class = Book[i].class
    BY <2>1 DEF Seen, ItemRecord
  <2>3. /\ q.source = Book[i].source /\ q.signal = Book[i].signal
        /\ q.class = Book[i].class /\ q.action = action
    BY <2>2 DEF RequestFromClassified
  <2> HIDE DEF q
  <2>. QED BY <1>1, <2>3 DEF Unrecognised, Barred
<1>3. Decide(w) = Evaluate(s, q, now) /\ q.action = action
  BY DEF Decide, RequestFromClassified
<1> HIDE DEF s, q
<1>4. CASE Allowed(Decide(w))
  <2>1. ~Fires("R7", s, q, now)
    BY <1>3, <1>4, EvaluateAllows DEF Rules, Rank
  <2>2. ~Unrecognised(q)
    BY <2>1 DEF Fires
  <2>. QED BY <1>2, <1>4, <2>2 DEF VerdictFor, Allowed
<1>5. CASE action = "escalate" /\ Decide(w).verdict = "escalate"
  <2>1. PICK r \in Escalating : Fires(r, s, q, now)
    BY <1>3, <1>5, DecidingRule
  <2>2. IsSafe(q) /\ ~IsContact(q) /\ q.action # "cancel_write_off"
    BY <1>3, <1>5 DEF IsSafe, IsContact, SafeActions, ContactActions, NotifyActions
  <2>3. /\ r = "R10" => NoChannel(q)
        /\ r = "R4" => NeverContact(q)
        /\ r = "R13" => ~IsSafe(q)
        /\ r = "R3" => NeedsApproval(q)
        /\ r = "R1" => IsContact(q)
        /\ r = "R7" => Unrecognised(q)
    BY <2>1 DEF Fires
  <2>4. Unrecognised(q)
    BY <2>1, <2>2, <2>3 DEF Escalating, NoChannel, NeverContact, NeedsApproval
  <2>. QED BY <1>2, <1>5, <2>4 DEF VerdictFor
<1>. QED BY <1>4, <1>5

-----------------------------------------------------------------------------
(* The steps of an invocation.                                             *)

\* What an invocation does to the server is what the server does, or a row.
LEMMA SessionSteps ==
  served \in Items /\ [SessionNext]_sessionVars => [ServerStep]_vars /\ served' = served
<1>. SUFFICES ASSUME served \in Items, [SessionNext]_sessionVars
              PROVE  [ServerStep]_vars /\ served' = served
  OBVIOUS
<1>1. CASE ObserveAndRecord
  <2>1. \/ Written(ServedRow("classified")) \/ NotWritten \/ UNCHANGED ledgerFile
    BY <1>1 DEF ObserveAndRecord
  <2>2. /\ UNCHANGED <<session, now, calls, handle, holder, books, call, errored, sent>>
        /\ served' = served
    BY <1>1 DEF ObserveAndRecord
  <2>3. UNCHANGED ledgerFile => UNCHANGED vars
    BY <2>2 DEF vars
  <2>4. Written(ServedRow("classified")) \/ NotWritten => FilesBeside
    BY <2>2 DEF FilesBeside, ServedRow
  <2>. QED BY <2>1, <2>2, <2>3, <2>4 DEF ServerStep
<1>2. CASE ReadBack
  <2>1. \/ Written(ServedRow("outcome_observed")) \/ NotWritten \/ UNCHANGED ledgerFile
    BY <1>2 DEF ReadBack
  <2>2. /\ UNCHANGED <<session, now, calls, handle, holder, books, call, errored, sent>>
        /\ served' = served
    BY <1>2 DEF ReadBack
  <2>3. UNCHANGED ledgerFile => UNCHANGED vars
    BY <2>2 DEF vars
  <2>4. Written(ServedRow("outcome_observed")) \/ NotWritten => FilesBeside
    BY <2>2 DEF FilesBeside, ServedRow
  <2>. QED BY <2>1, <2>2, <2>3, <2>4 DEF ServerStep
<1>3. CASE Client
  BY <1>3 DEF Client, ServerStep, Next
<1>4. CASE EndServe \/ FileOutcome
  BY <1>4 DEF EndServe, FileOutcome
<1>5. ASSUME NEW w \in Callers, ServeTool(w)
      PROVE  [ServerStep]_vars /\ served' = served
  BY <1>5 DEF ServeTool, ServerStep, Next
<1>6. CASE UNCHANGED sessionVars
  BY <1>6 DEF sessionVars
<1>. QED BY <1>1, <1>2, <1>3, <1>4, <1>5, <1>6 DEF SessionNext

\* A call that ends in an error is over, and no other ends with it.
LEMMA ServeErrors ==
  ASSUME TypeOK, NEW w \in Callers, Serve(w)
  PROVE  errored' = errored \/ (errored' = errored \cup {call[w].no} /\ call'[w] = Idle)
<1>1. call \in [Callers -> CallType]
  BY DEF TypeOK
<1>2. Fail(w) => errored' = errored \cup {call[w].no} /\ call'[w] = Idle
  BY <1>1 DEF Fail
<1>3. Fail(w) \/ errored' = errored
  BY DEF Serve, RecordDecision, WriteDecision, Lookup, Enter, Refuse, Apply, Settle, Finish,
         Answer
<1>. QED BY <1>2, <1>3

\* What the gate refuses in an error never becomes a call.
LEMMA GateErrors ==
  ASSUME TypeOK, NEW w \in Callers, NEW req \in Requests, Gate(w, req)
  PROVE  \/ /\ call' = call
            /\ errored' = errored \/ errored' = errored \cup {calls + 1}
         \/ /\ errored' = errored /\ call'[w].pc = "handler" /\ call'[w].no = calls + 1
            /\ ~call'[w].accepted /\ ~call'[w].failed
<1>1. call \in [Callers -> CallType]
  BY DEF TypeOK
<1> DEFINE c == [Idle EXCEPT !.pc = "handler", !.no = calls + 1, !.req = req]
<1>2. c.pc = "handler" /\ c.no = calls + 1 /\ ~c.accepted /\ ~c.failed
  BY DEF Idle
<1> HIDE DEF c
<1>3. \/ call' = call /\ (errored' = errored \/ errored' = errored \cup {calls + 1})
      \/ call' = [call EXCEPT ![w] = c] /\ errored' = errored
  BY DEF Gate, Admits, c
<1>. QED BY <1>1, <1>2, <1>3

\* Before it acts a call is told neither success nor failure.
LEMMA ServeUnspoiled ==
  ASSUME TypeOK, CallsInOrder, NEW w \in Callers, Serve(w),
         call'[w].pc \in {"handler", "waiting", "refuse"}
  PROVE  /\ call[w].pc \in {"handler", "waiting"}
         /\ call'[w].accepted = call[w].accepted /\ call'[w].failed = call[w].failed
<1>1. call[w] \in CallType /\ call \in [Callers -> CallType]
  BY DEF TypeOK
<1>2. call'[w].pc \in {"waiting", "refuse"} /\ call[w].pc \in {"handler", "waiting"}
  BY ServeMoves DEF Moves, Onward, Idle
<1>3. CASE Lookup(w)
  <2> DEFINE c == [call[w] EXCEPT !.pc = "waiting", !.handle = handle[call[w].req.item]]
  <2>1. c.accepted = call[w].accepted /\ c.failed = call[w].failed
    BY <1>1 DEF CallType
  <2>2. call' = [call EXCEPT ![w] = c] \/ call' = [call EXCEPT ![w] = Idle]
    BY <1>1, <1>3 DEF Lookup, Fail
  <2> HIDE DEF c
  <2>3. call'[w] = c
    BY <1>1, <1>2, <2>2 DEF Idle
  <2>. QED BY <1>2, <2>1, <2>3
<1>4. CASE Enter(w)
  <2> DEFINE c(pc) == [call[w] EXCEPT !.pc = pc, !.verdict = Decide(w).verdict,
                                      !.key = Decide(w).key]
  <2>1. \A pc \in {"apply", "refuse"} :
          c(pc).accepted = call[w].accepted /\ c(pc).failed = call[w].failed
    BY <1>1 DEF CallType
  <2>2. \/ call' = [call EXCEPT ![w] = c("apply")] \/ call' = [call EXCEPT ![w] = c("refuse")]
        \/ call' = [call EXCEPT ![w] = Idle]
    BY <1>1, <1>4 DEF Enter, Fail
  <2> HIDE DEF c
  <2>3. call'[w] = c("apply") \/ call'[w] = c("refuse")
    BY <1>1, <1>2, <2>2 DEF Idle
  <2>. QED BY <1>2, <2>1, <2>3
<1>5. CASE RecordDecision(w)
  <2>1. \/ call' = [call EXCEPT ![w] = [call[w] EXCEPT !.pc = "decided"]]
        \/ call' = [call EXCEPT ![w] = Idle]
    BY <1>5 DEF RecordDecision, Fail
  <2>2. call'[w].pc \in {"decided", "idle"}
    BY <1>1, <2>1 DEF CallType, Idle
  <2>. QED BY <1>2, <2>2
<1>. QED
  BY <1>2, <1>3, <1>4, <1>5 DEF Serve, WriteDecision, Refuse, Apply, Settle, At

LEMMA StepUnspoiled ==
  ServerInv /\ CallsUnspoiled /\ [ServerStep]_vars => CallsUnspoiled'
<1>. SUFFICES ASSUME ServerInv, CallsUnspoiled, [ServerStep]_vars PROVE CallsUnspoiled'
  OBVIOUS
<1>0. /\ TypeOK /\ CallsInOrder /\ NumbersDiffer
      /\ calls \in Nat /\ errored \subseteq 1..calls /\ \A e \in sent : e.no \in 1..calls
      /\ \A v \in Callers : call[v].no \in 0..calls /\ (call[v].pc = "idle" => call[v].no = 0)
      /\ Idle.pc = "idle" /\ Idle.no = 0
  BY DEF ServerInv, TypeOK, CallsInOrder, Idle
<1>1. ASSUME NEW w \in Callers, Serve(w) PROVE CallsUnspoiled'
  <2>1. /\ Moves(w) /\ call[w].pc # "idle"
        /\ \A v \in Callers \ {w} : call'[v] = call[v] /\ call[v].no # call[w].no
        /\ call'[w] = Idle \/ (call'[w].no = call[w].no /\ call'[w].req = call[w].req)
    BY <1>0, <1>1, ServeMoves DEF Moves, NumbersDiffer
  <2>2. \/ errored' = errored
        \/ errored' = errored \cup {call[w].no} /\ call'[w] = Idle
    BY <1>0, <1>1, ServeErrors
  <2>3. \A v \in Callers : call'[v].pc # "idle" => call'[v].no \notin errored'
    BY <1>0, <2>1, <2>2 DEF CallsUnspoiled
  <2>4. \A v \in Callers : call'[v].pc \in {"handler", "waiting", "refuse"} =>
                             ~call'[v].accepted /\ ~call'[v].failed
    BY <1>0, <1>1, <2>1, ServeUnspoiled DEF CallsUnspoiled
  <2>5. call'[w].pc \in Acting => call'[w].verdict = VerdictFor(call'[w].req.item)
    <3>1. CASE call'[w].pc = "apply"
      <4>1. call[w].pc = "waiting"
        BY <2>1, <3>1 DEF Moves, Onward, Idle
      <4>2. Enter(w)
        BY <1>1, <4>1, ServeFrame
      <4>. QED BY <1>0, <3>1, <4>2, EnterJudges, OneVerdict
    <3>2. CASE call'[w].pc = "settle"
      <4>1. call[w].pc = "apply"
        BY <2>1, <3>2 DEF Moves, Onward, Idle
      <4>2. Apply(w)
        BY <1>1, <4>1 DEF Serve, RecordDecision, WriteDecision, Lookup, Enter, Refuse, Settle, At
      <4>3. call'[w].verdict = call[w].verdict /\ call'[w].req = call[w].req
        BY <1>0, <4>2, ApplyActs
      <4>. QED BY <4>1, <4>3 DEF CallsUnspoiled, Acting
    <3>. QED BY <3>1, <3>2 DEF Acting
  <2>6. \A e \in sent' : e \in sent \/ (e.no = call[w].no /\ e.item = call[w].req.item)
    <3>1. CASE sent' = sent
      BY <3>1
    <3>2. CASE sent' # sent
      <4>1. Apply(w)
        BY <1>1, <3>2, ServeFrame
      <4>2. \E accepted, happened \in BOOLEAN : sent' = sent \cup {Sending(w, accepted, happened)}
        BY <1>0, <3>2, <4>1, ApplyActs
      <4>. QED BY <4>2 DEF Sending
    <3>. QED BY <3>1, <3>2
  <2>7. \A v \in Callers : \A e \in sent' : call'[v].no = e.no => call'[v].req.item = e.item
    <3> SUFFICES ASSUME NEW v \in Callers, NEW e \in sent', call'[v].no = e.no
                 PROVE  call'[v].req.item = e.item
      OBVIOUS
    <3>1. e.no # 0
      BY <1>0, <2>1, <2>6 DEF CallsInOrder
    <3>2. call'[v].no = call[v].no /\ call'[v].req = call[v].req
      BY <1>0, <2>1, <3>1
    <3>. QED BY <2>1, <2>6, <3>2 DEF CallsUnspoiled
  <2>8. \A v \in Callers : call'[v].pc \in Acting =>
                             call'[v].verdict = VerdictFor(call'[v].req.item)
    BY <2>1, <2>5 DEF CallsUnspoiled
  <2>. QED BY <2>3, <2>4, <2>7, <2>8 DEF CallsUnspoiled
<1>2. ASSUME NEW w \in Callers, NEW req \in Requests, Gate(w, req) PROVE CallsUnspoiled'
  <2>1. /\ \A v \in Callers \ {w} : call'[v] = call[v]
        /\ \/ /\ call' = call
              /\ errored' = errored \/ errored' = errored \cup {calls + 1}
           \/ /\ errored' = errored /\ call'[w].pc = "handler" /\ call'[w].no = calls + 1
              /\ ~call'[w].accepted /\ ~call'[w].failed
        /\ sent' = sent
    BY <1>0, <1>2, GateMoves, GateErrors, GateFrame
  <2>2. \A v \in Callers : call[v].no # calls + 1
    BY <1>0
  <2>3. calls + 1 \notin errored /\ \A e \in sent : e.no # calls + 1
    BY <1>0
  <2>. QED BY <2>1, <2>2, <2>3 DEF CallsUnspoiled, Acting
<1>3. CASE UNCHANGED <<call, errored, sent>>
  BY <1>3 DEF CallsUnspoiled
<1>. QED BY <1>1, <1>2, <1>3, StepCases

-----------------------------------------------------------------------------
(* The ledger and the tally.                                               *)

\* Which rows are a tally's: those of finishAction, at the end of a call.
LEMMA ServeRows ==
  ASSUME NEW w \in Callers, Serve(w)
  PROVE  /\ rows \subseteq rows'
         /\ \A r \in rows' \ rows : r.kind # "outcome_observed"
         /\ call[w].pc \notin {"settle", "refuse"} =>
              \A r \in rows' \ rows : r.kind # "action_taken"
<1> USE DEF At, ledgerFile
<1>1. CASE RecordDecision(w) \/ Lookup(w)
  <2>1. rows' = rows
    BY <1>1 DEF RecordDecision, Lookup
  <2>. QED BY <2>1
<1>2. CASE WriteDecision(w)
  <2>1. Recorded(w, "decision_recorded", "none", FALSE) \/ NotWritten
    BY <1>2 DEF WriteDecision
  <2>. QED BY <2>1 DEF Recorded, Written, Row, NotWritten
<1>3. CASE Enter(w)
  <2>1. Recorded(w, "policy_evaluated", Decide(w).verdict, FALSE) \/ NotWritten
    BY <1>3 DEF Enter
  <2>. QED BY <2>1 DEF Recorded, Written, Row, NotWritten
<1>4. CASE Apply(w)
  <2>1. PICK kind \in {"action_skipped", "escalation_raised", "promise_logged",
                       "intervention_applied"} :
          Recorded(w, kind, "none", FALSE) \/ NotWritten
    BY <1>4 DEF Apply, EventKind
  <2>. QED BY <2>1 DEF Recorded, Written, Row, NotWritten
<1>5. CASE Refuse(w) \/ Settle(w)
  <2>1. call[w].pc \in {"settle", "refuse"}
    BY <1>5 DEF Refuse, Settle
  <2>2. \/ Recorded(w, ActionKind(call[w]), call[w].verdict, ReachedGateway(call[w]))
        \/ NotWritten
    BY <1>5 DEF Refuse, Settle, Finish
  <2>3. ActionKind(call[w]) # "outcome_observed"
    BY DEF ActionKind
  <2>. QED BY <2>1, <2>2, <2>3 DEF Recorded, Written, Row, NotWritten
<1>. QED BY <1>1, <1>2, <1>3, <1>4, <1>5 DEF Serve

\* The row finishAction writes for a call.
FinalRow(w) ==
  Row(ActionKind(call[w]), call[w].no, call[w].req, call[w].verdict, ReachedGateway(call[w]))

\* A call that ends leaves its row, or an error.
LEMMA FinishWrites ==
  ASSUME TypeOK, NEW w \in Callers, Serve(w), call[w].pc \in {"settle", "refuse"}
  PROVE  /\ sent' = sent /\ call'[w] = Idle
         /\ \/ rows' = rows \cup {FinalRow(w)} /\ errored' = errored
            \/ rows' = rows /\ errored' = errored \cup {call[w].no}
<1>1. call \in [Callers -> CallType]
  BY DEF TypeOK
<1>2. Settle(w) \/ Refuse(w)
  BY DEF Serve, RecordDecision, WriteDecision, Lookup, Enter, Apply, At
<1>. QED
  BY <1>1, <1>2 DEF Settle, Refuse, Finish, Answer, Fail, Recorded, Written, NotWritten, FinalRow

\* What a call adds to a tally, field by field.
LEMMA TallyAfter ==
  ASSUME NEW t \in TallyType, NEW c \in CallType, c.pc \in {"settle", "refuse"},
         c.req.action \in LawfulActions
  PROVE  LET u == Tallied(t, c)
         IN /\ u \in TallyType
            /\ u.reached = (t.reached \/ ReachedGateway(c))
            /\ u.escalated = (t.escalated \/ (c.req.action = "escalate" /\ c.accepted))
            /\ u.allowed = IF c.pc = "settle" THEN c.verdict ELSE t.allowed
            /\ u.action = IF c.pc = "settle" /\ c.accepted THEN c.req.action ELSE t.action
<1> DEFINE reached == t.reached \/ ReachedGateway(c)
           escalated == t.escalated \/ (c.req.action = "escalate" /\ c.accepted)
           allowed == IF c.pc = "settle" THEN c.verdict ELSE t.allowed
           refused == IF c.pc = "refuse" THEN c.verdict ELSE t.refused
           action == IF c.pc = "settle" /\ c.accepted THEN c.req.action ELSE t.action
<1>1. /\ reached \in BOOLEAN /\ escalated \in BOOLEAN
  OBVIOUS
<1>2. /\ allowed \in Verdicts \cup {"none"} /\ refused \in Verdicts \cup {"none"}
      /\ action \in LawfulActions
  BY DEF TallyType, CallType
<1>3. Tallied(t, c) = [t EXCEPT !.reached = reached, !.escalated = escalated,
                                !.allowed = allowed, !.refused = refused, !.action = action]
  BY DEF Tallied, TallyType
<1> HIDE DEF reached, escalated, allowed, refused, action
<1>4. LET u == [t EXCEPT !.reached = reached, !.escalated = escalated,
                         !.allowed = allowed, !.refused = refused, !.action = action]
      IN /\ u \in TallyType /\ u.reached = reached /\ u.escalated = escalated
         /\ u.allowed = allowed /\ u.action = action
  BY <1>1, <1>2 DEF TallyType
<1>. QED BY <1>3, <1>4 DEF reached, escalated, allowed, action

\* Rows of another kind leave every tally as true as it was.
LEMMA TallyKept ==
  ASSUME \A i \in Items : TallyIsTrue(i, tally[i]), tally' = tally, rows \subseteq rows',
         \A r \in rows' \ rows : r.kind # "action_taken"
  PROVE  \A i \in Items : TallyIsTrue(i, tally[i])'
<1>1. \A i : Taken(i)' = Taken(i)
  BY DEF Taken
<1>. QED BY <1>1 DEF TallyIsTrue

\* A step of a call keeps the tally as true as the ledger.
LEMMA ServeTallies ==
  ASSUME SessionInv, NEW w \in Callers, ServeTool(w)
  PROVE  /\ tally' \in [Items -> TallyType]
         /\ \A i \in Items : TallyIsTrue(i, tally[i])'
         /\ SentIsTallied'
<1> DEFINE no == call[w].no
<1>0. /\ TypeOK /\ CallsInOrder /\ Judged /\ SentIsSettled /\ CallsUnspoiled
      /\ tally \in [Items -> TallyType] /\ \A j \in Items : TallyIsTrue(j, tally[j])
      /\ SentIsTallied /\ Serve(w) /\ Idle.no = 0
      /\ \A e \in sent : e.no \in Nat \ {0} /\ e.item \in Items
      /\ tally' = IF call[w].pc \in {"settle", "refuse"} /\ errored' = errored
                    THEN [tally EXCEPT ![call[w].req.item] =
                            Tallied(tally[call[w].req.item], call[w])] ELSE tally
  BY DEF SessionInv, ServerInv, ServeTool, Idle, TypeOK
<1>1. /\ Moves(w) /\ call[w].pc # "idle" /\ rows \subseteq rows' /\ errored \subseteq errored'
      /\ \A v \in Callers \ {w} : call'[v] = call[v]
  BY <1>0, ServeMoves, ServeFrame DEF Moves
<1>2. ASSUME NEW e \in sent, e.no # no, e.happened, \A j \in Items :
               tally[j].reached => tally'[j].reached
      PROVE  \/ tally'[e.item].reached \/ e.no \in errored'
             \/ \E v \in Callers : call'[v].no = e.no
  BY <1>0, <1>1, <1>2 DEF SentIsTallied
<1>3. CASE call[w].pc \notin {"settle", "refuse"}
  <2>1. tally' = tally /\ \A r \in rows' \ rows : r.kind # "action_taken"
    BY <1>0, <1>3, ServeRows
  <2>2. \A j \in Items : TallyIsTrue(j, tally[j])'
    BY <1>0, <1>1, <2>1, TallyKept
  <2>3. ASSUME NEW e \in sent', e.happened
        PROVE  \/ tally'[e.item].reached \/ e.no \in errored'
               \/ \E v \in Callers : call'[v].no = e.no
    <3>1. CASE e \in sent
      <4>1. e.no # no
        BY <1>0, <1>3, <3>1 DEF SentIsSettled
      <4>. QED BY <1>2, <2>1, <2>3, <3>1, <4>1
    <3>2. CASE e \notin sent
      <4>1. Apply(w)
        BY <1>0, <3>2, ServeFrame
      <4>2. (\E accepted, happened \in BOOLEAN : sent' = sent \cup {Sending(w, accepted, happened)})
            /\ call'[w].no = no
        BY <1>0, <3>2, <4>1, ApplyActs
      <4>. QED BY <3>2, <4>2 DEF Sending
    <3>. QED BY <3>1, <3>2
  <2>. QED BY <1>0, <2>1, <2>2, <2>3 DEF SentIsTallied
<1>4. CASE call[w].pc \in {"settle", "refuse"} /\ rows' = rows
             /\ errored' = errored \cup {no} /\ sent' = sent
  <2>1. no \notin errored
    BY <1>0, <1>1 DEF CallsUnspoiled
  <2>2. tally' = tally
    BY <1>0, <1>4, <2>1
  <2>3. \A j \in Items : TallyIsTrue(j, tally[j])'
    BY <1>0, <1>4, <2>2, TallyKept
  <2>4. \A e \in sent : e.no = no => e.no \in errored'
    BY <1>4
  <2>. QED BY <1>0, <1>2, <1>4, <2>2, <2>3, <2>4 DEF SentIsTallied
<1>5. CASE call[w].pc \in {"settle", "refuse"} /\ rows' = rows \cup {FinalRow(w)}
             /\ errored' = errored /\ sent' = sent
  <2>0. PICK i \in Items : i = call[w].req.item
    BY <1>0, <1>5 DEF CallsInOrder, Held
  <2> DEFINE t == tally[i]
             u == Tallied(t, call[w])
             c == call[w]
             row == FinalRow(w)
  <2>1. i \in Items /\ c \in CallType /\ c.req \in Requests /\ c.req.action \in LawfulActions
    BY <1>0, <1>1, RequestsType DEF CallsInOrder, TypeOK
  <2>2. t \in TallyType /\ TallyIsTrue(i, t)
    BY <1>0, <2>1
  <2>3. /\ u \in TallyType
        /\ u.reached = (t.reached \/ ReachedGateway(c))
        /\ u.escalated = (t.escalated \/ (c.req.action = "escalate" /\ c.accepted))
        /\ u.allowed = IF c.pc = "settle" THEN c.verdict ELSE t.allowed
        /\ u.action = IF c.pc = "settle" /\ c.accepted THEN c.req.action ELSE t.action
    <3> HIDE DEF t, c
    <3>1. u = Tallied(t, c)
      BY DEF c
    <3>2. c.pc \in {"settle", "refuse"}
      BY <1>5 DEF c
    <3>3. Tallied(t, c) \in TallyType
      BY <2>1, <2>2, <3>2, TallyAfter
    <3> HIDE DEF u
    <3>. QED BY <2>1, <2>2, <3>1, <3>2, <3>3, TallyAfter
  <2>4. tally' = [tally EXCEPT ![i] = u]
    BY <1>0, <1>5, <2>0
  <2>5. /\ row.item = i /\ row.kind = ActionKind(c) /\ row.action = c.req.action
        /\ row.verdict = c.verdict /\ row.reached = ReachedGateway(c)
    BY <2>0 DEF FinalRow, Row
  <2>6. /\ c.pc = "refuse" => ~c.accepted /\ ~c.failed
        /\ c.pc = "settle" => c.verdict = VerdictFor(i)
        /\ ReachedGateway(c) => c.pc = "settle" /\ c.verdict = "allow"
    <3>1. c.pc = "refuse" => ~c.accepted /\ ~c.failed
      BY <1>0 DEF CallsUnspoiled
    <3>2. c.pc = "settle" => c.verdict = VerdictFor(i)
      BY <1>0, <2>0 DEF CallsUnspoiled, Acting
    <3>3. c.pc = "settle" => c.verdict = "allow" \/ c.req.action = "escalate"
      BY <1>0 DEF Judged
    <3>. QED BY <1>5, <3>1, <3>2, <3>3, ContactIsNoEscalation DEF ReachedGateway
  <2>7. /\ row.kind = "action_taken" <=> ReachedGateway(c) \/ c.accepted \/ c.failed
    BY <2>5 DEF ActionKind
  <2> HIDE DEF u, t, c, row
  <2>8. \A j \in Items : Taken(j)' = Taken(j) \cup {r \in {row} : r.item = j /\ r.kind = "action_taken"}
    BY <1>5 DEF Taken, row
  <2>9. tally'[i] = u /\ \A j \in Items : j # i => tally'[j] = tally[j]
    BY <1>0, <2>1, <2>4
  <2>10. tally' \in [Items -> TallyType]
    BY <1>0, <2>3, <2>4
  <2>11. ASSUME NEW j \in Items, j # i PROVE TallyIsTrue(j, tally[j])'
    <3>1. Taken(j)' = Taken(j)
      BY <2>5, <2>8, <2>11
    <3>. QED BY <1>0, <2>9, <2>11, <3>1 DEF TallyIsTrue
  <2>12. TallyIsTrue(i, tally[i])'
    <3>1. Taken(i)' = IF row.kind = "action_taken" THEN Taken(i) \cup {row} ELSE Taken(i)
      BY <2>1, <2>5, <2>8
    <3>2. u.reached <=> \E r \in Taken(i)' : r.reached
      <4>1. t.reached <=> \E r \in Taken(i) : r.reached
        BY <2>2 DEF TallyIsTrue
      <4>2. CASE row.kind = "action_taken"
        BY <2>3, <2>5, <3>1, <4>1, <4>2
      <4>3. CASE row.kind # "action_taken"
        BY <2>3, <2>7, <3>1, <4>1, <4>3
      <4>. QED BY <4>2, <4>3
    <3>3. u.allowed \in {"none", VerdictFor(i)}
      BY <2>2, <2>3, <2>6 DEF TallyIsTrue
    <3>4. u.reached => u.allowed = "allow"
      <4>1. CASE ReachedGateway(c)
        BY <2>3, <2>6, <4>1
      <4>2. CASE ~ReachedGateway(c)
        <5>1. u.reached => t.reached /\ t.allowed = "allow" /\ VerdictFor(i) = "allow"
          BY <2>2, <2>3, <4>2 DEF TallyIsTrue
        <5>. QED BY <2>3, <2>6, <5>1
      <4>. QED BY <4>1, <4>2
    <3>5. u.action # "do_nothing" =>
            /\ u.allowed # "none"
            /\ \E r \in Taken(i)' : r.action = u.action /\ r.verdict = u.allowed
      <4>0. VerdictFor(i) # "none" /\ \A r \in Taken(i) : r \in Taken(i)'
        BY <3>1 DEF VerdictFor
      <4>1. CASE c.pc = "settle" /\ c.accepted
        <5>1. row \in Taken(i)'
          BY <2>7, <3>1, <4>1
        <5>. QED BY <2>3, <2>5, <2>6, <4>0, <4>1, <5>1
      <4>2. CASE ~(c.pc = "settle" /\ c.accepted)
        <5>1. u.action # "do_nothing" =>
                /\ t.allowed = VerdictFor(i)
                /\ \E r \in Taken(i) : r.action = u.action /\ r.verdict = VerdictFor(i)
          BY <2>2, <2>3, <4>2 DEF TallyIsTrue
        <5>2. u.action # "do_nothing" => u.allowed = VerdictFor(i)
          BY <2>3, <2>6, <5>1
        <5>. QED BY <4>0, <5>1, <5>2
      <4>. QED BY <4>1, <4>2
    <3>6. u.escalated => \E r \in Taken(i)' : r.action = "escalate"
      <4>1. t.escalated => \E r \in Taken(i) : r.action = "escalate"
        BY <2>2 DEF TallyIsTrue
      <4>. QED BY <2>3, <2>5, <2>7, <3>1, <4>1
    <3>. QED BY <2>9, <3>2, <3>3, <3>4, <3>5, <3>6 DEF TallyIsTrue
  <2>13. \A j \in Items : tally[j].reached => tally'[j].reached
    BY <2>3, <2>9 DEF t
  <2>14. ASSUME NEW e \in sent, e.happened, e.no = no PROVE tally'[e.item].reached
    <3>1. ReachedGateway(c) /\ e.item = i
      BY <1>0, <2>0, <2>14 DEF SentIsSettled, CallsUnspoiled, c
    <3>. QED BY <2>3, <2>9, <3>1
  <2>. QED BY <1>2, <1>5, <2>10, <2>11, <2>12, <2>13, <2>14 DEF SentIsTallied
<1>. QED BY <1>0, <1>3, <1>4, <1>5, FinishWrites

-----------------------------------------------------------------------------
(* The whole invocation.                                                   *)

LEMMA InitSession == SessionInit => SessionInv
<1>. SUFFICES ASSUME SessionInit PROVE SessionInv
  OBVIOUS
<1>1. ServerInv /\ served \in Items
  BY InitServer DEF SessionInit
<1>2. /\ call = [w \in Callers |-> Idle] /\ rows = {} /\ sent = {} /\ errored = {}
      /\ tally = [i \in Items |-> FreshTally] /\ outcome = NoOutcome /\ phase = "observing"
  BY DEF SessionInit, Init
<1>3. CallsUnspoiled
  BY <1>2 DEF CallsUnspoiled, Idle, Acting
<1>4. tally \in [Items -> TallyType] /\ \A i \in Items : TallyIsTrue(i, tally[i])
  <2>1. FreshTally \in TallyType
    BY DEF FreshTally, TallyType, LawfulActions, SafeActions
  <2>2. \A i \in Items : TallyIsTrue(i, FreshTally)
    BY <1>2 DEF TallyIsTrue, FreshTally, Taken
  <2>. QED BY <1>2, <2>1, <2>2
<1>5. SentIsTallied /\ PhaseInOrder /\ OutcomeIsTrue
  BY <1>2 DEF SentIsTallied, PhaseInOrder, OutcomeIsTrue, NoOutcome, Idle, Observed
<1>. QED BY <1>1, <1>3, <1>4, <1>5 DEF SessionInv

\* What is filed of a tally that is true, after the last call, is true.
LEMMA FiledIsTrue ==
  ASSUME SessionInv, FileOutcome
  PROVE  OutcomeIsTrue'
<1> DEFINE t == tally[served]
           filed == OutcomeRow(phase = "observed")
<1>0. /\ served \in Items /\ served' = served /\ rows' = rows /\ sent' = sent
      /\ errored' = errored /\ phase \in {"blind", "observed"}
      /\ outcome' = filed \/ outcome' = outcome
      /\ TallyIsTrue(served, t) /\ SentIsTallied /\ PhaseInOrder
      /\ \A e \in sent : e.no # 0
  BY DEF SessionInv, FileOutcome, vars, ledgerFile, ServerInv, TypeOK
<1>1. CASE outcome' = outcome
  <2>1. ~outcome.filed
    BY <1>0 DEF PhaseInOrder
  <2>. QED BY <1>1, <2>1 DEF OutcomeIsTrue
<1>2. CASE outcome' = filed
  <2>1. /\ filed.observed = (phase = "observed") /\ filed.reached = t.reached
        /\ filed.escalated = t.escalated /\ filed.action = t.action
        /\ filed.verdict = IF t.allowed # "none" THEN t.allowed ELSE t.refused
    BY DEF OutcomeRow, VerdictOf
  <2> HIDE DEF filed, t
  <2>2. filed.reached <=> \E r \in Taken(served) : r.reached
    BY <1>0, <2>1 DEF TallyIsTrue
  <2>3. filed.reached => filed.verdict = "allow"
    BY <1>0, <2>1 DEF TallyIsTrue
  <2>4. filed.action # "do_nothing" =>
          \E r \in Taken(served) : r.action = filed.action /\ r.verdict = filed.verdict
    BY <1>0, <2>1 DEF TallyIsTrue
  <2>5. filed.escalated => \E r \in Taken(served) : r.action = "escalate"
    BY <1>0, <2>1 DEF TallyIsTrue
  <2>6. ASSUME NEW e \in sent, e.item = served, e.happened
        PROVE  filed.reached \/ e.no \in errored
    <3>1. \A w \in Callers : call[w].no = 0
      BY <1>0 DEF PhaseInOrder, SessionInv, ServerInv, CallsInOrder
    <3>. QED BY <1>0, <2>1, <2>6, <3>1 DEF SentIsTallied, t
  <2>7. filed.observed <=> Observed
    BY <1>0, <2>1 DEF PhaseInOrder
  <2>. QED
    BY <1>0, <1>2, <2>2, <2>3, <2>4, <2>5, <2>6, <2>7 DEF OutcomeIsTrue, Taken, Observed
<1>. QED BY <1>0, <1>1, <1>2

LEMMA StepSession == SessionInv /\ [SessionNext]_sessionVars => SessionInv'
<1>. SUFFICES ASSUME SessionInv, [SessionNext]_sessionVars PROVE SessionInv'
  OBVIOUS
<1>0. /\ ServerInv /\ TypeOK /\ CallsInOrder /\ served \in Items /\ CallsUnspoiled
      /\ tally \in [Items -> TallyType] /\ \A i \in Items : TallyIsTrue(i, tally[i])
      /\ SentIsTallied /\ PhaseInOrder /\ OutcomeIsTrue
      /\ \A e \in sent : e.no \in Nat \ {0}
  BY DEF SessionInv, ServerInv, TypeOK
<1>1. ServerInv' /\ CallsUnspoiled' /\ served' = served /\ served' \in Items
  BY <1>0, SessionSteps, StepServer, StepUnspoiled
<1>2. ASSUME ~outcome.filed, outcome' = outcome PROVE OutcomeIsTrue'
  BY <1>2 DEF OutcomeIsTrue
<1>3. phase # "over" => ~outcome.filed
  BY <1>0 DEF PhaseInOrder
<1>4. ASSUME tally' = tally, outcome' = outcome, ~outcome.filed,
             rows \subseteq rows', \A r \in rows' \ rows : r.kind # "action_taken",
             errored \subseteq errored', sent' = sent,
             \A w \in Callers : \A e \in sent : call[w].no = e.no => call'[w].no = e.no,
             PhaseInOrder'
      PROVE  SessionInv'
  <2>1. \A i \in Items : TallyIsTrue(i, tally[i])'
    BY <1>0, <1>4, TallyKept
  <2>2. SentIsTallied'
    BY <1>0, <1>4 DEF SentIsTallied
  <2>3. OutcomeIsTrue'
    BY <1>2, <1>4
  <2>. QED BY <1>0, <1>1, <1>4, <2>1, <2>2, <2>3 DEF SessionInv
<1>5. CASE ObserveAndRecord
  <2>1. /\ phase = "observing" /\ phase' \in {"serving", "over"}
        /\ tally' = tally /\ outcome' = outcome /\ call' = call
        /\ errored' = errored /\ sent' = sent
        /\ Written(ServedRow("classified")) \/ NotWritten \/ UNCHANGED ledgerFile
    BY <1>5 DEF ObserveAndRecord
  <2>2. rows \subseteq rows' /\ \A r \in rows' \ rows : r.kind = "classified"
    BY <2>1 DEF Written, NotWritten, ServedRow, Row, ledgerFile
  <2>3. PhaseInOrder'
    BY <1>0, <1>1, <2>1, <2>2 DEF PhaseInOrder, Observed
  <2>. QED BY <1>3, <1>4, <2>1, <2>2, <2>3
<1>6. CASE Client
  <2>1. /\ phase = "serving" /\ phase' = phase /\ tally' = tally /\ outcome' = outcome
    BY <1>6 DEF Client
  <2>2. CASE Tick
    <3>1. UNCHANGED <<rows, errored, sent, call>>
      BY <2>2 DEF Tick, ledgerFile
    <3>2. PhaseInOrder'
      BY <1>0, <1>1, <2>1, <3>1 DEF PhaseInOrder, Observed
    <3>. QED BY <1>3, <1>4, <2>1, <3>1, <3>2
  <2>3. ASSUME NEW w \in Callers, NEW req \in Requests, Gate(w, req) PROVE SessionInv'
    <3>1. rows \subseteq rows' /\ errored \subseteq errored' /\ sent' = sent
      BY <2>3, GateFrame
    <3>2. \A r \in rows' \ rows : r.kind = "tool_call"
      BY <2>3 DEF Gate, Written, NotWritten, Row
    <3>3. call[w].no = 0 /\ \A v \in Callers \ {w} : call'[v] = call[v]
      BY <1>0, <2>3, GateMoves DEF CallsInOrder
    <3>4. \A v \in Callers : \A e \in sent : call[v].no = e.no => call'[v].no = e.no
      BY <1>0, <3>3
    <3>5. PhaseInOrder'
      BY <1>0, <1>1, <2>1, <3>1, <3>2 DEF PhaseInOrder, Observed
    <3>. QED BY <1>3, <1>4, <2>1, <3>1, <3>2, <3>4, <3>5
  <2>. QED BY <1>6, <2>2, <2>3 DEF Client
<1>7. CASE EndServe
  <2>1. /\ phase = "serving" /\ phase' = "reading" /\ tally' = tally /\ outcome' = outcome
        /\ UNCHANGED <<rows, errored, sent, call>> /\ \A w \in Callers : call[w].pc = "idle"
    BY <1>7 DEF EndServe, vars, ledgerFile, At
  <2>2. PhaseInOrder'
    BY <1>0, <1>1, <2>1 DEF PhaseInOrder, Observed
  <2>. QED BY <1>3, <1>4, <2>1, <2>2
<1>8. CASE ReadBack
  <2>1. /\ phase = "reading" /\ tally' = tally /\ outcome' = outcome
        /\ UNCHANGED <<errored, sent, call>>
        /\ \/ phase' = "blind" /\ UNCHANGED ledgerFile
           \/ phase' = "observed" /\ Written(ServedRow("outcome_observed"))
           \/ phase' = "over" /\ NotWritten
    BY <1>8 DEF ReadBack
  <2>2. rows \subseteq rows' /\ \A r \in rows' \ rows : r.kind = "outcome_observed"
    BY <2>1 DEF Written, NotWritten, ServedRow, Row, ledgerFile
  <2>3. PhaseInOrder'
    <3>1. CASE phase' = "blind" /\ UNCHANGED ledgerFile
      BY <1>0, <1>1, <2>1, <3>1 DEF PhaseInOrder, Observed, ledgerFile
    <3>2. CASE phase' = "observed" /\ Written(ServedRow("outcome_observed"))
      <4> DEFINE row == ServedRow("outcome_observed")
      <4>1. row.item = served /\ row.kind = "outcome_observed"
        BY DEF ServedRow, Row, NoRequest
      <4>2. row \in rows'
        BY <3>2 DEF Written
      <4> HIDE DEF row
      <4>3. Observed'
        BY <1>1, <4>1, <4>2 DEF Observed
      <4>. QED BY <1>0, <2>1, <3>2, <4>3 DEF PhaseInOrder
    <3>3. CASE phase' = "over" /\ NotWritten
      BY <1>0, <2>1, <3>3 DEF PhaseInOrder
    <3>. QED BY <2>1, <3>1, <3>2, <3>3
  <2>. QED BY <1>3, <1>4, <2>1, <2>2, <2>3
<1>9. CASE FileOutcome
  <2>1. /\ phase' = "over" /\ phase \in {"blind", "observed"} /\ tally' = tally
        /\ UNCHANGED <<rows, errored, sent, call>>
        /\ outcome' = OutcomeRow(phase = "observed") \/ outcome' = outcome
    BY <1>9 DEF FileOutcome, vars, ledgerFile
  <2>2. outcome'.filed \in BOOLEAN
    <3>1. OutcomeRow(phase = "observed").filed = TRUE
      BY DEF OutcomeRow
    <3>. QED BY <1>0, <2>1, <3>1 DEF PhaseInOrder
  <2>3. PhaseInOrder'
    BY <1>0, <2>1, <2>2 DEF PhaseInOrder
  <2>4. \A i \in Items : TallyIsTrue(i, tally[i])'
    BY <1>0, <2>1, TallyKept
  <2>5. SentIsTallied'
    BY <1>0, <2>1 DEF SentIsTallied
  <2>. QED BY <1>0, <1>1, <1>9, <2>1, <2>3, <2>4, <2>5, FiledIsTrue DEF SessionInv
<1>10. ASSUME NEW w \in Callers, ServeTool(w) PROVE SessionInv'
  <2>1. phase = "serving" /\ phase' = phase /\ outcome' = outcome /\ Serve(w)
    BY <1>10 DEF ServeTool
  <2>2. PhaseInOrder'
    <3>1. rows \subseteq rows' /\ \A r \in rows' \ rows : r.kind # "outcome_observed"
      BY <2>1, ServeRows
    <3>. QED BY <1>0, <1>1, <2>1, <3>1 DEF PhaseInOrder, Observed
  <2>3. OutcomeIsTrue'
    BY <1>2, <1>3, <2>1
  <2>. QED BY <1>1, <1>10, <2>2, <2>3, ServeTallies DEF SessionInv
<1>11. CASE UNCHANGED sessionVars
  <2>1. UNCHANGED <<rows, errored, sent, call, tally, outcome, phase, served>>
    BY <1>11 DEF sessionVars, vars, ledgerFile
  <2>2. \A i \in Items : TallyIsTrue(i, tally[i])'
    BY <1>0, <2>1, TallyKept
  <2>3. SentIsTallied' /\ PhaseInOrder' /\ OutcomeIsTrue'
    BY <1>0, <2>1 DEF SentIsTallied, PhaseInOrder, OutcomeIsTrue, Observed
  <2>. QED BY <1>0, <1>1, <2>1, <2>2, <2>3 DEF SessionInv
<1>. QED BY <1>5, <1>6, <1>7, <1>8, <1>9, <1>10, <1>11 DEF SessionNext

-----------------------------------------------------------------------------
(* The theorems.                                                           *)

\* An invocation of rzp-mcp (cmd/rzp-mcp) keeps what the server keeps, and its
\* tally beside the ledger.
THEOREM SessionCorrect == SessionSpec => []SessionInv
  BY InitSession, StepSession, PTL DEF SessionSpec

\* In an invocation, too, the policy's verdict is on the ledger before anything
\* is sent.
THEOREM SessionVerdictOnRecord == SessionSpec => []VerdictOnRecord
<1>1. SessionInv => VerdictOnRecord
  BY DEF SessionInv, ServerInv
<1>. QED BY SessionCorrect, <1>1, PTL

\* A contact that went out is on the ledger as one, or its caller was told of
\* an error.
THEOREM SessionReportsContacts == SessionSpec => []ContactsReported
<1>1. SessionInv => ContactsReported
  BY DEF SessionInv, ServerInv
<1>. QED BY SessionCorrect, <1>1, PTL

\* The outcome row of an invocation says what its ledger says, and its verdict
\* is the one behind what was done.
THEOREM SessionOutcomeIsTrue == SessionSpec => []OutcomeIsTrue
<1>1. SessionInv => OutcomeIsTrue
  BY DEF SessionInv
<1>. QED BY SessionCorrect, <1>1, PTL

\* In an invocation, too: one accepted request of a kind for a debt, the cap with
\* the lost contacts in it, the window between notifications, promises, and the
\* bound on what parallel callers overspend.
THEOREM SessionKeepsLimits ==
  SessionSpec => [](/\ OneAcceptedEffect /\ CapCountsLostContacts /\ SendsSpacedPerDebt
                    /\ PromiseKept /\ BudgetOvershoot)
<1>1. ServerInv => CapCountsLostContacts
  BY CapFromCount DEF ServerInv
<1>2. ServerInv => OneAcceptedEffect /\ SendsSpacedPerDebt /\ PromiseKept
  BY DEF ServerInv
<1>3. ServerInv => BudgetOvershoot
  BY OvershootFromCount
<1>4. SessionInv => ServerInv
  BY DEF SessionInv
<1>. QED BY SessionCorrect, <1>1, <1>2, <1>3, <1>4, PTL

-----------------------------------------------------------------------------
(* The cooldown.                                                           *)

Cooldown(i) == ParamsFor(Book[i].source).cooldown

\* R2 under parallel callers: once a notification about a debt went out, its
\* answer lost or not, no later request about that debt leaves before the
\* cooldown is over, a new payment link included.
CooldownKept ==
  \A e, f \in sent :
    /\ e.item = f.item /\ e.at < f.at
    /\ e.happened /\ e.action \in NotifyActions
    => f.at - e.at >= Cooldown(e.item)

\* The server commits notifications only, so the two clocks of a debt are one;
\* and what was let in is past the cooldown until it is sent.
CooldownInv ==
  /\ \A i \in Items : store.debt[i].lastAction = store.debt[i].lastNotify
  /\ \A w \in Callers :
       call[w].pc = "apply" /\ call[w].req.action \in ContactActions =>
         ~Within(now, store.debt[call[w].req.item].lastAction, Cooldown(call[w].req.item))
  /\ CooldownKept

LEMMA CooldownType == ASSUME NEW i \in Items PROVE Cooldown(i) \in Int
<1> DEFINE source == Book[i].source
           row == IF source \in DOMAIN SourceTable THEN SourceTable[source]
                  ELSE [grace |-> 0, requiresSignal |-> FALSE,
                        maxTouches |-> Defaults.maxTouches,
                        cooldown   |-> Defaults.cooldown]
<1>1. Settings.cooldown \in Int
  BY PolicyAssumption DEF Settings, WithDefaults, OrDefault
<1>2. row \in [grace : Nat, maxTouches : Nat, cooldown : Int, requiresSignal : BOOLEAN]
  BY PolicyAssumption
<1>3. ParamsFor(source) = [row EXCEPT !.maxTouches = OrDefault(Settings.maxTouches, @),
                                      !.cooldown   = OrDefault(Settings.cooldown, @)]
  BY DEF ParamsFor
<1> HIDE DEF row
<1>4. ParamsFor(source).cooldown = OrDefault(Settings.cooldown, row.cooldown)
  BY <1>2, <1>3
<1>. QED BY <1>1, <1>2, <1>4 DEF Cooldown, OrDefault

\* What R2 saw when the policy let a contact in.
LEMMA AllowIsCool ==
  ASSUME NEW w \in Callers, call[w].req.item \in Items,
         call[w].req.action \in ContactActions, Allowed(Decide(w))
  PROVE  LET i == call[w].req.item
         IN  ~Within(now, store.debt[i].lastAction, Cooldown(i))
<1> DEFINE i == call[w].req.item
           action == call[w].req.action
           s == StateFor(i, IdempotencyKey(i, action, TouchNo(i)))
           q == RequestFromClassified(i, Seen(w), action, ActiveHold(i), TouchNo(i))
<1>1. q.action = action /\ q.source = Book[i].source
  <2>1. Seen(w).source = Book[i].source
    BY BookFact DEF Seen, ItemRecord
  <2>. QED BY <2>1 DEF RequestFromClassified
<1>2. s.lastTouch = store.debt[i].lastAction
  BY DEF StateFor, Snapshot
<1>3. Allowed(Evaluate(s, q, now))
  BY DEF Decide
<1> HIDE DEF s, q
<1>4. ~Fires("R2", s, q, now)
  BY <1>3, EvaluateAllows DEF Rules, Rank
<1>. QED BY <1>1, <1>2, <1>4 DEF Fires, IsContact, Cooldown

\* A notification moves both clocks of its debt together.
LEMMA ClocksTogether ==
  ASSUME NEW st \in StoreType(Items, Keys), NEW i \in Items, NEW key, NEW t \in Nat,
         \A j \in Items : st.debt[j].lastAction = st.debt[j].lastNotify
  PROVE  \A j \in Items : Notified(st, i, key, t).debt[j].lastAction =
                            Notified(st, i, key, t).debt[j].lastNotify
<1>1. /\ st.debt \in [Items -> [attempts : Nat, lastAction : Nat, lastNotify : Nat]]
      /\ st = [debt |-> st.debt, keys |-> st.keys, actions |-> st.actions]
  BY DEF StoreType
<1>. QED BY <1>1 DEF Notified, Commit

LEMMA InitCooldown == Init => CooldownInv
  BY DEF Init, CooldownInv, CooldownKept, NewStore, Untouched, Idle

LEMMA StepCooldown == ServerInv /\ CooldownInv /\ [ServerStep]_vars => CooldownInv'
<1>. SUFFICES ASSUME ServerInv, CooldownInv, [ServerStep]_vars PROVE CooldownInv'
  OBVIOUS
<1>0. TypeOK /\ CallsInOrder /\ ClockCovers /\ PromisesPast
  BY DEF ServerInv
<1>a. /\ now \in Nat /\ \A i \in Items : Cooldown(i) \in Int
      /\ \A i \in Items : store.debt[i].lastAction \in Nat
      /\ \A e \in sent : e.at \in Nat /\ e.item \in Items /\ e.at <= now
      /\ store \in StoreType(Items, Keys)
  BY <1>0, CooldownType DEF TypeOK, StoreType, PromisesPast
<1>b. /\ \A i \in Items : store.debt[i].lastAction = store.debt[i].lastNotify
      /\ CooldownKept
  BY DEF CooldownInv
<1>1. CASE NothingDone
  <2>1. store' = store /\ sent' = sent /\ (now' = now \/ now' = now + 1)
    BY <1>1 DEF NothingDone
  <2>2. CooldownKept'
    BY <1>b, <2>1 DEF CooldownKept
  <2>3. ASSUME NEW w \in Callers, call'[w].pc = "apply", call'[w].req.action \in ContactActions
        PROVE  ~Within(now', store.debt[call'[w].req.item].lastAction,
                       Cooldown(call'[w].req.item))
    <3>1. call'[w] = call[w]
      BY <1>1, <2>3 DEF NothingDone, Acting
    <3>2. call[w].req.item \in Items
      BY <1>0, <2>3, <3>1 DEF CallsInOrder
    <3>3. ~Within(now, store.debt[call[w].req.item].lastAction, Cooldown(call[w].req.item))
      BY <2>3, <3>1 DEF CooldownInv
    <3>. QED BY <1>a, <2>1, <3>1, <3>2, <3>3 DEF Within
  <2>. QED BY <1>b, <2>1, <2>2, <2>3 DEF CooldownInv
<1>2. ASSUME NEW w \in Callers, LetIn(w) PROVE CooldownInv'
  <2>1. /\ store' = store /\ sent' = sent /\ now' = now
        /\ \A v \in Callers \ {w} : call'[v] = call[v] /\ call[v].pc \notin Acting
        /\ call[w].pc = "waiting" /\ call'[w].pc = "apply"
    BY <1>2 DEF LetIn, Alone
  <2>2. /\ call'[w].req = call[w].req /\ call[w].req.item \in Items
        /\ Allowed(Decide(w)) \/ call[w].req.action = "escalate"
    BY <1>0, <1>2, EnterJudges DEF LetIn
  <2>3. call[w].req.action \in ContactActions =>
          ~Within(now, store.debt[call[w].req.item].lastAction, Cooldown(call[w].req.item))
    BY <2>2, AllowIsCool DEF ContactActions, NotifyActions
  <2>4. CooldownKept'
    BY <1>b, <2>1 DEF CooldownKept
  <2>. QED BY <1>b, <2>1, <2>2, <2>3, <2>4 DEF CooldownInv, Acting
<1>3. ASSUME NEW w \in Callers, Acts(w) PROVE CooldownInv'
  <2>1. /\ store' = store /\ now' = now
        /\ \A v \in Callers \ {w} : call'[v] = call[v] /\ call[v].pc \notin Acting
        /\ call[w].pc = "apply" /\ call'[w].pc = "settle" /\ Apply(w)
    BY <1>3 DEF Acts, Alone
  <2>2. PICK accepted, happened \in BOOLEAN :
          \/ sent' = sent
          \/ /\ sent' = sent \cup {Sending(w, accepted, happened)}
             /\ call[w].req.action \in ContactActions
    BY <1>0, <2>1, ApplyActs
  <2> DEFINE request == Sending(w, accepted, happened)
  <2>3. request.item = call[w].req.item /\ request.at = now
    BY DEF Sending
  <2>4. sent' = sent \/ (sent' = sent \cup {request} /\ call[w].req.action \in ContactActions)
    BY <2>2
  <2> HIDE DEF request
  <2>5. ASSUME NEW e \in sent, e.item = request.item, e.happened, e.action \in NotifyActions,
               call[w].req.action \in ContactActions
        PROVE  now - e.at >= Cooldown(e.item)
    <3>1. e.at > 0 /\ e.at <= store.debt[e.item].lastNotify
      BY <1>0, <2>1, <2>5 DEF ClockCovers, Acting
    <3>2. ~Within(now, store.debt[e.item].lastAction, Cooldown(e.item))
      BY <2>1, <2>3, <2>5 DEF CooldownInv
    <3>. QED BY <1>a, <1>b, <3>1, <3>2 DEF Within
  <2>6. CooldownKept'
    <3> SUFFICES ASSUME NEW e \in sent', NEW f \in sent', e.item = f.item, e.at < f.at,
                        e.happened, e.action \in NotifyActions
                 PROVE  f.at - e.at >= Cooldown(e.item)
      BY DEF CooldownKept
    <3>1. CASE e \in sent /\ f \in sent
      BY <1>b, <3>1 DEF CooldownKept
    <3>2. CASE e \in sent /\ f = request
      <4>1. CASE sent' = sent
        BY <1>b, <3>2, <4>1 DEF CooldownKept
      <4>2. CASE call[w].req.action \in ContactActions
        BY <2>3, <2>5, <3>2, <4>2
      <4>. QED BY <2>4, <4>1, <4>2
    <3>3. e \in sent
      <4>1. \A g \in sent' : g.at <= now
        BY <1>a, <2>3, <2>4
      <4>2. CASE e = request /\ e \notin sent
        <5>1. f \in sent \/ f = request
          BY <2>4
        <5>2. f.at \in Nat
          BY <1>a, <2>3, <5>1
        <5>. QED BY <1>a, <2>3, <4>1, <4>2, <5>2
      <4>. QED BY <2>4, <4>2
    <3>. QED BY <2>4, <3>1, <3>2, <3>3
  <2>. QED BY <1>b, <2>1, <2>6 DEF CooldownInv, Acting
<1>4. ASSUME NEW w \in Callers, Settles(w) PROVE CooldownInv'
  <2> DEFINE i == call[w].req.item
             key == call[w].key
             notified == ReachedGateway(call[w]) /\ call[w].req.action \in NotifyActions
  <2>1. /\ sent' = sent /\ now' = now
        /\ \A v \in Callers \ {w} : call'[v] = call[v] /\ call[v].pc \notin Acting
        /\ call[w].pc = "settle" /\ call'[w].pc = "idle"
        /\ store' = IF notified THEN Notified(store, i, key, now) ELSE store
    BY <1>4 DEF Settles, Alone, Settle, Idle, Notified
  <2>2. i \in Items
    BY <1>0, <2>1 DEF CallsInOrder
  <2> HIDE DEF i, key, notified
  <2>3. \A j \in Items : store'.debt[j].lastAction = store'.debt[j].lastNotify
    BY <1>a, <1>b, <2>1, <2>2, ClocksTogether
  <2>4. CooldownKept'
    BY <1>b, <2>1 DEF CooldownKept
  <2>. QED BY <2>1, <2>3, <2>4 DEF CooldownInv, Acting
<1>. QED BY <1>0, <1>1, <1>2, <1>3, <1>4, StepKinds

\* In an invocation no request about a debt leaves within the cooldown of a
\* notification that went out, whoever asked for it, whichever of the answers
\* was lost, and although it was judged before it was sent.
THEOREM CooldownHolds == SessionSpec => []CooldownKept
<1>1. SessionInit => CooldownInv
  BY InitCooldown DEF SessionInit
<1>2. SessionInv /\ CooldownInv /\ [SessionNext]_sessionVars => CooldownInv'
  <2>1. SessionInv => ServerInv /\ served \in Items
    BY DEF SessionInv
  <2>. QED BY <2>1, SessionSteps, StepCooldown
<1>3. CooldownInv => CooldownKept
  BY DEF CooldownInv
<1>. QED BY SessionCorrect, <1>1, <1>2, <1>3, PTL DEF SessionSpec

-----------------------------------------------------------------------------
(* Why every call is answered.  Fairness and ENABLED are out of the        *)
(* prover's reach, so this is the part of EveryCallAnswered that is about  *)
(* the code: a call has a few steps and takes each once, nobody else's step*)
(* adds to them, and whoever waits for the mutex waits for a caller who can*)
(* go on.                                                                  *)

StepsLeft(w) ==
  CASE call[w].pc = "handler" -> 4 [] call[w].pc = "waiting" -> 3 [] call[w].pc = "apply" -> 2
    [] call[w].pc \in {"decided", "refuse", "settle"} -> 1 [] call[w].pc = "idle" -> 0

LEMMA ServingCosts ==
  ASSUME TypeOK, CallsInOrder, NEW w \in Callers, ServeTool(w)
  PROVE  StepsLeft(w) \in Nat /\ StepsLeft(w)' < StepsLeft(w)
<1>1. Moves(w)
  BY ServeMoves DEF ServeTool
<1>2. call[w].pc \in {"handler", "decided", "waiting", "refuse", "apply", "settle"}
  BY <1>1 DEF Moves, TypeOK, CallType
<1>3. call'[w].pc = "idle" \/ <<call[w].pc, call'[w].pc>> \in Onward
  BY <1>1 DEF Moves, Idle
<1>. QED BY <1>2, <1>3 DEF StepsLeft, Onward

LEMMA NobodyIsTakenBack ==
  ASSUME TypeOK, CallsInOrder, SessionNext, NEW w \in Callers, call[w].pc # "idle",
         ~ServeTool(w)
  PROVE  call'[w] = call[w]
<1>1. CASE ObserveAndRecord \/ EndServe \/ ReadBack \/ FileOutcome
  BY <1>1 DEF ObserveAndRecord, EndServe, ReadBack, FileOutcome, vars
<1>2. CASE Client
  <2>1. CASE Tick
    BY <2>1 DEF Tick
  <2>2. ASSUME NEW v \in Callers, NEW req \in Requests, Gate(v, req)
        PROVE  call'[w] = call[w]
    BY <2>2, GateMoves
  <2>. QED BY <1>2, <2>1, <2>2 DEF Client
<1>3. ASSUME NEW v \in Callers \ {w}, ServeTool(v)
      PROVE  call'[w] = call[w]
  <2>1. Moves(v)
    BY <1>3, ServeMoves DEF ServeTool
  <2>. QED BY <2>1 DEF Moves
<1>. QED BY <1>1, <1>2, <1>3 DEF SessionNext

\* Each step of a call brings it nearer to its answer, and while a call is under
\* way no step of another, of the client or of the invocation takes it back.
THEOREM CallsGoForward ==
  SessionSpec =>
    [][\A w \in Callers :
         /\ ServeTool(w) => StepsLeft(w) \in Nat /\ StepsLeft(w)' < StepsLeft(w)
         /\ call[w].pc # "idle" /\ ~ServeTool(w) => StepsLeft(w)' = StepsLeft(w)]_sessionVars
<1>1. SessionInv /\ [SessionNext]_sessionVars =>
        [\A w \in Callers :
           /\ ServeTool(w) => StepsLeft(w) \in Nat /\ StepsLeft(w)' < StepsLeft(w)
           /\ call[w].pc # "idle" /\ ~ServeTool(w) => StepsLeft(w)' = StepsLeft(w)]_sessionVars
  <2>. SUFFICES ASSUME SessionInv, SessionNext, NEW w \in Callers
                PROVE  /\ ServeTool(w) => StepsLeft(w) \in Nat /\ StepsLeft(w)' < StepsLeft(w)
                       /\ call[w].pc # "idle" /\ ~ServeTool(w) => StepsLeft(w)' = StepsLeft(w)
    OBVIOUS
  <2>1. TypeOK /\ CallsInOrder
    BY DEF SessionInv, ServerInv
  <2>2. call'[w] = call[w] => StepsLeft(w)' = StepsLeft(w)
    BY DEF StepsLeft
  <2>. QED BY <2>1, <2>2, ServingCosts, NobodyIsTakenBack
<1>. QED BY SessionCorrect, <1>1, PTL DEF SessionSpec

\* What the gate lets through to a handler is a call that handler takes.
HandlersKnown ==
  \A w \in Callers :
    call[w].pc = "handler" => call[w].req.tool \in ActionTools \cup {"record_decision"}

LEMMA StepHandlers ==
  SessionInv /\ HandlersKnown /\ [SessionNext]_sessionVars => HandlersKnown'
<1>. SUFFICES ASSUME SessionInv, HandlersKnown, [SessionNext]_sessionVars PROVE HandlersKnown'
  OBVIOUS
<1>0. TypeOK /\ CallsInOrder /\ [ServerStep]_vars
  BY SessionSteps DEF SessionInv, ServerInv
<1>1. CASE \E w \in Callers : Serve(w)
  <2>1. PICK w \in Callers : Moves(w)
    BY <1>0, <1>1, ServeMoves
  <2>. QED BY <2>1 DEF Moves, HandlersKnown, Idle, Onward
<1>2. CASE \E w \in Callers, req \in Requests : Gate(w, req)
  <2>1. PICK w \in Callers, req \in Requests : Gate(w, req)
    BY <1>2
  <2>2. /\ \A v \in Callers \ {w} : call'[v] = call[v]
        /\ \/ call'[w] = call[w]
           \/ call'[w].req = req /\ Admits(req)
    BY <1>0, <2>1, GateMoves
  <2>3. call' # call => req.tool \notin ReadTools
    BY <2>1 DEF Gate
  <2>4. call'[w] # call[w] => req.tool \in ActionTools \cup {"record_decision"}
    BY <2>2, <2>3 DEF Admits, Tools
  <2>. QED BY <2>2, <2>4 DEF HandlersKnown
<1>3. CASE UNCHANGED call
  BY <1>3 DEF HandlersKnown
<1>. QED BY <1>0, <1>1, <1>2, <1>3, StepCases

\* The guard of some step of a call: its handler takes it, the mutex is free for
\* it or is its own, or it has a row to write.
CanGoOn(w) ==
  \/ call[w].pc = "handler" /\ call[w].req.tool \in ActionTools \cup {"record_decision"}
  \/ call[w].pc = "waiting" /\ Free
  \/ call[w].pc \in {"decided", "apply", "refuse", "settle"}

\* The callers never all wait for one another: while a call is under way the
\* session is served, and it can go on or the caller who has the mutex can.
THEOREM WhoeverWaitsWaitsForAWorker ==
  SessionSpec =>
    [](\A w \in Callers : call[w].pc # "idle" =>
         phase = "serving" /\ (CanGoOn(w) \/ (holder \in Callers /\ CanGoOn(holder))))
<1>1. SessionInit => HandlersKnown
  BY DEF SessionInit, Init, HandlersKnown, Idle
<1>2. SessionSpec => []HandlersKnown
  BY SessionCorrect, StepHandlers, <1>1, PTL DEF SessionSpec
<1>3. SessionInv /\ HandlersKnown =>
        \A w \in Callers : call[w].pc # "idle" =>
          phase = "serving" /\ (CanGoOn(w) \/ (holder \in Callers /\ CanGoOn(holder)))
  <2>. SUFFICES ASSUME SessionInv, HandlersKnown, NEW w \in Callers, call[w].pc # "idle"
                PROVE  phase = "serving" /\ (CanGoOn(w) \/ (holder \in Callers /\ CanGoOn(holder)))
    OBVIOUS
  <2>1. /\ TypeOK /\ CallsInOrder /\ phase = "serving"
        /\ call[w].pc \in {"handler", "decided", "waiting", "refuse", "apply", "settle"}
    <3>1. TypeOK /\ CallsInOrder /\ PhaseInOrder
      BY DEF SessionInv, ServerInv
    <3>2. phase = "serving"
      BY <3>1 DEF PhaseInOrder
    <3>3. call[w] \in CallType
      BY <3>1 DEF TypeOK
    <3>. QED BY <3>1, <3>2, <3>3 DEF CallType
  <2>2. CASE call[w].pc = "waiting" /\ ~Free
    <3>1. holder \in Callers
      BY <2>1, <2>2 DEF Free, TypeOK
    <3>2. call[holder].pc \in Held
      BY <2>1, <3>1 DEF CallsInOrder
    <3>. QED BY <2>1, <3>1, <3>2 DEF CanGoOn, Held
  <2>. QED BY <2>1, <2>2 DEF CanGoOn, HandlersKnown
<1>. QED BY SessionCorrect, <1>2, <1>3, PTL
=============================================================================
