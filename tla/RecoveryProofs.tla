---------------------------- MODULE RecoveryProofs ----------------------------
(***************************************************************************)
(* What holds of rzp run and of rzp demo for every batch of orders, every  *)
(* class and every setting of the poller and of the naive arm.             *)
(*                                                                         *)
(* Whatever the program does to the gateway is an attempt of Checkout or a *)
(* payment from elsewhere, so what Checkout promises holds here too.       *)
(***************************************************************************)
EXTENDS Recovery, TLAPS

-----------------------------------------------------------------------------
(* The four calls of an attempt, for any orders and any number of attempts: *)
(* they are one charge, and its steps tell everything.  The invariant says  *)
(* what is true between two calls: how many were sent, how many arrived,    *)
(* and that the payment is settled by the last alone.                       *)

Attempts ==
  [order : Batch \cup {0}, told : Outcomes, call : Calls,
   place : {"idle", "send", "answer"}, reply : {"none", "unsent", "refused", "served"},
   steps : Nat, reached : Nat,
   payment : {"none", "created", "captured", "failed"},
   result : {"none", "ok", "error"}]

Settled == attempt.payment \in {"captured", "failed"}

\* A call that is to be sent: all before it are on record, none has settled.
ToSend ==
  attempt.place = "send" =>
    /\ attempt.steps = attempt.call - 1
    /\ attempt.reached = attempt.call - 1
    /\ ~Settled

\* A call that was sent: it counts once it is answered, or at once.
ToAnswer ==
  attempt.place = "answer" =>
    /\ attempt.steps = IF attempt.call = FirstCall THEN 0 ELSE attempt.call
    /\ attempt.reached <= attempt.call
    /\ Settled <=> attempt.call = LastCall /\ attempt.reply = "served"
    /\ attempt.reply = "served" => attempt.reached = attempt.call

CheckoutInv == attempt \in Attempts /\ ToSend /\ ToAnswer /\ StepsTellEverything

-----------------------------------------------------------------------------

LEMMA CheckoutStarts == CheckoutInit => CheckoutInv
BY DEF CheckoutInit, CheckoutInv, Attempts, ToSend, ToAnswer, StepsTellEverything, Settled,
       FreshAttempt, FirstCall, LastCall, Outcomes, Calls

LEMMA BeginKeeps ==
  ASSUME CheckoutInv, NEW d \in Batch, NEW told \in Outcomes, BeginAttempt(d, told)
  PROVE  CheckoutInv'
<1>1. attempt' = [FreshAttempt EXCEPT !.order = d, !.told = told, !.place = "send"]
  BY DEF BeginAttempt
<1>2. attempt' \in Attempts
  <2>1. FreshAttempt \in Attempts
    BY DEF Attempts, FreshAttempt, FirstCall, Outcomes, Calls
  <2>2. QED
    BY <1>1, <2>1 DEF Attempts
<1>3. ToSend' /\ ToAnswer' /\ StepsTellEverything'
  BY <1>1 DEF ToSend, ToAnswer, StepsTellEverything, Settled, FreshAttempt, FirstCall
<1>4. QED
  BY <1>2, <1>3 DEF CheckoutInv

LEMMA SentKeeps ==
  ASSUME CheckoutInv, attempt.place = "send", NEW reply \in {"unsent", "refused", "served"},
         attempt' = Sent(attempt, reply)
  PROVE  CheckoutInv'
<1>1. attempt'.call = attempt.call /\ attempt'.place = "answer" /\ attempt'.reply = reply
  BY DEF Sent, CheckoutInv, Attempts
<1>2. attempt' \in Attempts
  <2> DEFINE steps   == IF RecordsFirst(attempt.call) THEN attempt.steps + 1 ELSE attempt.steps
             served == IF reply = "unsent" THEN attempt.reached ELSE attempt.reached + 1
             payment == IF reply = "served" THEN Effect(attempt.call, attempt)
                        ELSE attempt.payment
  <2>1. attempt' = [attempt EXCEPT !.place = "answer", !.reply = reply, !.steps = steps,
                                   !.reached = served, !.payment = payment]
    BY DEF Sent, CheckoutInv, Attempts
  <2>2. steps \in Nat /\ served \in Nat
    BY DEF CheckoutInv, Attempts
  <2>3. payment \in {"none", "created", "captured", "failed"}
    BY DEF CheckoutInv, Attempts, Effect
  <2> HIDE DEF steps, served, payment
  <2>4. QED
    BY <2>1, <2>2, <2>3 DEF CheckoutInv, Attempts
<1>3. ToAnswer'
  BY <1>1 DEF Sent, CheckoutInv, Attempts, ToSend, ToAnswer, Settled, Effect, RecordsFirst,
              FirstCall, LastCall, Outcomes, Calls
<1>4. ToSend' /\ StepsTellEverything'
  BY <1>1 DEF ToSend, StepsTellEverything
<1>5. QED
  BY <1>2, <1>3, <1>4 DEF CheckoutInv

LEMMA AnsweredKeeps == CheckoutInv /\ Answered => CheckoutInv'
<1> SUFFICES ASSUME CheckoutInv, Answered
             PROVE  CheckoutInv'
  OBVIOUS
<1>1. PICK ok \in BOOLEAN :
        /\ ok => attempt.reply = "served"
        /\ attempt' =
             [attempt EXCEPT
                !.steps = Recorded(attempt),
                !.reply = "none",
                !.place = IF Over(attempt, ok) THEN "idle" ELSE "send",
                !.call = IF Over(attempt, ok) THEN @ ELSE @ + 1,
                !.result = IF ~Over(attempt, ok) THEN @ ELSE IF ok THEN "ok" ELSE "error"]
  BY DEF Answered
<1>2. attempt.place = "answer"
  BY DEF Answered
<1>3. attempt' \in Attempts
  <2> DEFINE over   == Over(attempt, ok)
             call   == IF over THEN attempt.call ELSE attempt.call + 1
             place  == IF over THEN "idle" ELSE "send"
             result == IF ~over THEN attempt.result ELSE IF ok THEN "ok" ELSE "error"
  <2>1. attempt' = [attempt EXCEPT !.steps = Recorded(attempt), !.reply = "none",
                                   !.place = place, !.call = call, !.result = result]
    BY <1>1 DEF CheckoutInv, Attempts
  <2>2. Recorded(attempt) \in Nat
    BY DEF CheckoutInv, Attempts, Recorded
  <2>3. call \in Calls
    BY DEF CheckoutInv, Attempts, Over, LastCall, Calls
  <2>4. result \in {"none", "ok", "error"} /\ place \in {"idle", "send", "answer"}
    BY DEF CheckoutInv, Attempts
  <2> HIDE DEF call, place, result
  <2>5. QED
    BY <2>1, <2>2, <2>3, <2>4 DEF CheckoutInv, Attempts
<1>4. attempt'.payment = attempt.payment /\ attempt'.reached = attempt.reached
  BY <1>1 DEF CheckoutInv, Attempts
<1>5. attempt'.steps = attempt.call
  BY <1>1, <1>2 DEF CheckoutInv, Attempts, ToAnswer, Recorded, RecordsFirst, FirstCall, Calls
<1>6. CASE Over(attempt, ok)
  <2>1. attempt'.place = "idle" /\ (attempt'.result = "ok" => ok)
    BY <1>1, <1>6 DEF CheckoutInv, Attempts
  <2>2. ok => attempt.call = LastCall
    BY <1>6 DEF Over
  <2>3. StepsTellEverything'
    BY <1>1, <1>2, <1>4, <1>5, <2>1, <2>2
       DEF StepsTellEverything, CheckoutInv, ToAnswer, Settled, Attempts
  <2>4. QED
    BY <1>3, <2>1, <2>3 DEF CheckoutInv, ToSend, ToAnswer
<1>7. CASE ~Over(attempt, ok)
  <2>1. attempt'.place = "send" /\ attempt'.call = attempt.call + 1
    BY <1>1, <1>7 DEF CheckoutInv, Attempts
  <2>2. attempt.reply = "served" /\ attempt.call # LastCall
    BY <1>1, <1>7 DEF Over
  <2>3. ToSend'
    BY <1>2, <1>4, <1>5, <2>1, <2>2
       DEF ToSend, CheckoutInv, ToAnswer, Settled, Attempts, Calls
  <2>4. QED
    BY <1>3, <2>1, <2>3 DEF CheckoutInv, ToAnswer, StepsTellEverything
<1>8. QED
  BY <1>6, <1>7

LEMMA CheckoutKept == CheckoutInv /\ [CheckoutNext]_checkoutVars => CheckoutInv'
<1> SUFFICES ASSUME CheckoutInv, [CheckoutNext]_checkoutVars
             PROVE  CheckoutInv'
  OBVIOUS
<1>1. CASE UNCHANGED attempt
  BY <1>1 DEF CheckoutInv, ToSend, ToAnswer, StepsTellEverything, Settled
<1>2. CASE \E d \in Batch, told \in Outcomes : BeginAttempt(d, told)
  BY <1>2, BeginKeeps
<1>3. CASE Send
  BY <1>3, SentKeeps DEF Send
<1>4. CASE Answered
  BY <1>4, AnsweredKeeps
<1>5. QED
  BY <1>1, <1>2, <1>3, <1>4 DEF CheckoutNext, checkoutVars, PaidElsewhere

\* A caller who is back knows every call the gateway had, for any orders and any
\* number of attempts (attempt.go, AttemptOutcome.Steps).
THEOREM StepsTellEverythingAlways == CheckoutSpec => []StepsTellEverything
<1>1. CheckoutInv => StepsTellEverything
  BY DEF CheckoutInv
<1>2. QED
  BY CheckoutStarts, CheckoutKept, <1>1, PTL DEF CheckoutSpec

-----------------------------------------------------------------------------
(* The four calls implement one charge.                                    *)

LEMMA ChargeStarts == CheckoutInit => AsCharge!Init
BY DEF CheckoutInit, FreshAttempt, AsCharge!Init

LEMMA BeginCharges ==
  ASSUME NEW d \in Batch, NEW told \in Outcomes, BeginAttempt(d, told)
  PROVE  AsCharge!Begin
BY DEF BeginAttempt, FreshAttempt, AsCharge!Begin, Outcomes

LEMMA SendCharges == CheckoutInv /\ Send => AsCharge!Settle \/ UNCHANGED AsCharge!vars
<1> SUFFICES ASSUME CheckoutInv, Send
             PROVE  AsCharge!Settle \/ UNCHANGED AsCharge!vars
  OBVIOUS
<1>1. PICK reply \in {"unsent", "refused", "served"} : attempt' = Sent(attempt, reply)
  BY DEF Send
<1>2. attempt.place = "send" /\ ~Settled
  BY DEF Send, CheckoutInv, ToSend
<1>3. /\ attempt'.place = "answer" /\ attempt'.told = attempt.told
      /\ attempt'.result = attempt.result
      /\ attempt'.payment =
           IF reply = "served" THEN Effect(attempt.call, attempt) ELSE attempt.payment
  BY <1>1 DEF Sent, CheckoutInv, Attempts
<1>4. CASE Settled'
  BY <1>2, <1>3, <1>4 DEF AsCharge!Settle, Settled
<1>5. CASE ~Settled'
  BY <1>2, <1>3, <1>5 DEF AsCharge!vars, Settled
<1>6. QED
  BY <1>4, <1>5

LEMMA AnsweredCharges == CheckoutInv /\ Answered => AsCharge!Return \/ UNCHANGED AsCharge!vars
<1> SUFFICES ASSUME CheckoutInv, Answered
             PROVE  AsCharge!Return \/ UNCHANGED AsCharge!vars
  OBVIOUS
<1>1. PICK ok \in BOOLEAN :
        /\ ok => attempt.reply = "served"
        /\ attempt' =
             [attempt EXCEPT
                !.steps = Recorded(attempt),
                !.reply = "none",
                !.place = IF Over(attempt, ok) THEN "idle" ELSE "send",
                !.call = IF Over(attempt, ok) THEN @ ELSE @ + 1,
                !.result = IF ~Over(attempt, ok) THEN @ ELSE IF ok THEN "ok" ELSE "error"]
  BY DEF Answered
<1>2. attempt.place = "answer"
  BY DEF Answered
<1>3. attempt'.payment = attempt.payment /\ attempt'.told = attempt.told
  BY <1>1 DEF CheckoutInv, Attempts
<1>4. CASE Over(attempt, ok)
  <2>1. attempt'.place = "idle" /\ attempt'.result = IF ok THEN "ok" ELSE "error"
    BY <1>1, <1>4 DEF CheckoutInv, Attempts
  <2>2. ok => Settled
    BY <1>1, <1>2, <1>4 DEF Over, CheckoutInv, ToAnswer
  <2>3. QED
    BY <1>2, <1>3, <2>1, <2>2 DEF AsCharge!Return, Settled
<1>5. CASE ~Over(attempt, ok)
  <2>1. attempt'.place = "send" /\ attempt'.result = attempt.result
    BY <1>1, <1>5 DEF CheckoutInv, Attempts
  <2>2. QED
    BY <1>2, <1>3, <2>1 DEF AsCharge!vars
<1>6. QED
  BY <1>4, <1>5

LEMMA ChargeKept ==
  CheckoutInv /\ [CheckoutNext]_checkoutVars => [AsCharge!Next]_(AsCharge!vars)
<1> SUFFICES ASSUME CheckoutInv, [CheckoutNext]_checkoutVars
             PROVE  AsCharge!Next \/ UNCHANGED AsCharge!vars
  OBVIOUS
<1>1. CASE UNCHANGED attempt
  BY <1>1 DEF AsCharge!vars
<1>2. CASE \E d \in Batch, told \in Outcomes : BeginAttempt(d, told)
  BY <1>2, BeginCharges DEF AsCharge!Next
<1>3. CASE Send
  BY <1>3, SendCharges DEF AsCharge!Next
<1>4. CASE Answered
  BY <1>4, AnsweredCharges DEF AsCharge!Next
<1>5. QED
  BY <1>1, <1>2, <1>3, <1>4 DEF CheckoutNext, checkoutVars, PaidElsewhere

\* The bank is told at most once in an attempt, the way the caller asked, and a
\* success means that it was (attempt.go, LiveAttempter).
THEOREM CheckoutIsOneCharge == CheckoutSpec => AttemptIsOneCharge
BY CheckoutStarts, CheckoutKept, ChargeStarts, ChargeKept, PTL
   DEF CheckoutSpec, AttemptIsOneCharge, AsCharge!Spec

-----------------------------------------------------------------------------
(* The runs.                                                               *)

KindsOfRow ==
  {"classified", "policy_evaluated", "notification_requested", "action_taken",
   "action_skipped", "outcome_observed"}

Polls ==
  [elapsed : Nat, backoff : 1..MaxBackoff, waited : Nat, seen : {"none", "unpaid", "paid"}]

\* The types that the arguments below rest on.
Types ==
  /\ arm \in Programs
  /\ orders \in [Batch -> [status : {"unpaid", "paid"}, class : SeenClasses]]
  /\ seeded \in [Batch -> Nat \ {0}] /\ sent \in [Batch -> Nat]
  /\ store \in StoreType(Batch, {})
  /\ poll \in Polls
  /\ ledger \in [Batch -> SUBSET KindsOfRow]
  /\ "failed" \in DOMAIN outcome

\* An order is at hand until the run is over.
CurrentIsAnOrder == arm = "demo" \/ pc \notin {"flush", "over"} => current \in Batch

\* Time never falls behind the waits, and a wait that is begun ends in time.
PollInTime ==
  /\ poll.waited <= poll.elapsed /\ poll.waited <= MaxWait
  /\ pc = "wait" => poll.elapsed + poll.backoff <= MaxWait

\* The stages that only the demo has.
DemoStages == pc \in {"create", "notify", "notice"} => arm = "demo"

\* The demo files in its order, and a notice is made of what went out.
DemoFiles ==
  arm = "demo" =>
    /\ pc \in {"act", "notify", "notice"} => "classified" \in ledger[current]
    /\ pc = "notice" /\ ~outcome.failed => current \in contacted

\* An attempt that is under way is the naive arm's, and below its cap.
AttemptWithinCap ==
  pc = "checkout" /\ arm \in Arms =>
    arm = "naive" /\ sent[current] > 0 /\ store.debt[current].attempts < NaiveMax

RunInv ==
  /\ Types /\ CurrentIsAnOrder /\ PollInTime
  /\ DemoStages /\ DemoFiles /\ DemoKeepsItsOrder
  /\ AttemptWithinCap /\ AttemptsCounted

-----------------------------------------------------------------------------
(* The store and the gate.                                                 *)

\* A record of a store's shape keeps it under writes of its fields' types.
LEMMA FieldsWritten ==
  ASSUME NEW A, NEW B, NEW C, NEW st \in [debt : A, keys : B, actions : C],
         NEW a \in A, NEW b \in B, NEW c \in C
  PROVE  /\ [st EXCEPT !.keys = b, !.actions = c, !.debt = a] \in [debt : A, keys : B, actions : C]
         /\ [st EXCEPT !.keys = b, !.actions = c, !.debt = a].debt = a
OBVIOUS

LEMMA FieldsGiven ==
  ASSUME NEW A, NEW B, NEW C, NEW a \in A, NEW b \in B, NEW c \in C
  PROVE  [debt |-> a, keys |-> b, actions |-> c] \in [debt : A, keys : B, actions : C]
OBVIOUS

\* An order's status is written, or there is no such order.
LEMMA StatusWritten ==
  ASSUME NEW S, NEW B, NEW f \in [B -> [status : {"unpaid", "paid"}, class : S]], NEW x,
         NEW status \in {"unpaid", "paid"}
  PROVE  [f EXCEPT ![x].status = status] \in [B -> [status : {"unpaid", "paid"}, class : S]]
<1>1. ASSUME x \in B
      PROVE  [f[x] EXCEPT !.status = status] \in [status : {"unpaid", "paid"}, class : S]
  <2>1. f[x] \in [status : {"unpaid", "paid"}, class : S]
    BY <1>1
  <2> DEFINE r == f[x]
  <2> HIDE DEF r
  <2>2. r \in [status : {"unpaid", "paid"}, class : S]
    BY <2>1 DEF r
  <2>3. [r EXCEPT !.status = status] \in [status : {"unpaid", "paid"}, class : S]
    BY <2>2
  <2>4. QED
    BY <2>3 DEF r
<1> DEFINE r == [f[x] EXCEPT !.status = status]
<1> HIDE DEF r
<1>2. x \in B => r \in [status : {"unpaid", "paid"}, class : S]
  BY <1>1 DEF r
<1>3. [f EXCEPT ![x] = r] \in [B -> [status : {"unpaid", "paid"}, class : S]]
  BY <1>2
<1>4. QED
  BY <1>3 DEF r

\* Writing back what a function holds changes nothing.
LEMMA WrittenBack ==
  ASSUME NEW S, NEW T, NEW f \in [S -> T], NEW x \in S
  PROVE  [f EXCEPT ![x] = f[x]] = f
OBVIOUS

\* A commit without a key puts one attempt on its debt and none on the others.
LEMMA CommitCounts ==
  ASSUME NEW st \in StoreType(Batch, {}), NEW d \in Batch
  PROVE  LET c == Commit(st, d, NoKey, FALSE, Instant)
         IN /\ c \in StoreType(Batch, {})
            /\ c.debt[d].attempts = st.debt[d].attempts + 1
            /\ \A e \in Batch \ {d} : c.debt[e] = st.debt[e]
<1> DEFINE debt == [st.debt EXCEPT ![d].lastAction = Instant,
                                   ![d].lastNotify = st.debt[d].lastNotify,
                                   ![d].attempts = st.debt[d].attempts + 1]
<1>1. st.keys = {} /\ st.actions \in Nat
      /\ st.debt \in [Batch -> [attempts : Nat, lastAction : Nat, lastNotify : Nat]]
  BY DEF StoreType
<1>2. debt \in [Batch -> [attempts : Nat, lastAction : Nat, lastNotify : Nat]]
  BY <1>1 DEF Instant
<1>3. /\ debt[d].attempts = st.debt[d].attempts + 1
      /\ \A e \in Batch \ {d} : debt[e] = st.debt[e]
  BY <1>1
<1>4. Commit(st, d, NoKey, FALSE, Instant) =
        [st EXCEPT !.keys = {}, !.actions = st.actions + 1, !.debt = debt]
  BY <1>1 DEF Commit, StoreType
<1> HIDE DEF debt
<1>5. {} \in SUBSET {} /\ st.actions + 1 \in Nat
  BY <1>1
<1>6. /\ [st EXCEPT !.keys = {}, !.actions = st.actions + 1, !.debt = debt] \in StoreType(Batch, {})
      /\ [st EXCEPT !.keys = {}, !.actions = st.actions + 1, !.debt = debt].debt = debt
  BY <1>2, <1>5, FieldsWritten DEF StoreType
<1>7. QED
  BY <1>3, <1>4, <1>6

\* No request of the rules arm is allowed: it names no source (policy/policy.go, R7).
LEMMA NoSourceNoAllow == ASSUME NEW d PROVE ~Allowed(Decision(d))
<1>1. Proposal(d).source = ""
  BY DEF Proposal
<1>2. "" \notin DOMAIN SourceTable
  BY PolicyAssumption DEF Sources
<1>3. ASSUME NEW s, NEW q, q.source = ""
      PROVE  ~Allowed(Evaluate(s, q, Instant))
  <2>1. Fires("R7", s, q, Instant)
    BY <1>2, <1>3 DEF Fires, Unrecognised
  <2>2. "R7" \in Refusals(s, q, Instant)
    BY <2>1 DEF Refusals, Rules, Rank
  <2>3. QED
    BY <2>2 DEF Allowed, Evaluate
<1>4. QED
  BY <1>1, <1>3 DEF Decision

\* The rules arm does nothing to the gateway, whatever became of its row.
LEMMA RulesHoldStill ==
  ASSUME ActRules
  PROVE  pc' = "acted" /\ UNCHANGED <<gateway, sent, reached, store>>
BY NoSourceNoAllow DEF ActRules, Reports

-----------------------------------------------------------------------------
(* The gateway.                                                            *)

LEMMA OrdersAreTyped ==
  ASSUME Types, NEW d \in Batch, NEW status \in {orders[d].status, "paid"},
         orders' = [orders EXCEPT ![d].status = status]
  PROVE  \/ orders' = orders
         \/ orders[d].status = "unpaid" /\ status = "paid"
<1>1. orders[d].status \in {"unpaid", "paid"}
  BY DEF Types
<1>2. CASE status = orders[d].status
  <2>1. [orders[d] EXCEPT !.status = status] = orders[d]
    <3>1. orders[d] \in [status : {"unpaid", "paid"}, class : SeenClasses]
      BY DEF Types
    <3>2. QED
      BY <1>2, <3>1, Zenon
  <2>2. orders' = [orders EXCEPT ![d] = orders[d]]
    BY <2>1
  <2>3. orders \in [Batch -> [status : {"unpaid", "paid"}, class : SeenClasses]]
    BY DEF Types
  <2>4. [orders EXCEPT ![d] = orders[d]] = orders
    BY <2>3, Zenon, WrittenBack
  <2>5. QED
    BY <2>2, <2>4
<1>3. QED
  BY <1>1, <1>2

LEMMA FakeIsCheckout ==
  ASSUME Types, current \in Batch, NEW o, NEW key, AttemptFake(o, key)
  PROVE  [CheckoutNext]_checkoutVars
<1>1. PICK status \in {orders[current].status, "paid"} :
        orders' = [orders EXCEPT ![current].status = status]
  BY DEF AttemptFake
<1>2. attempt' = attempt
  BY DEF AttemptFake
<1>3. CASE orders' = orders
  BY <1>2, <1>3 DEF checkoutVars
<1>4. CASE orders[current].status = "unpaid" /\ status = "paid"
  BY <1>1, <1>2, <1>4 DEF CheckoutNext, PaidElsewhere
<1>5. QED
  BY <1>1, <1>3, <1>4, OrdersAreTyped

LEMMA LiveIsCheckout ==
  ASSUME current \in Batch, NEW o, AttemptLive(o)
  PROVE  CheckoutNext
BY DEF AttemptLive, CheckoutNext

LEMMA StepIsCheckout ==
  RunInv /\ [Next]_vars => [CheckoutNext]_checkoutVars
<1> SUFFICES ASSUME RunInv, [Next]_vars
             PROVE  [CheckoutNext]_checkoutVars
  OBVIOUS
<1> USE DEF checkoutVars, gateway
<1>1. CASE UNCHANGED gateway
  BY <1>1
<1>2. CASE \E d \in Batch : PaysElsewhere(d)
  BY <1>2 DEF PaysElsewhere, CheckoutNext
<1>3. CASE Create
  BY <1>3 DEF Create, CheckoutNext, Outcomes, RunInv, CurrentIsAnOrder
<1>4. CASE CheckoutCall
  BY <1>4 DEF CheckoutCall, CheckoutNext
<1>5. CASE ActNaive
  <2>1. current \in Batch /\ Types
    BY <1>5 DEF ActNaive, RunInv, CurrentIsAnOrder
  <2>2. QED
    BY <1>5, <2>1, FakeIsCheckout, LiveIsCheckout DEF ActNaive, Attempt
<1>6. CASE ActRules
  BY <1>6, RulesHoldStill
<1>7. CASE FileNotice
  <2>1. current \in Batch
    BY <1>7 DEF FileNotice, RunInv, CurrentIsAnOrder
  <2>2. QED
    BY <1>7, <2>1, LiveIsCheckout DEF FileNotice
<1>8. CASE \/ Fetch \/ ListPayments \/ Wait \/ FileClassified \/ ActControl \/ FileAction
           \/ AttemptReturns \/ ReadBack \/ FileOutcome
  BY <1>1, <1>8 DEF Fetch, ListPayments, Wait, FileClassified, ActControl, FileAction,
                    AttemptReturns, ReadBack, FileOutcome
<1>9. CASE \/ FirstReturns \/ ActDemo \/ SendLink \/ SecondReturns \/ DemoEnds
           \/ WriteRow \/ WriteFails \/ Flush
  BY <1>1, <1>9 DEF FirstReturns, ActDemo, SendLink, SecondReturns, DemoEnds, WriteRow,
                    WriteFails, Flush
<1>10. CASE UNCHANGED vars
  BY <1>1, <1>10 DEF vars
<1>11. QED
  BY <1>2, <1>3, <1>4, <1>5, <1>6, <1>7, <1>8, <1>9, <1>10
     DEF Next, Step, ProcessOrder, Demo

-----------------------------------------------------------------------------
(* The invariant.                                                          *)

LEMMA SeededOnStore ==
  ASSUME NEW seen \in [Batch -> Nat \ {0}],
         NEW st, st = [NewStore(Batch) EXCEPT !.debt =
                         [d \in Batch |-> Observe(NewStore(Batch), d, seen[d]).debt[d]]]
  PROVE  st \in StoreType(Batch, {}) /\ \A d \in Batch : st.debt[d].attempts = seen[d]
<1> DEFINE new  == NewStore(Batch)
           debt == [d \in Batch |-> Observe(new, d, seen[d]).debt[d]]
<1>1. new = [debt |-> [d \in Batch |-> Untouched], keys |-> {}, actions |-> 0]
  BY DEF NewStore
<1>2. \A d \in Batch : new.debt[d] = Untouched
  BY <1>1
<1>3. ASSUME NEW d \in Batch
      PROVE  /\ debt[d] = [Untouched EXCEPT !.attempts = seen[d]]
             /\ debt[d] \in [attempts : Nat, lastAction : Nat, lastNotify : Nat]
             /\ debt[d].attempts = seen[d]
  <2>1. debt[d] = Observe(new, d, seen[d]).debt[d]
    OBVIOUS
  <2>2. Observe(new, d, seen[d]).debt[d] = [Untouched EXCEPT !.attempts = seen[d]]
    BY <1>1, <1>2 DEF Observe, Untouched
  <2>3. QED
    BY <2>1, <2>2 DEF Untouched
<1>4. debt = [d \in Batch |-> debt[d]]
  OBVIOUS
<1> HIDE DEF debt
<1>5. debt \in [Batch -> [attempts : Nat, lastAction : Nat, lastNotify : Nat]]
  BY <1>3, <1>4
<1>6. st = [new EXCEPT !.debt = debt]
  BY DEF debt
<1> HIDE DEF new
<1>7. st = [debt |-> debt, keys |-> {}, actions |-> 0]
  BY <1>1, <1>6
<1>8. st \in StoreType(Batch, {})
  <2>1. {} \in SUBSET {} /\ 0 \in Nat
    OBVIOUS
  <2>2. QED
    <3>1. [debt |-> debt, keys |-> {}, actions |-> 0]
            \in [debt : [Batch -> [attempts : Nat, lastAction : Nat, lastNotify : Nat]],
                 keys : SUBSET {}, actions : Nat]
      BY <1>5, <2>1, FieldsGiven
    <3>2. QED
      BY <1>7, <3>1 DEF StoreType
<1>9. st.debt = debt
  BY <1>7
<1>10. QED
  BY <1>3, <1>8, <1>9

LEMMA RunStarts == Init => RunInv
<1> SUFFICES ASSUME Init
             PROVE  RunInv
  OBVIOUS
<1>1. seeded \in [Batch -> Nat \ {0}]
  BY RecoveryAssumption DEF Init
<1>2. store \in StoreType(Batch, {}) /\ \A d \in Batch : store.debt[d].attempts = seeded[d]
  <2>1. store = [NewStore(Batch) EXCEPT !.debt =
                   [d \in Batch |-> Observe(NewStore(Batch), d, seeded[d]).debt[d]]]
    BY DEF Init
  <2>2. QED
    BY <1>1, <2>1, SeededOnStore
<1>3. sent = [d \in Batch |-> 0] /\ 1 \in Batch /\ current = 1
  BY RecoveryAssumption DEF Init
<1>4. Types
  BY <1>1, <1>2, RecoveryAssumption
     DEF Init, Types, Polls, FreshPoll, FreshOutcome, Programs
<1>5. AttemptsCounted
  BY <1>1, <1>2, <1>3 DEF AttemptsCounted, Init
<1>6. QED
  BY <1>3, <1>4, <1>5, RecoveryAssumption
     DEF RunInv, Init, CurrentIsAnOrder, PollInTime, FreshPoll, DemoStages, DemoFiles, DemoKeepsItsOrder,
         AttemptWithinCap

\* The command line is read once.
LEMMA ArmStays == [Next]_vars => arm' = arm /\ seeded' = seeded
<1> SUFFICES ASSUME [Next]_vars
             PROVE  run' = run
  BY DEF run
<1>1. CASE ProcessOrder \/ WriteRow \/ WriteFails \/ Flush
  BY <1>1 DEF ProcessOrder, Fetch, ListPayments, Wait, FileClassified, ActControl, ActNaive, ActRules,
              FileAction, CheckoutCall, AttemptReturns, ReadBack, FileOutcome, WriteRow,
              WriteFails, Flush
<1>2. CASE Demo \/ UNCHANGED vars
  BY <1>2 DEF Demo, Create, FirstReturns, ActDemo, SendLink, FileNotice, SecondReturns, DemoEnds,
              vars
<1>3. CASE \E d \in Batch : PaysElsewhere(d)
  BY <1>3 DEF PaysElsewhere
<1>4. QED
  BY <1>1, <1>2, <1>3 DEF Next, Step

\* The poller's two reads, its wait, and what follows them.
LEMMA PollKept ==
  ASSUME Types, CurrentIsAnOrder, PollInTime, [Next]_vars
  PROVE  poll' \in Polls /\ PollInTime'
<1> USE RecoveryAssumption DEF PollInTime
<1>a. poll \in Polls
  BY DEF Types
<1>b. /\ poll.elapsed \in Nat /\ poll.waited \in Nat
      /\ poll.backoff \in Nat /\ 1 <= poll.backoff /\ poll.backoff <= MaxBackoff
  BY <1>a DEF Polls
<1>1. CASE Fetch
  <2>1. orders[current].status \in {"none", "unpaid", "paid"}
    BY <1>1 DEF Fetch, Types, CurrentIsAnOrder
  <2>2. poll' = poll \/ poll' = [poll EXCEPT !.seen = orders[current].status]
    BY <1>1 DEF Fetch
  <2>3. pc' # "wait"
    BY <1>1 DEF Fetch, Abort
  <2>4. /\ poll' \in Polls
        /\ poll'.elapsed = poll.elapsed /\ poll'.waited = poll.waited
    BY <1>a, <2>1, <2>2 DEF Polls
  <2>5. QED
    BY <2>3, <2>4
<1>2. CASE ListPayments
  <2>1. CASE poll' = poll /\ pc' # "wait"
    BY <1>a, <2>1
  <2>2. ASSUME NEW t \in {0, 1}, poll' = [poll EXCEPT !.elapsed = @ + t],
               pc' = IF poll.seen = "paid" \/ IsSpent(poll') THEN "classified" ELSE "wait"
        PROVE  poll' \in Polls /\ PollInTime'
    <3>1. /\ poll' \in Polls /\ poll'.elapsed = poll.elapsed + t
          /\ poll'.waited = poll.waited /\ poll'.backoff = poll.backoff
      BY <1>a, <1>b, <2>2 DEF Polls
    <3>2. QED
      BY <1>b, <2>2, <3>1 DEF IsSpent
  <2>3. QED
    BY <1>2, <2>1, <2>2 DEF ListPayments, Abort
<1>3. CASE Wait
  <2> DEFINE doubled == IF 2 * poll.backoff < MaxBackoff THEN 2 * poll.backoff ELSE MaxBackoff
  <2>1. CASE poll' = poll /\ pc' # "wait"
    BY <1>a, <2>1
  <2>2. CASE /\ pc' = "fetch"
             /\ poll' = [poll EXCEPT !.elapsed = @ + poll.backoff, !.waited = @ + poll.backoff,
                                     !.backoff = doubled]
    <3>1. doubled \in 1..MaxBackoff
      BY <1>b
    <3> HIDE DEF doubled
    <3>2. /\ poll.elapsed + poll.backoff \in Nat /\ poll.waited + poll.backoff \in Nat
          /\ poll' = [poll EXCEPT !.elapsed = poll.elapsed + poll.backoff,
                                  !.waited = poll.waited + poll.backoff, !.backoff = doubled]
      BY <1>a, <1>b, <2>2 DEF Polls
    <3>3. /\ poll' \in Polls /\ poll'.elapsed = poll.elapsed + poll.backoff
          /\ poll'.waited = poll.waited + poll.backoff
      BY <1>a, <3>1, <3>2 DEF Polls
    <3>4. poll.elapsed + poll.backoff <= MaxWait
      BY <1>3 DEF Wait
    <3>5. QED
      BY <1>b, <2>2, <3>4, <3>3
  <2>3. QED
    BY <1>3, <2>1, <2>2 DEF Wait, Abort
<1>4. CASE WriteRow
  BY <1>4 DEF WriteRow, FreshPoll, Polls
<1>5. CASE UNCHANGED poll /\ (pc' = pc \/ pc' # "wait")
  BY <1>a, <1>5
<1>6. CASE FileClassified \/ ActControl \/ FileAction \/ AttemptReturns \/ ReadBack \/ FileOutcome
  BY <1>5, <1>6 DEF FileClassified, ActControl, FileAction, AttemptReturns, ReadBack, FileOutcome,
                    Files, Reports, Abort
<1>7. CASE ActNaive
  BY <1>5, <1>7 DEF ActNaive, Attempt, AttemptFake, AttemptLive, Reports
<1>8. CASE ActRules
  BY <1>5, <1>8, RulesHoldStill DEF ActRules
<1>9. CASE CheckoutCall \/ Create \/ FirstReturns \/ ActDemo \/ SendLink \/ SecondReturns \/ DemoEnds
  BY <1>5, <1>9 DEF CheckoutCall, Create, FirstReturns, ActDemo, SendLink, SecondReturns, DemoEnds,
                    Quits, Reports
<1>10. CASE FileNotice
  BY <1>5, <1>10 DEF FileNotice, AttemptLive, Reports
<1>11. CASE WriteFails \/ Flush
  BY <1>5, <1>11 DEF WriteFails, Flush
<1>12. CASE \E d \in Batch : PaysElsewhere(d)
  BY <1>5, <1>12 DEF PaysElsewhere
<1>13. CASE UNCHANGED vars
  BY <1>5, <1>13 DEF vars
<1>14. QED
  BY <1>1, <1>2, <1>3, <1>4, <1>6, <1>7, <1>8, <1>9, <1>10, <1>11, <1>12, <1>13
     DEF Next, Step, ProcessOrder, Demo

\* The order at hand changes with its row, and never under the demo.
LEMMA CurrentKept ==
  ASSUME Types, CurrentIsAnOrder, [Next]_vars
  PROVE  CurrentIsAnOrder' /\ (current' = current \/ (pc = "write" /\ arm # "demo"))
<1> USE RecoveryAssumption, ArmStays DEF CurrentIsAnOrder
<1>1. CASE WriteRow
  <2>1. current \in 1..Orders
    BY <1>1 DEF WriteRow
  <2>2. QED
    BY <1>1, <2>1 DEF WriteRow
<1>2. CASE current' = current /\ (pc' \in {"flush", "over"} \/ pc \notin {"flush", "over"})
  BY <1>2
<1>3. CASE Fetch \/ ListPayments \/ Wait \/ FileClassified \/ ActControl \/ FileAction
  BY <1>2, <1>3 DEF Fetch, ListPayments, Wait, FileClassified, ActControl, FileAction
<1>4. CASE AttemptReturns \/ ReadBack \/ FileOutcome \/ CheckoutCall \/ ActNaive \/ ActRules
  BY <1>2, <1>4 DEF AttemptReturns, ReadBack, FileOutcome, CheckoutCall, ActNaive, ActRules,
                    CheckoutIsBack
<1>5. CASE Demo \/ WriteFails \/ Flush
  BY <1>2, <1>5 DEF Demo, Create, FirstReturns, ActDemo, SendLink, FileNotice, SecondReturns,
                    DemoEnds, WriteFails, Flush, CheckoutIsBack
<1>6. CASE (\E d \in Batch : PaysElsewhere(d)) \/ UNCHANGED vars
  BY <1>6 DEF PaysElsewhere, vars
<1>7. QED
  BY <1>1, <1>3, <1>4, <1>5, <1>6 DEF Next, Step, ProcessOrder

\* Rows are added to the ledger and never to another order than the one at hand.
LEMMA TypesKept ==
  ASSUME Types, CurrentIsAnOrder, PollInTime, [Next]_vars
  PROVE  Types'
<1> DEFINE Rest == /\ arm \in Programs
                   /\ orders \in [Batch -> [status : {"unpaid", "paid"}, class : SeenClasses]]
                   /\ seeded \in [Batch -> Nat \ {0}] /\ sent \in [Batch -> Nat]
                   /\ store \in StoreType(Batch, {})
                   /\ ledger \in [Batch -> SUBSET KindsOfRow]
                   /\ "failed" \in DOMAIN outcome
<1>a. Rest
  BY DEF Types
<1>1. poll' \in Polls
  BY PollKept
<1> USE DEF KindsOfRow
<1>2. CASE FileClassified \/ FileAction \/ FileOutcome
  <2>1. PICK kind, next : kind \in KindsOfRow /\ Files(kind, next)
    BY <1>2 DEF FileClassified, FileAction, FileOutcome, ActionKind
  <2>2. ledger' \in [Batch -> SUBSET KindsOfRow] /\ "failed" \in DOMAIN outcome'
    BY <1>a, <2>1 DEF Files, Abort
  <2>3. UNCHANGED <<run, orders, sent, store>>
    BY <1>2 DEF FileClassified, FileAction, FileOutcome, gateway, history
  <2>4. QED
    BY <1>1, <1>a, <2>2, <2>3 DEF Types, run
<1>3. CASE \E d \in Batch : PaysElsewhere(d)
  <2>1. orders' \in [Batch -> [status : {"unpaid", "paid"}, class : SeenClasses]]
    BY <1>a, <1>3 DEF PaysElsewhere, PaidElsewhere
  <2>2. QED
    BY <1>1, <1>3, <1>a, <2>1 DEF PaysElsewhere, Types, run, history, files
<1>4. CASE CheckoutCall
  <2>1. orders' \in [Batch -> [status : {"unpaid", "paid"}, class : SeenClasses]]
    <3>1. orders' = orders \/ orders' = [orders EXCEPT ![attempt.order].status = "paid"]
      BY <1>4 DEF CheckoutCall, Send, Answered
    <3>2. QED
      <4>1. orders \in [Batch -> [status : {"unpaid", "paid"}, class : SeenClasses]]
        BY <1>a
      <4>2. [orders EXCEPT ![attempt.order].status = "paid"]
              \in [Batch -> [status : {"unpaid", "paid"}, class : SeenClasses]]
        BY <4>1, StatusWritten
      <4>3. QED
        BY <3>1, <4>1, <4>2
  <2>2. QED
    BY <1>1, <1>4, <1>a, <2>1 DEF CheckoutCall, Types, run, history, files
<1>5. CASE AttemptReturns
  <2>1. current \in Batch
    BY <1>5 DEF AttemptReturns, CheckoutIsBack, CurrentIsAnOrder
  <2>2. store' \in StoreType(Batch, {})
    BY <1>5, <1>a, <2>1, CommitCounts DEF AttemptReturns, Committed
  <2>3. "failed" \in DOMAIN outcome'
    BY <1>5, <1>a DEF AttemptReturns, Reports, Attempted
  <2>4. QED
    BY <1>1, <1>5, <1>a, <2>2, <2>3 DEF AttemptReturns, Types, run, gateway, history, files
<1>6. CASE ActNaive
  <2> DEFINE o == [outcome EXCEPT !.action = "retry_same_instrument"]
  <2>1. current \in Batch /\ "failed" \in DOMAIN o
    BY <1>6, <1>a DEF ActNaive, CurrentIsAnOrder
  <2>2. UNCHANGED <<arm, seeded, ledger>>
    BY <1>6 DEF ActNaive, run, files
  <2> HIDE DEF o
  <2>3. CASE Reports(outcome) /\ UNCHANGED <<gateway, sent, reached, store>>
    BY <1>1, <1>a, <2>2, <2>3 DEF Types, Reports, gateway
  <2>4. CASE AttemptFake(o, NoKey)
    <3>1. store' \in StoreType(Batch, {})
      <4>1. PICK ok \in BOOLEAN : store' = Commit(store, current, NoKey, FALSE, Instant)
        BY <2>4 DEF AttemptFake, Committed
      <4>2. QED
        BY <1>a, <2>1, <4>1, CommitCounts
    <3>2. "failed" \in DOMAIN outcome'
      BY <2>1, <2>4 DEF AttemptFake, Reports, Attempted
    <3>3. sent' \in [Batch -> Nat]
      BY <1>a, <2>1, <2>4 DEF AttemptFake, Counts
    <3>4. orders' \in [Batch -> [status : {"unpaid", "paid"}, class : SeenClasses]]
      BY <1>a, <2>1, <2>4 DEF AttemptFake
    <3>5. QED
      BY <1>1, <1>a, <2>2, <3>1, <3>2, <3>3, <3>4 DEF Types
  <2>5. CASE AttemptLive(o)
    <3>1. sent' \in [Batch -> Nat]
      BY <1>a, <2>1, <2>5 DEF AttemptLive, Counts
    <3>2. "failed" \in DOMAIN outcome'
      BY <2>1, <2>5 DEF AttemptLive
    <3>3. UNCHANGED <<orders, store>>
      BY <2>5 DEF AttemptLive
    <3>4. QED
      BY <1>1, <1>a, <2>2, <3>1, <3>3, <3>2 DEF Types
  <2>6. QED
    BY <1>6, <2>3, <2>4, <2>5 DEF ActNaive, Attempt, o
<1>7. CASE ActRules
  <2>1. UNCHANGED <<orders, sent, store>> /\ UNCHANGED run
    BY <1>7, RulesHoldStill DEF ActRules, gateway
  <2>2. ledger' \in [Batch -> SUBSET KindsOfRow]
    BY <1>7, <1>a DEF ActRules
  <2>3. "failed" \in DOMAIN outcome'
    BY <1>7, <1>a, NoSourceNoAllow DEF ActRules, Reports
  <2>4. QED
    BY <1>1, <1>a, <2>1, <2>2, <2>3 DEF Types, run
<1>8. CASE FileNotice
  <2>1. UNCHANGED <<arm, seeded>>
    BY <1>8 DEF FileNotice, run
  <2>2. ledger' \in [Batch -> SUBSET KindsOfRow]
    <3>1. \/ UNCHANGED ledger
          \/ ledger' = [ledger EXCEPT ![current] = @ \cup {"notification_requested"}]
      BY <1>8 DEF FileNotice
    <3>2. QED
      BY <3>1, <1>a
  <2>3. UNCHANGED <<orders, store>> /\ sent' \in [Batch -> Nat] /\ "failed" \in DOMAIN outcome'
    BY <1>8, <1>a DEF FileNotice, AttemptLive, Counts, Reports, gateway
  <2>4. QED
    BY <1>1, <1>a, <2>2, <2>3, <2>1 DEF Types
<1>9. CASE WriteRow
  BY <1>1, <1>9, <1>a DEF WriteRow, Types, run, gateway, history, FreshOutcome
<1>10. CASE UNCHANGED <<run, orders, sent, store, ledger>> /\ "failed" \in DOMAIN outcome'
  BY <1>1, <1>10, <1>a DEF Types, run
<1>11. CASE Fetch \/ ListPayments \/ Wait \/ ActControl \/ ReadBack \/ WriteFails \/ Flush
  BY <1>10, <1>11, <1>a DEF Fetch, ListPayments, Wait, ActControl, ReadBack, WriteFails, Flush,
                           Abort, Reports, gateway, history, files
<1>12. CASE Create \/ FirstReturns \/ ActDemo \/ SendLink \/ SecondReturns \/ DemoEnds
  BY <1>10, <1>12, <1>a DEF Create, FirstReturns, ActDemo, SendLink, SecondReturns, DemoEnds,
                           Reports, gateway, history, files
<1>13. CASE UNCHANGED vars
  BY <1>10, <1>13, <1>a DEF vars, gateway, history, files
<1>14. QED
  BY <1>2, <1>3, <1>4, <1>5, <1>6, <1>7, <1>8, <1>9, <1>11, <1>12, <1>13
     DEF Next, Step, ProcessOrder, Demo

\* The ledger only grows, whoever acts.
LEMMA RowsStay ==
  ASSUME Types, CurrentIsAnOrder, [Next]_vars, NEW d \in Batch
  PROVE  ledger[d] \subseteq ledger'[d]
<1>a. ledger \in [Batch -> SUBSET KindsOfRow]
  BY DEF Types
<1>1. CASE UNCHANGED ledger
  BY <1>1
<1>2. CASE FileClassified \/ FileAction \/ FileOutcome
  BY <1>a, <1>2 DEF FileClassified, FileAction, FileOutcome, Files
<1>3. CASE ActRules
  BY <1>a, <1>3 DEF ActRules
<1>4. CASE FileNotice
  BY <1>a, <1>4 DEF FileNotice
<1>5. CASE Fetch \/ ListPayments \/ Wait \/ ActControl \/ ActNaive \/ AttemptReturns \/ ReadBack
           \/ CheckoutCall \/ WriteRow \/ WriteFails \/ Flush
  BY <1>1, <1>5 DEF Fetch, ListPayments, Wait, ActControl, ActNaive, AttemptReturns, ReadBack,
                    CheckoutCall, WriteRow, WriteFails, Flush, files
<1>6. CASE Create \/ FirstReturns \/ ActDemo \/ SendLink \/ SecondReturns \/ DemoEnds
  BY <1>1, <1>6 DEF Create, FirstReturns, ActDemo, SendLink, SecondReturns, DemoEnds, files
<1>7. CASE (\E e \in Batch : PaysElsewhere(e)) \/ UNCHANGED vars
  BY <1>1, <1>7 DEF PaysElsewhere, vars, files
<1>8. QED
  BY <1>2, <1>3, <1>4, <1>5, <1>6, <1>7 DEF Next, Step, ProcessOrder, Demo

LEMMA StagesKept == DemoStages /\ [Next]_vars => DemoStages'
<1> SUFFICES ASSUME DemoStages, [Next]_vars
             PROVE  DemoStages'
  OBVIOUS
<1> USE ArmStays DEF DemoStages
<1>1. CASE pc' \notin {"create", "notify", "notice"}
  BY <1>1
<1>2. CASE pc' = pc \/ arm = "demo"
  BY <1>2
<1>3. CASE ActDemo \/ SendLink
  BY <1>3 DEF ActDemo, SendLink
<1>4. CASE \/ Fetch \/ ListPayments \/ Wait \/ FileClassified \/ FileAction \/ ReadBack
           \/ FileOutcome \/ ActControl \/ AttemptReturns \/ WriteRow \/ WriteFails \/ Flush
  BY <1>1, <1>4 DEF Fetch, ListPayments, Wait, FileClassified, FileAction, ReadBack, FileOutcome,
                    ActControl, AttemptReturns, WriteRow, WriteFails, Flush, Files, Reports, Abort
<1>5. CASE ActNaive
  BY <1>1, <1>5 DEF ActNaive, Attempt, AttemptFake, AttemptLive, Reports
<1>6. CASE ActRules
  BY <1>1, <1>6, RulesHoldStill
<1>7. CASE Create \/ FirstReturns \/ FileNotice \/ SecondReturns \/ DemoEnds
  BY <1>1, <1>7 DEF Create, FirstReturns, FileNotice, AttemptLive, SecondReturns, DemoEnds, Quits,
                    Reports
<1>8. CASE CheckoutCall \/ (\E d \in Batch : PaysElsewhere(d)) \/ UNCHANGED vars
  BY <1>2, <1>8 DEF CheckoutCall, PaysElsewhere, vars
<1>9. QED
  BY <1>3, <1>4, <1>5, <1>6, <1>7, <1>8 DEF Next, Step, ProcessOrder, Demo

\* Under the demo: how its stages follow one another, and what each leaves.
LEMMA DemoKept ==
  ASSUME RunInv, [Next]_vars
  PROVE  DemoFiles' /\ DemoKeepsItsOrder'
<1> SUFFICES ASSUME arm = "demo"
             PROVE  DemoFiles' /\ DemoKeepsItsOrder'
  BY ArmStays DEF DemoFiles, DemoKeepsItsOrder
<1>a. /\ current \in Batch /\ current' = current
      /\ sent \in [Batch -> Nat] /\ ledger \in [Batch -> SUBSET KindsOfRow]
      /\ "failed" \in DOMAIN outcome
  BY CurrentKept DEF RunInv, Types, CurrentIsAnOrder
<1>b. ledger[current] \subseteq ledger'[current]
  BY <1>a, RowsStay DEF RunInv
<1>c. /\ pc \in {"act", "notify", "notice"} => "classified" \in ledger[current]
      /\ pc = "notice" /\ ~outcome.failed => current \in contacted
      /\ sent[current] > 0 => /\ {"classified", "notification_requested"} \subseteq ledger[current]
                              /\ current \in contacted
  BY DEF RunInv, DemoFiles, DemoKeepsItsOrder
<1> USE DEF DemoFiles, DemoKeepsItsOrder
<1>1. CASE UNCHANGED <<sent, contacted>> /\ pc' \notin {"act", "notify", "notice"}
  BY <1>1, <1>a, <1>b, <1>c
<1>2. CASE UNCHANGED <<sent, contacted, pc, outcome>>
  BY <1>2, <1>a, <1>b, <1>c
<1>3. CASE FileClassified
  <2>1. UNCHANGED <<sent, contacted>> /\ pc' \in {"act", "write"}
    BY <1>3 DEF FileClassified, Files, Abort, history
  <2>2. pc' = "act" => "classified" \in ledger'[current]
    BY <1>3, <1>a DEF FileClassified, Files, Abort
  <2>3. QED
    BY <2>1, <2>2, <1>a, <1>b, <1>c
<1>4. CASE ActDemo
  <2>1. UNCHANGED <<sent, contacted>> /\ pc = "act" /\ pc' \in {"acted", "notify"}
    BY <1>4 DEF ActDemo, Reports, history
  <2>2. QED
    BY <2>1, <1>a, <1>b, <1>c
<1>5. CASE SendLink
  <2>1. /\ pc = "notify" /\ pc' = "notice" /\ UNCHANGED sent
        /\ contacted \subseteq contacted' /\ (~outcome'.failed => current \in contacted')
    BY <1>5, <1>a DEF SendLink
  <2>2. QED
    BY <2>1, <1>a, <1>b, <1>c
<1>6. CASE FileNotice
  <2>1. /\ pc = "notice" /\ UNCHANGED contacted /\ pc' \in {"acted", "checkout"}
    BY <1>6 DEF FileNotice, AttemptLive, Reports
  <2>2. \/ UNCHANGED sent
        \/ ~outcome.failed /\ "notification_requested" \in ledger'[current]
    BY <1>6, <1>a DEF FileNotice, GoesOn
  <2>3. QED
    BY <2>1, <2>2, <1>a, <1>b, <1>c
<1>7. CASE ActControl \/ ActNaive \/ ActRules \/ AttemptReturns \/ WriteRow \/ WriteFails
  BY <1>7 DEF ActControl, ActNaive, ActRules, AttemptReturns, WriteRow, WriteFails, Arms
<1>8. CASE \/ Fetch \/ ListPayments \/ Wait \/ FileAction \/ ReadBack \/ FileOutcome \/ Flush
  BY <1>1, <1>8 DEF Fetch, ListPayments, Wait, FileAction, ReadBack, FileOutcome, Flush, Files,
                    Abort, history
<1>9. CASE Create \/ FirstReturns \/ SecondReturns \/ DemoEnds
  BY <1>1, <1>9 DEF Create, FirstReturns, SecondReturns, DemoEnds, Quits, Reports, history
<1>10. CASE CheckoutCall \/ (\E d \in Batch : PaysElsewhere(d)) \/ UNCHANGED vars
  BY <1>2, <1>10 DEF CheckoutCall, PaysElsewhere, vars, history
<1>11. QED
  BY <1>3, <1>4, <1>5, <1>6, <1>7, <1>8, <1>9, <1>10 DEF Next, Step, ProcessOrder, Demo

\* The attempts on the ledger, while one may be under way.
LEMMA CountKept ==
  ASSUME RunInv, [Next]_vars
  PROVE  AttemptWithinCap' /\ AttemptsCounted'
<1>a. /\ arm' = arm /\ seeded' = seeded
      /\ (current' = current \/ (pc = "write" /\ arm # "demo"))
      /\ sent \in [Batch -> Nat] /\ seeded \in [Batch -> Nat \ {0}]
      /\ store \in StoreType(Batch, {}) /\ NaiveMax \in Nat
  BY CurrentKept, ArmStays, RecoveryAssumption DEF RunInv, Types
<1>b. \A d \in Batch : store.debt[d].attempts \in Nat
  BY <1>a DEF StoreType
<1>c. AttemptWithinCap /\ AttemptsCounted
  BY DEF RunInv
<1>1. CASE UNCHANGED <<sent, store, current>> /\ (pc' = "checkout" <=> pc = "checkout")
  BY <1>1, <1>a, <1>c DEF AttemptWithinCap, AttemptsCounted
<1>2. CASE WriteRow
  BY <1>2, <1>a, <1>c, RecoveryAssumption DEF WriteRow, AttemptWithinCap, AttemptsCounted, history
<1>3. CASE arm = "demo"
  BY <1>3, <1>a DEF AttemptWithinCap, AttemptsCounted, Arms
<1>4. CASE AttemptReturns
  <2>1. /\ pc = "checkout" /\ pc' = "acted" /\ current \in Batch /\ arm \in Arms
        /\ store' = Commit(store, current, NoKey, FALSE, Instant) /\ UNCHANGED <<sent, current>>
    BY <1>4 DEF AttemptReturns, CheckoutIsBack, Committed, Reports, RunInv, CurrentIsAnOrder
  <2>2. /\ store'.debt[current].attempts = store.debt[current].attempts + 1
        /\ \A e \in Batch \ {current} : store'.debt[e] = store.debt[e]
    BY <2>1, <1>a, CommitCounts
  <2>3. /\ arm = "naive" /\ sent[current] > 0
        /\ store.debt[current].attempts < NaiveMax
    BY <2>1, <1>c DEF AttemptWithinCap
  <2>4. /\ seeded[current] + (sent[current] - 1) <= store.debt[current].attempts
        /\ \A d \in Batch \ {current} :
             /\ seeded[d] + sent[d] <= store.debt[d].attempts
             /\ store.debt[d].attempts <= NaiveMax \/ store.debt[d].attempts = seeded[d]
    BY <2>1, <1>a, <1>c DEF AttemptsCounted
  <2>5. ASSUME NEW d \in Batch
        PROVE  /\ seeded[d] + sent[d] <= store'.debt[d].attempts
               /\ store'.debt[d].attempts <= NaiveMax \/ store'.debt[d].attempts = seeded[d]
    <3>1. seeded[d] \in Nat /\ sent[d] \in Nat /\ store.debt[d].attempts \in Nat
      BY <1>a, <1>b
    <3>2. CASE d = current
      BY <2>2, <2>3, <2>4, <3>1, <3>2, <1>a
    <3>3. CASE d # current
      <4>1. store'.debt[d] = store.debt[d]
        BY <2>2, <3>3
      <4>2. QED
        BY <2>4, <3>3, <4>1
    <3>4. QED
      BY <3>2, <3>3
  <2>6. QED
    BY <2>1, <2>3, <2>5, <1>a DEF AttemptWithinCap, AttemptsCounted
<1>5. CASE ActNaive
  <2> DEFINE o == [outcome EXCEPT !.action = "retry_same_instrument"]
  <2>1. /\ pc = "act" /\ arm = "naive" /\ current \in Batch /\ UNCHANGED current
    BY <1>5 DEF ActNaive, RunInv, CurrentIsAnOrder
  <2>2. CASE Reports(outcome) /\ UNCHANGED <<gateway, sent, reached, store>>
    BY <1>1, <2>1, <2>2 DEF Reports
  <2>3. CASE ~AtCap(store.debt[current].attempts) /\ AttemptFake(o, NoKey)
    <3>1. PICK ok \in BOOLEAN : store' = Commit(store, current, NoKey, FALSE, Instant)
      BY <2>3 DEF AttemptFake, Committed
    <3>2. /\ store'.debt[current].attempts = store.debt[current].attempts + 1
          /\ \A e \in Batch \ {current} : store'.debt[e] = store.debt[e]
      BY <2>1, <3>1, <1>a, CommitCounts
    <3>3. pc' = "acted" /\ sent' = [sent EXCEPT ![current] = @ + 1]
      BY <2>3 DEF AttemptFake, Reports, Counts
    <3>4. store.debt[current].attempts < NaiveMax
      BY <2>1, <2>3, <1>a, <1>b DEF AtCap
    <3>5. QED
      BY <2>1, <3>2, <3>3, <3>4, <1>a, <1>b, <1>c DEF AttemptWithinCap, AttemptsCounted
  <2>4. CASE ~AtCap(store.debt[current].attempts) /\ AttemptLive(o)
    <3>1. /\ pc' = "checkout" /\ UNCHANGED store /\ sent' = [sent EXCEPT ![current] = @ + 1]
      BY <2>4 DEF AttemptLive, Counts
    <3>2. store.debt[current].attempts < NaiveMax
      BY <2>1, <2>4, <1>a, <1>b DEF AtCap
    <3>3. QED
      BY <2>1, <3>1, <3>2, <1>a, <1>b, <1>c DEF AttemptWithinCap, AttemptsCounted
  <2>5. QED
    BY <1>5, <2>2, <2>3, <2>4 DEF ActNaive, Attempt
<1>6. CASE ActRules
  BY <1>1, <1>6, RulesHoldStill DEF ActRules
<1>7. CASE Fetch \/ ListPayments \/ Wait \/ FileClassified \/ FileAction \/ FileOutcome
  BY <1>1, <1>7 DEF Fetch, ListPayments, Wait, FileClassified, FileAction, FileOutcome, Files,
                    Abort, history
<1>8. CASE ActControl \/ ReadBack \/ WriteFails \/ Flush \/ CheckoutCall
  BY <1>1, <1>8 DEF ActControl, ReadBack, WriteFails, Flush, CheckoutCall, Reports, Abort, history
<1>9. CASE Demo
  BY <1>3, <1>9 DEF Demo, Create, FirstReturns, ActDemo, SendLink, FileNotice, SecondReturns,
                    DemoEnds, RunInv, DemoStages
<1>10. CASE (\E d \in Batch : PaysElsewhere(d)) \/ UNCHANGED vars
  BY <1>1, <1>10 DEF PaysElsewhere, vars, history
<1>11. QED
  BY <1>2, <1>4, <1>5, <1>6, <1>7, <1>8, <1>9, <1>10 DEF Next, Step, ProcessOrder

LEMMA RunKept == RunInv /\ [Next]_vars => RunInv'
<1> SUFFICES ASSUME RunInv, [Next]_vars
             PROVE  RunInv'
  OBVIOUS
<1>1. Types' /\ CurrentIsAnOrder' /\ PollInTime'
  BY TypesKept, CurrentKept, PollKept DEF RunInv
<1>2. DemoStages' /\ DemoFiles' /\ DemoKeepsItsOrder'
  BY StagesKept, DemoKept DEF RunInv
<1>3. QED
  BY <1>1, <1>2, CountKept DEF RunInv

LEMMA RunInvAlways == Spec => []RunInv
BY RunStarts, RunKept, PTL DEF Spec

-----------------------------------------------------------------------------
(* The rows.  What a row says of its order was true when it was written,   *)
(* so it must be true of the outcome as it is filled, and nothing that     *)
(* happens later is about an order that has its row.                       *)

Notified(d) == "notification_requested" \in ledger[d]

\* What a row may not get wrong.
TrueOf(d, o) ==
  /\ o.side <=> sent[d] > 0
  /\ reached[d] <= o.calls
  /\ o.recovered => orders[d].status = "paid"

\* What was done is on the ledger, or the row has an error.
OnRecord(d, o) ==
  /\ sent[d] > 0 => "action_taken" \in ledger[d] \/ o.failed
  /\ d \in contacted => Notified(d) \/ o.failed

Filled(o) ==
  {"action", "side", "recovered", "failed", "calls"} \subseteq DOMAIN o /\ o.calls \in Nat

\* Nothing was done for the order yet, whatever the stages in between.
Undone(d) == sent[d] = 0 /\ d \notin contacted

BeforeAct == {"create", "fetch", "list", "wait", "classified", "act"}

AfterAct == {"readback", "observed", "write", "over"}

\* The outcome of the order at hand, stage by stage.
AtHand ==
  current \in Batch =>
    /\ pc \in BeforeAct => Undone(current) /\ outcome.action = "none"
    /\ pc = "notify" => Undone(current) /\ outcome.action # "none"
    /\ pc = "notice" => sent[current] = 0 /\ outcome.action # "none"
    /\ pc = "checkout" =>
         IF outcome.action = "none" THEN Undone(current)
         ELSE sent[current] > 0 /\ (current \in contacted => Notified(current))
    /\ pc \in BeforeAct \cup {"notify", "notice", "checkout"} =>
         reached[current] = 0 /\ outcome.calls = 0 /\ ~outcome.side /\ ~outcome.recovered
    /\ pc = "acted" =>
         /\ sent[current] > 0 => outcome.side \/ outcome.action # "none"
         /\ current \in contacted => Notified(current) \/ outcome.failed
    /\ pc \in AfterAct => OnRecord(current, outcome)
    /\ pc \in AfterAct \cup {"acted"} /\ arm # "demo" => TrueOf(current, outcome)

\* An order ahead has had nothing, a row behind is true, and a run that ends
\* well has them all.
Ahead == \A d \in Batch : d > current => Undone(d) /\ reached[d] = 0

Behind ==
  /\ DOMAIN rows = {d \in Batch : d < current}
  /\ \A d \in DOMAIN rows : TrueOf(d, rows[d]) /\ OnRecord(d, rows[d])

Ends == pc = "flush" \/ (exit = "ok" /\ arm # "demo") => current = Orders + 1

RowTypes == Filled(outcome) /\ reached \in [Batch -> Nat] /\ current \in 1..(Orders + 1)

RowsInv == RunInv /\ CheckoutInv /\ RowTypes /\ AtHand /\ Ahead /\ Behind /\ Ends

LEMMA RowsStart == Init => RowsInv
<1> SUFFICES ASSUME Init
             PROVE  RowsInv
  OBVIOUS
<1>1. RunInv
  BY RunStarts
<1>2. CheckoutInv
  <2>1. CheckoutInit
    BY DEF Init, CheckoutInit
  <2>2. QED
    BY <2>1, CheckoutStarts
<1>3. /\ current = 1 /\ outcome = FreshOutcome /\ pc \in {"create", "fetch"} /\ exit = "running"
      /\ sent = [d \in Batch |-> 0] /\ reached = [d \in Batch |-> 0] /\ contacted = {}
      /\ rows = [d \in {} |-> FreshOutcome]
  BY DEF Init
<1>4. RowTypes /\ AtHand
  BY <1>3, RecoveryAssumption
     DEF RowTypes, AtHand, Undone, Filled, FreshOutcome, BeforeAct, AfterAct
<1>5. Ahead /\ Ends
  BY <1>3 DEF Ahead, Undone, Ends
<1>6. Behind
  <2>1. DOMAIN rows = {}
    BY <1>3
  <2>2. {d \in Batch : d < current} = {}
    BY <1>3, RecoveryAssumption
  <2>3. QED
    BY <2>1, <2>2 DEF Behind
<1>7. QED
  BY <1>1, <1>2, <1>4, <1>5, <1>6 DEF RowsInv

\* A paid order stays paid.
LEMMA PaidStays ==
  ASSUME RunInv, [Next]_vars, NEW d \in Batch, orders[d].status = "paid"
  PROVE  orders'[d].status = "paid"
<1>1. [CheckoutNext]_checkoutVars
  BY StepIsCheckout
<1>2. orders \in [Batch -> [status : {"unpaid", "paid"}, class : SeenClasses]]
  BY DEF RunInv, Types
<1>3. CASE orders' = orders
  BY <1>3
<1>4. CASE Send
  BY <1>2, <1>3, <1>4 DEF Send
<1>5. CASE \E e \in Batch : PaidElsewhere(e)
  BY <1>2, <1>5 DEF PaidElsewhere
<1>6. QED
  BY <1>1, <1>3, <1>4, <1>5 DEF CheckoutNext, checkoutVars, BeginAttempt, Answered

\* A step is about the order at hand.
LEMMA OthersStay ==
  ASSUME RunInv, RowTypes, [Next]_vars, NEW d \in Batch, d # current
  PROVE  /\ sent'[d] = sent[d] /\ reached'[d] = reached[d]
         /\ d \in contacted' <=> d \in contacted
<1>a. sent \in [Batch -> Nat] /\ reached \in [Batch -> Nat]
  BY DEF RunInv, Types, RowTypes
<1>1. CASE UNCHANGED history
  BY <1>1 DEF history
<1>2. CASE ActNaive
  BY <1>2, <1>a DEF ActNaive, Attempt, AttemptFake, AttemptLive, Counts
<1>3. CASE ActRules
  BY <1>3, RulesHoldStill DEF ActRules
<1>4. CASE AttemptReturns \/ SecondReturns \/ SendLink
  BY <1>4, <1>a DEF AttemptReturns, SecondReturns, SendLink
<1>5. CASE FileNotice
  BY <1>5, <1>a DEF FileNotice, AttemptLive, Counts
<1>6. CASE \/ Fetch \/ ListPayments \/ Wait \/ FileClassified \/ ActControl \/ FileAction
           \/ CheckoutCall \/ ReadBack \/ FileOutcome \/ WriteRow \/ WriteFails \/ Flush
  BY <1>1, <1>6 DEF Fetch, ListPayments, Wait, FileClassified, ActControl, FileAction,
                    CheckoutCall, ReadBack, FileOutcome, WriteRow, WriteFails, Flush
<1>7. CASE Create \/ FirstReturns \/ ActDemo \/ DemoEnds
  BY <1>1, <1>7 DEF Create, FirstReturns, ActDemo, DemoEnds
<1>8. CASE (\E e \in Batch : PaysElsewhere(e)) \/ UNCHANGED vars
  BY <1>1, <1>8 DEF PaysElsewhere, vars
<1>9. QED
  BY <1>2, <1>3, <1>4, <1>5, <1>6, <1>7, <1>8 DEF Next, Step, ProcessOrder, Demo

\* rows and the order at hand change together, with the row of that order.
LEMMA OneRowAtATime ==
  [Next]_vars => WriteRow \/ UNCHANGED <<rows, current>>
<1> SUFFICES ASSUME [Next]_vars
             PROVE  WriteRow \/ UNCHANGED <<rows, current>>
  OBVIOUS
<1> USE DEF files
<1>1. CASE \/ Fetch \/ ListPayments \/ Wait \/ FileClassified \/ ActControl \/ FileAction
           \/ CheckoutCall \/ ReadBack \/ FileOutcome \/ WriteRow \/ WriteFails \/ Flush
  BY <1>1 DEF Fetch, ListPayments, Wait, FileClassified, ActControl, FileAction,
              CheckoutCall, ReadBack, FileOutcome, WriteFails, Flush
<1>2. CASE ActNaive \/ ActRules \/ AttemptReturns
  BY <1>2 DEF ActNaive, ActRules, AttemptReturns
<1>3. CASE Demo
  BY <1>3 DEF Demo, Create, FirstReturns, ActDemo, SendLink, FileNotice, SecondReturns, DemoEnds
<1>4. CASE (\E e \in Batch : PaysElsewhere(e)) \/ UNCHANGED vars
  BY <1>4 DEF PaysElsewhere, vars
<1>5. QED
  BY <1>1, <1>2, <1>3, <1>4 DEF Next, Step, ProcessOrder

LEMMA BehindKept ==
  ASSUME RowsInv, [Next]_vars
  PROVE  Behind' /\ Ahead'
<1>a. /\ sent \in [Batch -> Nat] /\ reached \in [Batch -> Nat] /\ Batch = 1..Orders
      /\ Orders \in Nat /\ current \in 1..(Orders + 1)
  BY RecoveryAssumption DEF RowsInv, RunInv, Types, RowTypes
<1>b. Behind /\ Ahead /\ RunInv /\ RowTypes /\ Types /\ CurrentIsAnOrder
  BY DEF RowsInv, RunInv
<1>1. CASE WriteRow
  <2>1. /\ UNCHANGED <<orders, sent, reached, contacted, ledger>> /\ pc = "write" /\ arm # "demo"
        /\ rows' = [d \in DOMAIN rows \cup {current} |-> IF d = current THEN outcome ELSE rows[d]]
        /\ current' = current + 1
    BY <1>1 DEF WriteRow, gateway, history
  <2>2. current \in Batch
    BY <1>b, <2>1 DEF CurrentIsAnOrder
  <2>3. TrueOf(current, outcome) /\ OnRecord(current, outcome)
    BY <2>1, <2>2 DEF RowsInv, AtHand, AfterAct
  <2>4. DOMAIN rows' = {d \in Batch : d < current'}
    BY <1>a, <1>b, <2>1, <2>2 DEF Behind
  <2>5. ASSUME NEW d \in DOMAIN rows'
        PROVE  (TrueOf(d, rows[d]) /\ OnRecord(d, rows[d]))'
    <3>1. CASE d = current
      <4>1. rows'[d] = outcome
        BY <2>1, <3>1
      <4>2. QED
        BY <2>1, <2>3, <3>1, <4>1 DEF TrueOf, OnRecord, Notified
    <3>2. CASE d # current
      <4>1. d \in DOMAIN rows /\ rows'[d] = rows[d]
        BY <2>1, <2>5, <3>2
      <4>2. TrueOf(d, rows[d]) /\ OnRecord(d, rows[d])
        BY <1>b, <4>1 DEF Behind
      <4>3. QED
        BY <2>1, <4>1, <4>2 DEF TrueOf, OnRecord, Notified
    <3>3. QED
      BY <3>1, <3>2
  <2>6. Ahead'
    BY <1>a, <1>b, <2>1, <2>2 DEF Ahead, Undone
  <2>7. QED
    BY <2>4, <2>5, <2>6 DEF Behind
<1>2. CASE UNCHANGED <<rows, current>>
  <2>1. ASSUME NEW d \in DOMAIN rows
        PROVE  (TrueOf(d, rows[d]) /\ OnRecord(d, rows[d]))'
    <3>1. d \in Batch /\ d # current
      BY <1>a, <1>b DEF Behind
    <3>2. /\ sent'[d] = sent[d] /\ reached'[d] = reached[d]
          /\ d \in contacted' <=> d \in contacted
      BY <1>b, <3>1, OthersStay
    <3>3. ledger[d] \subseteq ledger'[d]
      BY <1>b, <3>1, RowsStay
    <3>4. orders[d].status = "paid" => orders'[d].status = "paid"
      BY <1>b, <3>1, PaidStays
    <3>5. TrueOf(d, rows[d]) /\ OnRecord(d, rows[d])
      BY <1>b DEF Behind
    <3>6. rows'[d] = rows[d]
      BY <1>2
    <3>7. QED
      BY <3>2, <3>3, <3>4, <3>5, <3>6 DEF TrueOf, OnRecord, Notified
  <2>2. Ahead'
    <3>1. ASSUME NEW d \in Batch, d > current
          PROVE  (Undone(d) /\ reached[d] = 0)'
      <4>1. d # current
        BY <1>a, <3>1
      <4>2. /\ sent'[d] = sent[d] /\ reached'[d] = reached[d]
            /\ d \in contacted' <=> d \in contacted
        BY <1>b, <4>1, OthersStay
      <4>3. QED
        BY <1>b, <3>1, <4>2 DEF Ahead, Undone
    <3>2. QED
      BY <1>2, <3>1 DEF Ahead
  <2>3. QED
    BY <1>2, <1>b, <2>1, <2>2 DEF Behind
<1>3. QED
  BY <1>1, <1>2, OneRowAtATime

\* The stages that leave the history and the row alone.
LEMMA StageKept ==
  ASSUME RowsInv, current \in Batch,
         UNCHANGED <<arm, orders, history, current, outcome>>,
         ledger[current] \subseteq ledger'[current],
         pc' = pc \/ (pc \in BeforeAct /\ pc' \in BeforeAct) \/ (pc \in AfterAct /\ pc' \in AfterAct)
  PROVE  AtHand'
BY DEF RowsInv, AtHand, Undone, Notified, OnRecord, TrueOf, BeforeAct, AfterAct, history

\* An order that is given up before the arm acted, or after.
LEMMA AbortKept ==
  ASSUME RowsInv, current \in Batch, Abort, pc \in BeforeAct \cup AfterAct \cup {"acted"},
         UNCHANGED <<arm, orders, history, current, ledger>>
  PROVE  AtHand'
<1>1. /\ pc' = "write" /\ outcome' = [outcome EXCEPT !.failed = TRUE]
      /\ outcome'.failed /\ outcome'.side = outcome.side
      /\ outcome'.recovered = outcome.recovered /\ outcome'.calls = outcome.calls
  BY DEF Abort, RowsInv, RowTypes, Filled
<1>2. reached[current] \in Nat /\ sent[current] \in Nat
  BY DEF RowsInv, RowTypes, RunInv, Types
<1>3. AtHand
  BY DEF RowsInv
<1>4. arm # "demo" => TrueOf(current, outcome)
  <2>1. CASE pc \in BeforeAct
    BY <1>2, <1>3, <2>1 DEF AtHand, Undone, TrueOf
  <2>2. CASE pc \in AfterAct \cup {"acted"}
    BY <1>3, <2>2 DEF AtHand
  <2>3. QED
    BY <2>1, <2>2
<1>5. (arm # "demo" => TrueOf(current, outcome))'
  BY <1>1, <1>4 DEF TrueOf, history
<1>6. OnRecord(current, outcome)'
  BY <1>1 DEF OnRecord
<1>7. QED
  BY <1>1, <1>5, <1>6 DEF AtHand, BeforeAct, AfterAct

\* A report of an arm that did nothing.
LEMMA IdleReports ==
  ASSUME RowsInv, current \in Batch, pc = "act", pc' = "acted",
         UNCHANGED <<arm, orders, history, current>>,
         outcome'.side = outcome.side, outcome'.recovered = outcome.recovered,
         outcome'.calls = outcome.calls
  PROVE  AtHand'
<1>1. /\ Undone(current) /\ reached[current] = 0 /\ outcome.calls = 0
      /\ ~outcome.side /\ ~outcome.recovered
  BY DEF RowsInv, AtHand, BeforeAct
<1>2. QED
  BY <1>1 DEF AtHand, Undone, TrueOf, BeforeAct, AfterAct, history

LEMMA FilesKept ==
  ASSUME RowsInv, current \in Batch, FileClassified \/ FileAction \/ FileOutcome,
         current' = current, arm' = arm
  PROVE  AtHand'
<1>a. /\ ledger \in [Batch -> SUBSET KindsOfRow] /\ Types /\ CurrentIsAnOrder
      /\ ledger[current] \subseteq KindsOfRow
  BY DEF RowsInv, RunInv, Types
<1>1. UNCHANGED <<orders, history>>
  BY DEF FileClassified, FileAction, FileOutcome, gateway
<1>2. CASE Abort /\ UNCHANGED ledger
  <2>1. pc \in BeforeAct \cup AfterAct \cup {"acted"}
    BY DEF FileClassified, FileAction, FileOutcome, BeforeAct, AfterAct
  <2>2. QED
    BY <1>1, <1>2, <2>1, AbortKept
<1>3. CASE FileClassified /\ ~(Abort /\ UNCHANGED ledger)
  <2>1. /\ pc = "classified" /\ pc' = "act" /\ UNCHANGED outcome
        /\ ledger' = [ledger EXCEPT ![current] = @ \cup {"classified"}]
    BY <1>3 DEF FileClassified, Files
  <2>2. ledger[current] \subseteq ledger'[current]
    BY <1>a, <2>1
  <2>3. QED
    BY <1>1, <2>1, <2>2, StageKept DEF BeforeAct
<1>4. CASE FileOutcome /\ ~(Abort /\ UNCHANGED ledger)
  <2>1. /\ pc = "observed" /\ pc' = "write" /\ UNCHANGED outcome
        /\ ledger' = [ledger EXCEPT ![current] = @ \cup {"outcome_observed"}]
    BY <1>4 DEF FileOutcome, Files
  <2>2. ledger[current] \subseteq ledger'[current]
    BY <1>a, <2>1
  <2>3. QED
    BY <1>1, <2>1, <2>2, StageKept DEF AfterAct
<1>5. CASE FileAction /\ ~(Abort /\ UNCHANGED ledger)
  <2> DEFINE kind == ActionKind(outcome)
  <2>1. /\ pc = "acted" /\ pc' = "readback" /\ UNCHANGED outcome
        /\ ledger' = [ledger EXCEPT ![current] = @ \cup {kind}]
    BY <1>5 DEF FileAction, Files
  <2>2. ledger'[current] = ledger[current] \cup {kind}
    BY <1>a, <2>1
  <2>3. /\ sent[current] > 0 => outcome.side \/ outcome.action # "none"
        /\ current \in contacted => Notified(current) \/ outcome.failed
        /\ arm # "demo" => TrueOf(current, outcome)
    BY <2>1 DEF RowsInv, AtHand
  <2>4. sent[current] > 0 => kind = "action_taken"
    BY <2>3 DEF ActionKind
  <2>5. OnRecord(current, outcome)'
    BY <1>1, <2>1, <2>2, <2>3, <2>4 DEF OnRecord, Notified, history
  <2>6. (arm # "demo" => TrueOf(current, outcome))'
    BY <1>1, <2>1, <2>3 DEF TrueOf, history
  <2>7. QED
    BY <2>1, <2>5, <2>6 DEF AtHand, BeforeAct, AfterAct
<1>6. QED
  BY <1>2, <1>3, <1>4, <1>5

LEMMA ReadBackKept ==
  ASSUME RowsInv, current \in Batch, ReadBack, arm' = arm
  PROVE  AtHand'
<1>1. /\ pc = "readback" /\ UNCHANGED <<orders, history, current, ledger>>
  BY DEF ReadBack, gateway, files
<1>2. CASE Abort
  BY <1>1, <1>2, AbortKept DEF AfterAct
<1>3. CASE ~Abort
  <2> DEFINE status == orders[current].status
  <2>1. /\ outcome' = [outcome EXCEPT !.final = status, !.recovered = (status = "paid")]
        /\ pc' = "observed"
    BY <1>3 DEF ReadBack, Recovered
  <2>2. /\ outcome'.side = outcome.side /\ outcome'.calls = outcome.calls
        /\ outcome'.failed = outcome.failed /\ (outcome'.recovered => status = "paid")
    BY <2>1 DEF RowsInv, RowTypes, Filled
  <2>3. OnRecord(current, outcome) /\ (arm # "demo" => TrueOf(current, outcome))
    BY <1>1 DEF RowsInv, AtHand, AfterAct
  <2>4. OnRecord(current, outcome)'
    BY <1>1, <2>2, <2>3 DEF OnRecord, Notified, history
  <2>5. (arm # "demo" => TrueOf(current, outcome))'
    BY <1>1, <2>2, <2>3 DEF TrueOf, history
  <2>6. QED
    BY <2>1, <2>4, <2>5 DEF AtHand, BeforeAct, AfterAct
<1>4. QED
  BY <1>2, <1>3

\* The naive arm's attempt, on either layer.
LEMMA NaiveKept ==
  ASSUME RowsInv, current \in Batch, ActNaive, arm' = arm
  PROVE  AtHand'
<1> DEFINE o == [outcome EXCEPT !.action = "retry_same_instrument"]
<1>a. /\ pc = "act" /\ arm = "naive" /\ UNCHANGED <<contacted, current, ledger>>
      /\ sent \in [Batch -> Nat] /\ reached \in [Batch -> Nat] /\ Filled(outcome)
  BY DEF ActNaive, files, RowsInv, RunInv, Types, RowTypes
<1>b. /\ Undone(current) /\ reached[current] = 0 /\ outcome.calls = 0
      /\ ~outcome.side /\ ~outcome.recovered
  BY <1>a DEF RowsInv, AtHand, BeforeAct
<1>c. /\ Filled(o) /\ o.action = "retry_same_instrument" /\ o.calls = 0 /\ o.side = outcome.side
      /\ o.recovered = outcome.recovered
  BY <1>a, <1>b DEF Filled
<1> HIDE DEF o
<1>1. CASE Reports(outcome) /\ UNCHANGED <<gateway, sent, reached, store>>
  BY <1>a, <1>1, IdleReports DEF Reports, gateway, history
<1>2. CASE AttemptFake(o, NoKey)
  <2>1. PICK ok \in BOOLEAN : outcome' = Attempted(o, ok, 1)
    BY <1>2 DEF AttemptFake, Reports
  <2>2. /\ pc' = "acted" /\ sent'[current] = sent[current] + 1
        /\ reached'[current] = reached[current] + 1
    BY <1>a, <1>2 DEF AttemptFake, Reports, Counts
  <2>3. outcome'.side = TRUE /\ outcome'.calls = 1 /\ outcome'.recovered = o.recovered
    BY <1>c, <2>1 DEF Attempted, Filled
  <2>4. sent'[current] > 0 /\ reached'[current] = 1 /\ current \notin contacted'
    BY <1>a, <1>b, <2>2 DEF Undone
  <2>5. QED
    BY <1>a, <1>b, <1>c, <2>2, <2>3, <2>4 DEF AtHand, TrueOf, BeforeAct, AfterAct
<1>3. CASE AttemptLive(o)
  <2>1. /\ pc' = "checkout" /\ outcome' = o /\ sent'[current] = sent[current] + 1
        /\ UNCHANGED reached
    BY <1>a, <1>3 DEF AttemptLive, Counts
  <2>2. sent'[current] > 0 /\ current \notin contacted'
    BY <1>a, <1>b, <2>1 DEF Undone
  <2>3. QED
    BY <1>a, <1>b, <1>c, <2>1, <2>2 DEF AtHand, BeforeAct, AfterAct
<1>4. QED
  BY <1>1, <1>2, <1>3 DEF ActNaive, Attempt, o

LEMMA RulesKept ==
  ASSUME RowsInv, current \in Batch, ActRules, arm' = arm
  PROVE  AtHand'
<1>1. /\ pc = "act" /\ pc' = "acted" /\ UNCHANGED <<orders, sent, reached, contacted, current>>
  BY RulesHoldStill DEF ActRules, gateway
<1>2. /\ outcome'.side = outcome.side /\ outcome'.recovered = outcome.recovered
      /\ outcome'.calls = outcome.calls
  BY NoSourceNoAllow DEF ActRules, Reports, RowsInv, RowTypes, Filled
<1>3. QED
  BY <1>1, <1>2, IdleReports DEF history

\* The attempt comes back: what it reports is what Checkout says of it.
LEMMA AttemptIsTold ==
  ASSUME RowsInv, current \in Batch, AttemptReturns, arm' = arm
  PROVE  AtHand'
<1>1. /\ pc = "checkout" /\ pc' = "acted" /\ arm \in Arms /\ attempt.place = "idle"
      /\ outcome' = Attempted(outcome, Answer, attempt.steps)
      /\ reached' = [reached EXCEPT ![current] = @ + attempt.reached]
      /\ UNCHANGED <<orders, sent, contacted, current, ledger>>
  BY DEF AttemptReturns, CheckoutIsBack, Reports, gateway, files
<1>2. /\ sent[current] > 0
  BY <1>1 DEF RowsInv, RunInv, AttemptWithinCap
<1>3. /\ current \in contacted => Notified(current)
      /\ reached[current] = 0 /\ outcome.calls = 0 /\ ~outcome.recovered
  BY <1>1, <1>2 DEF RowsInv, AtHand, Undone
<1>4. attempt.reached \in Nat /\ attempt.steps \in Nat /\ attempt.reached <= attempt.steps
  BY <1>1 DEF RowsInv, CheckoutInv, Attempts, StepsTellEverything
<1>5. outcome'.side = TRUE /\ outcome'.calls = attempt.steps /\ ~outcome'.recovered
  BY <1>1, <1>3, <1>4 DEF Attempted, RowsInv, RowTypes, Filled
<1>6. reached'[current] = attempt.reached
  BY <1>1, <1>3, <1>4 DEF RowsInv, RowTypes
<1>7. QED
  BY <1>1, <1>2, <1>3, <1>4, <1>5, <1>6 DEF AtHand, TrueOf, Notified, BeforeAct, AfterAct

\* The stages of the demo between its orders' first and second attempt.
LEMMA DemoStepKept ==
  ASSUME RowsInv, current \in Batch, arm = "demo", arm' = arm, current' = current, Demo
  PROVE  AtHand'
<1>a. /\ sent \in [Batch -> Nat] /\ reached \in [Batch -> Nat] /\ Filled(outcome)
      /\ ledger \in [Batch -> SUBSET KindsOfRow] /\ AtHand
      /\ attempt.reached \in Nat
  BY DEF RowsInv, RunInv, Types, RowTypes, CheckoutInv, Attempts
<1>1. CASE Create
  <2>1. /\ pc = "create" /\ pc' \in {"over", "checkout"}
        /\ UNCHANGED <<sent, reached, contacted, outcome, ledger>>
    BY <1>1 DEF Create, Quits, history
  <2>2. QED
    BY <1>a, <2>1 DEF AtHand, Undone, OnRecord, BeforeAct, AfterAct
<1>2. CASE FirstReturns
  <2>1. /\ pc = "checkout" /\ outcome.action = "none" /\ pc' \in {"over", "fetch"}
        /\ UNCHANGED <<sent, reached, contacted, outcome, ledger>>
    BY <1>2 DEF FirstReturns, CheckoutIsBack, Quits, history
  <2>2. QED
    BY <1>a, <2>1 DEF AtHand, Undone, OnRecord, BeforeAct, AfterAct
<1>3. CASE ActDemo
  <2>1. /\ pc = "act" /\ pc' \in {"acted", "notify"}
        /\ UNCHANGED <<sent, reached, contacted, ledger>>
    BY <1>3 DEF ActDemo, Reports, history, files
  <2>2. /\ outcome'.action # "none" /\ outcome'.side = outcome.side
        /\ outcome'.calls = outcome.calls /\ outcome'.recovered = outcome.recovered
    BY <1>3, <1>a DEF ActDemo, Reports, Filled
  <2>3. QED
    BY <1>a, <2>1, <2>2 DEF AtHand, Undone, BeforeAct, AfterAct
<1>4. CASE SendLink
  <2>1. /\ pc = "notify" /\ pc' = "notice" /\ UNCHANGED <<sent, reached>>
        /\ outcome'.action = outcome.action /\ outcome'.side = outcome.side
        /\ outcome'.calls = outcome.calls /\ outcome'.recovered = outcome.recovered
    BY <1>4, <1>a DEF SendLink, Filled
  <2>2. QED
    BY <1>a, <2>1 DEF AtHand, Undone, BeforeAct, AfterAct
<1>5. CASE FileNotice
  <2>1. pc = "notice" /\ UNCHANGED contacted
    BY <1>5 DEF FileNotice
  <2>2. CASE /\ Notified(current)' /\ AttemptLive(outcome)
    <3>1. /\ pc' = "checkout" /\ outcome' = outcome /\ sent'[current] = sent[current] + 1
          /\ UNCHANGED reached
      BY <1>a, <2>2 DEF AttemptLive, Counts
    <3>2. sent'[current] > 0
      BY <1>a, <2>1, <3>1 DEF AtHand
    <3>3. QED
      BY <1>a, <2>1, <2>2, <3>1, <3>2 DEF AtHand, BeforeAct, AfterAct
  <2>3. CASE /\ Reports([outcome EXCEPT !.failed = TRUE])
             /\ UNCHANGED <<gateway, sent, reached, store>>
    <3>1. /\ pc' = "acted" /\ outcome'.failed /\ UNCHANGED <<sent, reached>>
      BY <1>a, <2>3 DEF Reports, Filled
    <3>2. QED
      BY <1>a, <2>1, <3>1 DEF AtHand, BeforeAct, AfterAct
  <2>4. QED
    BY <1>5, <1>a, <2>2, <2>3 DEF FileNotice, GoesOn, Notified
<1>6. CASE SecondReturns
  <2>1. /\ pc = "checkout" /\ outcome.action # "none" /\ pc' = "acted"
        /\ UNCHANGED <<sent, contacted, ledger>>
    BY <1>6 DEF SecondReturns, CheckoutIsBack, Reports, files
  <2>2. outcome'.action = outcome.action
    BY <1>6, <1>a DEF SecondReturns, Reports, Filled
  <2>3. QED
    BY <1>a, <2>1, <2>2 DEF AtHand, Notified, BeforeAct, AfterAct
<1>7. CASE DemoEnds
  <2>1. /\ pc = "write" /\ pc' = "over" /\ UNCHANGED <<sent, contacted, outcome, ledger>>
    BY <1>7 DEF DemoEnds, history
  <2>2. QED
    BY <1>a, <2>1 DEF AtHand, OnRecord, Notified, BeforeAct, AfterAct
<1>8. QED
  BY <1>1, <1>2, <1>3, <1>4, <1>5, <1>6, <1>7 DEF Demo

LEMMA AtHandKept ==
  ASSUME RowsInv, [Next]_vars
  PROVE  AtHand'
<1>a. RunInv /\ Types /\ CurrentIsAnOrder /\ arm' = arm
  BY ArmStays DEF RowsInv, RunInv
<1>1. CASE WriteRow
  <2>1. /\ outcome' = FreshOutcome /\ pc' \in {"flush", "fetch"} /\ current' = current + 1
        /\ UNCHANGED <<sent, reached, contacted>>
    BY <1>1 DEF WriteRow, history
  <2>2. ASSUME current' \in Batch
        PROVE  Undone(current') /\ reached[current'] = 0
    <3>1. current' > current
      BY <2>1, RecoveryAssumption DEF RowsInv, RowTypes
    <3>2. QED
      BY <2>2, <3>1 DEF RowsInv, Ahead
  <2>3. QED
    BY <2>1, <2>2 DEF AtHand, Undone, FreshOutcome, BeforeAct, AfterAct
<1>b. CASE current' = current /\ current \notin Batch
  BY <1>b DEF AtHand
<1>c. ASSUME current' = current, current \in Batch
      PROVE  AtHand'
  <2>a. ledger[current] \subseteq ledger'[current]
    BY <1>a, <1>c, RowsStay
  <2>1. CASE FileClassified \/ FileAction \/ FileOutcome
    BY <1>a, <1>c, <2>1, FilesKept
  <2>2. CASE ActNaive
    BY <1>a, <1>c, <2>2, NaiveKept
  <2>3. CASE ActRules
    BY <1>a, <1>c, <2>3, RulesKept
  <2>4. CASE AttemptReturns
    BY <1>a, <1>c, <2>4, AttemptIsTold
  <2>5. CASE ReadBack
    BY <1>a, <1>c, <2>5, ReadBackKept
  <2>6. CASE ActControl
    <3>1. /\ pc = "act" /\ pc' = "acted" /\ UNCHANGED <<orders, history, outcome>>
      BY <2>6 DEF ActControl, Reports, gateway
    <3>2. QED
      BY <1>a, <1>c, <3>1, IdleReports
  <2>7. CASE Fetch \/ ListPayments \/ Wait
    <3>1. /\ pc \in BeforeAct /\ UNCHANGED <<orders, history, ledger>>
          /\ Abort \/ (pc' \in BeforeAct /\ UNCHANGED outcome)
      BY <2>7 DEF Fetch, ListPayments, Wait, gateway, files, BeforeAct
    <3>2. QED
      BY <1>a, <1>c, <2>a, <3>1, AbortKept, StageKept
  <2>8. CASE WriteFails \/ Flush
    <3>1. pc # "flush"
      BY <1>c, RecoveryAssumption DEF RowsInv, Ends
    <3>2. pc \in AfterAct /\ pc' \in AfterAct /\ UNCHANGED <<orders, history, outcome>>
      BY <2>8, <3>1 DEF WriteFails, Flush, gateway, AfterAct
    <3>3. QED
      BY <1>a, <1>c, <2>a, <3>2, StageKept
  <2>9. CASE CheckoutCall \/ \E d \in Batch : PaysElsewhere(d)
    <3>1. UNCHANGED <<history, outcome, pc>>
      BY <2>9 DEF CheckoutCall, PaysElsewhere
    <3>2. orders[current].status = "paid" => orders'[current].status = "paid"
      BY <1>a, <1>c, PaidStays
    <3>3. QED
      BY <1>a, <1>c, <2>a, <3>1, <3>2
         DEF RowsInv, AtHand, Undone, Notified, OnRecord, TrueOf, BeforeAct, AfterAct, history
  <2>10. CASE Demo
    <3>1. arm = "demo"
      BY <1>a, <2>10 DEF Demo, Create, FirstReturns, ActDemo, SendLink, FileNotice, SecondReturns,
                         DemoEnds, RunInv, DemoStages
    <3>2. QED
      BY <1>a, <1>c, <2>10, <3>1, DemoStepKept
  <2>11. CASE UNCHANGED vars
    <3>1. UNCHANGED <<orders, history, outcome, pc>>
      BY <2>11 DEF vars, gateway
    <3>2. QED
      BY <1>a, <1>c, <2>a, <3>1, StageKept
  <2>12. CASE WriteRow
    BY <1>1, <2>12
  <2>13. QED
    BY <2>1, <2>2, <2>3, <2>4, <2>5, <2>6, <2>7, <2>8, <2>9, <2>10, <2>11, <2>12
       DEF Next, Step, ProcessOrder
<1>2. QED
  BY <1>1, <1>b, <1>c, OneRowAtATime

LEMMA CallsAdded ==
  ASSUME NEW f \in [Batch -> Nat], NEW d, NEW n \in Nat
  PROVE  [f EXCEPT ![d] = @ + n] \in [Batch -> Nat]
<1> DEFINE m == f[d] + n
<1>1. d \in Batch => m \in Nat
  OBVIOUS
<1> HIDE DEF m
<1>2. [f EXCEPT ![d] = m] \in [Batch -> Nat]
  BY <1>1
<1>3. QED
  BY <1>2 DEF m

\* What an arm reports has the fields of a row.
LEMMA FilledKept ==
  ASSUME RowsInv, [Next]_vars
  PROVE  RowTypes'
<1>a. /\ Filled(outcome) /\ reached \in [Batch -> Nat] /\ current \in 1..(Orders + 1)
      /\ attempt.steps \in Nat /\ attempt.reached \in Nat /\ Orders \in Nat /\ Batch = 1..Orders
  BY RecoveryAssumption DEF RowsInv, RowTypes, CheckoutInv, Attempts
<1>b. current' \in 1..(Orders + 1)
  <2>1. CASE WriteRow
    <3>1. current \in Batch
      BY <2>1 DEF WriteRow, RowsInv, RunInv, CurrentIsAnOrder
    <3>2. QED
      BY <1>a, <2>1, <3>1 DEF WriteRow
  <2>2. QED
    BY <1>a, <2>1, OneRowAtATime
<1>1. CASE UNCHANGED <<outcome, reached>>
  BY <1>1, <1>a, <1>b DEF RowTypes
<1>2. CASE UNCHANGED reached /\ (Abort \/ UNCHANGED outcome \/ outcome' = FreshOutcome)
  <2>1. Filled(outcome')
    BY <1>2, <1>a DEF Abort, Filled, FreshOutcome
  <2>2. QED
    BY <1>2, <1>a, <1>b, <2>1 DEF RowTypes, Filled
<1>3. CASE \/ Fetch \/ ListPayments \/ Wait \/ FileClassified \/ ActControl \/ FileAction
           \/ CheckoutCall \/ FileOutcome \/ WriteRow \/ WriteFails \/ Flush
  BY <1>2, <1>3 DEF Fetch, ListPayments, Wait, FileClassified, ActControl, FileAction,
                    CheckoutCall, FileOutcome, WriteRow, WriteFails, Flush, Files, Reports, history
<1>4. CASE ReadBack
  <2>1. UNCHANGED reached /\ Filled(outcome')
    BY <1>4, <1>a DEF ReadBack, Abort, Filled, history
  <2>2. QED
    BY <1>a, <1>b, <2>1 DEF RowTypes, Filled
<1>5. CASE ActNaive
  <2> DEFINE o == [outcome EXCEPT !.action = "retry_same_instrument"]
  <2>1. Filled(o)
    BY <1>a DEF Filled
  <2> HIDE DEF o
  <2>2. CASE Reports(outcome) /\ UNCHANGED <<gateway, sent, reached, store>>
    BY <1>2, <2>2 DEF Reports
  <2>3. CASE AttemptFake(o, NoKey)
    <3>1. reached' \in [Batch -> Nat]
      <4>1. reached' = [reached EXCEPT ![current] = @ + 1]
        BY <2>3 DEF AttemptFake
      <4>2. QED
        BY <1>a, <4>1, CallsAdded
    <3>2. Filled(outcome')
      BY <2>1, <2>3 DEF AttemptFake, Reports, Attempted, Filled
    <3>3. QED
      BY <1>b, <3>1, <3>2 DEF RowTypes, Filled
  <2>4. CASE AttemptLive(o)
    <3>1. outcome' = o /\ UNCHANGED reached
      BY <2>4 DEF AttemptLive
    <3>2. QED
      BY <1>a, <1>b, <2>1, <3>1 DEF RowTypes, Filled
  <2>5. QED
    BY <1>5, <2>2, <2>3, <2>4 DEF ActNaive, Attempt, o
<1>6. CASE ActRules
  <2>1. Filled(outcome')
    BY <1>6, <1>a, NoSourceNoAllow DEF ActRules, Reports, Filled
  <2>2. QED
    BY <1>6, <1>a, <1>b, <2>1, RulesHoldStill DEF RowTypes, Filled
<1>7. CASE AttemptReturns
  <2>1. Filled(outcome')
    BY <1>7, <1>a DEF AttemptReturns, Reports, Attempted, Filled
  <2>2. reached' = [reached EXCEPT ![current] = @ + attempt.reached]
    BY <1>7 DEF AttemptReturns
  <2>3. reached' \in [Batch -> Nat]
    BY <1>a, <2>2, CallsAdded
  <2>4. QED
    BY <1>b, <2>1, <2>3 DEF RowTypes, Filled
<1>8. CASE SecondReturns
  <2>1. Filled(outcome')
    BY <1>8, <1>a DEF SecondReturns, Reports, Filled
  <2>2. reached' = [reached EXCEPT ![current] = @ + attempt.reached]
    BY <1>8 DEF SecondReturns
  <2>3. reached' \in [Batch -> Nat]
    BY <1>a, <2>2, CallsAdded
  <2>4. QED
    BY <1>b, <2>1, <2>3 DEF RowTypes, Filled
<1>9. CASE ActDemo \/ SendLink
  <2>1. Filled(outcome') /\ UNCHANGED reached
    BY <1>9, <1>a DEF ActDemo, SendLink, Reports, Filled, history
  <2>2. QED
    BY <1>a, <1>b, <2>1 DEF RowTypes, Filled
<1>10. CASE FileNotice
  <2>1. UNCHANGED reached /\ (outcome' = outcome \/ outcome' = [outcome EXCEPT !.failed = TRUE])
    BY <1>10 DEF FileNotice, AttemptLive, Reports
  <2>2. Filled(outcome')
    BY <2>1, <1>a DEF Filled
  <2>3. QED
    BY <1>a, <1>b, <2>1, <2>2 DEF RowTypes, Filled
<1>11. CASE Create \/ FirstReturns \/ DemoEnds
  BY <1>1, <1>11 DEF Create, FirstReturns, DemoEnds, history
<1>12. CASE (\E d \in Batch : PaysElsewhere(d)) \/ UNCHANGED vars
  BY <1>1, <1>12 DEF PaysElsewhere, vars, history
<1>13. QED
  BY <1>3, <1>4, <1>5, <1>6, <1>7, <1>8, <1>9, <1>10, <1>11, <1>12
     DEF Next, Step, ProcessOrder, Demo

\* A run that flushes, or ends well, is past its last order.
LEMMA EndsKept ==
  ASSUME RowsInv, [Next]_vars
  PROVE  Ends'
<1>a. Ends /\ arm' = arm /\ CurrentIsAnOrder /\ Orders \in Nat /\ Batch = 1..Orders
  BY ArmStays, RecoveryAssumption DEF RowsInv, RunInv
<1>1. CASE WriteRow
  <2>1. current \in Batch /\ UNCHANGED exit
    BY <1>1, <1>a DEF WriteRow, CurrentIsAnOrder
  <2>2. current # Orders + 1
    BY <1>a, <2>1
  <2>3. QED
    BY <1>1, <1>a, <2>1, <2>2 DEF Ends, WriteRow
<1>2. CASE WriteFails \/ Flush
  BY <1>2, <1>a DEF WriteFails, Flush, Ends
<1>3. CASE UNCHANGED <<exit, current>> /\ (pc' = pc \/ pc' # "flush")
  BY <1>3, <1>a DEF Ends
<1>4. CASE \/ Fetch \/ ListPayments \/ Wait \/ FileClassified \/ ActControl \/ FileAction
           \/ CheckoutCall \/ ReadBack \/ FileOutcome
  BY <1>3, <1>4 DEF Fetch, ListPayments, Wait, FileClassified, ActControl, FileAction,
                    CheckoutCall, ReadBack, FileOutcome, Files, Abort, Reports, files
<1>5. CASE ActNaive \/ AttemptReturns
  BY <1>3, <1>5 DEF ActNaive, Attempt, AttemptFake, AttemptLive, AttemptReturns, Reports, files
<1>6. CASE ActRules
  BY <1>3, <1>6, RulesHoldStill DEF ActRules
<1>7. CASE Demo
  <2>1. arm = "demo" /\ UNCHANGED current
    BY <1>7, OneRowAtATime DEF Demo, Create, FirstReturns, ActDemo, SendLink, FileNotice, SecondReturns,
                DemoEnds, RowsInv, RunInv, DemoStages
  <2>2. pc' # "flush"
    BY <1>7 DEF Demo, Create, FirstReturns, ActDemo, SendLink, FileNotice, AttemptLive,
                SecondReturns, DemoEnds, Quits, Reports
  <2>3. QED
    BY <1>a, <2>1, <2>2 DEF Ends
<1>8. CASE (\E d \in Batch : PaysElsewhere(d)) \/ UNCHANGED vars
  BY <1>3, <1>8 DEF PaysElsewhere, vars, files
<1>9. QED
  BY <1>1, <1>2, <1>4, <1>5, <1>6, <1>7, <1>8 DEF Next, Step, ProcessOrder

LEMMA RowsKept == RowsInv /\ [Next]_vars => RowsInv'
<1> SUFFICES ASSUME RowsInv, [Next]_vars
             PROVE  RowsInv'
  OBVIOUS
<1>1. RunInv'
  BY RunKept DEF RowsInv
<1>2. CheckoutInv'
  BY StepIsCheckout, CheckoutKept DEF RowsInv
<1>3. QED
  BY <1>1, <1>2, FilledKept, AtHandKept, BehindKept, EndsKept DEF RowsInv

LEMMA RowsInvImplies == RowsInv => RowsAreTrue
<1> SUFFICES ASSUME RowsInv
             PROVE  RowsAreTrue
  OBVIOUS
<1>1. \A d \in DOMAIN rows :
        /\ rows[d].side <=> sent[d] > 0
        /\ reached[d] <= rows[d].calls
        /\ rows[d].recovered => orders[d].status = "paid"
  BY DEF RowsInv, Behind, TrueOf
<1>2. ASSUME NEW d \in Batch, d < current \/ pc \in {"write", "over"}
      PROVE  /\ sent[d] > 0 => "action_taken" \in ledger[d] \/ Erred(d)
             /\ d \in contacted => "notification_requested" \in ledger[d] \/ Erred(d)
  <2>1. d \in Nat /\ current \in Nat
    BY RecoveryAssumption DEF RowsInv, RowTypes
  <2>2. d \in DOMAIN rows <=> d < current
    BY DEF RowsInv, Behind
  <2>3. CASE d < current
    BY <2>2, <2>3 DEF RowsInv, Behind, OnRecord, Notified, Erred
  <2>4. CASE d = current
    <3>1. pc \in AfterAct
      BY <1>2, <2>1, <2>4 DEF AfterAct
    <3>2. OnRecord(d, outcome)
      BY <2>4, <3>1 DEF RowsInv, AtHand
    <3>3. QED
      BY <2>1, <2>2, <2>4, <3>2 DEF OnRecord, Notified, Erred
  <2>5. CASE d > current
    BY <2>5 DEF RowsInv, Ahead, Undone
  <2>6. QED
    BY <2>1, <2>3, <2>4, <2>5
<1>3. exit = "ok" /\ arm \in Arms => DOMAIN rows = Batch
  BY RecoveryAssumption DEF RowsInv, Ends, Behind, Arms
<1>4. QED
  BY <1>1, <1>2, <1>3 DEF RowsAreTrue

-----------------------------------------------------------------------------

\* The waits of a poll never add up to more than its budget, however long the
\* budget and however the waits double (poller.go, PollUntilTerminal).
THEOREM PollKeepsItsBudgetAlways == Spec => []PollKeepsItsBudget
<1>1. RunInv => PollKeepsItsBudget
  BY DEF RunInv, Types, Polls, PollInTime, PollKeepsItsBudget
<1>2. QED
  BY RunInvAlways, <1>1, PTL

\* No attempt goes uncounted, the naive arm stays under its cap and no other
\* arm makes one, for any batch and any cap (arms.go).
THEOREM AttemptsCountedAlways == Spec => []AttemptsCounted
<1>1. RunInv => AttemptsCounted
  BY DEF RunInv
<1>2. QED
  BY RunInvAlways, <1>1, PTL

\* The demo's second attempt is behind its notification and its row
\* (cmd/rzp/demo.go, demoAct).
THEOREM DemoKeepsItsOrderAlways == Spec => []DemoKeepsItsOrder
<1>1. RunInv => DemoKeepsItsOrder
  BY DEF RunInv
<1>2. QED
  BY RunInvAlways, <1>1, PTL

\* Nothing but attempts, and payments from elsewhere, happens at the gateway:
\* both programs implement Checkout.
THEOREM RunIsCheckout == Spec => CheckoutSpec
<1>1. Init => CheckoutInit
  BY DEF Init, CheckoutInit
<1>2. QED
  BY RunInvAlways, StepIsCheckout, <1>1, PTL DEF Spec, CheckoutSpec

\* So an attempt is one charge in them too, and its steps tell everything.
THEOREM RunsCharge == Spec => AttemptIsOneCharge /\ []StepsTellEverything
BY RunIsCheckout, CheckoutIsOneCharge, StepsTellEverythingAlways, PTL

\* A row of outcomes.jsonl tells what happened to its order: whether anything
\* was done and with how many calls, a recovery only if it is paid, and what has
\* no audit row is its error.  A run that ends well has them all (run.go).
THEOREM RowsAreTrueAlways == Spec => []RowsAreTrue
BY RowsStart, RowsKept, RowsInvImplies, PTL DEF Spec
===============================================================================
