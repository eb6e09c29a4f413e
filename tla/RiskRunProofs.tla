--------------------------- MODULE RiskRunProofs ---------------------------
(***************************************************************************)
(* What holds of riskrun.Run for every book of debts, every queue and      *)
(* every setting of the gate.                                              *)
(*                                                                         *)
(* The first theorems rest on one idea.  The gate decides at one           *)
(* instant, the action runs at a later one and the ledger counts it at a   *)
(* third.  GateStillHolds says that what the gate read survives until the  *)
(* count: nothing but the clock moves in between, and the clock only moves *)
(* contacts further apart.                                                 *)
(***************************************************************************)
EXTENDS RiskRun, TLAPS, WellFoundedInduction

\* A set of rules that fired has a first one in the order of evaluation, so
\* Evaluate's verdict is always that of a rule.
LEMMA FirstRule ==
  ASSUME NEW hit \in SUBSET Rules, hit # {}
  PROVE  \E r \in hit : \A o \in hit : Rank[r] <= Rank[o]
<1>. DEFINE Ranks == {Rank[r] : r \in hit}
<1>1. Ranks \subseteq Nat /\ Ranks # {}
  BY DEF Rules, Rank
<1>2. IsWellFoundedOn(OpToRel(<, Nat), Nat)
  BY NatLessThanWellFounded
<1>3. \E x \in Ranks : \A y \in Ranks : ~(<<y, x>> \in OpToRel(<, Nat))
  BY <1>1, <1>2, WFMin
<1>4. \E x \in Ranks : \A y \in Ranks : x <= y
  <2>1. PICK x \in Ranks : \A y \in Ranks : ~(<<y, x>> \in OpToRel(<, Nat))
    BY <1>3
  <2>2. ASSUME NEW y \in Ranks PROVE x <= y
    <3>1. x \in Nat /\ y \in Nat
      BY <1>1
    <3>2. y < x => <<y, x>> \in {p \in Nat \X Nat : p[1] < p[2]}
      BY <3>1
    <3>. QED BY <2>1, <2>2, <3>1, <3>2 DEF OpToRel
  <2>. QED BY <2>2
<1>. QED BY <1>4

\* policy.New turns any Config into usable settings; the budget is never negative.
LEMMA SettingsType ==
  /\ Settings.maxTouches \in Int
  /\ Settings.cooldown \in Int
  /\ Settings.notifyWindow \in Int
  /\ Settings.budget \in Nat
  BY PolicyAssumption DEF Settings, WithDefaults, OrDefault

\* A cap and a gap exist for every source, the unknown ones included.
LEMMA ParamsType ==
  ASSUME NEW source
  PROVE  /\ ParamsFor(source).maxTouches \in Int
         /\ ParamsFor(source).cooldown \in Int
  BY PolicyAssumption, SettingsType DEF ParamsFor, OrDefault

\* An allow is the absence of every refusal: no rule of the set fires.
LEMMA EvaluateAllows ==
  ASSUME NEW s, NEW q, NEW t, Allowed(Evaluate(s, q, t)), NEW r \in Rules
  PROVE  ~Fires(r, s, q, t)
  BY DEF Allowed, Evaluate, Refusals

\* What a Decision can carry, and that its key is the request's own.
LEMMA EvaluateType ==
  ASSUME NEW s, NEW q, NEW t
  PROVE  /\ Evaluate(s, q, t).verdict \in Verdicts
         /\ Evaluate(s, q, t).rule \in Rules \cup {"R0"}
         /\ Evaluate(s, q, t).key = <<q.item, q.action, q.touchNo>>
<1>1. Evaluate(s, q, t).verdict \in Verdicts
  BY DEF Evaluate, Verdicts
<1>2. Evaluate(s, q, t).key = <<q.item, q.action, q.touchNo>>
  BY DEF Evaluate, IdempotencyKey
<1>3. Evaluate(s, q, t).rule \in Rules \cup {"R0"}
  <2>1. CASE Refusals(s, q, t) = {}
    BY <2>1 DEF Evaluate
  <2>2. CASE Refusals(s, q, t) # {}
    <3>1. Refusals(s, q, t) \in SUBSET Rules
      BY DEF Refusals
    <3>2. \E r \in Refusals(s, q, t) : \A o \in Refusals(s, q, t) : Rank[r] <= Rank[o]
      BY <2>2, <3>1, FirstRule
    <3>. QED BY <2>2, <3>1, <3>2 DEF Evaluate
  <2>. QED BY <2>1, <2>2
<1>. QED BY <1>1, <1>2, <1>3

-----------------------------------------------------------------------------

\* ProposeAction only proposes lawful actions.
LEMMA Proposed ==
  ASSUME NEW it
  PROVE  ProposeAction(it) \in LawfulActions
  BY DEF ProposeAction, LawfulActions, ContactActions, NotifyActions

\* While the loop runs, it is on an item of the queue.
LEMMA AtItem ==
  ASSUME LoopType, pc # "done"
  PROVE  /\ pos \in 1..QueueLen
         /\ id \in Items
         /\ item \in ItemRecord
<1>1. pos \in 1..QueueLen
  BY RunAssumption DEF LoopType
<1>2. id \in Items
  BY <1>1 DEF LoopType, Queues, id
<1>. QED BY <1>1, <1>2, RunAssumption DEF item

\* What the loop gets back from the gate for an item of the book.
LEMMA DecideType ==
  ASSUME LedgerType, NEW i \in Items, NEW action \in LawfulActions, NEW hold
  PROVE  /\ Decide(i, action, hold).verdict \in Verdicts
         /\ Decide(i, action, hold).rule \in Rules \cup {"R0"}
         /\ Decide(i, action, hold).key = <<i, action, touches[i] + 1>>
         /\ Decide(i, action, hold).key \in Keys
<1>. DEFINE s == StateFor(i, IdempotencyKey(i, action, TouchNo(i)))
            q == RequestFor(i, action, hold)
<1>1. q.item = i /\ q.action = action /\ q.touchNo = touches[i] + 1
  BY DEF RequestFor, RequestFromClassified, TouchNo
<1>2. touches[i] + 1 \in Nat \ {0}
  BY DEF LedgerType
<1>3. Decide(i, action, hold) = Evaluate(s, q, now)
  BY DEF Decide
<1>. HIDE DEF s, q
<1>4. Decide(i, action, hold).key = <<i, action, touches[i] + 1>>
  BY <1>1, <1>3, EvaluateType
<1>5. Decide(i, action, hold).verdict \in Verdicts /\ Decide(i, action, hold).rule \in Rules \cup {"R0"}
  BY <1>3, EvaluateType
<1>. QED BY <1>2, <1>4, <1>5 DEF Keys

\* A written row leaves every trail a sequence of rows.
LEMMA RecordedType ==
  ASSUME FilesType, NEW i \in Items, NEW row \in TrailRow, Recorded(i, row)
  PROVE  trail' \in [Items -> Seq(TrailRow)]
<1>1. Append(trail[i], row) \in Seq(TrailRow)
  BY DEF FilesType
<1>. QED BY <1>1 DEF FilesType, Recorded

\* A run starts well typed.
LEMMA InitType == Init => TypeOK
<1>. SUFFICES ASSUME Init PROVE TypeOK
  OBVIOUS
<1>1. LoopType
  <2>1. arm \in [1..QueueLen -> Arms]
    BY DEF Init, FairArms
  <2>2. pos \in 1..(QueueLen + 1) /\ (pc # "done" => pos <= QueueLen)
    BY RunAssumption DEF Init
  <2>. QED BY <2>1, <2>2, RunAssumption DEF Init, LoopType
<1>2. ItemType
  BY DEF Init, ItemType, Fresh, NoDecision, DecisionNote, NoKey
<1>3. LedgerType
  BY DEF Init, LedgerType
<1>4. FilesType
  BY DEF Init, FilesType
<1>. QED BY <1>1, <1>2, <1>3, <1>4 DEF TypeOK

\* No step loses its place in the queue.
LEMMA StepLoopType == TypeOK /\ [Next]_vars => LoopType'
<1>. SUFFICES ASSUME LoopType, [Next]_vars PROVE LoopType'
  BY DEF TypeOK
<1>. USE DEF options, LoopType
<1>1. CASE Classify
  BY <1>1 DEF Classify, GiveUp
<1>2. CASE Propose
  BY <1>2 DEF Propose, GiveUp
<1>3. CASE Escalate
  BY <1>3 DEF Escalate, GiveUp
<1>4. CASE Skip
  BY <1>4 DEF Skip, GiveUp
<1>5. CASE Apply
  BY <1>5 DEF Apply
<1>6. CASE Commit
  BY <1>6 DEF Commit
<1>7. CASE Write
  BY <1>7, RunAssumption DEF Write
<1>8. CASE Tick
  BY <1>8 DEF Tick
<1>9. CASE UNCHANGED vars
  BY <1>9 DEF vars
<1>. QED BY <1>1, <1>2, <1>3, <1>4, <1>5, <1>6, <1>7, <1>8, <1>9 DEF Next, Step

\* An action is held only together with its idempotency key.
LEMMA StepItemType == TypeOK /\ [Next]_vars => ItemType'
<1>. SUFFICES ASSUME TypeOK, [Next]_vars PROVE ItemType'
  OBVIOUS
<1>. USE DEF ItemType
<1>0. LoopType /\ ItemType /\ LedgerType
  BY DEF TypeOK
<1>1. CASE Classify
  <2>1. item.hold \in Nat
    BY <1>0, <1>1, AtItem DEF Classify, ItemRecord
  <2>2. PICK hold \in Nat : LET taken == [Fresh EXCEPT !.hold = hold]
                           IN cur' \in {taken, [taken EXCEPT !.error = TRUE]}
    BY <1>1, <2>1 DEF Classify, GiveUp
  <2>3. Fresh \in [hold : Nat, first : DecisionNote, second : DecisionNote,
                  action : {""}, key : {NoKey},
                  ran : BOOLEAN, accepted : BOOLEAN, error : BOOLEAN]
    BY DEF Fresh, NoDecision, DecisionNote
  <2>4. pc' # "commit"
    BY <1>1 DEF Classify, GiveUp
  <2>. QED BY <2>2, <2>3, <2>4
<1>2. CASE Propose
  <2>1. PICK d \in {Decide(id, ProposeAction(item), cur.hold)} :
          \/ cur' = [cur EXCEPT !.first = Verdict(d), !.key = d.key,
                                !.action = IF Allowed(d) THEN ProposeAction(item) ELSE ""]
          \/ cur' = [[cur EXCEPT !.first = Verdict(d)] EXCEPT !.error = TRUE]
    BY <1>2 DEF Propose, GiveUp
  <2>2. id \in Items
    BY <1>0, <1>2, AtItem DEF Propose
  <2>3. ProposeAction(item) \in LawfulActions
    BY Proposed
  <2>4. d.key \in Keys /\ d.verdict \in Verdicts /\ d.rule \in Rules \cup {"R0"}
    BY <1>0, <2>2, <2>3, DecideType
  <2>5. Verdict(d) \in DecisionNote
    BY <2>4 DEF Verdict, DecisionNote
  <2>6. pc' # "commit"
    BY <1>2 DEF Propose, GiveUp
  <2>. QED BY <1>0, <2>1, <2>3, <2>4, <2>5, <2>6
<1>3. CASE Escalate
  <2>1. PICK d \in {Decide(id, "escalate", cur.hold)} :
          \/ cur' = [cur EXCEPT !.second = Verdict(d),
                                !.action = IF Allowed(d) THEN "escalate" ELSE "",
                                !.key = IF Allowed(d) THEN d.key ELSE @]
          \/ cur' = [[cur EXCEPT !.second = Verdict(d)] EXCEPT !.error = TRUE]
    BY <1>3 DEF Escalate, GiveUp
  <2>2. id \in Items
    BY <1>0, <1>3, AtItem DEF Escalate
  <2>3. "escalate" \in LawfulActions
    BY DEF LawfulActions, SafeActions
  <2>4. d.key \in Keys /\ d.verdict \in Verdicts /\ d.rule \in Rules \cup {"R0"}
    BY <1>0, <2>2, <2>3, DecideType
  <2>5. Verdict(d) \in DecisionNote
    BY <2>4 DEF Verdict, DecisionNote
  <2>6. pc' # "commit"
    BY <1>3 DEF Escalate, GiveUp
  <2>. QED BY <1>0, <2>1, <2>3, <2>4, <2>5, <2>6
<1>4. CASE Skip
  BY <1>0, <1>4 DEF Skip, GiveUp
<1>5. CASE Apply
  <2>1. PICK accepted \in BOOLEAN, error \in BOOLEAN :
          cur' = [cur EXCEPT !.ran = TRUE, !.accepted = accepted, !.error = error]
    BY <1>5 DEF Apply
  <2>2. cur.action # ""
    BY <1>5 DEF Apply, Executing
  <2>. QED BY <1>0, <2>1, <2>2
<1>6. CASE Commit
  BY <1>0, <1>6 DEF Commit
<1>7. CASE Write
  BY <1>0, <1>7 DEF Write
<1>8. CASE Tick
  BY <1>0, <1>8 DEF Tick
<1>9. CASE UNCHANGED vars
  BY <1>0, <1>9 DEF vars
<1>. QED BY <1>1, <1>2, <1>3, <1>4, <1>5, <1>6, <1>7, <1>8, <1>9 DEF Next, Step

\* No step corrupts the ledger: Commit is reached with a lawful action only.
LEMMA StepLedgerType == TypeOK /\ [Next]_vars => LedgerType'
<1>. SUFFICES ASSUME TypeOK, [Next]_vars PROVE LedgerType'
  OBVIOUS
<1>. USE DEF LedgerType, ledger
<1>0. LoopType /\ ItemType /\ LedgerType
  BY DEF TypeOK
<1>1. CASE Classify
  BY <1>0, <1>1 DEF Classify
<1>2. CASE Propose
  BY <1>0, <1>2 DEF Propose
<1>3. CASE Escalate
  BY <1>0, <1>3 DEF Escalate
<1>4. CASE Skip
  BY <1>0, <1>4 DEF Skip
<1>5. CASE Apply
  <2>1. id \in Items
    BY <1>0, <1>5, AtItem DEF Apply
  <2>2. cur.action \in LawfulActions
    BY <1>0, <1>5 DEF Apply, Executing, ItemType
  <2>3. GuardKey(cur.key, id, cur.action)
          \in (Keys \cup {<<i>> : i \in Items}) \X LawfulActions
    BY <1>0, <2>1, <2>2 DEF GuardKey, ItemType, NoKey
  <2>4. slots' \subseteq slots \cup {GuardKey(cur.key, id, cur.action)}
    BY <1>5 DEF Apply
  <2>. QED BY <1>0, <1>5, <2>3, <2>4 DEF Apply
<1>6. CASE Commit
  <2>1. id \in Items
    BY <1>0, <1>6, AtItem DEF Commit
  <2>0. cur.action \in LawfulActions /\ cur.key \in Keys
    BY <1>0, <1>6 DEF Commit, ItemType
  <2>2. keys' \subseteq Keys
    BY <1>0, <1>6, <2>0 DEF Commit
  <2>3. executed' \in [LawfulActions -> Nat]
    BY <1>0, <1>6, <2>0 DEF Commit
  <2>4. now \in Nat
    BY <1>0 DEF LoopType
  <2>5. touches' \in [Items -> Nat] /\ lastTouch' \in [Items -> Nat]
    BY <1>0, <1>6, <2>1, <2>4 DEF Commit
  <2>6. lastNotify' \in Nat /\ actions' \in Nat
    BY <1>0, <1>6, <2>4 DEF Commit
  <2>. QED BY <1>0, <1>6, <2>2, <2>3, <2>5, <2>6 DEF Commit
<1>7. CASE Write
  BY <1>0, <1>7 DEF Write
<1>8. CASE Tick
  BY <1>0, <1>8 DEF Tick
<1>9. CASE UNCHANGED vars
  BY <1>0, <1>9 DEF vars
<1>. QED BY <1>1, <1>2, <1>3, <1>4, <1>5, <1>6, <1>7, <1>8, <1>9 DEF Next, Step

\* What reaches the files and the world is well formed.
LEMMA StepFilesType == TypeOK /\ [Next]_vars => FilesType'
<1>. SUFFICES ASSUME TypeOK, [Next]_vars PROVE FilesType'
  OBVIOUS
<1>. USE DEF world
<1>0. LoopType /\ ItemType /\ LedgerType /\ FilesType
  BY DEF TypeOK
<1>h. ASSUME pc # "done" PROVE id \in Items /\ pos \in 1..QueueLen
  BY <1>0, <1>h, AtItem
<1>1. CASE Classify
  <2>1. \/ Recorded(id, [kind |-> "classified", action |-> "", verdict |-> "none"])
        \/ UNCHANGED trail
    BY <1>1 DEF Classify, GiveUp
  <2>2. trail' \in [Items -> Seq(TrailRow)]
    BY <1>0, <1>1, <1>h, <2>1, RecordedType DEF Classify, TrailRow, FilesType
  <2>. QED BY <1>0, <1>1, <1>h, <2>2 DEF Classify, GiveUp, FilesType
<1>2. CASE Propose
  <2>1. PICK d \in {Decide(id, ProposeAction(item), cur.hold)} :
          \/ Recorded(id, [kind |-> "policy_evaluated", action |-> ProposeAction(item),
                           verdict |-> d.verdict])
          \/ UNCHANGED trail
    BY <1>2 DEF Propose, GiveUp
  <2>2. ProposeAction(item) \in LawfulActions /\ d.verdict \in Verdicts
    BY <1>0, <1>2, <1>h, Proposed, DecideType DEF Propose
  <2>3. trail' \in [Items -> Seq(TrailRow)]
    BY <1>0, <1>2, <1>h, <2>1, <2>2, RecordedType DEF Propose, TrailRow, FilesType
  <2>. QED BY <1>0, <1>2, <1>h, <2>3 DEF Propose, GiveUp, FilesType
<1>3. CASE Escalate
  <2>1. PICK d \in {Decide(id, "escalate", cur.hold)} :
          \/ Recorded(id, [kind |-> "policy_evaluated", action |-> "escalate",
                           verdict |-> d.verdict])
          \/ UNCHANGED trail
    BY <1>3 DEF Escalate, GiveUp
  <2>2. "escalate" \in LawfulActions
    BY DEF LawfulActions, SafeActions
  <2>3. d.verdict \in Verdicts
    BY <1>0, <1>3, <1>h, <2>2, DecideType DEF Escalate
  <2>4. trail' \in [Items -> Seq(TrailRow)]
    BY <1>0, <1>3, <1>h, <2>1, <2>2, <2>3, RecordedType DEF Escalate, TrailRow, FilesType
  <2>. QED BY <1>0, <1>3, <1>h, <2>4 DEF Escalate, GiveUp, FilesType
<1>4. CASE Skip
  <2>1. \/ Recorded(id, [kind |-> "action_skipped", action |-> ProposeAction(item),
                         verdict |-> cur.first.verdict])
        \/ UNCHANGED trail
    BY <1>4 DEF Skip, GiveUp
  <2>2. cur.first.verdict \in Verdicts \cup {"none"}
    BY <1>0 DEF ItemType, DecisionNote
  <2>3. trail' \in [Items -> Seq(TrailRow)]
    BY <1>0, <1>4, <1>h, <2>1, <2>2, Proposed, RecordedType DEF Skip, TrailRow, FilesType
  <2>. QED BY <1>0, <1>4, <1>h, <2>3 DEF Skip, GiveUp, FilesType
<1>5. CASE Apply
  <2>1. cur.action \in LawfulActions
    BY <1>0, <1>5 DEF Apply, Executing, ItemType
  <2>2. PICK answer \in AnswersTo(item, cur.action), written \in BOOLEAN :
          LET replay == GuardKey(cur.key, id, cur.action) \in slots
              out == Dispatch(item, cur.action, answer)
          IN /\ effects' \subseteq effects \cup
                  {[at |-> now, item |-> id, pos |-> pos, action |-> cur.action,
                    accepted |-> replay \/ out.accepted]}
             /\ \/ Recorded(id, [kind |-> EventKind(out, out.attempted, replay),
                                 action |-> cur.action, verdict |-> "none"])
                \/ UNCHANGED trail
    BY <1>5 DEF Apply
  <2>. DEFINE out == Dispatch(item, cur.action, answer)
              replay == GuardKey(cur.key, id, cur.action) \in slots
  <2>3. (replay \/ out.accepted) \in BOOLEAN
    BY DEF Dispatch
  <2>4. EventKind(out, out.attempted, replay)
          \in {"action_skipped", "intervention_applied", "escalation_raised", "promise_logged"}
    BY DEF EventKind
  <2>. HIDE DEF out, replay
  <2>5. trail' \in [Items -> Seq(TrailRow)]
    BY <1>0, <1>5, <1>h, <2>1, <2>2, <2>4, RecordedType
       DEF Apply, TrailRow, FilesType, out, replay
  <2>6. effects' \subseteq [at : Nat, item : Items, pos : 1..QueueLen,
                           action : LawfulActions, accepted : BOOLEAN]
    <3>1. now \in Nat /\ id \in Items /\ pos \in 1..QueueLen
      BY <1>0, <1>5, <1>h DEF Apply, LoopType
    <3>2. PICK accepted \in BOOLEAN :
            effects' \subseteq effects \cup
              {[at |-> now, item |-> id, pos |-> pos, action |-> cur.action,
                accepted |-> accepted]}
      BY <2>2, <2>3 DEF out, replay
    <3>. DEFINE new == [at |-> now, item |-> id, pos |-> pos, action |-> cur.action,
                        accepted |-> accepted]
    <3>3. new \in [at : Nat, item : Items, pos : 1..QueueLen,
                  action : LawfulActions, accepted : BOOLEAN]
      BY <2>1, <3>1
    <3>. HIDE DEF new
    <3>4. effects' \subseteq effects \cup {new}
      BY <3>2 DEF new
    <3>. QED BY <1>0, <3>3, <3>4 DEF FilesType
  <2>7. failures' \subseteq 1..QueueLen /\ sink' \subseteq Items
    BY <1>0, <1>5, <1>h DEF Apply, FilesType
  <2>. QED BY <2>5, <2>6, <2>7 DEF FilesType
<1>6. CASE Commit
  BY <1>0, <1>6 DEF Commit, FilesType
<1>7. CASE Write
  BY <1>0, <1>7 DEF Write, FilesType
<1>8. CASE Tick
  BY <1>0, <1>8 DEF Tick, FilesType
<1>9. CASE UNCHANGED vars
  BY <1>0, <1>9 DEF vars, FilesType
<1>. QED BY <1>1, <1>2, <1>3, <1>4, <1>5, <1>6, <1>7, <1>8, <1>9 DEF Next, Step

\* Every run of riskrun.Run is well typed, for every book, queue and setting.
THEOREM TypeCorrect == Spec => []TypeOK
<1>1. TypeOK /\ [Next]_vars => TypeOK'
  BY StepLoopType, StepItemType, StepLedgerType, StepFilesType DEF TypeOK
<1>. QED BY InitType, <1>1, PTL DEF Spec

-----------------------------------------------------------------------------

\* Inductive half of DecisionPrecedesEffect: an action about to run was allowed
\* by a decision whose row is already written.
AllowIsDown == pc = "dispose" /\ cur.action # "" => AllowedOnRecord(id, cur.action)

\* The ledger is append-only: a decision on record stays on record.
LEMMA RecordGrows ==
  ASSUME FilesType, NEW i \in Items, NEW row, Recorded(i, row) \/ UNCHANGED trail,
         NEW j \in Items, NEW action, AllowedOnRecord(j, action)
  PROVE  AllowedOnRecord(j, action)'
<1>1. PICK n \in 1..Len(trail[j]) :
        /\ trail[j][n].kind = "policy_evaluated"
        /\ trail[j][n].action = action
        /\ trail[j][n].verdict = "allow"
  BY DEF AllowedOnRecord
<1>2. CASE Recorded(i, row)
  <2>1. trail[j] \in Seq(TrailRow)
    BY DEF FilesType
  <2>2. trail'[j] = trail[j] \/ trail'[j] = Append(trail[j], row)
    BY <1>2 DEF Recorded, FilesType
  <2>3. n \in 1..Len(trail'[j]) /\ trail'[j][n] = trail[j][n]
    BY <2>1, <2>2
  <2>. QED BY <1>1, <2>3 DEF AllowedOnRecord
<1>3. CASE UNCHANGED trail
  BY <1>1, <1>3 DEF AllowedOnRecord
<1>. QED BY <1>2, <1>3

\* Writing the row of an allow puts it on record.
LEMMA RecordHolds ==
  ASSUME FilesType, NEW i \in Items, NEW action,
         Recorded(i, [kind |-> "policy_evaluated", action |-> action, verdict |-> "allow"])
  PROVE  AllowedOnRecord(i, action)'
<1>. DEFINE row == [kind |-> "policy_evaluated", action |-> action, verdict |-> "allow"]
<1>1. trail[i] \in Seq(TrailRow)
  BY DEF FilesType
<1>2. trail'[i] = Append(trail[i], row)
  BY DEF Recorded, FilesType
<1>3. Len(trail[i]) + 1 \in 1..Len(trail'[i]) /\ trail'[i][Len(trail[i]) + 1] = row
  BY <1>1, <1>2
<1>. QED BY <1>3 DEF AllowedOnRecord

\* No step acts ahead of the record.
LEMMA StepDecision ==
  TypeOK /\ AllowIsDown /\ DecisionPrecedesEffect /\ [Next]_vars
    => AllowIsDown' /\ DecisionPrecedesEffect'
<1>. SUFFICES ASSUME TypeOK, AllowIsDown, DecisionPrecedesEffect, [Next]_vars
              PROVE  AllowIsDown' /\ DecisionPrecedesEffect'
  OBVIOUS
<1>0. FilesType /\ LoopType
  BY DEF TypeOK
<1>h. ASSUME pc # "done" PROVE id \in Items
  BY <1>0, <1>h, AtItem
<1>a. ASSUME UNCHANGED world, \E i \in Items : \E row : Recorded(i, row) \/ UNCHANGED trail
      PROVE  DecisionPrecedesEffect'
  BY <1>0, <1>a, RecordGrows DEF DecisionPrecedesEffect, FilesType, world
<1>1. CASE Classify
  <2>1. AllowIsDown'
    BY <1>1 DEF Classify, GiveUp, AllowIsDown
  <2>. QED BY <1>1, <1>a, <1>h, <2>1 DEF Classify, GiveUp
<1>2. CASE Propose
  <2>1. DecisionPrecedesEffect'
    BY <1>2, <1>a, <1>h DEF Propose, GiveUp
  <2>2. ASSUME pc' = "dispose", cur'.action # "" PROVE AllowedOnRecord(id, cur.action)'
    <3>1. PICK d \in {Decide(id, ProposeAction(item), cur.hold)} :
            /\ Recorded(id, [kind |-> "policy_evaluated", action |-> ProposeAction(item),
                             verdict |-> d.verdict])
            /\ cur' = [cur EXCEPT !.first = Verdict(d), !.key = d.key,
                                !.action = IF Allowed(d) THEN ProposeAction(item) ELSE ""]
      BY <1>2, <2>2 DEF Propose, GiveUp
    <3>2. cur \in [hold : Nat, first : DecisionNote, second : DecisionNote,
                   action : LawfulActions \cup {""}, key : Keys \cup {NoKey},
                   ran : BOOLEAN, accepted : BOOLEAN, error : BOOLEAN]
      BY DEF TypeOK, ItemType
    <3>3. cur'.action = ProposeAction(item) /\ d.verdict = "allow"
      BY <2>2, <3>1, <3>2 DEF Allowed
    <3>4. id' = id
      BY <1>2 DEF Propose, options, id
    <3>. QED BY <1>0, <1>2, <1>h, <3>1, <3>3, <3>4, RecordHolds DEF Propose
  <2>. QED BY <2>1, <2>2 DEF AllowIsDown
<1>3. CASE Escalate
  <2>1. DecisionPrecedesEffect'
    BY <1>3, <1>a, <1>h DEF Escalate, GiveUp
  <2>2. ASSUME pc' = "dispose", cur'.action # "" PROVE AllowedOnRecord(id, cur.action)'
    <3>1. PICK d \in {Decide(id, "escalate", cur.hold)} :
            /\ Recorded(id, [kind |-> "policy_evaluated", action |-> "escalate",
                             verdict |-> d.verdict])
            /\ cur' = [cur EXCEPT !.second = Verdict(d),
                                !.action = IF Allowed(d) THEN "escalate" ELSE "",
                                !.key = IF Allowed(d) THEN d.key ELSE @]
      BY <1>3, <2>2 DEF Escalate, GiveUp
    <3>2. cur \in [hold : Nat, first : DecisionNote, second : DecisionNote,
                   action : LawfulActions \cup {""}, key : Keys \cup {NoKey},
                   ran : BOOLEAN, accepted : BOOLEAN, error : BOOLEAN]
      BY DEF TypeOK, ItemType
    <3>3. cur'.action = "escalate" /\ d.verdict = "allow"
      BY <2>2, <3>1, <3>2 DEF Allowed
    <3>4. id' = id
      BY <1>3 DEF Escalate, options, id
    <3>. QED BY <1>0, <1>3, <1>h, <3>1, <3>3, <3>4, RecordHolds DEF Escalate
  <2>. QED BY <2>1, <2>2 DEF AllowIsDown
<1>4. CASE Skip
  <2>1. AllowIsDown'
    BY <1>4 DEF Skip, GiveUp, AllowIsDown
  <2>. QED BY <1>4, <1>a, <1>h, <2>1 DEF Skip, GiveUp
<1>5. CASE Apply
  <2>1. AllowIsDown'
    BY <1>5 DEF Apply, AllowIsDown
  <2>2. id \in Items /\ AllowedOnRecord(id, cur.action)
    BY <1>5, <1>h DEF Apply, Executing, AllowIsDown
  <2>3. \E row : Recorded(id, row) \/ UNCHANGED trail
    BY <1>5 DEF Apply
  <2>4. \A j \in Items : \A action : AllowedOnRecord(j, action) => AllowedOnRecord(j, action)'
    BY <1>0, <2>2, <2>3, RecordGrows
  <2>5. \A e \in effects' : e \in effects \/ (e.item = id /\ e.action = cur.action)
    BY <1>5 DEF Apply
  <2>6. \A i \in sink' : i \in sink \/ (i = id /\ cur.action = "escalate")
    BY <1>5 DEF Apply
  <2>7. DecisionPrecedesEffect'
    BY <1>0, <2>2, <2>4, <2>5, <2>6 DEF DecisionPrecedesEffect, FilesType
  <2>. QED BY <2>1, <2>7
<1>6. CASE Commit
  BY <1>6, <1>a, <1>h DEF Commit, AllowIsDown
<1>7. CASE Write
  BY <1>7, <1>a, <1>h DEF Write, AllowIsDown
<1>8. CASE Tick
  <2>1. id' = id
    BY <1>8 DEF Tick, options, id
  <2>. QED BY <1>8, <1>a, <1>h, <2>1 DEF Tick, AllowIsDown, AllowedOnRecord
<1>9. CASE UNCHANGED vars
  <2>1. id' = id
    BY <1>9 DEF vars, options, id
  <2>. QED BY <1>9, <2>1
           DEF vars, world, AllowIsDown, DecisionPrecedesEffect, AllowedOnRecord
<1>. QED BY <1>1, <1>2, <1>3, <1>4, <1>5, <1>6, <1>7, <1>8, <1>9 DEF Next, Step

\* riskrun.processItem never reaches the world ahead of the audit ledger: every
\* effect and every escalation has its allow on record, whichever write fails.
THEOREM EffectsAreDecided == Spec => []DecisionPrecedesEffect
<1>1. Init => AllowIsDown /\ DecisionPrecedesEffect
  BY DEF Init, AllowIsDown, DecisionPrecedesEffect
<1>. QED BY <1>1, TypeCorrect, StepDecision, PTL DEF Spec

-----------------------------------------------------------------------------

\* The actions R5 counts.
UnsafeActions == LawfulActions \ SafeActions

\* The core of the inductive invariant: between the gate's allow and the commit
\* of the action, everything the gate read still holds.
GateStillHolds ==
  pc \in {"dispose", "commit"} /\ cur.action # "" =>
    /\ cur.key \notin keys
    /\ cur.action \in ContactActions => /\ touches[id] < CapOf[id]
                                       /\ Limits!Apart(lastTouch[id], GapOf[id])
    /\ cur.action \in NotifyActions =>
         Limits!Apart(lastNotify, Settings.notifyWindow)
    /\ cur.action \in UnsafeActions => actions < Settings.budget

\* What an allow says about the ledger it was decided on: the rules R9, R1, R2,
\* R6 and R5 did not fire.
LEMMA AllowMeans ==
  ASSUME TypeOK, NEW i \in Items, NEW action \in LawfulActions, NEW hold,
         Allowed(Decide(i, action, hold))
  PROVE  /\ Decide(i, action, hold).key \notin keys
         /\ action \in ContactActions => /\ touches[i] < CapOf[i]
                                        /\ Limits!Apart(lastTouch[i], GapOf[i])
         /\ action \in NotifyActions =>
              Limits!Apart(lastNotify, Settings.notifyWindow)
         /\ action \in UnsafeActions => actions < Settings.budget
<1>. DEFINE key == IdempotencyKey(i, action, TouchNo(i))
            s == StateFor(i, key)
            q == RequestFor(i, action, hold)
<1>1. \A r \in Rules : ~Fires(r, s, q, now)
  BY EvaluateAllows DEF Decide
<1>2. {"R9", "R1", "R2", "R6", "R5"} \subseteq Rules
  BY DEF Rules, Rank
<1>3. /\ s.touches = touches[i] /\ s.lastTouch = lastTouch[i]
      /\ s.lastNotify = lastNotify /\ s.actions = actions /\ s.keySeen = (key \in keys)
      /\ q.action = action /\ q.source = Book[i].source
  BY DEF StateFor, RequestFor, RequestFromClassified
<1>. HIDE DEF s, q
<1>4. /\ ~s.keySeen
      /\ ~(IsContact(q) /\ s.touches >= ParamsFor(q.source).maxTouches)
      /\ ~(IsContact(q) /\ Within(now, s.lastTouch, ParamsFor(q.source).cooldown))
      /\ ~(IsNotify(q) /\ Within(now, s.lastNotify, Settings.notifyWindow))
      /\ ~(~IsSafe(q) /\ s.actions >= Settings.budget)
  BY <1>1, <1>2 DEF Fires
<1>5. Decide(i, action, hold).key \notin keys
  BY <1>3, <1>4, DecideType DEF TypeOK, IdempotencyKey, TouchNo
<1>6. /\ touches[i] \in Nat /\ lastTouch[i] \in Nat /\ lastNotify \in Nat
      /\ actions \in Nat /\ now \in Nat
  BY DEF TypeOK, LedgerType, LoopType
<1>7. /\ CapOf[i] = ParamsFor(q.source).maxTouches /\ CapOf[i] \in Int
      /\ GapOf[i] = ParamsFor(q.source).cooldown /\ GapOf[i] \in Int
  BY <1>3, ParamsType DEF CapOf, GapOf
<1>8. action \in ContactActions => touches[i] < CapOf[i]
  BY <1>3, <1>4, <1>6, <1>7 DEF IsContact
<1>9. action \in ContactActions => Limits!Apart(lastTouch[i], GapOf[i])
  BY <1>3, <1>4, <1>6, <1>7 DEF IsContact, Within, Limits!Apart
<1>10. action \in NotifyActions => Limits!Apart(lastNotify, Settings.notifyWindow)
  BY <1>3, <1>4, <1>6, SettingsType DEF IsNotify, Within, Limits!Apart
<1>11. action \in UnsafeActions => actions < Settings.budget
  BY <1>3, <1>4, <1>6, SettingsType DEF IsSafe, UnsafeActions
<1>. QED BY <1>5, <1>8, <1>9, <1>10, <1>11

\* Waiting keeps two contacts apart.
LEMMA StillApart ==
  ASSUME NEW t \in Nat, NEW last \in Nat, NEW gap \in Int, t - last >= gap
  PROVE  (t + 1) - last >= gap
  OBVIOUS

\* What the gate saw still holds when its action runs and when it is counted:
\* the only step that can come between is the clock's.
LEMMA StepGate == TypeOK /\ GateStillHolds /\ [Next]_vars => GateStillHolds'
<1>. SUFFICES ASSUME TypeOK, GateStillHolds, [Next]_vars,
                     pc' \in {"dispose", "commit"}, cur'.action # ""
              PROVE  GateStillHolds'
  BY DEF GateStillHolds
<1>0. LoopType /\ LedgerType /\ ItemType
  BY DEF TypeOK
<1>h. ASSUME pc # "done" PROVE id \in Items
  BY <1>0, <1>h, AtItem
<1>t. cur \in [hold : Nat, first : DecisionNote, second : DecisionNote,
              action : LawfulActions \cup {""}, key : Keys \cup {NoKey},
              ran : BOOLEAN, accepted : BOOLEAN, error : BOOLEAN]
  BY <1>0 DEF ItemType
<1>1. CASE Propose
  <2>1. PICK d \in {Decide(id, ProposeAction(item), cur.hold)} :
          cur' = [cur EXCEPT !.first = Verdict(d), !.key = d.key,
                             !.action = IF Allowed(d) THEN ProposeAction(item) ELSE ""]
    BY <1>1 DEF Propose, GiveUp
  <2>2. cur'.action = ProposeAction(item) /\ cur'.key = d.key /\ Allowed(d)
    BY <1>t, <2>1
  <2>3. id' = id /\ UNCHANGED <<ledger, now>>
    BY <1>1 DEF Propose, options, id
  <2>. QED BY <1>1, <1>h, <2>2, <2>3, Proposed, AllowMeans
           DEF Propose, GateStillHolds, ledger, Limits!Apart
<1>2. CASE Escalate
  <2>1. PICK d \in {Decide(id, "escalate", cur.hold)} :
          cur' = [cur EXCEPT !.second = Verdict(d),
                             !.action = IF Allowed(d) THEN "escalate" ELSE "",
                             !.key = IF Allowed(d) THEN d.key ELSE @]
    BY <1>2 DEF Escalate, GiveUp
  <2>2. cur'.action = "escalate" /\ cur'.key = d.key /\ Allowed(d)
    BY <1>t, <2>1
  <2>3. id' = id /\ UNCHANGED <<ledger, now>>
    BY <1>2 DEF Escalate, options, id
  <2>4. "escalate" \in LawfulActions
    BY DEF LawfulActions, SafeActions
  <2>. QED BY <1>2, <1>h, <2>2, <2>3, <2>4, AllowMeans
           DEF Escalate, GateStillHolds, ledger, Limits!Apart
<1>3. CASE Apply
  <2>1. cur'.action = cur.action /\ cur'.key = cur.key
    BY <1>3, <1>t DEF Apply
  <2>2. id' = id /\ UNCHANGED <<ledger, now>>
    BY <1>3 DEF Apply, options, id
  <2>. QED BY <1>3, <2>1, <2>2 DEF Apply, GateStillHolds, ledger, Limits!Apart
<1>4. CASE Tick
  <2>1. id' = id /\ now' = now + 1 /\ UNCHANGED <<ledger, cur, pc>>
    BY <1>4 DEF Tick, options, id
  <2>2. ASSUME NEW last \in Nat, NEW gap \in Int, last = 0 \/ now - last >= gap
        PROVE  last = 0 \/ (now + 1) - last >= gap
    BY <1>0, <2>2, StillApart DEF LoopType
  <2>3. pc # "done" /\ id \in Items
    BY <1>4, <1>h DEF Tick
  <2>4. lastTouch[id] \in Nat /\ lastNotify \in Nat /\ GapOf[id] \in Int
    BY <1>0, <2>3, ParamsType DEF LedgerType, GapOf
  <2>5. GateStillHolds => GateStillHolds'
    BY <2>1, <2>2, <2>4, SettingsType DEF GateStillHolds, ledger, Limits!Apart
  <2>. QED BY <2>5
<1>5. CASE UNCHANGED vars
  <2>1. id' = id
    BY <1>5 DEF vars, options, id
  <2>. QED BY <1>5, <2>1 DEF vars, ledger, GateStillHolds, Limits!Apart
<1>6. ~(Classify \/ Skip \/ Commit \/ Write)
  BY DEF Classify, Skip, Commit, Write, GiveUp
<1>. QED BY <1>1, <1>2, <1>3, <1>4, <1>5, <1>6 DEF Next, Step

-----------------------------------------------------------------------------

\* Inductive form of BudgetBoundsTheRun: the counter the gate reads covers every
\* unsafe action, and escalations only make it larger.
BudgetSpent == UnsafeExecuted <= actions /\ UnsafeExecuted <= Settings.budget

\* Spending one unit of a budget not yet reached.
LEMMA SpendOne ==
  ASSUME NEW u \in Nat, NEW a \in Nat, NEW b \in Nat, u <= a, a < b
  PROVE  u + 1 <= a + 1 /\ u + 1 <= b
  OBVIOUS

\* Counting an action that costs nothing.
LEMMA SpendNone ==
  ASSUME NEW u \in Nat, NEW a \in Nat, u <= a
  PROVE  u <= a + 1
  OBVIOUS

\* No step overspends.
LEMMA StepBudget ==
  TypeOK /\ GateStillHolds /\ BudgetSpent /\ [Next]_vars => BudgetSpent'
<1>. SUFFICES ASSUME TypeOK, GateStillHolds, BudgetSpent, [Next]_vars
              PROVE  BudgetSpent'
  OBVIOUS
<1>1. CASE Commit
  <2>1. /\ pc = "commit" /\ cur.action # "" /\ cur.action \in LawfulActions
        /\ actions \in Nat /\ executed \in [LawfulActions -> Nat]
    BY <1>1 DEF Commit, TypeOK, ItemType, LedgerType
  <2>2. cur.key \notin keys /\ (cur.action \in UnsafeActions => actions < Settings.budget)
    BY <2>1 DEF GateStillHolds
  <2>3. actions' = actions + 1 /\ executed' = [executed EXCEPT ![cur.action] = @ + 1]
    BY <1>1, <2>2 DEF Commit
  <2>. DEFINE unsafe == {"notify_email", "notify_sms", "resend_link",
                         "create_payment_link", "cancel_write_off"}
  <2>4. /\ unsafe \subseteq LawfulActions
        /\ \A a \in LawfulActions : a \in unsafe <=> a \in UnsafeActions
    BY DEF UnsafeActions, LawfulActions, SafeActions, ContactActions, NotifyActions
  <2>5. \A a \in unsafe : executed[a] \in Nat
    BY <2>1, <2>4
  <2>6. CASE cur.action \in unsafe
    <3>1. UnsafeExecuted' = UnsafeExecuted + 1
      <4>1. \A x \in LawfulActions :
              executed'[x] = IF x = cur.action THEN executed[x] + 1 ELSE executed[x]
        BY <2>1, <2>3
      <4>. QED BY <2>4, <2>5, <2>6, <4>1 DEF UnsafeExecuted
    <3>2. actions < Settings.budget
      BY <2>1, <2>2, <2>4, <2>6
    <3>3. UnsafeExecuted \in Nat
      BY <2>5 DEF UnsafeExecuted
    <3>4. UnsafeExecuted + 1 <= actions + 1 /\ UnsafeExecuted + 1 <= Settings.budget
      BY <2>1, <3>2, <3>3, SettingsType, SpendOne DEF BudgetSpent
    <3>. QED BY <2>3, <3>1, <3>4 DEF BudgetSpent
  <2>7. CASE cur.action \notin unsafe
    <3>1. UnsafeExecuted' = UnsafeExecuted
      BY <2>1, <2>3, <2>4, <2>7 DEF UnsafeExecuted
    <3>2. UnsafeExecuted \in Nat
      BY <2>5 DEF UnsafeExecuted
    <3>3. UnsafeExecuted <= actions
      BY DEF BudgetSpent
    <3>4. UnsafeExecuted <= actions + 1
      BY <2>1, <3>2, <3>3, SpendNone
    <3>. QED BY <2>3, <3>1, <3>4 DEF BudgetSpent
  <2>. QED BY <2>6, <2>7
<1>2. CASE ~Commit
  <2>1. UNCHANGED <<actions, executed>>
    BY <1>2 DEF Next, Step, Classify, Propose, Escalate, Skip, Apply, Write, Tick,
                ledger, vars
  <2>. QED BY <2>1 DEF BudgetSpent, UnsafeExecuted
<1>. QED BY <1>1, <1>2

\* R5 holds over a whole run: riskrun.Run executes no more unsafe actions than
\* the budget, whatever is escalated, refused or lost in between.
THEOREM WithinBudget == Spec => []BudgetBoundsTheRun
<1>1. Init => GateStillHolds /\ BudgetSpent
  <2>. SUFFICES ASSUME Init PROVE GateStillHolds /\ BudgetSpent
    OBVIOUS
  <2>1. UnsafeExecuted = 0 /\ actions = 0
    BY DEF Init, UnsafeExecuted, LawfulActions, ContactActions, NotifyActions
  <2>. QED BY <2>1, SettingsType DEF Init, GateStillHolds, BudgetSpent
<1>2. BudgetSpent => BudgetBoundsTheRun
  BY DEF BudgetSpent, BudgetBoundsTheRun
<1>. QED BY <1>1, <1>2, TypeCorrect, StepGate, StepBudget, PTL DEF Spec

-----------------------------------------------------------------------------

\* riskrun.Run implements ContactLimits: every step is a contact that respects
\* the cap, the cooldown and the notify window, a tick, or a stutter.
THEOREM ContactLimitsKept == Spec => KeepsContactLimits
<1>1. Init => Limits!Init
  BY RunAssumption DEF Init, Limits!Init
<1>2. TypeOK /\ GateStillHolds /\ [Next]_vars => [Limits!Next]_Limits!vars
  <2>. SUFFICES ASSUME TypeOK, GateStillHolds, [Next]_vars
                PROVE  Limits!Next \/ UNCHANGED Limits!vars
    OBVIOUS
  <2>1. CASE Commit
    <3>1. pc = "commit" /\ cur.action # "" /\ id \in Items /\ cur.key \notin keys
      BY <2>1, AtItem DEF Commit, TypeOK, ItemType, GateStillHolds
    <3>2. CASE cur.accepted /\ cur.action \in ContactActions
      <4>1. CASE cur.action \in NotifyActions
        <5>1. Limits!Contact(id, TRUE)
          BY <2>1, <3>1, <3>2, <4>1 DEF Commit, GateStillHolds, Limits!Contact
        <5>. QED BY <3>1, <5>1 DEF Limits!Next
      <4>2. CASE cur.action \notin NotifyActions
        <5>1. Limits!Contact(id, FALSE)
          BY <2>1, <3>1, <3>2, <4>2 DEF Commit, GateStillHolds, Limits!Contact
        <5>. QED BY <3>1, <5>1 DEF Limits!Next
      <4>. QED BY <4>1, <4>2
    <3>3. CASE ~(cur.accepted /\ cur.action \in ContactActions)
      BY <2>1, <3>1, <3>3 DEF Commit, ContactActions, Limits!vars
    <3>. QED BY <3>2, <3>3
  <2>2. CASE Tick
    BY <2>2 DEF Tick, ledger, Limits!Next, Limits!Tick
  <2>3. CASE ~Commit /\ ~Tick
    BY <2>3 DEF Next, Step, Classify, Propose, Escalate, Skip, Apply, Write,
                ledger, vars, Limits!vars
  <2>. QED BY <2>1, <2>2, <2>3
<1>3. Init => GateStillHolds
  BY DEF Init, GateStillHolds
<1>. QED BY <1>1, <1>2, <1>3, TypeCorrect, StepGate, PTL
         DEF Spec, KeepsContactLimits, Limits!Spec

-----------------------------------------------------------------------------

\* No effect is ahead of the clock or of the loop.
EffectsBehind ==
  \A e \in effects :
    /\ e.at # 0 /\ e.at <= now
    /\ e.pos <= pos
    /\ e.pos = pos => pc \in {"commit", "write", "stopped"}

\* The notification is covered by the clock R6 reads.
OnTheClock(e) == lastNotify # 0 /\ e.at <= lastNotify

\* The notification has left and ledger.commit has not run yet.
BeingCounted(e) ==
  /\ pc = "commit" /\ e.pos = pos
  /\ cur.accepted /\ cur.action \in NotifyActions

\* An accepted notification is on R6's clock or about to be.
SendsCounted ==
  \A e \in effects : e.action \in NotifyActions /\ e.accepted
                      => OnTheClock(e) \/ BeingCounted(e)

\* Inductive form of NotificationsSpaced.
SpacingInv == now # 0 /\ EffectsBehind /\ SendsCounted /\ NotificationsSpaced

\* An earlier send is at least as far away as the last one counted.
LEMMA SpacedFrom ==
  ASSUME NEW t \in Nat, NEW last \in Nat, NEW at \in Nat, NEW gap \in Int,
         t - last >= gap, at <= last
  PROVE  t - at >= gap
  OBVIOUS

\* No step sends inside the window.
LEMMA StepSpacing ==
  TypeOK /\ GateStillHolds /\ SpacingInv /\ [Next]_vars => SpacingInv'
<1>. SUFFICES ASSUME TypeOK, GateStillHolds, SpacingInv, [Next]_vars
              PROVE  SpacingInv'
  OBVIOUS
<1>0. LoopType /\ ItemType /\ LedgerType /\ FilesType
  BY DEF TypeOK
<1>t. /\ now \in Nat /\ pos \in Int /\ lastNotify \in Nat
      /\ \A e \in effects : e.at \in Nat /\ e.pos \in Int
  BY <1>0, RunAssumption DEF LoopType, LedgerType, FilesType
<1>1. CASE Apply
  <2>0. PICK accepted \in BOOLEAN :
          /\ cur'.accepted = accepted
          /\ effects' \subseteq effects \cup
               {[at |-> now, item |-> id, pos |-> pos, action |-> cur.action,
                 accepted |-> accepted]}
    <3>1. PICK answer \in AnswersTo(item, cur.action) :
            \E error \in BOOLEAN :
            LET accepted == \/ GuardKey(cur.key, id, cur.action) \in slots
                            \/ Dispatch(item, cur.action, answer).accepted
            IN /\ cur' = [cur EXCEPT !.ran = TRUE, !.accepted = accepted, !.error = error]
               /\ effects' \subseteq effects \cup
                    {[at |-> now, item |-> id, pos |-> pos, action |-> cur.action,
                      accepted |-> accepted]}
      BY <1>1 DEF Apply
    <3>. QED BY <1>0, <3>1 DEF ItemType
  <2>. DEFINE r == [at |-> now, item |-> id, pos |-> pos, action |-> cur.action,
                    accepted |-> accepted]
  <2>1. /\ r.at = now /\ r.pos = pos /\ r.action = cur.action
        /\ r.accepted => cur'.accepted
        /\ effects' \subseteq effects \cup {r}
    BY <2>0
  <2>. HIDE DEF r
  <2>2. /\ pc = "dispose" /\ pc' = "commit" /\ cur.action # "" /\ cur'.action = cur.action
        /\ now' = now /\ pos' = pos /\ lastNotify' = lastNotify
    BY <1>0, <1>1 DEF Apply, Executing, ItemType, ledger
  <2>3. now' # 0 /\ EffectsBehind'
    <3>1. \A e \in effects' : e \in effects \/ (e.at = now /\ e.pos = pos)
      BY <2>1
    <3>2. now <= now /\ pos <= pos
      BY <1>t
    <3>. QED BY <2>2, <3>1, <3>2 DEF SpacingInv, EffectsBehind
  <2>4. \A e \in effects : e.action \in NotifyActions /\ e.accepted => OnTheClock(e)
    BY <2>2 DEF SpacingInv, SendsCounted, BeingCounted
  <2>5. SendsCounted'
    BY <2>1, <2>2, <2>4 DEF SendsCounted, OnTheClock, BeingCounted
  <2>6. NotificationsSpaced'
    <3>1. SUFFICES ASSUME NEW e \in effects', NEW f \in effects',
                          e.action \in NotifyActions, f.action \in NotifyActions,
                          e.accepted, f.accepted, e.pos < f.pos
                   PROVE  f.at - e.at >= Settings.notifyWindow
      BY DEF NotificationsSpaced
    <3>2. CASE f \in effects
      <4>1. e \in effects
        BY <1>t, <2>1, <3>1, <3>2 DEF SpacingInv, EffectsBehind
      <4>. QED BY <3>1, <3>2, <4>1 DEF SpacingInv, NotificationsSpaced
    <3>3. CASE f = r
      <4>1. e \in effects /\ OnTheClock(e)
        BY <1>t, <2>1, <2>4, <3>1, <3>3
      <4>2. Limits!Apart(lastNotify, Settings.notifyWindow)
        BY <2>1, <2>2, <3>1, <3>3 DEF GateStillHolds
      <4>3. now - lastNotify >= Settings.notifyWindow
        BY <4>1, <4>2 DEF OnTheClock, Limits!Apart
      <4>4. now - e.at >= Settings.notifyWindow
        BY <1>t, <4>1, <4>3, SettingsType, SpacedFrom DEF OnTheClock
      <4>. QED BY <2>1, <3>3, <4>4
    <3>. QED BY <2>1, <3>2, <3>3
  <2>. QED BY <2>3, <2>5, <2>6 DEF SpacingInv
<1>2. CASE Commit
  <2>1. /\ pc = "commit" /\ pc' = "write" /\ cur.action # ""
        /\ UNCHANGED <<now, pos, effects>>
    BY <1>0, <1>2 DEF Commit, ItemType, world
  <2>2. cur.key \notin keys
    BY <2>1 DEF GateStillHolds
  <2>3. lastNotify' = IF cur.accepted /\ cur.action \in NotifyActions THEN now ELSE lastNotify
    BY <1>2, <2>2 DEF Commit
  <2>4. SendsCounted'
    BY <1>t, <2>1, <2>3
       DEF SpacingInv, SendsCounted, EffectsBehind, OnTheClock, BeingCounted
  <2>5. EffectsBehind' /\ NotificationsSpaced' /\ now' # 0
    BY <2>1 DEF SpacingInv, EffectsBehind, NotificationsSpaced
  <2>. QED BY <2>4, <2>5 DEF SpacingInv
<1>3. CASE Write
  <2>1. /\ pc = "write" /\ UNCHANGED <<now, effects, lastNotify>>
        /\ \/ pos' = pos /\ pc' = "stopped"
           \/ pos' = pos + 1
    BY <1>3 DEF Write, world, ledger
  <2>. QED BY <1>t, <2>1
           DEF SpacingInv, SendsCounted, EffectsBehind, OnTheClock, BeingCounted,
               NotificationsSpaced
<1>4. CASE Tick
  <2>1. now' = now + 1 /\ UNCHANGED <<effects, pos, pc, cur, lastNotify>>
    BY <1>4 DEF Tick, world, ledger
  <2>. QED BY <1>t, <2>1
           DEF SpacingInv, SendsCounted, EffectsBehind, OnTheClock, BeingCounted,
               NotificationsSpaced
<1>5. CASE Classify \/ Propose \/ Escalate \/ Skip
  <2>1. /\ pc \in {"classify", "propose", "escalate", "dispose"}
        /\ UNCHANGED <<effects, now, pos, lastNotify>>
    BY <1>5 DEF Classify, Propose, Escalate, Skip, world, ledger
  <2>. QED BY <1>t, <2>1
           DEF SpacingInv, SendsCounted, EffectsBehind, OnTheClock, BeingCounted,
               NotificationsSpaced
<1>6. CASE UNCHANGED vars
  BY <1>6 DEF vars, world, ledger, SpacingInv, SendsCounted, EffectsBehind, OnTheClock,
              BeingCounted, NotificationsSpaced
<1>. QED BY <1>1, <1>2, <1>3, <1>4, <1>5, <1>6 DEF Next, Step

\* R6 holds across items and across the time a send takes: two notifications
\* the gateway accepted in one run are at least the notify window apart.
THEOREM SendsAreSpaced == Spec => []NotificationsSpaced
<1>1. Init => GateStillHolds /\ SpacingInv
  BY RunAssumption DEF Init, GateStillHolds, SpacingInv, EffectsBehind, SendsCounted,
     NotificationsSpaced
<1>2. SpacingInv => NotificationsSpaced
  BY DEF SpacingInv
<1>. QED BY <1>1, <1>2, TypeCorrect, StepGate, StepSpacing, PTL DEF Spec

-----------------------------------------------------------------------------

\* What can act: the proposal or an escalation, under a key of its own, and no
\* proposal acts in a run that was halted (R8).
ActsAsDecided ==
  /\ cur.action \in {"", "create_payment_link", "notify_email", "notify_sms", "escalate"}
  /\ pc \in {"dispose", "commit"} /\ cur.action # "" =>
       /\ cur.key[1] = id
       /\ cur.action # "escalate" => mode # "halted"

\* No step holds an action that was not decided for its item.
LEMMA StepActs == TypeOK /\ ActsAsDecided /\ [Next]_vars => ActsAsDecided'
<1>. SUFFICES ASSUME TypeOK, ActsAsDecided, [Next]_vars PROVE ActsAsDecided'
  OBVIOUS
<1>0. LoopType /\ LedgerType /\ ItemType
  BY DEF TypeOK
<1>h. ASSUME pc # "done" PROVE id \in Items
  BY <1>0, <1>h, AtItem
<1>t. cur \in [hold : Nat, first : DecisionNote, second : DecisionNote,
              action : LawfulActions \cup {""}, key : Keys \cup {NoKey},
              ran : BOOLEAN, accepted : BOOLEAN, error : BOOLEAN]
  BY <1>0 DEF ItemType
<1>1. CASE Propose
  <2>1. PICK d \in {Decide(id, ProposeAction(item), cur.hold)} :
          \/ cur' = [cur EXCEPT !.first = Verdict(d), !.key = d.key,
                                !.action = IF Allowed(d) THEN ProposeAction(item) ELSE ""]
          \/ /\ cur' = [[cur EXCEPT !.first = Verdict(d)] EXCEPT !.error = TRUE]
             /\ pc' = "write"
    BY <1>1 DEF Propose, GiveUp
  <2>2. ProposeAction(item) \in {"create_payment_link", "notify_email", "notify_sms"}
    BY DEF ProposeAction
  <2>3. id \in Items /\ id' = id /\ mode' = mode
    BY <1>1, <1>h DEF Propose, options, id
  <2>4. d.key[1] = id
    BY <1>0, <2>1, <2>3, Proposed, DecideType
  <2>5. Allowed(d) => mode # "halted"
    <3>1. Allowed(d) => ~Fires("R8", StateFor(id, IdempotencyKey(id, ProposeAction(item), TouchNo(id))),
                               RequestFor(id, ProposeAction(item), cur.hold), now)
      BY <2>1, EvaluateAllows DEF Decide, Rules, Rank
    <3>. QED BY <3>1 DEF Fires, StateFor
  <2>6. CASE pc' = "write"
    BY <1>t, <2>1, <2>2, <2>6 DEF ActsAsDecided
  <2>7. CASE pc' # "write"
    BY <1>t, <2>1, <2>2, <2>3, <2>4, <2>5, <2>7 DEF ActsAsDecided
  <2>. QED BY <2>6, <2>7
<1>2. CASE Escalate
  <2>1. PICK d \in {Decide(id, "escalate", cur.hold)} :
          \/ cur' = [cur EXCEPT !.second = Verdict(d),
                                !.action = IF Allowed(d) THEN "escalate" ELSE "",
                                !.key = IF Allowed(d) THEN d.key ELSE @]
          \/ /\ cur' = [[cur EXCEPT !.second = Verdict(d)] EXCEPT !.error = TRUE]
             /\ pc' = "write"
    BY <1>2 DEF Escalate, GiveUp
  <2>2. id \in Items /\ id' = id
    BY <1>2, <1>h DEF Escalate, options, id
  <2>3. "escalate" \in LawfulActions
    BY DEF LawfulActions, SafeActions
  <2>4. d.key[1] = id
    BY <1>0, <2>1, <2>2, <2>3, DecideType
  <2>. QED BY <1>t, <2>1, <2>2, <2>4 DEF ActsAsDecided
<1>3. CASE Classify
  BY <1>3 DEF Classify, GiveUp, Fresh, ActsAsDecided
<1>4. CASE Skip
  BY <1>t, <1>4 DEF Skip, GiveUp, ActsAsDecided
<1>5. CASE Apply
  <2>1. /\ cur'.action = cur.action /\ cur'.key = cur.key
        /\ id' = id /\ mode' = mode /\ pc = "dispose"
    BY <1>5, <1>t DEF Apply, options, id
  <2>. QED BY <2>1 DEF ActsAsDecided
<1>6. CASE Commit \/ Write
  BY <1>6 DEF Commit, Write, ActsAsDecided
<1>7. CASE Tick \/ UNCHANGED vars
  BY <1>7 DEF Tick, vars, options, id, ActsAsDecided
<1>. QED BY <1>1, <1>2, <1>3, <1>4, <1>5, <1>6, <1>7 DEF Next, Step

\* Every run starts with nothing held.
LEMMA InitActs == Init => ActsAsDecided
<1>1. Fresh.action = ""
  BY DEF Fresh
<1>2. Init => cur = Fresh /\ pc \notin {"dispose", "commit"}
  BY DEF Init
<1>. QED BY <1>1, <1>2 DEF ActsAsDecided

\* A key of the policy is never taken for no key.
LEMMA KeyIsAKey ==
  ASSUME NEW k \in Keys
  PROVE  k # <<>>
<1>1. PICK i, action, n : k = <<i, action, n>>
  BY DEF Keys
<1>2. Len(<<i, action, n>>) = 3 /\ Len(<<>>) = 0
  OBVIOUS
<1>. QED BY <1>1, <1>2

-----------------------------------------------------------------------------

\* The guard's slots and the gate's keys move together.
LEMMA StepGuard ==
  TypeOK /\ ActsAsDecided /\ LedgerMatchesGuard /\ [Next]_vars => LedgerMatchesGuard'
<1>. SUFFICES ASSUME TypeOK, ActsAsDecided, LedgerMatchesGuard, [Next]_vars
              PROVE  LedgerMatchesGuard'
  OBVIOUS
<1>0. ItemType
  BY DEF TypeOK
<1>1. CASE Apply
  <2>1. /\ pc = "dispose" /\ cur.action # "" /\ cur.action # "do_nothing"
        /\ pc' = "commit" /\ keys' = keys
    BY <1>1 DEF Apply, Executing, ActsAsDecided, ledger
  <2>. DEFINE slot == <<cur.key, cur.action>>
  <2>2. GuardKey(cur.key, id, cur.action) = slot
    <3>1. cur.key # <<>>
      BY <1>0, <2>1, KeyIsAKey DEF ItemType
    <3>. QED BY <3>1 DEF GuardKey
  <2>3. PICK answer \in AnswersTo(item, cur.action) :
          LET replay == slot \in slots
              out    == Dispatch(item, cur.action, answer)
          IN /\ slots' = IF ~replay /\ Seals(out) THEN slots \cup {slot} ELSE slots
             /\ cur'.accepted = (replay \/ out.accepted)
             /\ cur'.key = cur.key
    <3>1. PICK answer \in AnswersTo(item, cur.action), error \in BOOLEAN :
          LET replay == GuardKey(cur.key, id, cur.action) \in slots
              out    == Dispatch(item, cur.action, answer)
          IN /\ slots' = IF ~replay /\ Seals(out)
                           THEN slots \cup {GuardKey(cur.key, id, cur.action)} ELSE slots
             /\ cur' = [cur EXCEPT !.ran = TRUE, !.accepted = replay \/ out.accepted,
                                   !.error = error]
      BY <1>1 DEF Apply
    <3>. QED BY <1>0, <2>2, <3>1 DEF ItemType
  <2>4. Seals(Dispatch(item, cur.action, answer))
          <=> Dispatch(item, cur.action, answer).accepted
    BY <2>1 DEF Seals, Guarded, Dispatch
  <2>5. {s[1] : s \in slots} = keys
    BY <2>1 DEF LedgerMatchesGuard
  <2>6. CASE cur'.accepted
    <3>1. slots' = slots \cup {slot}
      BY <2>3, <2>4, <2>6
    <3>2. slot[1] = cur.key
      OBVIOUS
    <3>. HIDE DEF slot
    <3>3. {s[1] : s \in slots'} = {s[1] : s \in slots} \cup {slot[1]}
      BY <3>1
    <3>4. {s[1] : s \in slots'} = keys \cup {cur.key}
      BY <2>5, <3>2, <3>3
    <3>. QED BY <2>1, <2>3, <2>6, <3>4 DEF LedgerMatchesGuard
  <2>7. CASE ~cur'.accepted
    <3>1. slots' = slots
      BY <2>3, <2>4, <2>7
    <3>. QED BY <2>1, <2>5, <2>7, <3>1 DEF LedgerMatchesGuard
  <2>. QED BY <2>6, <2>7
<1>2. CASE Commit
  <2>1. pc = "commit" /\ pc' = "write" /\ UNCHANGED slots
    BY <1>2 DEF Commit
  <2>2. keys' = IF cur.accepted THEN keys \cup {cur.key} ELSE keys
    BY <1>2 DEF Commit, ledger
  <2>. QED BY <2>1, <2>2 DEF LedgerMatchesGuard
<1>3. CASE Classify \/ Propose \/ Escalate \/ Skip \/ Write
  <2>1. pc # "commit" /\ pc' # "commit" /\ UNCHANGED <<slots, keys>>
    BY <1>3 DEF Classify, Propose, Escalate, Skip, Write, GiveUp, ledger
  <2>. QED BY <2>1 DEF LedgerMatchesGuard
<1>4. CASE Tick \/ UNCHANGED vars
  BY <1>4 DEF Tick, vars, ledger, LedgerMatchesGuard
<1>. QED BY <1>1, <1>2, <1>3, <1>4 DEF Next, Step

\* The gate's memory of what was done (R9) and the engine's guard never
\* disagree between items, whatever is refused, lost or repeated.
THEOREM GuardAndGateAgree == Spec => []LedgerMatchesGuard
<1>1. Init => LedgerMatchesGuard
  BY DEF Init, LedgerMatchesGuard
<1>. QED BY <1>1, InitActs, TypeCorrect, StepActs, StepGuard, PTL DEF Spec

-----------------------------------------------------------------------------

\* The row that tells of an effect.
Told(i, action) ==
  \E n \in 1..Len(trail[i]) :
    trail[i][n].kind = "intervention_applied" /\ trail[i][n].action = action

\* The ledger is append-only for these rows as well.
LEMMA ToldGrows ==
  ASSUME FilesType, NEW i \in Items, NEW row, Recorded(i, row) \/ UNCHANGED trail,
         NEW j \in Items, NEW action, Told(j, action)
  PROVE  Told(j, action)'
<1>1. PICK n \in 1..Len(trail[j]) :
        trail[j][n].kind = "intervention_applied" /\ trail[j][n].action = action
  BY DEF Told
<1>2. CASE Recorded(i, row)
  <2>1. trail[j] \in Seq(TrailRow)
    BY DEF FilesType
  <2>2. trail'[j] = trail[j] \/ trail'[j] = Append(trail[j], row)
    BY <1>2 DEF Recorded, FilesType
  <2>3. n \in 1..Len(trail'[j]) /\ trail'[j][n] = trail[j][n]
    BY <2>1, <2>2
  <2>. QED BY <1>1, <2>3 DEF Told
<1>3. CASE UNCHANGED trail
  BY <1>1, <1>3 DEF Told
<1>. QED BY <1>2, <1>3

LEMMA ToldHolds ==
  ASSUME FilesType, NEW i \in Items, NEW action,
         Recorded(i, [kind |-> "intervention_applied", action |-> action, verdict |-> "none"])
  PROVE  Told(i, action)'
<1>. DEFINE row == [kind |-> "intervention_applied", action |-> action, verdict |-> "none"]
<1>1. trail[i] \in Seq(TrailRow)
  BY DEF FilesType
<1>2. trail'[i] = Append(trail[i], row)
  BY DEF Recorded, FilesType
<1>3. Len(trail[i]) + 1 \in 1..Len(trail'[i]) /\ trail'[i][Len(trail[i]) + 1] = row
  BY <1>1, <1>2
<1>. QED BY <1>3 DEF Told

\* Every step appends one row to one trail at most, and forgets no failure.
LEMMA StepRecords ==
  ASSUME TypeOK, [Next]_vars
  PROVE  /\ \A j \in Items : \A action : Told(j, action) => Told(j, action)'
         /\ failures \subseteq failures' /\ UNCHANGED <<arm, mode>>
<1>0. LoopType /\ FilesType
  BY DEF TypeOK
<1>1. failures \subseteq failures' /\ UNCHANGED <<arm, mode>>
  <2>1. CASE Classify \/ Propose \/ Escalate \/ Skip
    BY <2>1 DEF Classify, Propose, Escalate, Skip, GiveUp, options
  <2>2. CASE Apply
    BY <2>2 DEF Apply, options
  <2>3. CASE Commit \/ Write \/ Tick \/ UNCHANGED vars
    BY <2>3 DEF Commit, Write, Tick, vars, options
  <2>. QED BY <2>1, <2>2, <2>3 DEF Next, Step
<1>2. CASE pc # "done" /\ \E row : Recorded(id, row) \/ UNCHANGED trail
  <2>1. id \in Items
    BY <1>0, <1>2, AtItem
  <2>. QED BY <1>0, <1>1, <1>2, <2>1, ToldGrows
<1>3. CASE UNCHANGED trail
  BY <1>1, <1>3 DEF Told
<1>4. CASE Classify \/ Propose \/ Escalate \/ Skip
  BY <1>2, <1>3, <1>4 DEF Classify, Propose, Escalate, Skip, GiveUp
<1>5. CASE Apply
  BY <1>2, <1>3, <1>5 DEF Apply
<1>6. CASE Commit \/ Write \/ Tick \/ UNCHANGED vars
  BY <1>3, <1>6 DEF Commit, Write, Tick, vars
<1>. QED BY <1>4, <1>5, <1>6 DEF Next, Step

\* What Apply does to the world it tells on the ledger or in the run's error.
LEMMA ApplyTells ==
  ASSUME TypeOK, ActsAsDecided, Apply
  PROVE  /\ mode = "live" \/ cur.action = "escalate"
         /\ arm[pos] = "a1-engine"
         /\ \A e \in effects' \ effects :
              /\ e.pos = pos /\ e.item = id /\ e.action = cur.action
              /\ cur.action # "escalate"
              /\ e.pos \in failures' \/ Told(e.item, e.action)'
<1>0. LoopType /\ FilesType /\ pos \in 1..QueueLen /\ id \in Items
  BY AtItem DEF TypeOK, Apply
<1>1. /\ pc = "dispose" /\ cur.action # "" /\ mode # "dry" /\ arm[pos] # "a0-control"
      /\ cur.action \in {"create_payment_link", "notify_email", "notify_sms", "escalate"}
      /\ cur.action # "escalate" => mode # "halted"
  BY DEF Apply, Executing, ActsAsDecided
<1>2. mode \in {"live", "dry", "halted"} /\ arm[pos] \in Arms
  BY <1>0, RunAssumption DEF LoopType
<1>. DEFINE slot == GuardKey(cur.key, id, cur.action)
<1>3. PICK answer \in AnswersTo(item, cur.action), written \in BOOLEAN :
        LET replay == slot \in slots
            out    == Dispatch(item, cur.action, answer)
        IN /\ effects' = IF (~replay /\ out.effect) /\ cur.action # "escalate"
                           THEN effects \cup
                                {[at |-> now, item |-> id, pos |-> pos, action |-> cur.action,
                                  accepted |-> replay \/ out.accepted]}
                           ELSE effects
           /\ IF written
                THEN Recorded(id, [kind |-> EventKind(out, out.attempted, replay),
                                   action |-> cur.action, verdict |-> "none"])
                ELSE UNCHANGED trail
           /\ failures' = IF Errs(out, replay, written)
                            THEN failures \cup {pos} ELSE failures
  BY DEF Apply
<1>. DEFINE replay == slot \in slots
            out == Dispatch(item, cur.action, answer)
<1>4. ASSUME NEW e \in effects' \ effects
      PROVE  /\ e.pos = pos /\ e.item = id /\ e.action = cur.action
             /\ cur.action # "escalate" /\ ~replay /\ out.effect
  BY <1>3, <1>4
<1>5. ASSUME ~replay, out.effect, cur.action # "escalate",
             NEW i \in Items, NEW action, i = id, action = cur.action
      PROVE  pos \in failures' \/ Told(i, action)'
  <2>1. out.attempted /\ out.action = cur.action
    BY <1>5 DEF Dispatch
  <2>2. EventKind(out, out.attempted, replay) = "intervention_applied"
    BY <1>1, <1>5, <2>1 DEF EventKind
  <2>3. CASE written
    <3>1. Recorded(i, [kind |-> "intervention_applied", action |-> action,
                       verdict |-> "none"])
      BY <1>3, <1>5, <2>2, <2>3
    <3>. QED BY <1>0, <3>1, ToldHolds DEF TypeOK
  <2>4. CASE ~written
    BY <1>3, <2>4 DEF Errs
  <2>. QED BY <2>3, <2>4
<1>6. ASSUME NEW e \in effects' \ effects
      PROVE  e.pos \in failures' \/ Told(e.item, e.action)'
  <2>1. e.item \in Items /\ e.item = id /\ e.action = cur.action
    BY <1>0, <1>4
  <2>. HIDE DEF replay, out
  <2>. QED BY <1>4, <1>5, <2>1
<1>. QED BY <1>1, <1>2, <1>4, <1>6 DEF Arms

\* No step hides a change in the world.
LEMMA StepAccounts ==
  TypeOK /\ ActsAsDecided /\ EffectsAccountedFor /\ [Next]_vars => EffectsAccountedFor'
<1>. SUFFICES ASSUME TypeOK, ActsAsDecided, EffectsAccountedFor, [Next]_vars,
                     NEW e \in effects'
              PROVE  /\ mode' = "live" /\ arm'[e.pos] = "a1-engine"
                     /\ e.pos \in failures' \/ Told(e.item, e.action)'
  BY DEF EffectsAccountedFor, Told
<1>0. \A f \in effects : f.item \in Items
  BY DEF TypeOK, FilesType
<1>1. CASE e \in effects
  <2>1. /\ mode = "live" /\ arm[e.pos] = "a1-engine"
        /\ e.pos \in failures \/ Told(e.item, e.action)
    BY <1>1 DEF EffectsAccountedFor, Told
  <2>. QED BY <1>0, <1>1, <2>1, StepRecords
<1>2. CASE e \notin effects
  <2>1. Apply
    BY <1>2 DEF Next, Step, Classify, Propose, Escalate, Skip, Commit, Write, Tick, vars, world
  <2>. QED BY <1>2, <2>1, ApplyTells, StepRecords
<1>. QED BY <1>1, <1>2

\* intervene.Engine.Apply owes one row for what it did: a change in the world
\* that has none is in the run's error, a lost answer included.
THEOREM NothingIsSilent == Spec => []EffectsAccountedFor
<1>1. Init => EffectsAccountedFor
  BY DEF Init, EffectsAccountedFor
<1>. QED BY <1>1, InitActs, TypeCorrect, StepActs, StepAccounts, PTL DEF Spec

-----------------------------------------------------------------------------

\* A refusal is that of the rule that speaks first.
LEMMA RefusalSpeaksFirst ==
  ASSUME NEW s, NEW q, NEW t, Evaluate(s, q, t).verdict = "escalate"
  PROVE  LET r == Evaluate(s, q, t).rule
         IN /\ r \in Escalating /\ Fires(r, s, q, t)
            /\ \A o \in Rules : Fires(o, s, q, t) => Rank[r] <= Rank[o]
<1>. DEFINE hit  == Refusals(s, q, t)
            rule == CHOOSE r \in hit : \A o \in hit : Rank[r] <= Rank[o]
<1>1. hit # {} /\ Evaluate(s, q, t).rule = rule /\ rule \in Escalating
  BY DEF Evaluate
<1>2. hit \in SUBSET Rules
  BY DEF Refusals
<1>3. \E r \in hit : \A o \in hit : Rank[r] <= Rank[o]
  BY <1>1, <1>2, FirstRule
<1>4. rule \in hit /\ \A o \in hit : Rank[rule] <= Rank[o]
  BY <1>3
<1>. HIDE DEF rule
<1>. QED BY <1>1, <1>4 DEF Refusals

\* R7 refuses whatever is proposed for an item of this kind.
Barred(it) ==
  \/ it.source \notin DOMAIN SourceTable
  \/ ParamsFor(it.source).requiresSignal /\ ~it.signal
  \/ it.signal /\ it.class = "unclassified"

\* R7 looks at the item and never at a lawful action.
LEMMA BarredIsR7 ==
  ASSUME NEW i \in Items, NEW action \in LawfulActions, NEW hold, NEW s, NEW t
  PROVE  Fires("R7", s, RequestFor(i, action, hold), t) <=> Barred(Book[i])
<1>. DEFINE q == RequestFor(i, action, hold)
<1>1. /\ q.source = Book[i].source /\ q.signal = Book[i].signal
      /\ q.class = Book[i].class /\ q.action = action
  BY DEF RequestFor, RequestFromClassified
<1>. HIDE DEF q
<1>. QED BY <1>1 DEF Fires, Unrecognised, Barred, q

\* An escalation under R7 says nothing of the action; one under any other rule
\* says that R7 and the kill switch did not fire.
LEMMA EscalatedBy ==
  ASSUME LedgerType, NEW i \in Items, NEW action \in LawfulActions, NEW hold,
         Decide(i, action, hold).verdict = "escalate",
         Decide(i, action, hold).rule # "R7"
  PROVE  ~Settings.killSwitch /\ mode # "halted" /\ ~Barred(Book[i])
<1>. DEFINE s == StateFor(i, IdempotencyKey(i, action, TouchNo(i)))
            q == RequestFor(i, action, hold)
            r == Evaluate(s, q, now).rule
<1>1. Evaluate(s, q, now).verdict = "escalate" /\ r # "R7"
  BY DEF Decide
<1>2. s.killed = (mode = "halted")
  BY DEF StateFor
<1>3. Fires("R7", s, q, now) <=> Barred(Book[i])
  BY BarredIsR7
<1>. HIDE DEF s, q
<1>4. r \in Escalating /\ \A o \in Rules : Fires(o, s, q, now) => Rank[r] <= Rank[o]
  BY <1>1, RefusalSpeaksFirst
<1>. HIDE DEF r
<1>5. {"R8", "R7"} \subseteq Rules /\ ~(Rank[r] <= Rank["R8"]) /\ ~(Rank[r] <= Rank["R7"])
  BY <1>1, <1>4 DEF Rules, Rank, Escalating
<1>6. ~Fires("R8", s, q, now) /\ ~Fires("R7", s, q, now)
  BY <1>4, <1>5
<1>7. Fires("R8", s, q, now) <=> Settings.killSwitch \/ s.killed
  BY DEF Fires
<1>. QED BY <1>2, <1>3, <1>6, <1>7

\* Nothing else stands in the way of an escalation that is new.
LEMMA EscalationIsLet ==
  ASSUME LedgerType, NEW i \in Items, NEW hold,
         ~Settings.killSwitch, mode # "halted", ~Barred(Book[i]),
         <<i, "escalate", touches[i] + 1>> \notin keys
  PROVE  Allowed(Decide(i, "escalate", hold))
<1>. DEFINE key == IdempotencyKey(i, "escalate", TouchNo(i))
            s == StateFor(i, key)
            q == RequestFor(i, "escalate", hold)
<1>1. "escalate" \in LawfulActions
  BY DEF LawfulActions, SafeActions
<1>2. /\ s.killed = (mode = "halted") /\ s.keySeen = (key \in keys)
      /\ q.action = "escalate"
  BY DEF StateFor, RequestFor, RequestFromClassified
<1>3. ~Fires("R7", s, q, now)
  BY <1>1, BarredIsR7
<1>4. key \notin keys
  BY DEF IdempotencyKey, TouchNo
<1>5. Decide(i, "escalate", hold) = Evaluate(s, q, now)
  BY DEF Decide
<1>. HIDE DEF s, q, key
<1>6. IsSafe(q) /\ ~IsContact(q) /\ ~IsNotify(q) /\ q.action # "cancel_write_off"
  BY <1>2 DEF IsSafe, IsContact, IsNotify, SafeActions, ContactActions, NotifyActions
<1>7. ASSUME NEW r \in Rules PROVE ~Fires(r, s, q, now)
  <2>1. CASE r \in {"R8", "R9", "R7"}
    BY <1>2, <1>3, <1>4, <2>1 DEF Fires
  <2>2. CASE r \notin {"R8", "R9", "R7"}
    BY <1>6, <2>2 DEF Fires, Rules, Rank, NotYetDue, NoChannel, NeverContact, NeedsApproval
  <2>. QED BY <2>1, <2>2
<1>8. Refusals(s, q, now) = {}
  BY <1>7 DEF Refusals
<1>. QED BY <1>5, <1>8 DEF Evaluate, Allowed

\* The keys that are spent are those of items the loop has counted.
KeysSpent ==
  \A k \in keys :
    \/ \E n \in 1..(pos - 1) : queue[n] = k[1]
    \/ k[1] = id /\ pc \in {"write", "stopped"}

\* No step spends the key of an item to come.
LEMMA StepKeys ==
  TypeOK /\ ActsAsDecided /\ KeysSpent /\ [Next]_vars => KeysSpent'
<1>. SUFFICES ASSUME TypeOK, ActsAsDecided, KeysSpent, [Next]_vars, NEW k \in keys'
              PROVE  \/ \E n \in 1..(pos' - 1) : queue'[n] = k[1]
                     \/ k[1] = id' /\ pc' \in {"write", "stopped"}
  BY DEF KeysSpent
<1>0. pos \in Nat \ {0} /\ queue' = queue
  <2>1. pos \in Nat \ {0}
    BY RunAssumption DEF TypeOK, LoopType
  <2>2. queue' = queue
    BY DEF Next, Step, Classify, Propose, Escalate, Skip, Apply, Commit, Write, Tick,
           vars, options
  <2>. QED BY <2>1, <2>2
<1>1. CASE Commit
  <2>1. pc = "commit" /\ pc' = "write" /\ pos' = pos /\ id' = id
    BY <1>0, <1>1 DEF Commit, id
  <2>2. k \in keys \/ k = cur.key
    BY <1>1 DEF Commit, ledger
  <2>3. cur.key[1] = id
    BY <2>1 DEF TypeOK, ItemType, ActsAsDecided
  <2>. QED BY <1>0, <2>1, <2>2, <2>3 DEF KeysSpent
<1>2. CASE Write
  <2>1. /\ pc = "write" /\ keys' = keys
        /\ \/ pos' = pos /\ pc' = "stopped" /\ id' = id
           \/ pos' = pos + 1
    BY <1>0, <1>2 DEF Write, ledger, id
  <2>. QED BY <1>0, <2>1 DEF KeysSpent, id
<1>3. CASE Classify \/ Propose \/ Escalate \/ Skip \/ Apply
  <2>1. pc \notin {"write", "stopped"} /\ keys' = keys /\ pos' = pos
    BY <1>3 DEF Classify, Propose, Escalate, Skip, Apply, ledger
  <2>. QED BY <1>0, <2>1 DEF KeysSpent
<1>4. CASE Tick \/ UNCHANGED vars
  <2>1. keys' = keys /\ pos' = pos /\ pc' = pc /\ id' = id
    BY <1>0, <1>4 DEF Tick, vars, ledger, id
  <2>. QED BY <1>0, <2>1 DEF KeysSpent
<1>. QED BY <1>1, <1>2, <1>3, <1>4 DEF Next, Step

\* An item the loop is on has spent no key before its action is counted.
LEMMA KeyIsFresh ==
  ASSUME TypeOK, KeysSpent, pc \notin {"write", "stopped", "done"},
         NEW action, NEW n
  PROVE  <<id, action, n>> \notin keys
<1>1. LoopType /\ pos \in 1..QueueLen
  BY AtItem DEF TypeOK
<1>2. \A m \in 1..(pos - 1) : queue[m] # id
  BY <1>1, RunAssumption DEF LoopType, Queues, id
<1>. QED BY <1>2 DEF KeysSpent

-----------------------------------------------------------------------------

\* An escalation that R7 did not decide.
OpenTo(c) == c.first.verdict = "escalate" /\ c.first.rule # "R7"

\* Where it is, on its way to a person: nothing will refuse it, then it is the
\* action at hand, then it is in the queue unless the item failed.
OnItsWay ==
  /\ pc = "escalate" /\ OpenTo(cur) =>
       ~Settings.killSwitch /\ mode # "halted" /\ ~Barred(item)
  /\ pc = "dispose" /\ OpenTo(cur) => cur.action = "escalate"
  /\ pc \in {"commit", "write"} /\ OpenTo(cur) /\ arm[pos] = "a1-engine" /\ mode = "live"
       => id \in sink \/ pos \in failures

\* An escalation that is made lands in the queue or in the run's error.
LEMMA ApplyEscalates ==
  ASSUME TypeOK, GateStillHolds, LedgerMatchesGuard, Apply, cur.action = "escalate"
  PROVE  id \in sink' \/ pos \in failures'
<1>1. pc = "dispose" /\ cur.key \in Keys
  BY DEF Apply, TypeOK, ItemType
<1>2. cur.key \notin keys
  BY <1>1 DEF GateStillHolds
<1>. DEFINE slot == <<cur.key, "escalate">>
<1>3. GuardKey(cur.key, id, cur.action) = slot
  BY <1>1, KeyIsAKey DEF GuardKey
<1>4. slot \notin slots
  <2>1. {s[1] : s \in slots} = keys
    BY <1>1 DEF LedgerMatchesGuard
  <2>2. slot[1] = cur.key
    OBVIOUS
  <2>. HIDE DEF slot
  <2>. QED BY <1>2, <2>1, <2>2
<1>. HIDE DEF slot
<1>5. PICK answer \in AnswersTo(item, "escalate"), written \in BOOLEAN :
        LET out == Dispatch(item, "escalate", answer)
        IN /\ sink' = IF out.effect THEN sink \cup {id} ELSE sink
           /\ failures' = IF Errs(out, FALSE, written) THEN failures \cup {pos} ELSE failures
  <2>1. PICK answer \in AnswersTo(item, cur.action), written \in BOOLEAN :
          LET replay == GuardKey(cur.key, id, cur.action) \in slots
              out    == Dispatch(item, cur.action, answer)
          IN /\ sink' = IF (~replay /\ out.effect) /\ cur.action = "escalate"
                          THEN sink \cup {id} ELSE sink
             /\ failures' = IF Errs(out, replay, written) THEN failures \cup {pos} ELSE failures
    BY DEF Apply
  <2>2. cur.action = "escalate" /\ (GuardKey(cur.key, id, cur.action) \in slots) = FALSE
    BY <1>3, <1>4
  <2>. QED BY <2>1, <2>2
<1>6. Attempted(item, "escalate") /\ answer \in {"ok", "failed"}
  BY <1>5 DEF Attempted, Refusal, AnswersTo
<1>. DEFINE out == Dispatch(item, "escalate", answer)
<1>7. out.effect \/ out.failed
  BY <1>6 DEF Dispatch
<1>. QED BY <1>5, <1>7 DEF Errs

\* No step loses an escalation that R7 did not decide.
LEMMA StepOnItsWay ==
  /\ TypeOK /\ ActsAsDecided /\ GateStillHolds /\ LedgerMatchesGuard /\ KeysSpent
  /\ OnItsWay /\ [Next]_vars
  => OnItsWay'
<1>. SUFFICES ASSUME TypeOK, ActsAsDecided, GateStillHolds, LedgerMatchesGuard, KeysSpent,
                     OnItsWay, [Next]_vars
              PROVE  OnItsWay'
  OBVIOUS
<1>0. LoopType /\ LedgerType /\ ItemType
  BY DEF TypeOK
<1>h. ASSUME pc # "done" PROVE id \in Items /\ pos \in 1..QueueLen
  BY <1>0, <1>h, AtItem
<1>t. cur \in [hold : Nat, first : DecisionNote, second : DecisionNote,
              action : LawfulActions \cup {""}, key : Keys \cup {NoKey},
              ran : BOOLEAN, accepted : BOOLEAN, error : BOOLEAN]
  BY <1>0 DEF ItemType
<1>g. ASSUME NEW c, GiveUp(c), pos' = pos PROVE OnItsWay'
  BY <1>g DEF GiveUp, OnItsWay
<1>1. CASE Classify
  <2>1. pc' = "propose" \/ \E c : GiveUp(c)
    BY <1>1 DEF Classify
  <2>2. pos' = pos
    BY <1>1 DEF Classify
  <2>. QED BY <1>g, <2>1, <2>2 DEF OnItsWay
<1>2. CASE Propose
  <2>0. id \in Items /\ id' = id /\ item' = item /\ mode' = mode /\ pos' = pos
    BY <1>2, <1>h DEF Propose, options, id, item
  <2>1. CASE \E c : GiveUp(c)
    BY <1>g, <2>0, <2>1
  <2>2. CASE ~\E c : GiveUp(c)
    <3>1. PICK d \in {Decide(id, ProposeAction(item), cur.hold)} :
            /\ cur' = [cur EXCEPT !.first = Verdict(d), !.key = d.key,
                                !.action = IF Allowed(d) THEN ProposeAction(item) ELSE ""]
            /\ pc' = IF d.verdict = "escalate" THEN "escalate" ELSE "dispose"
      BY <1>2, <2>2 DEF Propose
    <3>2. cur'.first.verdict = d.verdict /\ cur'.first.rule = d.rule
      BY <1>t, <3>1 DEF Verdict
    <3>3. OpenTo(cur') => d.verdict = "escalate" /\ d.rule # "R7"
      BY <3>2 DEF OpenTo
    <3>4. OpenTo(cur') => ~Settings.killSwitch /\ mode # "halted" /\ ~Barred(item)
      BY <1>0, <2>0, <3>1, <3>3, Proposed, EscalatedBy DEF item
    <3>5. OpenTo(cur)' = OpenTo(cur') /\ Barred(item)' = Barred(item)
      BY <2>0 DEF OpenTo, Barred
    <3>. QED BY <2>0, <3>1, <3>3, <3>4, <3>5 DEF OnItsWay
  <2>. QED BY <2>1, <2>2
<1>3. CASE Escalate
  <2>0. id \in Items /\ id' = id /\ pos' = pos /\ pc = "escalate"
    BY <1>3, <1>h DEF Escalate, options, id
  <2>1. CASE \E c : GiveUp(c)
    BY <1>g, <2>0, <2>1
  <2>2. CASE ~\E c : GiveUp(c)
    <3>1. PICK d \in {Decide(id, "escalate", cur.hold)} :
            /\ cur' = [cur EXCEPT !.second = Verdict(d),
                                !.action = IF Allowed(d) THEN "escalate" ELSE "",
                                !.key = IF Allowed(d) THEN d.key ELSE @]
            /\ pc' = "dispose"
      BY <1>3, <2>2 DEF Escalate
    <3>2. cur'.first = cur.first /\ (Allowed(d) => cur'.action = "escalate")
      BY <1>t, <3>1
    <3>3. <<id, "escalate", touches[id] + 1>> \notin keys
      BY <2>0, KeyIsFresh
    <3>4. OpenTo(cur) => Allowed(d)
      BY <1>0, <2>0, <3>1, <3>3, EscalationIsLet DEF OnItsWay, item
    <3>. QED BY <3>1, <3>2, <3>4 DEF OnItsWay, OpenTo
  <2>. QED BY <2>1, <2>2
<1>4. CASE Skip
  <2>0. pos' = pos /\ pc = "dispose" /\ UNCHANGED <<arm, mode>> /\ ~Executing /\ id' = id
    BY <1>4 DEF Skip, options, id
  <2>1. CASE \E c : GiveUp(c)
    BY <1>g, <2>0, <2>1
  <2>2. CASE ~\E c : GiveUp(c)
    <3>1. pc' = "write" /\ cur' = cur
      BY <1>4, <2>2 DEF Skip
    <3>. QED BY <2>0, <3>1 DEF OnItsWay, OpenTo, Executing
  <2>. QED BY <2>1, <2>2
<1>5. CASE Apply
  <2>1. /\ pc = "dispose" /\ pc' = "commit" /\ pos' = pos /\ id' = id
        /\ cur'.first = cur.first
    BY <1>5, <1>t DEF Apply, options, id
  <2>2. OpenTo(cur) => id \in sink' \/ pos \in failures'
    BY <1>5, <2>1, ApplyEscalates DEF OnItsWay
  <2>. QED BY <2>1, <2>2 DEF OnItsWay, OpenTo
<1>6. CASE Commit
  <2>1. pc = "commit" /\ pc' = "write" /\ id' = id
        /\ UNCHANGED <<pos, cur, arm, mode, sink, failures>>
    BY <1>6 DEF Commit, options, world, id
  <2>. QED BY <2>1 DEF OnItsWay, OpenTo
<1>7. CASE Write
  BY <1>7 DEF Write, OnItsWay
<1>8. CASE Tick \/ UNCHANGED vars
  <2>1. id' = id /\ item' = item /\ UNCHANGED <<pc, pos, cur, arm, mode, sink, failures>>
    BY <1>8 DEF Tick, vars, options, world, id, item
  <2>2. OpenTo(cur)' = OpenTo(cur) /\ Barred(item)' = Barred(item)
    BY <2>1 DEF OpenTo, Barred
  <2>. QED BY <2>1, <2>2 DEF OnItsWay
<1>. QED BY <1>1, <1>2, <1>3, <1>4, <1>5, <1>6, <1>7, <1>8 DEF Next, Step

\* The rows written so far: one for each item the loop is past.
RowsInStep ==
  /\ rows \in Seq([item : Items, verdict : Verdicts \cup {"none"},
                   rule : Rules \cup {"R0", "none"}, escalation : Verdicts \cup {"none"},
                   executed : BOOLEAN, accepted : BOOLEAN, error : BOOLEAN])
  /\ Len(rows) = pos - 1

\* No row is written of an escalation that was lost.
LEMMA StepRows ==
  TypeOK /\ OnItsWay /\ RowsInStep /\ OnlyFailClosedIsDropped /\ [Next]_vars
    => RowsInStep' /\ OnlyFailClosedIsDropped'
<1>. SUFFICES ASSUME TypeOK, OnItsWay, RowsInStep, OnlyFailClosedIsDropped, [Next]_vars
              PROVE  RowsInStep' /\ OnlyFailClosedIsDropped'
  OBVIOUS
<1>0. LoopType /\ ItemType /\ pos \in Nat \ {0}
  BY RunAssumption DEF TypeOK, LoopType
<1>1. /\ failures \subseteq failures' /\ UNCHANGED <<arm, mode>>
      /\ sink \subseteq sink'
  <2>1. sink \subseteq sink'
    BY DEF Next, Step, Classify, Propose, Escalate, Skip, Apply, Commit, Write, Tick, vars, world
  <2>. QED BY <2>1, StepRecords
<1>2. CASE UNCHANGED <<rows, pos>>
  BY <1>1, <1>2 DEF RowsInStep, OnlyFailClosedIsDropped
<1>3. CASE ~UNCHANGED <<rows, pos>>
  <2>. DEFINE row == [item |-> id, verdict |-> cur.first.verdict,
                      rule |-> cur.first.rule, escalation |-> cur.second.verdict,
                      executed |-> cur.ran, accepted |-> cur.accepted, error |-> cur.error]
  <2>1. Write /\ rows' = Append(rows, row) /\ pos' = pos + 1 /\ pc = "write"
    BY <1>3 DEF Next, Step, Classify, Propose, Escalate, Skip, Apply, Commit, Write, Tick, vars
  <2>2. id \in Items
    BY <1>0, <2>1, AtItem
  <2>3. row \in [item : Items, verdict : Verdicts \cup {"none"},
                 rule : Rules \cup {"R0", "none"}, escalation : Verdicts \cup {"none"},
                 executed : BOOLEAN, accepted : BOOLEAN, error : BOOLEAN]
    BY <1>0, <2>2 DEF ItemType, DecisionNote
  <2>4. row.verdict = cur.first.verdict /\ row.rule = cur.first.rule /\ row.item = id
    OBVIOUS
  <2>. HIDE DEF row
  <2>5. RowsInStep'
    BY <1>0, <2>1, <2>3 DEF RowsInStep
  <2>6. Len(rows') = pos /\ rows'[pos] = row /\ \A n \in 1..Len(rows) : rows'[n] = rows[n]
    BY <1>0, <2>1, <2>3 DEF RowsInStep
  <2>7. ASSUME NEW n \in 1..Len(rows'), rows'[n].verdict = "escalate",
               arm'[n] = "a1-engine", mode' = "live", n \notin failures'
        PROVE  rows'[n].item \in sink' \/ rows'[n].rule = "R7"
    <3>1. CASE n = pos
      BY <1>1, <2>1, <2>4, <2>6, <2>7, <3>1 DEF OnItsWay, OpenTo
    <3>2. CASE n # pos
      <4>1. n \in 1..Len(rows)
        BY <1>0, <2>6, <3>2 DEF RowsInStep
      <4>. QED BY <1>1, <2>6, <2>7, <4>1 DEF OnlyFailClosedIsDropped
    <3>. QED BY <3>1, <3>2
  <2>. QED BY <2>5, <2>7 DEF OnlyFailClosedIsDropped
<1>. QED BY <1>2, <1>3

\* "A person has to look" (README): every debt of the engine arm that a run
\* escalated under a rule other than R7 is in the escalation queue, or in the
\* run's error.
THEOREM EscalationsArrive == Spec => []OnlyFailClosedIsDropped
<1>1. Init => /\ GateStillHolds /\ LedgerMatchesGuard /\ KeysSpent /\ OnItsWay
              /\ RowsInStep /\ OnlyFailClosedIsDropped
  <2>. SUFFICES ASSUME Init
                PROVE  /\ GateStillHolds /\ LedgerMatchesGuard /\ KeysSpent /\ OnItsWay
                       /\ RowsInStep /\ OnlyFailClosedIsDropped
    OBVIOUS
  <2>1. rows = <<>> /\ pos = 1 /\ pc \notin {"escalate", "dispose", "commit", "write"}
    BY DEF Init
  <2>2. RowsInStep /\ OnlyFailClosedIsDropped
    BY <2>1 DEF RowsInStep, OnlyFailClosedIsDropped
  <2>. QED BY <2>1, <2>2 DEF Init, GateStillHolds, LedgerMatchesGuard, KeysSpent, OnItsWay
<1>. QED BY <1>1, InitActs, TypeCorrect, StepActs, StepGate, StepGuard, StepKeys,
            StepOnItsWay, StepRows, PTL DEF Spec
=============================================================================
