------------------------ MODULE RazorpayClientProofs ------------------------
(***************************************************************************)
(* What doWith promises holds for any calls, any number of attempts and of *)
(* slots, with or without a capture stream.                                *)
(*                                                                         *)
(* None of the properties is inductive: that a call can be asked again has *)
(* to be known from its place and its last answer.  Account says what a    *)
(* place and an answer tell of the effect; SlotsAreInUse ties the slots to *)
(* the places.                                                             *)
(***************************************************************************)
EXTENDS RazorpayClient, FiniteSetTheorems, TLAPS

\* Where a call is says whether its effect may have happened: never before an
\* answer, and after one only if the answer leaves room for it.
AccountOf(c) ==
  /\ done[c] \in {0, 1}
  /\ pc[c] # "done" => result[c] = "none"
  /\ pc[c] \in {"queued", "asking", "waiting"} => done[c] = 0
  /\ pc[c] = "waiting" => attempt[c] < MaxAttempts
  /\ pc[c] = "answered" =>
       /\ answer[c] \in Answers \ {"lost"}
       /\ done[c] = 1 => c \in Writes /\ answer[c] \in Succeeded \cup Unknown
       /\ c \in Writes /\ answer[c] \in Succeeded => done[c] = 1

\* The part of ResultIsTrue that is about one call.
ToldOf(c) ==
  /\ c \in Writes => /\ result[c] = "ok" => done[c] = 1
                     /\ result[c] \in {"exhausted", "cancelled"} => done[c] = 0
  /\ c \in Reads => (result[c] = "ok" => answer[c] = "body")

Account == \A c \in Calls : AccountOf(c) /\ ToldOf(c)

Inv == TypeOK /\ Account

\* A step of one call leaves what is known of every other call alone.
LEMMA OthersKept ==
  ASSUME Account, NEW c \in Calls,
         \A o \in Calls \ {c} :
           /\ pc'[o] = pc[o] /\ done'[o] = done[o] /\ result'[o] = result[o]
           /\ answer'[o] = answer[o] /\ attempt'[o] = attempt[o],
         AccountOf(c)', ToldOf(c)'
  PROVE  Account'
  BY DEF Account, AccountOf, ToldOf

LEMMA InvInit == Init => Inv
  BY ClientAssumption DEF Init, Inv, TypeOK, Account, AccountOf, ToldOf, Answers, Results, Writes

\* A success is a verdict on a body, or on an empty answer to a resend.
LEMMA VerdictOk ==
  ASSUME NEW c \in Calls, NEW a
  PROVE  /\ Verdict(c, a) \in {"ok", "undecoded", "refused"}
         /\ Verdict(c, a) = "ok" => MeansOk(c, a)
<1>1. CASE MeansOk(c, a)
  BY <1>1 DEF Verdict
<1>2. CASE ~MeansOk(c, a) /\ a \in Succeeded
  BY <1>2 DEF Verdict
<1>3. CASE ~MeansOk(c, a) /\ a \notin Succeeded
  BY <1>3 DEF Verdict
<1> QED
  BY <1>1, <1>2, <1>3

LEMMA MeansOkTells ==
  ASSUME NEW c \in Calls, NEW a, MeansOk(c, a)
  PROVE  /\ c \in Writes => a \in Succeeded
         /\ c \in Reads => a = "body"
  BY ClientAssumption DEF MeansOk, Succeeded, Writes

LEMMA InvNext == Inv /\ [Next]_vars => Inv'
<1> SUFFICES ASSUME Inv, [Next]_vars PROVE Inv'
  OBVIOUS
<1> USE DEF Inv
<1>1. CASE UNCHANGED vars
  BY <1>1 DEF TypeOK, Account, AccountOf, ToldOf, vars, client
<1>2. ASSUME NEW c \in Calls, TakeSlot(c) PROVE Inv'
  <2>1. TypeOK'
    BY <1>2 DEF TypeOK, TakeSlot, Move
  <2>2. AccountOf(c)' /\ ToldOf(c)'
    BY <1>2 DEF TypeOK, Account, AccountOf, ToldOf, TakeSlot, Move
  <2> QED
    BY <1>2, <2>1, <2>2, OthersKept DEF TypeOK, TakeSlot, Move
<1>3. ASSUME NEW c \in Calls, Respond(c) PROVE Inv'
  <2>0. PICK a \in Answers : \E n \in Effect(c, a) :
          /\ answer' = [answer EXCEPT ![c] = a]
          /\ done' = [done EXCEPT ![c] = @ + n]
          /\ slots' = Release(c, a)
          /\ IF a = "lost" THEN Ends(c, "lost")
             ELSE Move(c, "asking", "answered") /\ UNCHANGED result
    BY <1>3 DEF Respond
  <2>1. PICK n \in Effect(c, a) :
          /\ answer' = [answer EXCEPT ![c] = a]
          /\ done' = [done EXCEPT ![c] = @ + n]
          /\ slots' = Release(c, a)
          /\ IF a = "lost" THEN Ends(c, "lost")
             ELSE Move(c, "asking", "answered") /\ UNCHANGED result
    BY <2>0
  <2>2. pc[c] = "asking" /\ attempt' = attempt /\ done[c] = 0 /\ result[c] = "none"
    BY <1>3 DEF Respond, Account, AccountOf
  <2>3. done'[c] = n /\ n \in {0, 1} /\ answer'[c] = a
    BY <2>1, <2>2 DEF TypeOK, Effect
  <2>4. TypeOK'
    BY <2>1, <2>2, <2>3 DEF TypeOK, Ends, Move, Release, Results, Answers
  <2>5. AccountOf(c)' /\ ToldOf(c)'
    BY <2>1, <2>2, <2>3 DEF TypeOK, Effect, AccountOf, ToldOf, Ends, Move, Answers
  <2> QED
    BY <2>1, <2>2, <2>4, <2>5, OthersKept DEF TypeOK, Ends, Move
<1>4. ASSUME NEW c \in Calls, FailToFile(c) PROVE Inv'
  <2>1. TypeOK'
    BY <1>4 DEF TypeOK, FailToFile, Ends, Results
  <2>2. AccountOf(c)' /\ ToldOf(c)'
    BY <1>4 DEF TypeOK, Account, AccountOf, ToldOf, FailToFile, Ends
  <2> QED
    BY <1>4, <2>1, <2>2, OthersKept DEF TypeOK, FailToFile, Ends
<1>5. ASSUME NEW c \in Calls, Judge(c) PROVE Inv'
  <2>1. TypeOK'
    BY <1>5, VerdictOk DEF TypeOK, Judge, Ends, Results
  <2>2. result'[c] = Verdict(c, answer[c]) /\ pc'[c] = "done" /\ UNCHANGED <<answer, done>>
    BY <1>5 DEF Judge, Ends, TypeOK
  <2>3. AccountOf(c)' /\ ToldOf(c)'
    BY <1>5, <2>2, VerdictOk, MeansOkTells DEF Account, AccountOf, ToldOf, Judge
  <2> QED
    BY <1>5, <2>1, <2>3, OthersKept DEF TypeOK, Judge, Ends
<1>6. ASSUME NEW c \in Calls, Exhaust(c) PROVE Inv'
  <2>1. TypeOK'
    BY <1>6 DEF TypeOK, Exhaust, Ends, Results
  <2>2. AccountOf(c)' /\ ToldOf(c)'
    BY <1>6 DEF TypeOK, Account, AccountOf, ToldOf, Exhaust, Ends, IsRetried, Succeeded, Unknown
  <2> QED
    BY <1>6, <2>1, <2>2, OthersKept DEF TypeOK, Exhaust, Ends
<1>7. ASSUME NEW c \in Calls, BackOff(c) PROVE Inv'
  <2>1. TypeOK'
    BY <1>7 DEF TypeOK, BackOff, Move
  <2>2. AccountOf(c)' /\ ToldOf(c)'
    BY <1>7, ClientAssumption
       DEF TypeOK, Account, AccountOf, ToldOf, BackOff, Move, IsRetried, IsSpent, Succeeded, Unknown
  <2> QED
    BY <1>7, <2>1, <2>2, OthersKept DEF TypeOK, BackOff, Move
<1>8. ASSUME NEW c \in Calls, WakeUp(c) PROVE Inv'
  <2>1. attempt[c] + 1 \in 1..MaxAttempts
    BY <1>8, ClientAssumption DEF TypeOK, Account, AccountOf, WakeUp, Move
  <2>2. TypeOK'
    BY <1>8, <2>1 DEF TypeOK, WakeUp, Move
  <2>3. AccountOf(c)' /\ ToldOf(c)'
    BY <1>8 DEF TypeOK, Account, AccountOf, ToldOf, WakeUp, Move
  <2> QED
    BY <1>8, <2>2, <2>3, OthersKept DEF TypeOK, WakeUp, Move
<1>9. ASSUME NEW c \in Calls, LeaveQueue(c) PROVE Inv'
  <2>1. TypeOK'
    BY <1>9 DEF TypeOK, LeaveQueue, Ends, Results
  <2>2. AccountOf(c)' /\ ToldOf(c)'
    BY <1>9 DEF TypeOK, Account, AccountOf, ToldOf, LeaveQueue, Ends
  <2> QED
    BY <1>9, <2>1, <2>2, OthersKept DEF TypeOK, LeaveQueue, Ends
<1>10. ASSUME NEW c \in Calls, StopWaiting(c) PROVE Inv'
  <2>1. TypeOK'
    BY <1>10 DEF TypeOK, StopWaiting, Ends, Results
  <2>2. AccountOf(c)' /\ ToldOf(c)'
    BY <1>10 DEF TypeOK, Account, AccountOf, ToldOf, StopWaiting, Ends
  <2> QED
    BY <1>10, <2>1, <2>2, OthersKept DEF TypeOK, StopWaiting, Ends
<1> QED
  BY <1>1, <1>2, <1>3, <1>4, <1>5, <1>6, <1>7, <1>8, <1>9, <1>10 DEF Next, Step, CallerLeaves

LEMMA Invariant == Spec => []Inv
  BY InvInit, InvNext, PTL DEF Spec

\* The type of every variable; in it, that no call is asked more often than
\* its budget of attempts.
THEOREM TypeCorrect == Spec => []TypeOK
  BY Invariant, PTL DEF Inv

\* No write happens twice, however often the rate limit sends it round.
THEOREM WritesOnce == Spec => []AtMostOneEffect
<1>1. Inv => AtMostOneEffect
  BY DEF Inv, Account, AccountOf, AtMostOneEffect
<1> QED
  BY <1>1, Invariant, PTL

\* The error or the success a caller gets is what happened at the gateway.
THEOREM CallersToldTheTruth == Spec => []ResultIsTrue
<1>1. Inv => ResultIsTrue
  BY ClientAssumption DEF Inv, Account, ToldOf, ResultIsTrue, Writes
<1> QED
  BY <1>1, Invariant, PTL

\* A step that changes the place of one call and no slot keeps the slots those
\* of the calls that are asking, if it neither starts nor ends asking.
LEMMA SlotsKept ==
  ASSUME TypeOK, SlotsAreInUse, NEW c \in Calls, NEW to \in {"queued", "waiting", "done"},
         pc[c] # "asking", pc' = [pc EXCEPT ![c] = to], slots' = slots
  PROVE  SlotsAreInUse'
  BY DEF TypeOK, SlotsAreInUse

\* A slot is held by a request on its way and by nothing else, and there are
\* never more of them than the client was built with.
THEOREM SlotsNeverIdle == Spec => []SlotsAreInUse
<1>1. Init => SlotsAreInUse
  BY ClientAssumption, FS_EmptySet DEF Init, SlotsAreInUse
<1>2. TypeOK /\ SlotsAreInUse /\ [Next]_vars => SlotsAreInUse'
  <2> SUFFICES ASSUME TypeOK, SlotsAreInUse, [Next]_vars PROVE SlotsAreInUse'
    OBVIOUS
  <2>1. CASE UNCHANGED vars
    BY <2>1 DEF SlotsAreInUse, vars, client
  <2>2. ASSUME NEW c \in Calls, TakeSlot(c) PROVE SlotsAreInUse'
    <3>1. IsFiniteSet(slots) /\ Cardinality(slots) \in Nat /\ c \notin slots
      BY <2>2, ClientAssumption, FS_Subset, FS_CardinalityType
         DEF TypeOK, SlotsAreInUse, TakeSlot, Move
    <3>2. Cardinality(slots \cup {c}) = Cardinality(slots) + 1
      BY <3>1, FS_AddElement
    <3>3. Cardinality(slots') <= MaxConcurrent
      BY <2>2, <3>1, <3>2, ClientAssumption DEF TakeSlot
    <3>4. slots' = {o \in Calls : pc'[o] = "asking"}
      BY <2>2 DEF TypeOK, SlotsAreInUse, TakeSlot, Move
    <3> QED
      BY <3>3, <3>4 DEF SlotsAreInUse
  <2>3. ASSUME NEW c \in Calls, Respond(c) PROVE SlotsAreInUse'
    <3>1. /\ pc[c] = "asking" /\ slots' = slots \ {c}
          /\ \E to \in {"done", "answered"} : pc' = [pc EXCEPT ![c] = to]
      BY <2>3 DEF Respond, Release, Ends, Move
    <3>2. IsFiniteSet(slots) /\ Cardinality(slots') <= Cardinality(slots)
      BY <3>1, ClientAssumption, FS_Subset DEF TypeOK
    <3>3. Cardinality(slots') \in Nat /\ Cardinality(slots) \in Nat
      BY <3>1, <3>2, FS_Subset, FS_CardinalityType
    <3>4. slots' = {o \in Calls : pc'[o] = "asking"}
      BY <3>1 DEF TypeOK, SlotsAreInUse
    <3> QED
      BY <3>2, <3>3, <3>4, ClientAssumption DEF SlotsAreInUse
  <2>4. ASSUME NEW c \in Calls,
               FailToFile(c) \/ Judge(c) \/ Exhaust(c) \/ LeaveQueue(c) \/ StopWaiting(c)
        PROVE  SlotsAreInUse'
    BY <2>4, SlotsKept DEF FailToFile, Judge, Exhaust, LeaveQueue, StopWaiting, Ends
  <2>5. ASSUME NEW c \in Calls, BackOff(c) \/ WakeUp(c) PROVE SlotsAreInUse'
    BY <2>5, SlotsKept DEF BackOff, WakeUp, Move
  <2> QED
    BY <2>1, <2>2, <2>3, <2>4, <2>5 DEF Next, Step, CallerLeaves
<1> QED
  BY <1>1, <1>2, TypeCorrect, PTL DEF Spec
-----------------------------------------------------------------------------
(* Why every call ends.  Fairness and ENABLED are out of the prover's      *)
(* reach, so this is the part of EveryCallEnds that is about the code: each*)
(* step uses up some of a finite allowance, and until all calls are done   *)
(* one of them has a step to take.                                         *)

\* A turn of the loop goes down from four, and a new turn costs five.
PlaceOf(p) ==
  CASE p = "queued" -> 4 [] p = "asking" -> 3 [] p = "answered" -> 2 [] p = "waiting" -> 1

Allowance(c) ==
  IF pc[c] = "done" THEN 0 ELSE 5 * (MaxAttempts - attempt[c]) + PlaceOf(pc[c])

LEMMA AllowanceIs ==
  ASSUME TypeOK, NEW c \in Calls
  PROVE  /\ Allowance(c) \in Nat
         /\ pc[c] # "done" => Allowance(c) > 0
         /\ pc[c] = "done" => Allowance(c) = 0
<1>1. MaxAttempts - attempt[c] \in Nat /\ pc[c] \in {"queued", "asking", "answered", "waiting", "done"}
  BY ClientAssumption DEF TypeOK
<1>2. pc[c] # "done" => PlaceOf(pc[c]) \in 1..4
  BY <1>1 DEF PlaceOf
<1> QED
  BY <1>1, <1>2 DEF Allowance

\* A call that ends, and a call that goes on within its turn.
LEMMA EndingCosts ==
  ASSUME TypeOK, NEW c \in Calls, pc[c] # "done", pc' = [pc EXCEPT ![c] = "done"]
  PROVE  Allowance(c)' < Allowance(c)
<1>1. Allowance(c)' = 0
  BY DEF TypeOK, Allowance
<1> QED
  BY <1>1, AllowanceIs

LEMMA GoingOnCosts ==
  ASSUME TypeOK, NEW c \in Calls, NEW to \in {"asking", "answered", "waiting"},
         pc[c] # "done", attempt' = attempt, pc' = [pc EXCEPT ![c] = to],
         PlaceOf(to) < PlaceOf(pc[c])
  PROVE  Allowance(c)' < Allowance(c)
<1>1. pc'[c] = to /\ to # "done"
  BY DEF TypeOK
<1>2. MaxAttempts - attempt[c] \in Nat /\ PlaceOf(to) \in Nat /\ PlaceOf(pc[c]) \in Nat
  BY ClientAssumption DEF TypeOK, PlaceOf
<1>3. Allowance(c)' = 5 * (MaxAttempts - attempt[c]) + PlaceOf(to)
  BY <1>1 DEF Allowance
<1>4. Allowance(c) = 5 * (MaxAttempts - attempt[c]) + PlaceOf(pc[c])
  BY DEF Allowance
<1> QED
  BY <1>2, <1>3, <1>4

LEMMA StepCosts ==
  ASSUME TypeOK, NEW c \in Calls, Step(c) \/ CallerLeaves(c)
  PROVE  Allowance(c)' < Allowance(c)
<1>a. /\ PlaceOf("asking") < PlaceOf("queued") /\ PlaceOf("answered") < PlaceOf("asking")
      /\ PlaceOf("waiting") < PlaceOf("answered")
  BY DEF PlaceOf
<1>1. CASE FailToFile(c) \/ Judge(c) \/ Exhaust(c) \/ LeaveQueue(c) \/ StopWaiting(c)
  BY <1>1, EndingCosts DEF FailToFile, Judge, Exhaust, LeaveQueue, StopWaiting, Ends
<1>2. CASE TakeSlot(c)
  <2>1. pc[c] = "queued" /\ attempt' = attempt /\ pc' = [pc EXCEPT ![c] = "asking"]
    BY <1>2 DEF TakeSlot, Move
  <2> QED
    BY <1>a, <2>1, GoingOnCosts
<1>3. CASE BackOff(c)
  <2>1. pc[c] = "answered" /\ attempt' = attempt /\ pc' = [pc EXCEPT ![c] = "waiting"]
    BY <1>3 DEF BackOff, Move
  <2> QED
    BY <1>a, <2>1, GoingOnCosts
<1>4. CASE Respond(c)
  <2>1. /\ pc[c] = "asking" /\ attempt' = attempt
        /\ \E to \in {"answered", "done"} : pc' = [pc EXCEPT ![c] = to]
    BY <1>4 DEF Respond, Ends, Move
  <2> QED
    BY <1>a, <2>1, EndingCosts, GoingOnCosts
<1>5. CASE WakeUp(c)
  <2>1. /\ pc[c] = "waiting" /\ pc'[c] = "queued" /\ attempt'[c] = attempt[c] + 1
        /\ MaxAttempts \in Nat /\ attempt[c] \in Nat
    BY <1>5, ClientAssumption DEF TypeOK, WakeUp, Move
  <2>2. Allowance(c) = 5 * (MaxAttempts - attempt[c]) + 1
    BY <2>1 DEF Allowance, PlaceOf
  <2>3. Allowance(c)' = 5 * (MaxAttempts - (attempt[c] + 1)) + 4
    BY <2>1 DEF Allowance, PlaceOf
  <2> QED
    BY <2>1, <2>2, <2>3
<1> QED
  BY <1>1, <1>2, <1>3, <1>4, <1>5 DEF Step, CallerLeaves

LEMMA StepCostsNobodyElse ==
  ASSUME TypeOK, NEW c \in Calls, Step(c) \/ CallerLeaves(c), NEW o \in Calls \ {c}
  PROVE  Allowance(o)' = Allowance(o)
<1>1. pc'[o] = pc[o] /\ attempt'[o] = attempt[o]
  BY DEF TypeOK, Step, CallerLeaves, TakeSlot, Respond, FailToFile, Judge, Exhaust, BackOff, WakeUp,
         LeaveQueue, StopWaiting, Ends, Move
<1> QED
  BY <1>1 DEF Allowance

\* Every step uses up a part of the finite allowance of one call and gives none
\* to another: no order of answers, waits and slots goes on for ever.
THEOREM CallsRunDown ==
  Spec => [][\E c \in Calls : /\ Allowance(c) \in Nat /\ Allowance(c)' < Allowance(c)
                            /\ \A o \in Calls \ {c} : Allowance(o)' = Allowance(o)]_vars
<1>1. TypeOK /\ [Next]_vars =>
        [\E c \in Calls : /\ Allowance(c) \in Nat /\ Allowance(c)' < Allowance(c)
                         /\ \A o \in Calls \ {c} : Allowance(o)' = Allowance(o)]_vars
  BY AllowanceIs, StepCosts, StepCostsNobodyElse DEF Next
<1> QED
  BY <1>1, TypeCorrect, PTL DEF Spec

\* The guard of some step of a call: the gateway owes it an answer, it has one,
\* its timer runs, or a slot is free for it.
CanGoOn(c) ==
  \/ pc[c] \in {"asking", "answered", "waiting"}
  \/ pc[c] = "queued" /\ Cardinality(slots) < MaxConcurrent

\* The calls never all wait for one another: while one is not done, one can go on.
THEOREM SomeCallGoesOn ==
  Spec => []((\E c \in Calls : pc[c] # "done") => \E c \in Calls : CanGoOn(c))
<1>1. TypeOK /\ SlotsAreInUse =>
        ((\E c \in Calls : pc[c] # "done") => \E c \in Calls : CanGoOn(c))
  <2> SUFFICES ASSUME TypeOK, SlotsAreInUse, NEW c \in Calls, pc[c] # "done",
                      \A o \in Calls : pc[o] \notin {"asking", "answered", "waiting"}
               PROVE  CanGoOn(c)
    BY DEF CanGoOn
  <2>1. slots = {} /\ pc[c] = "queued"
    BY DEF TypeOK, SlotsAreInUse
  <2> QED
    BY <2>1, ClientAssumption, FS_EmptySet DEF CanGoOn
<1> QED
  BY <1>1, TypeCorrect, SlotsNeverIdle, PTL
=============================================================================
