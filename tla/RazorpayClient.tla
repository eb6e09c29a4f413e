--------------------------- MODULE RazorpayClient ---------------------------
(***************************************************************************)
(* internal/razorpay.Client, the one way to Razorpay, shared by goroutines.*)
(*                                                                         *)
(* A call is doWith: it takes one of MaxConcurrent slots, makes one request*)
(* with it, gives it back, writes the answer to the capture stream and     *)
(* decides what the answer means.  Only a 429 is asked again, after a wait *)
(* whose length is left out.  Everything between is local to the call.     *)
(*                                                                         *)
(* The gateway is outside: done counts what it really did for a call, which*)
(* a lost or a failed answer does not tell.                                *)
(***************************************************************************)
EXTENDS Integers, FiniteSets

CONSTANTS
  Calls,         \* the calls that are made, each by a goroutine of its own
  Reads,         \* those that only read
  Sends,         \* the resend calls, which tolerate an answer without a body
  MaxAttempts,   \* ClientOptions
  MaxConcurrent,
  Capturing      \* whether RawCapture is set

ASSUME ClientAssumption ==
  /\ IsFiniteSet(Calls)
  /\ Reads \subseteq Calls /\ Sends \subseteq Calls /\ Reads \cap Sends = {}
  /\ MaxAttempts \in Nat \ {0} /\ MaxConcurrent \in Nat \ {0}
  /\ Capturing \in BOOLEAN

VARIABLES
  pc,       \* where each call is
  attempt,  \* requests the loop of doWith has begun
  slots,    \* the calls that hold a slot of sem
  answer,   \* the last answer of the gateway
  result,   \* what the caller is told
  done      \* the gateway: times the effect of the call happened

client == <<pc, attempt, slots, answer, result>>
vars   == <<client, done>>

Writes == Calls \ Reads

\* What comes back: a body, none, one that does not decode, a refusal, a limit,
\* a server's failure, or nothing at all.
Answers == {"body", "empty", "garbled", "refused", "limited", "failed", "lost"}

\* The answers after which the effect of a write has happened, and those after
\* which nobody can say.
Succeeded == {"body", "empty", "garbled"}
Unknown   == {"failed", "lost"}

Results == {"none", "ok", "refused", "exhausted", "undecoded", "uncaptured", "cancelled", "lost"}

Init ==
  /\ pc = [c \in Calls |-> "queued"]
  /\ attempt = [c \in Calls |-> 1]
  /\ slots = {}
  /\ answer = [c \in Calls |-> "none"]
  /\ result = [c \in Calls |-> "none"]
  /\ done = [c \in Calls |-> 0]

Move(c, from, to) == pc[c] = from /\ pc' = [pc EXCEPT ![c] = to]

Ends(c, r) ==
  /\ pc' = [pc EXCEPT ![c] = "done"]
  /\ result' = [result EXCEPT ![c] = r]

\* roundTrip gets a slot, or its caller leaves first.
TakeSlot(c) ==
  /\ Cardinality(slots) < MaxConcurrent
  /\ Move(c, "queued", "asking")
  /\ slots' = slots \cup {c}
  /\ UNCHANGED <<attempt, answer, result, done>>

LeaveQueue(c) ==
  /\ pc[c] = "queued"
  /\ Ends(c, "cancelled")
  /\ UNCHANGED <<attempt, slots, answer, done>>

\* Mutant of Release: a call told to wait keeps its slot.
ReleaseUnlessLimited(c, a) == IF a = "limited" THEN slots ELSE slots \ {c}

\* The slot goes back when roundTrip returns, whatever it returns.
Release(c, a) == slots \ {c}

\* The effects an answer can come with.
Effect(c, a) ==
  {n \in {0, 1} :
     /\ n = 1 => c \in Writes /\ a \in Succeeded \cup Unknown
     /\ c \in Writes /\ a \in Succeeded => n = 1}

\* The gateway acts, or not, and answers, or not.  A request of a caller that
\* is gone, or that takes longer than the client's timeout, is a lost one.
Respond(c) ==
  /\ pc[c] = "asking"
  /\ \E a \in Answers : \E n \in Effect(c, a) :
       /\ answer' = [answer EXCEPT ![c] = a]
       /\ done' = [done EXCEPT ![c] = @ + n]
       /\ slots' = Release(c, a)
       /\ IF a = "lost"
          THEN Ends(c, "lost")
          ELSE Move(c, "asking", "answered") /\ UNCHANGED result
  /\ UNCHANGED <<attempt>>

\* captureResponse: an answer that cannot be filed fails the call, whatever the
\* answer is; filed, it goes on to be judged.
FailToFile(c) ==
  /\ Capturing
  /\ pc[c] = "answered"
  /\ Ends(c, "uncaptured")
  /\ UNCHANGED <<attempt, slots, answer, done>>

\* Mutant of IsRetried: a server's failure is asked again too.
IsRetriedOnFailure(a) == a \in {"limited", "failed"}

IsRetried(a) == a = "limited"

\* Mutant of MeansOk: an empty answer is a success for every call.
MeansOkAnyEmpty(c, a) == a \in {"body", "empty"}

MeansOk(c, a) == a = "body" \/ (a = "empty" /\ c \in Sends)

\* The switch of doWith over an answer that is not asked again.
Verdict(c, a) ==
  CASE MeansOk(c, a)     -> "ok"
    [] a \in Succeeded   -> "undecoded"
    [] OTHER             -> "refused"

Judge(c) ==
  /\ pc[c] = "answered" /\ ~IsRetried(answer[c])
  /\ Ends(c, Verdict(c, answer[c]))
  /\ UNCHANGED <<attempt, slots, answer, done>>

IsSpent(c) == attempt[c] = MaxAttempts

Exhaust(c) ==
  /\ pc[c] = "answered" /\ IsRetried(answer[c]) /\ IsSpent(c)
  /\ Ends(c, "exhausted")
  /\ UNCHANGED <<attempt, slots, answer, done>>

BackOff(c) ==
  /\ IsRetried(answer[c]) /\ ~IsSpent(c)
  /\ Move(c, "answered", "waiting")
  /\ UNCHANGED <<attempt, slots, answer, result, done>>

\* The wait is over: the next turn of the loop.
WakeUp(c) ==
  /\ Move(c, "waiting", "queued")
  /\ attempt' = [attempt EXCEPT ![c] = @ + 1]
  /\ UNCHANGED <<slots, answer, result, done>>

StopWaiting(c) ==
  /\ pc[c] = "waiting"
  /\ Ends(c, "cancelled")
  /\ UNCHANGED <<attempt, slots, answer, done>>

Step(c) ==
  \/ TakeSlot(c) \/ Respond(c) \/ FailToFile(c) \/ Judge(c) \/ Exhaust(c)
  \/ BackOff(c) \/ WakeUp(c)

\* The context of a caller ends, by its deadline or because somebody left,
\* while it waits for a slot or between two requests.  One that ends during a
\* request makes it a lost one.
CallerLeaves(c) == LeaveQueue(c) \/ StopWaiting(c)

Next == \E c \in Calls : Step(c) \/ CallerLeaves(c)

Spec == Init /\ [][Next]_vars

\* A goroutine that can go on does: a request ends by the client's timeout and
\* a wait by its timer, and a queue of finitely many calls drains.
FairSpec == Spec /\ \A c \in Calls : WF_vars(Step(c))

-----------------------------------------------------------------------------
(* Properties.                                                             *)

TypeOK ==
  /\ pc \in [Calls -> {"queued", "asking", "answered", "waiting", "done"}]
  /\ attempt \in [Calls -> 1..MaxAttempts]
  /\ slots \subseteq Calls
  /\ answer \in [Calls -> Answers \cup {"none"}]
  /\ result \in [Calls -> Results]
  /\ done \in [Calls -> Nat]

\* A call that writes does so once at most, however often it is asked again:
\* only an answer that says nothing happened is (doWith).
AtMostOneEffect == \A c \in Calls : done[c] <= 1

\* What the caller is told is what happened: a write that succeeded was done,
\* one given up on for the rate limit was not, and neither was one whose caller
\* left it queued; a read that succeeded has read something, since an empty
\* answer is not an order without a status or a list without payments.
ResultIsTrue ==
  /\ \A c \in Writes :
       /\ result[c] = "ok" => done[c] = 1
       /\ result[c] \in {"exhausted", "cancelled"} => done[c] = 0
  /\ \A c \in Reads : result[c] = "ok" => answer[c] = "body"

\* A slot is held only by a request on its way, so a wait keeps no other call
\* out, and no more requests are on their way than there are slots.
SlotsAreInUse ==
  /\ slots = {c \in Calls : pc[c] = "asking"}
  /\ Cardinality(slots) <= MaxConcurrent

\* Every call ends, though its caller stays and the gateway is busy.
EveryCallEnds == \A c \in Calls : <>(pc[c] = "done")
=============================================================================
