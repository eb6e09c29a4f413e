----------------------------- MODULE DemoServer -----------------------------
(***************************************************************************)
(* The public demo (cmd/rzp-demo): one engine run at a time, streamed to   *)
(* the request that asked for it.                                          *)
(*                                                                         *)
(* A request tries the slot once, may wait for it in line, and then either *)
(* is refused before a byte is written or streams a run until the run, its *)
(* reader, its deadline or the process ends.  What an item's decision is   *)
(* does not matter here: the run is the loop of RiskRun over a fixture,    *)
(* with a gateway in memory, and all that comes back is whether it ended   *)
(* in an error.  Progress lines are sent but not kept in told.             *)
(***************************************************************************)
EXTENDS Naturals, SequencesExt, FiniteSets

CONSTANTS
  Requests,  \* the visits, each of which asks for a run once
  Items      \* the items of the fixture book

ASSUME DemoAssumption ==
  /\ IsFiniteSet(Requests)
  /\ Items \in Nat \ {0}

VARIABLES
  queueWaits, \* server.queueWait > 0
  process,    \* the life of the process
  slot,       \* the tokens in runSlot
  line,       \* the requests parked on it, in the order they came
  pc,         \* where handleRun is for each request
  visit       \* the rest of a request, while handleRun has it

server == <<queueWaits, process>>
queue  == <<slot, line>>
vars   == <<server, queue, pc, visit>>

Fresh ==
  [reader  |-> "there", \* whether the other end of the connection is there
   gone    |-> FALSE,   \* the request's context was cancelled
   elapsed |-> FALSE,   \* queueWait has passed
   expired |-> FALSE,   \* runDeadline has passed
   decided |-> 0,       \* items the run has been through
   deaf    |-> 0,       \* history: those it was through when its context ended
   failed  |-> FALSE,   \* lineStream.err
   told    |-> <<>>]    \* the events that were written

\* The places of a request that has the slot.
Streaming ==
  {"granted", "deciding", "pacing", "logging", "closing", "reporting", "releasing"}

Over == {"refused", "over"}

\* The kinds of event of a stream, without its progress lines.
Events == {"item", "calls", "ledger", "escalations", "summary", "done", "error"}

Streams == {r \in Requests : pc[r] \in Streaming}

Ended(r) == visit[r].gone \/ visit[r].expired

Up == process # "down"

At(r, place) == Up /\ pc[r] = place

Goes(r, next) == pc' = [pc EXCEPT ![r] = next]

\* What handleRun kept of a request goes with it.
Forgets(r) == visit' = [visit EXCEPT ![r] = Fresh]

-----------------------------------------------------------------------------
(* acquire and release.                                                    *)

Arrive(r) ==
  /\ process = "up" /\ pc[r] = "away"
  /\ Goes(r, "asking")
  /\ UNCHANGED <<server, queue, visit>>

TakesSlot(r) == slot = 0 /\ slot' = slot + 1 /\ Goes(r, "granted")

\* The first select: the slot if it is free, or the wait if there is one.
Ask(r) ==
  /\ At(r, "asking")
  /\ \/ TakesSlot(r)
     \/ /\ slot # 0
        /\ Goes(r, IF queueWaits THEN "selecting" ELSE "refusing")
        /\ UNCHANGED slot
  /\ UNCHANGED <<server, line, visit>>

\* The wait, or the reader, is over.
WaitIsOver(r) == visit[r].gone \/ visit[r].elapsed

\* The second select takes any case that is ready, and parks when none is.
Select(r) ==
  /\ At(r, "selecting")
  /\ \/ TakesSlot(r) /\ UNCHANGED line
     \/ WaitIsOver(r) /\ Goes(r, "refusing") /\ UNCHANGED queue
     \/ /\ slot # 0 /\ ~WaitIsOver(r)
        /\ Goes(r, "parked")
        /\ line' = Append(line, r)
        /\ UNCHANGED slot
  /\ UNCHANGED <<server, visit>>

\* Mutant of Unparked: a request that gave up stays in the line.
UnparkedNot(i) == line

\* The line without the one at place i.
Unparked(i) == RemoveAt(line, i)

GiveUp(r) ==
  /\ At(r, "parked")
  /\ WaitIsOver(r)
  /\ Goes(r, "refusing")
  /\ \E i \in 1..Len(line) : line[i] = r /\ line' = Unparked(i)
  /\ UNCHANGED <<server, slot, visit>>

\* A refusal is a status code, and nothing of a stream is written.
Refuse(r) ==
  /\ At(r, "refusing")
  /\ Goes(r, "refused")
  /\ Forgets(r)
  /\ UNCHANGED <<server, queue>>

\* The deferred release.  A token taken out of a full channel lets the first
\* parked sender put its own in at once: no newcomer gets between.
Release(r) ==
  /\ At(r, "releasing")
  /\ \/ /\ line = <<>>
        /\ slot' = slot - 1
        /\ Goes(r, "over")
        /\ UNCHANGED line
     \/ /\ line # <<>>
        /\ line' = Tail(line)
        /\ pc' = [pc EXCEPT ![r] = "over", ![Head(line)] = "granted"]
        /\ UNCHANGED slot
  /\ Forgets(r)
  /\ UNCHANGED server

-----------------------------------------------------------------------------
(* The run and its stream.                                                 *)

\* send asks the context before it writes.
CanSend(r) == ~Ended(r)

\* A write to a reader who left may still be taken by the connection.
NotWritten(r) == ~CanSend(r) \/ visit[r].reader = "left"

\* One event goes out.
Tells(r, event) ==
  /\ CanSend(r)
  /\ visit' = [visit EXCEPT ![r].told = Append(@, event)]

\* A progress line that cannot be written is kept in lineStream.err, and the
\* run goes on.
Logs(r) ==
  \/ CanSend(r) /\ UNCHANGED visit
  \/ NotWritten(r) /\ visit' = [visit EXCEPT ![r].failed = TRUE]

\* The status, and the head of runEngine and of Run.
Begin(r) ==
  /\ At(r, "granted")
  /\ Logs(r)
  /\ Goes(r, "deciding")
  /\ UNCHANGED <<server, queue>>

\* processItem, up to the row it writes.
DecideItem(r) ==
  /\ At(r, "deciding")
  /\ visit[r].decided < Items
  /\ visit' = [visit EXCEPT ![r].decided = @ + 1]
  /\ Goes(r, "pacing")
  /\ UNCHANGED <<server, queue>>

\* Mutant of AfterLostRow: a row that was not sent is only skipped.
AfterLostRowGoOn == "logging"

\* Mutant of AfterLostRow: a row that was not sent is tried until it is.
AfterLostRowRetry == "pacing"

\* Run returns at a row it cannot write.
AfterLostRow == "reporting"

\* emitLine: the pace, then the row.
EmitItem(r) ==
  /\ At(r, "pacing")
  /\ \/ Tells(r, "item") /\ Goes(r, "logging")
     \/ NotWritten(r) /\ Goes(r, AfterLostRow) /\ UNCHANGED visit
  /\ UNCHANGED <<server, queue>>

LogItem(r) ==
  /\ At(r, "logging")
  /\ Logs(r)
  /\ Goes(r, "deciding")
  /\ UNCHANGED <<server, queue>>

\* Run is back.  A lost progress line ends the stream; an error of the run is
\* told as one more line.
EndRun(r) ==
  /\ At(r, "deciding")
  /\ visit[r].decided = Items
  /\ \/ ~visit[r].failed /\ Goes(r, "closing")
     \/ (visit[r].failed \/ NotWritten(r)) /\ Goes(r, "reporting")
  /\ UNCHANGED <<server, queue, visit>>

\* Mutant of Closing: the end is announced before the summary is out.
ClosingEarly == <<"calls", "ledger", "escalations", "done", "summary">>

Closing == <<"calls", "ledger", "escalations", "summary", "done">>

SendClosing(r) ==
  LET no == Len(visit[r].told) - Items + 1
  IN /\ At(r, "closing")
     /\ \/ /\ Tells(r, Closing[no])
           /\ Goes(r, IF no = Len(Closing) THEN "releasing" ELSE "closing")
        \/ NotWritten(r) /\ Goes(r, "reporting") /\ UNCHANGED visit
     /\ UNCHANGED <<server, queue>>

AfterReport == "releasing"

\* Whatever runEngine returns is sent as the last event, if it can be.
Report(r) ==
  /\ At(r, "reporting")
  /\ Tells(r, "error") \/ (NotWritten(r) /\ UNCHANGED visit)
  /\ Goes(r, AfterReport)
  /\ UNCHANGED <<server, queue>>

-----------------------------------------------------------------------------
(* Readers, timers and the process.                                        *)

Here(r) == Up /\ pc[r] \notin {"away"} \cup Over

Leave(r) ==
  /\ Here(r) /\ visit[r].reader = "there"
  /\ visit' = [visit EXCEPT ![r].reader = "left"]
  /\ UNCHANGED <<server, queue, pc>>

\* The items the run was through when its context ended, noted once.
Noted(r) == IF Ended(r) THEN visit[r].deaf ELSE visit[r].decided

\* The server notices that a reader left.
Cancel(r) ==
  /\ Here(r) /\ visit[r].reader = "left" /\ ~visit[r].gone
  /\ visit' = [visit EXCEPT ![r].gone = TRUE, ![r].deaf = Noted(r)]
  /\ UNCHANGED <<server, queue, pc>>

QueueWaitEnds(r) ==
  /\ Up /\ pc[r] \in {"selecting", "parked"} /\ ~visit[r].elapsed
  /\ visit' = [visit EXCEPT ![r].elapsed = TRUE]
  /\ UNCHANGED <<server, queue, pc>>

Deadline(r) ==
  /\ Up /\ pc[r] \in Streaming \ {"granted"} /\ ~visit[r].expired
  /\ visit' = [visit EXCEPT ![r].expired = TRUE, ![r].deaf = Noted(r)]
  /\ UNCHANGED <<server, queue, pc>>

\* A signal: the listener is closed, the requests in flight go on.
Shutdown ==
  /\ process = "up"
  /\ process' = "stopping"
  /\ UNCHANGED <<queueWaits, queue, pc, visit>>

\* The process ends when they are through, or ten seconds later as they are,
\* and takes all of this with it.
Exit ==
  /\ process = "stopping"
  /\ process' = "down"
  /\ slot' = 0 /\ line' = <<>>
  /\ pc' = [r \in Requests |-> "over"]
  /\ visit' = [r \in Requests |-> Fresh]
  /\ UNCHANGED queueWaits

-----------------------------------------------------------------------------
Init ==
  /\ queueWaits \in BOOLEAN /\ process = "up"
  /\ slot = 0 /\ line = <<>>
  /\ pc = [r \in Requests |-> "away"]
  /\ visit = [r \in Requests |-> Fresh]

Acquire(r) == Ask(r) \/ Select(r) \/ GiveUp(r) \/ Refuse(r)

Stream(r) == Begin(r) \/ DecideItem(r) \/ EmitItem(r) \/ LogItem(r) \/ EndRun(r)
               \/ SendClosing(r) \/ Report(r) \/ Release(r)

Handle(r) == Acquire(r) \/ Stream(r)

World(r) == Arrive(r) \/ Leave(r) \/ Cancel(r) \/ QueueWaitEnds(r) \/ Deadline(r)

Next == Shutdown \/ Exit \/ \E r \in Requests : Handle(r) \/ World(r)

Spec == Init /\ [][Next]_vars

\* A goroutine that can run is run, a timer that was set goes off, and a
\* process that was told to stop is gone in the end.
FairSpec ==
  /\ Spec
  /\ \A r \in Requests : WF_vars(Handle(r)) /\ WF_vars(QueueWaitEnds(r))
  /\ WF_vars(Exit)

-----------------------------------------------------------------------------
(* Properties.                                                             *)

VisitType ==
  [reader : {"there", "left"}, gone : BOOLEAN, elapsed : BOOLEAN, expired : BOOLEAN,
   decided : 0..Items, deaf : 0..Items, failed : BOOLEAN, told : Seq(Events)]

TypeOK ==
  /\ queueWaits \in BOOLEAN /\ process \in {"up", "stopping", "down"}
  /\ slot \in 0..1 /\ line \in Seq(Requests)
  /\ pc \in [Requests -> {"away", "asking", "selecting", "parked", "refusing"}
                           \cup Streaming \cup Over]
  /\ visit \in [Requests -> VisitType]

\* "A run holds one token for its life", and nobody else holds it: a request
\* that gives up in the instant it is given the slot neither keeps it nor
\* hands it to a second run, and nobody is parked while the slot is free.
SlotIsTheStream ==
  /\ Cardinality(Streams) = slot /\ slot <= 1
  /\ \A i \in 1..Len(line) : slot = 1 /\ pc[line[i]] = "parked"

\* Every item and, after them, the summary before the end.
Whole(events) ==
  /\ Len(events) > Items
  /\ \A i \in 1..Items : events[i] = "item"
  /\ "summary" \in Range(Front(events))
  /\ Last(events) = "done"

\* A reader who stayed until the slot was let go, and whom no deadline cut
\* off, was told the whole run; nobody is told "done" of less; and a request
\* that is refused has cost no decision and no byte of a stream.
StreamsEndTold ==
  \A r \in Requests :
    LET v == visit[r]
    IN /\ "done" \in Range(v.told) => Whole(v.told)
       /\ pc[r] = "releasing" /\ v.reader = "there" /\ ~v.expired => Whole(v.told)
       /\ pc[r] = "refusing" => v.told = <<>> /\ v.decided = 0

\* A run whose context ended stops at the item it is on, even one that was
\* given the slot as its reader left.
WorkStopsWithTheReader ==
  \A r \in Requests : Ended(r) => visit[r].decided <= visit[r].deaf + 1

\* Every request is answered while the process lives: refused, or streamed to
\* an end that lets the slot go.
EveryRequestAnswered ==
  \A r \in Requests : pc[r] = "asking" ~> pc[r] \in Over \/ process = "down"

\* "One last event is the only way to say anything": a reader who stayed hears
\* why the stream ended.
DeadlineIsReported ==
  \A r \in Requests :
    pc[r] = "releasing" /\ visit[r].reader = "there"
      => {"done", "error"} \cap Range(visit[r].told) # {}
=============================================================================
