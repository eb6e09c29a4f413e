-------------------------- MODULE DemoServerProofs --------------------------
(***************************************************************************)
(* What the public demo promises holds for any number of visits and any    *)
(* book: the slot belongs to the one stream, a run whose context ended     *)
(* stops, every request goes forward to its answer and none is left in the *)
(* line.                                                                   *)
(*                                                                         *)
(* The first two are not inductive: that the slot passes from hand to hand *)
(* needs the line to name each request once, and that work stops needs to  *)
(* know at which places an item may be one ahead.                          *)
(***************************************************************************)
EXTENDS DemoServer, FiniteSetTheorems, SequenceTheorems, TLAPS

Places ==
  {"away", "asking", "selecting", "parked", "refusing"} \cup Streaming \cup Over

\* What the slot and the places range over.
Types ==
  /\ slot \in 0..1 /\ line \in Seq(Requests)
  /\ pc \in [Requests -> Places]

\* The slot has at most one holder, and a holder exactly when it is taken.
OneHolder ==
  \/ slot = 0 /\ Streams = {}
  \/ slot = 1 /\ \E h \in Requests : Streams = {h}

\* The line names parked requests, each once.
InLine ==
  /\ \A i \in 1..Len(line) : slot = 1 /\ pc[line[i]] = "parked"
  /\ \A i, j \in 1..Len(line) : line[i] = line[j] => i = j

SlotInv == Types /\ OneHolder /\ InLine

LEMMA SlotInit == Init => SlotInv
  BY DEF Init, SlotInv, Types, OneHolder, InLine, Streams, Streaming, Over, Places

\* A step of one request that neither takes the slot nor lets it go, and
\* leaves the line alone.
LEMMA KeepsSlot ==
  ASSUME SlotInv, NEW r \in Requests, NEW place \in Places,
         Goes(r, place), UNCHANGED queue, pc[r] # "parked",
         pc[r] \in Streaming <=> place \in Streaming
  PROVE  SlotInv'
<1>1. Streams' = Streams
  BY DEF SlotInv, Types, Goes, Streams
<1>2. Types'
  BY DEF SlotInv, Types, Goes, queue
<1>3. InLine'
  BY DEF SlotInv, Types, InLine, Goes, queue
<1> QED
  BY <1>1, <1>2, <1>3 DEF SlotInv, OneHolder, queue

LEMMA SlotUntouched ==
  ASSUME SlotInv, UNCHANGED <<queue, pc>>
  PROVE  SlotInv'
  BY DEF SlotInv, Types, OneHolder, InLine, Streams, queue

LEMMA SlotTaken ==
  ASSUME SlotInv, NEW r \in Requests, TakesSlot(r), UNCHANGED line
  PROVE  SlotInv'
<1>1. Streams = {} /\ slot = 0 /\ slot' = 1
  BY DEF SlotInv, OneHolder, TakesSlot
<1>2. line = <<>>
  BY <1>1 DEF SlotInv, Types, InLine
<1>3. pc' = [pc EXCEPT ![r] = "granted"]
  BY DEF TakesSlot, Goes
<1>4. Streams' = {r}
  BY <1>1, <1>3 DEF SlotInv, Types, Streams, Streaming
<1> QED
  BY <1>1, <1>2, <1>3, <1>4 DEF SlotInv, Types, OneHolder, InLine, Places, Streaming

LEMMA SlotAsk == ASSUME SlotInv, NEW r \in Requests, Ask(r) PROVE SlotInv'
<1>1. CASE TakesSlot(r)
  BY <1>1, SlotTaken DEF Ask
<1>2. CASE ~TakesSlot(r)
  BY <1>2, KeepsSlot, "selecting" \in Places, "refusing" \in Places
     DEF Ask, At, queue, Streaming, Places
<1> QED
  BY <1>1, <1>2

LEMMA SlotSelect == ASSUME SlotInv, NEW r \in Requests, Select(r) PROVE SlotInv'
<1>1. CASE TakesSlot(r) /\ UNCHANGED line
  BY <1>1, SlotTaken
<1>2. CASE WaitIsOver(r) /\ Goes(r, "refusing") /\ UNCHANGED queue
  BY <1>2, KeepsSlot DEF Select, At, Streaming, Places
<1>3. CASE slot # 0 /\ Goes(r, "parked") /\ line' = Append(line, r) /\ UNCHANGED slot
  <2>1. pc[r] = "selecting" /\ pc' = [pc EXCEPT ![r] = "parked"]
    BY <1>3 DEF Select, At, Goes
  <2>2. Streams' = Streams
    BY <2>1 DEF SlotInv, Types, Streams, Streaming
  <2>3. Types'
    BY <1>3, <2>1 DEF SlotInv, Types, Places
  <2>4. \A i \in 1..Len(line) : line[i] # r
    BY <2>1 DEF SlotInv, InLine
  <2>5. /\ Len(line') = Len(line) + 1 /\ line'[Len(line) + 1] = r
        /\ \A i \in 1..Len(line) : line'[i] = line[i]
    BY <1>3 DEF SlotInv, Types
  <2>6. Len(line) \in Nat /\ \A i \in 1..Len(line) : line[i] \in Requests
    BY DEF SlotInv, Types
  <2>7. \A i \in 1..Len(line') : i = Len(line) + 1 \/ i \in 1..Len(line)
    BY <2>5, <2>6
  <2>8. InLine'
    BY <1>3, <2>1, <2>4, <2>5, <2>6, <2>7 DEF SlotInv, Types, InLine
  <2> QED
    BY <1>3, <2>2, <2>3, <2>8 DEF SlotInv, OneHolder
<1> QED
  BY <1>1, <1>2, <1>3 DEF Select

\* A line without the one at place k: those behind move up by one.
LEMMA MovedUp ==
  ASSUME line \in Seq(Requests), NEW k \in 1..Len(line), NEW left, left = Unparked(k)
  PROVE  /\ left \in Seq(Requests) /\ Len(left) = Len(line) - 1
         /\ \A i \in 1..Len(left) : left[i] = line[IF i < k THEN i ELSE i + 1]
<1>1. line \in Seq(Requests) /\ Len(line) \in Nat
  OBVIOUS
<1> DEFINE front == SubSeq(line, 1, k - 1)
           back  == SubSeq(line, k + 1, Len(line))
<1>2. /\ front \in Seq(Requests) /\ Len(front) = k - 1
      /\ \A i \in 1..(k - 1) : front[i] = line[i]
  BY <1>1
<1>3. /\ back \in Seq(Requests) /\ Len(back) = Len(line) - k
      /\ \A i \in 1..(Len(line) - k) : back[i] = line[i + k]
  BY <1>1
<1> HIDE DEF front, back
<1>4. left = front \o back
  BY DEF Unparked, RemoveAt, front, back
<1>5. /\ left \in Seq(Requests) /\ Len(left) = Len(front) + Len(back)
      /\ \A i \in 1..(Len(front) + Len(back)) :
           left[i] = IF i <= Len(front) THEN front[i] ELSE back[i - Len(front)]
  <2>1. front \in Seq(Requests) /\ back \in Seq(Requests)
    BY <1>2, <1>3
  <2> QED
    BY <1>4, <2>1, ConcatProperties
<1>6. Len(left) = Len(line) - 1
  BY <1>1, <1>2, <1>3, <1>5
<1>7. \A i \in 1..(Len(line) - 1) :
        left[i] = IF i <= k - 1 THEN front[i] ELSE back[i - (k - 1)]
  <2>1. Len(front) = k - 1 /\ Len(front) + Len(back) = Len(line) - 1
    BY <1>1, <1>2, <1>3
  <2> QED
    BY <1>5, <2>1
<1>8. \A i \in 1..(k - 1) : left[i] = line[i]
  <2> SUFFICES ASSUME NEW i \in 1..(k - 1) PROVE left[i] = line[i]
    OBVIOUS
  <2>1. i \in 1..(Len(line) - 1) /\ i <= k - 1
    BY <1>1
  <2>2. left[i] = front[i]
    BY <1>7, <2>1
  <2> QED
    BY <1>2, <2>2
<1>9. ASSUME NEW i \in k..(Len(line) - 1) PROVE left[i] = line[i + 1]
  <2>1. left[i] = back[i - (k - 1)] /\ i - (k - 1) \in 1..(Len(line) - k)
    <3>1. i \in 1..(Len(line) - 1) /\ ~(i <= k - 1) /\ i - (k - 1) \in 1..(Len(line) - k)
      BY <1>1
    <3> QED
      BY <1>7, <3>1
  <2> QED
    BY <1>1, <1>3, <2>1
<1>10. ASSUME NEW i \in 1..(Len(line) - 1)
       PROVE  left[i] = line[IF i < k THEN i ELSE i + 1]
  <2>1. CASE i < k
    <3>1. i \in 1..(k - 1)
      BY <2>1
    <3> QED
      BY <1>8, <2>1, <3>1
  <2>2. CASE ~(i < k)
    <3>1. i \in k..(Len(line) - 1)
      BY <2>2
    <3> QED
      BY <1>9, <2>2, <3>1
  <2> QED
    BY <2>1, <2>2
<1> QED
  BY <1>5, <1>6, <1>10

LEMMA SlotGiveUp == ASSUME SlotInv, NEW r \in Requests, GiveUp(r) PROVE SlotInv'
<1>1. PICK k \in 1..Len(line) : line[k] = r /\ line' = Unparked(k)
  BY DEF GiveUp
<1>2. pc[r] = "parked" /\ pc' = [pc EXCEPT ![r] = "refusing"] /\ slot' = slot
  BY DEF GiveUp, At, Goes
<1>3. line \in Seq(Requests) /\ Len(line) \in Nat
  BY DEF SlotInv, Types
<1>4. /\ line' \in Seq(Requests) /\ Len(line') = Len(line) - 1
      /\ \A i \in 1..Len(line') : line'[i] = line[IF i < k THEN i ELSE i + 1]
  BY <1>1, <1>3, MovedUp
<1>5. \A i \in 1..Len(line') :
        (IF i < k THEN i ELSE i + 1) \in (1..Len(line)) \ {k}
  BY <1>1, <1>3, <1>4
<1>6. Streams' = Streams
  BY <1>2 DEF SlotInv, Types, Streams, Streaming
<1>7. Types'
  BY <1>2, <1>4 DEF SlotInv, Types, Places
<1>8. InLine'
  <2>1. \A i \in 1..Len(line') : line'[i] \in Requests \ {r}
    BY <1>1, <1>3, <1>4, <1>5 DEF SlotInv, InLine
  <2>2. \A i \in 1..Len(line') : slot' = 1 /\ pc'[line'[i]] = "parked"
    BY <1>2, <1>4, <1>5, <2>1 DEF SlotInv, InLine, Types
  <2>3. ASSUME NEW i \in 1..Len(line'), NEW j \in 1..Len(line'), line'[i] = line'[j]
        PROVE  i = j
    <3> DEFINE old(n) == IF n < k THEN n ELSE n + 1
    <3>1. old(i) \in 1..Len(line) /\ old(j) \in 1..Len(line)
      BY <1>5
    <3>2. line[old(i)] = line[old(j)]
      BY <1>4, <2>3
    <3>3. old(i) = old(j)
      BY <3>1, <3>2 DEF SlotInv, InLine
    <3> QED
      BY <1>3, <1>4, <3>3
  <2> QED
    BY <2>2, <2>3 DEF InLine
<1> QED
  BY <1>2, <1>6, <1>7, <1>8 DEF SlotInv, OneHolder

LEMMA SlotRelease == ASSUME SlotInv, NEW r \in Requests, Release(r) PROVE SlotInv'
<1>1. pc[r] = "releasing" /\ Streams = {r} /\ slot = 1
  BY DEF Release, At, SlotInv, OneHolder, Streams, Streaming
<1>2. CASE line = <<>>
  <2>1. slot' = 0 /\ pc' = [pc EXCEPT ![r] = "over"] /\ line' = <<>>
    BY <1>1, <1>2 DEF Release, Goes
  <2>2. Streams' = {}
    BY <1>1, <2>1 DEF SlotInv, Types, Streams, Streaming
  <2> QED
    BY <2>1, <2>2 DEF SlotInv, Types, OneHolder, InLine, Places, Over
<1>3. CASE line # <<>>
  <2> DEFINE h == Head(line)
  <2>1. /\ slot' = 1 /\ line' = Tail(line)
        /\ pc' = [pc EXCEPT ![r] = "over", ![h] = "granted"]
    BY <1>1, <1>3 DEF Release
  <2>2. h \in Requests /\ pc[h] = "parked" /\ h = line[1]
    BY <1>3 DEF SlotInv, Types, InLine
  <2>3. pc'[h] = "granted" /\ pc'[r] = "over"
        /\ \A q \in Requests \ {h, r} : pc'[q] = pc[q]
    BY <1>1, <2>1, <2>2 DEF SlotInv, Types
  <2>4. Streams' = {h}
    BY <1>1, <2>2, <2>3 DEF Streams, Streaming
  <2>5. Types'
    BY <1>3, <2>1, <2>2 DEF SlotInv, Types, Places, Over, Streaming
  <2>6. Len(line') = Len(line) - 1 /\ \A i \in 1..Len(line') : line'[i] = line[i + 1]
    BY <1>3, <2>1 DEF SlotInv, Types
  <2>7. \A i \in 1..Len(line') : i + 1 \in (1..Len(line)) \ {1}
    BY <2>6 DEF SlotInv, Types
  <2>8. \A i \in 1..Len(line') : line'[i] \in Requests \ {h, r}
    BY <1>1, <2>2, <2>6, <2>7 DEF SlotInv, Types, InLine
  <2>9. \A i \in 1..Len(line') : pc'[line'[i]] = "parked"
    BY <2>3, <2>6, <2>7, <2>8 DEF SlotInv, InLine
  <2>10. \A i, j \in 1..Len(line') : line'[i] = line'[j] => i = j
    BY <2>6, <2>7 DEF SlotInv, InLine
  <2> QED
    BY <2>1, <2>2, <2>4, <2>5, <2>9, <2>10 DEF SlotInv, OneHolder, InLine
<1> QED
  BY <1>2, <1>3

LEMMA SlotNext == SlotInv /\ [Next]_vars => SlotInv'
<1> SUFFICES ASSUME SlotInv, [Next]_vars PROVE SlotInv'
  OBVIOUS
<1>1. CASE UNCHANGED vars
  BY <1>1, SlotUntouched DEF vars
<1>2. CASE Shutdown
  BY <1>2, SlotUntouched DEF Shutdown
<1>3. CASE Exit
  BY <1>3 DEF Exit, SlotInv, Types, OneHolder, InLine, Streams, Streaming, Over, Places
<1>4. ASSUME NEW r \in Requests, Handle(r) PROVE SlotInv'
  <2>1. CASE Ask(r) \/ Select(r) \/ GiveUp(r) \/ Release(r)
    BY <2>1, SlotAsk, SlotSelect, SlotGiveUp, SlotRelease
  <2>2. CASE Refuse(r)
    BY <2>2, KeepsSlot DEF Refuse, At, Places, Over, Streaming
  <2>3. CASE Begin(r) \/ DecideItem(r) \/ LogItem(r) \/ Report(r)
    BY <2>3, KeepsSlot
       DEF Begin, DecideItem, LogItem, Report, AfterReport, At, Places, Streaming
  <2>4. CASE EmitItem(r) \/ EndRun(r) \/ SendClosing(r)
    <3>1. PICK place \in Streaming : Goes(r, place)
      BY <2>4 DEF EmitItem, EndRun, SendClosing, AfterLostRow, Streaming
    <3> QED
      BY <2>4, <3>1, KeepsSlot
         DEF EmitItem, EndRun, SendClosing, At, Places, Streaming
  <2> QED
    BY <1>4, <2>1, <2>2, <2>3, <2>4 DEF Handle, Acquire, Stream
<1>5. ASSUME NEW r \in Requests, World(r) PROVE SlotInv'
  <2>1. CASE Arrive(r)
    BY <2>1, KeepsSlot DEF Arrive, Places, Streaming
  <2>2. CASE Leave(r) \/ Cancel(r) \/ QueueWaitEnds(r) \/ Deadline(r)
    BY <2>2, SlotUntouched DEF Leave, Cancel, QueueWaitEnds, Deadline
  <2> QED
    BY <1>5, <2>1, <2>2 DEF World
<1> QED
  BY <1>1, <1>2, <1>3, <1>4, <1>5 DEF Next

\* Whoever streams has the slot, nobody else has it, and nobody is parked
\* while it is free, for any number of visits.
THEOREM SlotIsTheStreamAlways == Spec => []SlotIsTheStream
<1>1. OneHolder => Cardinality(Streams) = slot /\ slot <= 1
  <2>1. ASSUME Streams = {}, slot = 0 PROVE Cardinality(Streams) = slot /\ slot <= 1
    BY <2>1, FS_EmptySet
  <2>2. ASSUME NEW h \in Requests, Streams = {h}, slot = 1
        PROVE  Cardinality(Streams) = slot /\ slot <= 1
    BY <2>2, FS_Singleton
  <2> QED
    BY <2>1, <2>2 DEF OneHolder
<1>2. SlotInv => SlotIsTheStream
  BY <1>1 DEF SlotInv, InLine, SlotIsTheStream
<1> QED
  BY <1>2, SlotInit, SlotNext, PTL DEF Spec

-----------------------------------------------------------------------------
(* What a request was told, and when its work stops.                       *)

\* The first n events of a run that is told whole.
Shape(events, n) ==
  /\ Len(events) = n
  /\ \A i \in 1..n : events[i] = IF i <= Items THEN "item" ELSE Closing[i - Items]

Undone(events) == "done" \notin Range(events)

\* A stream may end short for these two reasons only.
Excused(v) == v.reader = "left" \/ v.expired

\* The item at hand was taken up before the context ended, at these places.
ItemAtHand == {"pacing", "reporting", "releasing"}

\* The place of a request says what it was told and what may have failed.
Story(place, v) ==
  /\ v.gone => v.reader = "left"
  /\ v.failed => Excused(v)
  /\ place \notin Streaming \ {"granted"} =>
       v.told = <<>> /\ v.decided = 0 /\ ~v.failed /\ ~v.expired
  /\ place \in {"deciding", "logging"} => Shape(v.told, v.decided)
  /\ place = "pacing" => v.decided > 0 /\ Shape(v.told, v.decided - 1)
  /\ place = "closing" =>
       v.decided = Items /\ \E k \in 0..4 : Shape(v.told, Items + k)
  /\ place = "reporting" => Excused(v) /\ Undone(v.told)
  /\ place = "releasing" => Whole(v.told) \/ (Excused(v) /\ Undone(v.told))
  /\ v.gone \/ v.expired =>
       v.decided <= v.deaf + (IF place \in ItemAtHand THEN 1 ELSE 0)

Stories ==
  /\ visit \in [Requests -> VisitType]
  /\ \A r \in Requests : Story(pc[r], visit[r])

Inv == SlotInv /\ Stories /\ queueWaits \in BOOLEAN /\ process \in {"up", "stopping", "down"}

LEMMA FreshStory ==
  ASSUME NEW place \in Places \ (Streaming \ {"granted"})
  PROVE  Fresh \in VisitType /\ Story(place, Fresh)
<1>1. Fresh \in VisitType
  BY DemoAssumption DEF Fresh, VisitType
<1>2. /\ Fresh.reader = "there" /\ ~Fresh.gone /\ ~Fresh.expired /\ ~Fresh.failed
      /\ Fresh.told = <<>> /\ Fresh.decided = 0
  BY DEF Fresh
<1> QED
  BY <1>1, <1>2 DEF Story, Streaming

\* A run that was not told to its end was not told "done".
LEMMA ShapeUndone ==
  ASSUME NEW events \in Seq(Events), NEW n \in 0..(Items + 4), Shape(events, n)
  PROVE  Undone(events)
<1>1. \A k \in 1..4 : Closing[k] # "done"
  BY DEF Closing
<1>2. ASSUME NEW i \in 1..n PROVE events[i] # "done"
  <2>1. CASE i <= Items
    BY <2>1 DEF Shape
  <2>2. CASE ~(i <= Items)
    <3>1. i - Items \in 1..4
      BY <2>2, DemoAssumption
    <3> QED
      BY <2>2, <3>1, <1>1 DEF Shape
  <2> QED
    BY <2>1, <2>2
<1> QED
  BY <1>2 DEF Shape, Undone, Range

LEMMA ShapeGrows ==
  ASSUME NEW events \in Seq(Events), NEW n \in 0..(Items + 4), Shape(events, n),
         NEW e \in Events, e = IF n < Items THEN "item" ELSE Closing[n + 1 - Items]
  PROVE  Shape(Append(events, e), n + 1)
<1>1. /\ Len(Append(events, e)) = n + 1
      /\ \A i \in 1..n : Append(events, e)[i] = events[i]
      /\ Append(events, e)[n + 1] = e
  BY DEF Shape
<1>2. \A i \in 1..(n + 1) : i \in 1..n \/ i = n + 1
  BY DemoAssumption
<1>3. (n + 1 <= Items) <=> n < Items
  BY DemoAssumption
<1>4. \A i \in 1..n :
        Append(events, e)[i] = IF i <= Items THEN "item" ELSE Closing[i - Items]
  BY <1>1 DEF Shape
<1>5. ASSUME NEW i \in 1..(n + 1)
      PROVE  Append(events, e)[i] = IF i <= Items THEN "item" ELSE Closing[i - Items]
  <2>1. CASE i \in 1..n
    BY <1>4, <2>1
  <2>2. CASE i = n + 1
    <3>1. Append(events, e)[i] = e
      BY <1>1, <2>2
    <3>2. (i <= Items <=> n < Items) /\ i - Items = n + 1 - Items
      BY <1>3, <2>2, DemoAssumption
    <3> QED
      BY <3>1, <3>2
  <2> QED
    BY <1>2, <2>1, <2>2
<1> QED
  BY <1>1, <1>5 DEF Shape

LEMMA ShapeWhole ==
  ASSUME NEW events \in Seq(Events), Shape(events, Items + 5)
  PROVE  Whole(events)
<1>1. Closing[4] = "summary" /\ Closing[5] = "done"
  BY DEF Closing
<1>2. Len(events) = Items + 5 /\ Len(events) > Items
  BY DemoAssumption DEF Shape
<1>3. \A i \in 1..Items : events[i] = "item"
  BY DemoAssumption DEF Shape
<1>4. events[Items + 4] = "summary" /\ events[Items + 5] = "done"
  BY <1>1, DemoAssumption DEF Shape
<1>5. Last(events) = "done"
  BY <1>2, <1>4 DEF Last
<1>6. "summary" \in Range(Front(events))
  <2>1. /\ Len(Front(events)) = Items + 4
        /\ Front(events)[Items + 4] = events[Items + 4]
        /\ Items + 4 \in DOMAIN Front(events)
    BY <1>2, DemoAssumption DEF Front
  <2> QED
    BY <1>4, <2>1 DEF Range
<1> QED
  BY <1>2, <1>3, <1>5, <1>6 DEF Whole

\* A step that leaves the stories of the other requests alone.
LEMMA OthersKept ==
  ASSUME Inv, NEW r \in Requests, NEW v, NEW place \in Places,
         visit' = [visit EXCEPT ![r] = v], pc' = [pc EXCEPT ![r] = place],
         v \in VisitType, Story(place, v)
  PROVE  Stories'
<1>1. visit' \in [Requests -> VisitType]
  BY DEF Inv, Stories
<1>2. ASSUME NEW o \in Requests PROVE Story(pc'[o], visit'[o])
  <2>1. CASE o = r
    BY <2>1 DEF Inv, SlotInv, Types, Stories
  <2>2. CASE o # r
    <3>1. pc'[o] = pc[o] /\ visit'[o] = visit[o]
      BY <2>2 DEF Inv, SlotInv, Types, Stories
    <3> QED
      BY <3>1 DEF Inv, Stories
  <2> QED
    BY <2>1, <2>2
<1> QED
  BY <1>1, <1>2 DEF Stories

\* A step that only moves one request, to a place with the same story.
LEMMA StoryMoves ==
  ASSUME Inv, NEW r \in Requests, NEW place \in Places,
         Goes(r, place), UNCHANGED visit, Story(place, visit[r])
  PROVE  Stories'
<1>1. visit' = [visit EXCEPT ![r] = visit[r]] /\ visit[r] \in VisitType
  BY DEF Inv, Stories
<1> QED
  BY <1>1, OthersKept DEF Goes

LEMMA StoryAcquire == ASSUME Inv, NEW r \in Requests, Acquire(r) \/ Arrive(r) PROVE Stories'
<1>1. CASE Refuse(r)
  <2>1. "refused" \in Places \ (Streaming \ {"granted"})
    BY DEF Places, Over, Streaming
  <2> QED
    BY <1>1, <2>1, FreshStory, OthersKept DEF Refuse, Goes, Forgets
<1>2. CASE ~Refuse(r)
  <2>1. PICK place \in Places \ (Streaming \ {"granted"}) :
          Goes(r, place) /\ UNCHANGED visit /\ pc[r] \notin Streaming
    BY <1>2 DEF Acquire, Arrive, Ask, Select, GiveUp, TakesSlot, At, Places, Streaming
  <2>2. Story(pc[r], visit[r])
    BY DEF Inv, Stories
  <2>3. Story(place, visit[r])
    BY <2>1, <2>2 DEF Story, ItemAtHand, Streaming
  <2> QED
    BY <2>1, <2>3, StoryMoves
<1> QED
  BY <1>1, <1>2

LEMMA StoryRelease == ASSUME Inv, NEW r \in Requests, Release(r) PROVE Stories'
<1>1. visit' = [visit EXCEPT ![r] = Fresh] /\ pc[r] = "releasing"
  BY DEF Release, Forgets, At
<1>2. "over" \in Places \ (Streaming \ {"granted"})
  BY DEF Places, Over, Streaming
<1>3. CASE line = <<>>
  BY <1>1, <1>2, <1>3, FreshStory, OthersKept DEF Release, Goes
<1>4. CASE line # <<>>
  <2> DEFINE h == Head(line)
  <2>1. pc' = [pc EXCEPT ![r] = "over", ![h] = "granted"]
    BY <1>4 DEF Release
  <2>2. h \in Requests /\ pc[h] = "parked"
    BY <1>4 DEF Inv, SlotInv, Types, InLine
  <2>3. visit' \in [Requests -> VisitType]
    BY <1>1, <1>2, FreshStory DEF Inv, Stories
  <2>4. ASSUME NEW o \in Requests PROVE Story(pc'[o], visit'[o])
    <3>1. Story(pc[o], visit[o])
      BY DEF Inv, Stories
    <3>2. CASE o = r
      BY <1>1, <1>2, <2>1, <2>2, <3>2, FreshStory DEF Inv, SlotInv, Types, Stories
    <3>3. CASE o = h
      <4>1. pc'[o] = "granted" /\ visit'[o] = visit[o] /\ pc[o] = "parked"
        BY <1>1, <2>1, <2>2, <3>3 DEF Inv, SlotInv, Types, Stories
      <4> QED
        BY <3>1, <4>1 DEF Story, ItemAtHand, Streaming
    <3>4. CASE o # r /\ o # h
      <4>1. pc'[o] = pc[o] /\ visit'[o] = visit[o]
        BY <1>1, <2>1, <2>2, <3>4 DEF Inv, SlotInv, Types, Stories
      <4> QED
        BY <3>1, <4>1
    <3> QED
      BY <3>2, <3>3, <3>4
  <2> QED
    BY <2>3, <2>4 DEF Stories
<1> QED
  BY <1>3, <1>4

\* Who may not be told anything is excused.
LEMMA NotWrittenExcused ==
  ASSUME Inv, NEW r \in Requests, NotWritten(r)
  PROVE  Excused(visit[r])
  BY DEF Inv, Stories, Story, NotWritten, CanSend, Ended, Excused

\* A progress line that is sent or lost, after which the run goes on.
LEMMA StoryLogs ==
  ASSUME Inv, NEW r \in Requests, Logs(r), Goes(r, "deciding"),
         pc[r] \in {"granted", "logging"}
  PROVE  Stories'
<1> DEFINE v == visit[r]
<1>1. v \in VisitType /\ Story(pc[r], v)
  BY DEF Inv, Stories
<1>2. "deciding" \in Places
  BY DEF Places, Streaming
<1>3. Story("deciding", v)
  <2>1. pc[r] = "granted" => Shape(v.told, v.decided)
    BY <1>1 DEF Story, Streaming, Shape
  <2> QED
    BY <1>1, <2>1 DEF Story, ItemAtHand, Streaming
<1>4. CASE UNCHANGED visit
  BY <1>2, <1>3, <1>4, StoryMoves
<1>5. CASE NotWritten(r) /\ visit' = [visit EXCEPT ![r].failed = TRUE]
  <2> DEFINE w == [v EXCEPT !.failed = TRUE]
  <2>1. visit' = [visit EXCEPT ![r] = w]
    BY <1>5 DEF Inv, Stories
  <2>2. w \in VisitType
    BY <1>1 DEF VisitType
  <2>3. /\ w.reader = v.reader /\ w.gone = v.gone /\ w.expired = v.expired
        /\ w.told = v.told /\ w.decided = v.decided /\ w.deaf = v.deaf
    BY <1>1 DEF VisitType
  <2>4. Story("deciding", w)
    BY <1>3, <1>5, <2>3, NotWrittenExcused DEF Story, Excused, ItemAtHand, Streaming
  <2> QED
    BY <1>2, <2>1, <2>2, <2>4, OthersKept DEF Goes
<1> QED
  BY <1>4, <1>5 DEF Logs

LEMMA StoryDecideItem == ASSUME Inv, NEW r \in Requests, DecideItem(r) PROVE Stories'
<1> DEFINE v == visit[r]
           w == [v EXCEPT !.decided = v.decided + 1]
<1>1. v \in VisitType /\ Story("deciding", v) /\ v.decided < Items
  BY DEF Inv, Stories, DecideItem, At
<1>2. visit' = [visit EXCEPT ![r] = w]
  BY DEF Inv, Stories, DecideItem
<1>3. w \in VisitType
  BY <1>1, DemoAssumption DEF VisitType
<1>4. /\ w.reader = v.reader /\ w.gone = v.gone /\ w.expired = v.expired
      /\ w.told = v.told /\ w.decided = v.decided + 1 /\ w.deaf = v.deaf
      /\ w.failed = v.failed /\ v.decided \in Nat /\ v.deaf \in Nat
  BY <1>1, DemoAssumption DEF VisitType
<1>5. Story("pacing", w)
  BY <1>1, <1>4 DEF Story, Excused, ItemAtHand, Streaming
<1> QED
  BY <1>2, <1>3, <1>5, OthersKept DEF DecideItem, Goes, Places, Streaming

\* A visit with one more event told.
WithEvent(v, e) == [v EXCEPT !.told = Append(v.told, e)]

\* What an event that goes out adds to a story.
LEMMA Telling ==
  ASSUME Inv, NEW r \in Requests, NEW e \in Events, Tells(r, e)
  PROVE  /\ visit' = [visit EXCEPT ![r] = WithEvent(visit[r], e)]
         /\ WithEvent(visit[r], e) \in VisitType
         /\ WithEvent(visit[r], e).told = Append(visit[r].told, e)
         /\ WithEvent(visit[r], e).decided = visit[r].decided
         /\ WithEvent(visit[r], e).reader = visit[r].reader
         /\ WithEvent(visit[r], e).failed = visit[r].failed
         /\ ~WithEvent(visit[r], e).gone /\ ~WithEvent(visit[r], e).expired
<1> DEFINE v == visit[r]
           w == WithEvent(v, e)
<1>1. v \in VisitType /\ ~v.gone /\ ~v.expired
  BY DEF Inv, Stories, Tells, CanSend, Ended
<1>2. visit' = [visit EXCEPT ![r] = w]
  BY DEF Inv, Stories, Tells, WithEvent
<1>3. Append(v.told, e) \in Seq(Events)
  BY <1>1 DEF VisitType
<1>4. w \in VisitType
  BY <1>1, <1>3 DEF VisitType, WithEvent
<1>5. /\ w.told = Append(v.told, e) /\ w.decided = v.decided /\ w.reader = v.reader
      /\ w.failed = v.failed /\ w.gone = v.gone /\ w.expired = v.expired
  BY <1>1 DEF VisitType, WithEvent
<1> QED
  BY <1>1, <1>2, <1>4, <1>5

LEMMA StoryEmitItem == ASSUME Inv, NEW r \in Requests, EmitItem(r) PROVE Stories'
<1> DEFINE v == visit[r]
<1>1. v \in VisitType /\ Story("pacing", v)
  BY DEF Inv, Stories, EmitItem, At
<1>2. v.decided - 1 \in 0..(Items - 1) /\ Shape(v.told, v.decided - 1) /\ v.told \in Seq(Events)
  BY <1>1, DemoAssumption DEF Story, VisitType, Streaming
<1>3. CASE Tells(r, "item") /\ Goes(r, "logging")
  <2> DEFINE w == WithEvent(v, "item")
  <2>1. /\ visit' = [visit EXCEPT ![r] = w] /\ w \in VisitType
        /\ w.told = Append(v.told, "item") /\ w.decided = v.decided
        /\ w.reader = v.reader /\ w.failed = v.failed /\ ~w.gone /\ ~w.expired
    BY <1>3, Telling DEF Events
  <2>2. ~v.expired
    BY <1>3 DEF Tells, CanSend, Ended
  <2>3. Shape(w.told, v.decided - 1 + 1)
    <3>1. v.decided - 1 \in 0..(Items + 4) /\ v.decided - 1 < Items
      BY <1>2, DemoAssumption
    <3>2. Shape(Append(v.told, "item"), v.decided - 1 + 1)
      BY <1>2, <3>1, ShapeGrows DEF Events
    <3> QED
      BY <2>1, <3>2
  <2>4. Shape(w.told, w.decided)
    BY <1>1, <2>1, <2>3 DEF VisitType
  <2>5. Story("logging", w)
    BY <1>1, <2>1, <2>2, <2>4 DEF Story, Excused, Streaming
  <2> QED
    BY <1>3, <2>1, <2>5, OthersKept DEF Goes, Places, Streaming
<1>4. CASE NotWritten(r) /\ Goes(r, AfterLostRow) /\ UNCHANGED visit
  <2>1. Undone(v.told)
    BY <1>2, ShapeUndone, DemoAssumption
  <2>2. Story("reporting", v)
    BY <1>1, <1>4, <2>1, NotWrittenExcused DEF Story, ItemAtHand, Streaming
  <2> QED
    BY <1>4, <2>2, StoryMoves DEF AfterLostRow, Places, Streaming
<1> QED
  BY <1>3, <1>4 DEF EmitItem

LEMMA StoryEndRun == ASSUME Inv, NEW r \in Requests, EndRun(r) PROVE Stories'
<1> DEFINE v == visit[r]
<1>1. v \in VisitType /\ Story("deciding", v) /\ v.decided = Items
  BY DEF Inv, Stories, EndRun, At
<1>2. Shape(v.told, Items) /\ v.told \in Seq(Events)
  BY <1>1 DEF Story, VisitType
<1>3. CASE ~v.failed /\ Goes(r, "closing")
  <2>1. Shape(v.told, Items + 0) /\ 0 \in 0..4
    BY <1>2, DemoAssumption
  <2>2. Story("closing", v)
    BY <1>1, <2>1 DEF Story, ItemAtHand, Streaming
  <2> QED
    BY <1>3, <2>2, StoryMoves DEF EndRun, Places, Streaming
<1>4. CASE (v.failed \/ NotWritten(r)) /\ Goes(r, "reporting")
  <2>1. Undone(v.told)
    BY <1>2, ShapeUndone, DemoAssumption
  <2>2. Excused(v)
    BY <1>1, <1>4, NotWrittenExcused DEF Story
  <2>3. v.decided \in Nat /\ v.deaf \in Nat
    BY <1>1, DemoAssumption DEF VisitType
  <2>4. Story("reporting", v)
    BY <1>1, <2>1, <2>2, <2>3 DEF Story, ItemAtHand, Streaming
  <2> QED
    BY <1>4, <2>4, StoryMoves DEF EndRun, Places, Streaming
<1> QED
  BY <1>3, <1>4 DEF EndRun

LEMMA StorySendClosing == ASSUME Inv, NEW r \in Requests, SendClosing(r) PROVE Stories'
<1> DEFINE v  == visit[r]
           no == Len(v.told) - Items + 1
<1>1. v \in VisitType /\ Story("closing", v)
  BY DEF Inv, Stories, SendClosing, At
<1>2. PICK k \in 0..4 : Shape(v.told, Items + k)
  BY <1>1 DEF Story
<1>3. v.told \in Seq(Events) /\ no = k + 1 /\ Items + k \in 0..(Items + 4)
  BY <1>1, <1>2, DemoAssumption DEF VisitType, Shape
<1>4. Len(Closing) = 5 /\ Closing[no] \in Events
  <2>1. Len(Closing) = 5 /\ \A i \in 1..5 : Closing[i] \in Events
    BY DEF Closing, Events
  <2>2. no \in 1..5
    BY <1>3
  <2> QED
    BY <2>1, <2>2
<1>5. v.decided \in Nat /\ v.deaf \in Nat
  BY <1>1, DemoAssumption DEF VisitType
<1>6. CASE Tells(r, Closing[no]) /\ Goes(r, IF no = Len(Closing) THEN "releasing" ELSE "closing")
  <2> DEFINE w == WithEvent(v, Closing[no])
  <2>1. /\ visit' = [visit EXCEPT ![r] = w] /\ w \in VisitType
        /\ w.told = Append(v.told, Closing[no]) /\ w.decided = v.decided
        /\ w.reader = v.reader /\ w.failed = v.failed /\ ~w.gone /\ ~w.expired
    BY <1>4, <1>6, Telling
  <2>2. ~v.expired
    BY <1>6 DEF Tells, CanSend, Ended
  <2>3. Shape(w.told, Items + k + 1)
    <3>1. Items + k + 1 - Items = no /\ ~(Items + k < Items)
      BY <1>3, DemoAssumption
    <3> QED
      BY <1>2, <1>3, <1>4, <2>1, <3>1, ShapeGrows
  <2>4. CASE no = Len(Closing)
    <3>1. Whole(w.told)
      <4>1. Items + k + 1 = Items + 5
        BY <1>3, <1>4, <2>4, DemoAssumption
      <4>2. w.told \in Seq(Events)
        BY <2>1 DEF VisitType
      <4> QED
        BY <2>3, <4>1, <4>2, ShapeWhole
    <3>2. Story("releasing", w)
      BY <1>1, <2>1, <2>2, <3>1 DEF Story, Excused, Streaming
    <3> QED
      BY <1>6, <2>1, <2>4, <3>2, OthersKept DEF Goes, Places, Streaming
  <2>5. CASE no # Len(Closing)
    <3>1. \E j \in 0..4 : Shape(w.told, Items + j)
      <4>1. k + 1 \in 0..4 /\ Items + k + 1 = Items + (k + 1)
        BY <1>3, <1>4, <2>5, DemoAssumption
      <4> QED
        BY <2>3, <4>1
    <3>2. Story("closing", w)
      BY <1>1, <2>1, <2>2, <3>1 DEF Story, Excused, Streaming
    <3> QED
      BY <1>6, <2>1, <2>5, <3>2, OthersKept DEF Goes, Places, Streaming
  <2> QED
    BY <2>4, <2>5
<1>7. CASE NotWritten(r) /\ Goes(r, "reporting") /\ UNCHANGED visit
  <2>1. Undone(v.told)
    BY <1>2, <1>3, ShapeUndone
  <2>2. Story("reporting", v)
    BY <1>1, <1>5, <1>7, <2>1, NotWrittenExcused DEF Story, ItemAtHand, Streaming
  <2> QED
    BY <1>7, <2>2, StoryMoves DEF Places, Streaming
<1> QED
  BY <1>6, <1>7 DEF SendClosing

LEMMA StoryReport == ASSUME Inv, NEW r \in Requests, Report(r) PROVE Stories'
<1> DEFINE v == visit[r]
<1>1. v \in VisitType /\ Story("reporting", v) /\ Goes(r, "releasing")
  BY DEF Inv, Stories, Report, AfterReport, At
<1>2. CASE Tells(r, "error")
  <2> DEFINE w == WithEvent(v, "error")
  <2>1. /\ visit' = [visit EXCEPT ![r] = w] /\ w \in VisitType
        /\ w.told = Append(v.told, "error") /\ w.decided = v.decided
        /\ w.reader = v.reader /\ w.failed = v.failed /\ ~w.gone /\ ~w.expired
    BY <1>2, Telling DEF Events
  <2>2. ~v.expired
    BY <1>2 DEF Tells, CanSend, Ended
  <2>3. Undone(w.told)
    <3>1. v.told \in Seq(Events) /\ Undone(v.told)
      BY <1>1 DEF VisitType, Story
    <3>2. /\ DOMAIN w.told = 1..(Len(v.told) + 1)
          /\ \A i \in 1..Len(v.told) : w.told[i] = v.told[i]
          /\ w.told[Len(v.told) + 1] = "error"
      BY <2>1, <3>1
    <3>3. \A i \in 1..Len(v.told) : v.told[i] # "done"
      BY <3>1 DEF Undone, Range
    <3>4. \A i \in DOMAIN w.told : i \in 1..Len(v.told) \/ i = Len(v.told) + 1
      BY <3>1, <3>2
    <3> QED
      BY <3>2, <3>3, <3>4 DEF Undone, Range
  <2>4. Story("releasing", w)
    BY <1>1, <2>1, <2>2, <2>3 DEF Story, Excused, Streaming
  <2> QED
    BY <1>1, <2>1, <2>4, OthersKept DEF Goes, Places, Streaming
<1>3. CASE UNCHANGED visit
  <2>1. Story("releasing", v)
    BY <1>1 DEF Story, ItemAtHand, Streaming
  <2> QED
    BY <1>1, <1>3, <2>1, StoryMoves DEF Places, Streaming
<1> QED
  BY <1>2, <1>3 DEF Report

\* Readers who leave and timers that go off.
LEMMA StoryWorld ==
  ASSUME Inv, NEW r \in Requests,
         Leave(r) \/ Cancel(r) \/ QueueWaitEnds(r) \/ Deadline(r)
  PROVE  Stories'
<1> DEFINE v == visit[r]
<1>1. v \in VisitType /\ Story(pc[r], v) /\ pc[r] \in Places
  BY DEF Inv, Stories, SlotInv, Types
<1>2. pc' = [pc EXCEPT ![r] = pc[r]]
  BY DEF Leave, Cancel, QueueWaitEnds, Deadline, Inv, SlotInv, Types
<1>3. v.decided \in 0..Items /\ v.deaf \in 0..Items /\ Items \in Nat
  BY <1>1, DemoAssumption DEF VisitType
<1>4. CASE Leave(r)
  <2> DEFINE w == [v EXCEPT !.reader = "left"]
  <2>1. visit' = [visit EXCEPT ![r] = w] /\ w \in VisitType
    BY <1>1, <1>4 DEF Leave, VisitType, Inv, Stories
  <2>2. /\ w.told = v.told /\ w.decided = v.decided /\ w.deaf = v.deaf /\ w.reader = "left"
        /\ w.gone = v.gone /\ w.expired = v.expired /\ w.failed = v.failed
    BY <1>1 DEF VisitType
  <2>3. Story(pc[r], w)
    BY <1>1, <2>2 DEF Story, Excused
  <2> QED
    BY <1>1, <1>2, <2>1, <2>3, OthersKept
<1>5. CASE Cancel(r)
  <2> DEFINE w == [v EXCEPT !.gone = TRUE, !.deaf = Noted(r)]
  <2>1. Noted(r) \in 0..Items
    BY <1>3 DEF Noted
  <2>2. visit' = [visit EXCEPT ![r] = w] /\ w \in VisitType /\ v.reader = "left"
    BY <1>1, <1>5, <2>1 DEF Cancel, VisitType, Inv, Stories
  <2>3. /\ w.told = v.told /\ w.decided = v.decided /\ w.deaf = Noted(r) /\ w.reader = v.reader
        /\ w.gone /\ w.expired = v.expired /\ w.failed = v.failed
    BY <1>1 DEF VisitType
  <2>4. Story(pc[r], w)
    BY <1>1, <1>3, <2>1, <2>2, <2>3 DEF Story, Excused, Noted, Ended
  <2> QED
    BY <1>1, <1>2, <2>2, <2>4, OthersKept
<1>6. CASE QueueWaitEnds(r)
  <2> DEFINE w == [v EXCEPT !.elapsed = TRUE]
  <2>1. visit' = [visit EXCEPT ![r] = w] /\ w \in VisitType
    BY <1>1, <1>6 DEF QueueWaitEnds, VisitType, Inv, Stories
  <2>2. /\ w.told = v.told /\ w.decided = v.decided /\ w.deaf = v.deaf /\ w.reader = v.reader
        /\ w.gone = v.gone /\ w.expired = v.expired /\ w.failed = v.failed
    BY <1>1 DEF VisitType
  <2>3. Story(pc[r], w)
    BY <1>1, <2>2 DEF Story, Excused
  <2> QED
    BY <1>1, <1>2, <2>1, <2>3, OthersKept
<1>7. CASE Deadline(r)
  <2> DEFINE w == [v EXCEPT !.expired = TRUE, !.deaf = Noted(r)]
  <2>1. Noted(r) \in 0..Items
    BY <1>3 DEF Noted
  <2>2. visit' = [visit EXCEPT ![r] = w] /\ w \in VisitType /\ pc[r] \in Streaming \ {"granted"}
    BY <1>1, <1>7, <2>1 DEF Deadline, VisitType, Inv, Stories
  <2>3. /\ w.told = v.told /\ w.decided = v.decided /\ w.deaf = Noted(r) /\ w.reader = v.reader
        /\ w.gone = v.gone /\ w.expired /\ w.failed = v.failed
    BY <1>1 DEF VisitType
  <2>4. Story(pc[r], w)
    BY <1>1, <1>3, <2>1, <2>2, <2>3 DEF Story, Excused, Noted, Ended
  <2> QED
    BY <1>1, <1>2, <2>2, <2>4, OthersKept
<1> QED
  BY <1>4, <1>5, <1>6, <1>7

-----------------------------------------------------------------------------
LEMMA InvInit == Init => Inv
<1> SUFFICES ASSUME Init PROVE Inv
  OBVIOUS
<1>1. SlotInv
  BY SlotInit
<1>2. "away" \in Places \ (Streaming \ {"granted"})
  BY DEF Places, Streaming
<1>3. Stories
  BY <1>2, FreshStory DEF Init, Stories
<1> QED
  BY <1>1, <1>3 DEF Init, Inv

LEMMA InvNext == Inv /\ [Next]_vars => Inv'
<1> SUFFICES ASSUME Inv, [Next]_vars PROVE Inv'
  OBVIOUS
<1>1. SlotInv'
  BY SlotNext DEF Inv
<1>2. Stories' /\ queueWaits' \in BOOLEAN /\ process' \in {"up", "stopping", "down"}
  <2>1. CASE UNCHANGED vars
    BY <2>1 DEF vars, server, Inv, Stories
  <2>2. CASE Shutdown
    BY <2>2 DEF Shutdown, Inv, Stories
  <2>3. CASE Exit
    <3>1. "over" \in Places \ (Streaming \ {"granted"})
      BY DEF Places, Over, Streaming
    <3>2. \A r \in Requests : pc'[r] = "over" /\ visit'[r] = Fresh
      BY <2>3 DEF Exit
    <3>3. visit' \in [Requests -> VisitType]
      BY <2>3, <3>1, FreshStory DEF Exit
    <3>4. Stories'
      BY <3>1, <3>2, <3>3, FreshStory DEF Stories
    <3> QED
      BY <2>3, <3>4 DEF Exit, Inv
  <2>4. ASSUME NEW r \in Requests, Handle(r)
        PROVE  Stories' /\ UNCHANGED server
    <3>1. CASE Acquire(r)
      BY <3>1, StoryAcquire DEF Acquire, Ask, Select, GiveUp, Refuse
    <3>2. CASE Begin(r)
      BY <3>2, StoryLogs DEF Begin, At
    <3>3. CASE LogItem(r)
      BY <3>3, StoryLogs DEF LogItem, At
    <3>4. CASE DecideItem(r)
      BY <3>4, StoryDecideItem DEF DecideItem
    <3>5. CASE EmitItem(r)
      BY <3>5, StoryEmitItem DEF EmitItem
    <3>6. CASE EndRun(r)
      BY <3>6, StoryEndRun DEF EndRun
    <3>7. CASE SendClosing(r)
      BY <3>7, StorySendClosing DEF SendClosing
    <3>8. CASE Report(r)
      BY <3>8, StoryReport DEF Report
    <3>9. CASE Release(r)
      BY <3>9, StoryRelease DEF Release
    <3> QED
      BY <2>4, <3>1, <3>2, <3>3, <3>4, <3>5, <3>6, <3>7, <3>8, <3>9 DEF Handle, Stream
  <2>5. ASSUME NEW r \in Requests, World(r)
        PROVE  Stories' /\ UNCHANGED server
    <3>1. CASE Arrive(r)
      BY <3>1, StoryAcquire DEF Arrive
    <3>2. CASE Leave(r) \/ Cancel(r) \/ QueueWaitEnds(r) \/ Deadline(r)
      BY <3>2, StoryWorld DEF Leave, Cancel, QueueWaitEnds, Deadline
    <3> QED
      BY <2>5, <3>1, <3>2 DEF World
  <2> QED
    BY <2>1, <2>2, <2>3, <2>4, <2>5 DEF Next, Inv, server
<1> QED
  BY <1>1, <1>2 DEF Inv

THEOREM InvAlways == Spec => []Inv
  BY InvInit, InvNext, PTL DEF Spec

\* Every variable keeps its type, for any visits and any book.
THEOREM TypeCorrect == Spec => []TypeOK
<1>1. Inv => TypeOK
  BY DEF Inv, SlotInv, Types, Places, Stories, TypeOK
<1> QED
  BY <1>1, InvAlways, PTL

\* A reader who stayed is told the whole run or was cut off by the deadline,
\* and "done" is never told of less.
THEOREM StreamsEndToldAlways == Spec => []StreamsEndTold
<1>1. ASSUME Inv, NEW r \in Requests
      PROVE  LET v == visit[r]
             IN /\ "done" \in Range(v.told) => Whole(v.told)
                /\ pc[r] = "releasing" /\ v.reader = "there" /\ ~v.expired => Whole(v.told)
                /\ pc[r] = "refusing" => v.told = <<>> /\ v.decided = 0
  <2> DEFINE v == visit[r]
  <2>1. v \in VisitType /\ Story(pc[r], v) /\ pc[r] \in Places
    BY <1>1 DEF Inv, Stories, SlotInv, Types
  <2>2. v.told \in Seq(Events) /\ v.decided \in 0..Items
    BY <2>1 DEF VisitType
  <2>3. pc[r] = "refusing" => v.told = <<>> /\ v.decided = 0
    BY <2>1 DEF Story, Streaming
  <2>4. pc[r] = "releasing" /\ v.reader = "there" /\ ~v.expired => Whole(v.told)
    BY <2>1 DEF Story, Excused
  <2>5. ASSUME "done" \in Range(v.told) PROVE Whole(v.told)
    <3>1. CASE pc[r] \notin Streaming \ {"granted"}
      BY <2>1, <2>5, <3>1 DEF Story, Range
    <3>2. CASE pc[r] \in {"deciding", "logging"}
      <4>1. v.decided \in 0..(Items + 4) /\ Shape(v.told, v.decided)
        BY <2>1, <2>2, <3>2, DemoAssumption DEF Story
      <4> QED
        BY <2>2, <2>5, <4>1, ShapeUndone DEF Undone
    <3>3. CASE pc[r] = "pacing"
      <4>1. v.decided - 1 \in 0..(Items + 4) /\ Shape(v.told, v.decided - 1)
        BY <2>1, <2>2, <3>3, DemoAssumption DEF Story
      <4> QED
        BY <2>2, <2>5, <4>1, ShapeUndone DEF Undone
    <3>4. CASE pc[r] = "closing"
      <4>1. PICK k \in 0..4 : Shape(v.told, Items + k)
        BY <2>1, <3>4 DEF Story
      <4>2. Items + k \in 0..(Items + 4)
        BY DemoAssumption
      <4> QED
        BY <2>2, <2>5, <4>1, <4>2, ShapeUndone DEF Undone
    <3>5. CASE pc[r] \in {"reporting", "releasing"}
      BY <2>1, <2>5, <3>5 DEF Story, Undone
    <3> QED
      BY <3>1, <3>2, <3>3, <3>4, <3>5 DEF Streaming
  <2> QED
    BY <2>3, <2>4, <2>5
<1>2. Inv => StreamsEndTold
  BY <1>1 DEF StreamsEndTold
<1> QED
  BY <1>2, InvAlways, PTL

\* A run takes up no further item once its context has ended.
THEOREM WorkStopsAlways == Spec => []WorkStopsWithTheReader
<1>1. Inv => WorkStopsWithTheReader
  <2> SUFFICES ASSUME Inv, NEW r \in Requests, Ended(r)
               PROVE  visit[r].decided <= visit[r].deaf + 1
    BY DEF WorkStopsWithTheReader
  <2>1. visit[r] \in VisitType /\ Story(pc[r], visit[r])
    BY DEF Inv, Stories
  <2> QED
    BY <2>1, DemoAssumption DEF Story, Ended, VisitType
<1> QED
  BY <1>1, InvAlways, PTL
-----------------------------------------------------------------------------
(* Why every request is answered.                                          *)

\* The steps a request may still take: three for every item, one for every
\* closing event, and the few on the way to the slot and away from it.
StepsLeft(place, v) ==
  LET run == 8 + 3 * (Items - v.decided)
  IN  CASE place = "asking"    -> run + 4
        [] place = "selecting" -> run + 3
        [] place = "parked"    -> run + 2
        [] place = "granted"   -> run + 1
        [] place = "deciding"  -> run
        [] place = "pacing"    -> run + 2
        [] place = "logging"   -> run + 1
        [] place = "closing"   -> 7 + Items - Len(v.told)
        [] place = "reporting" -> 2
        [] place \in {"releasing", "refusing"} -> 1
        [] OTHER -> 0

Left(r) == StepsLeft(pc[r], visit[r])

LEMMA StepsAreNat ==
  ASSUME NEW place \in Places, NEW v \in VisitType, Story(place, v)
  PROVE  StepsLeft(place, v) \in Nat
<1>1. Items \in Nat /\ v.decided \in 0..Items
  BY DemoAssumption DEF VisitType
<1>2. 8 + 3 * (Items - v.decided) \in Nat
  BY <1>1
<1>3. ASSUME place = "closing" PROVE 7 + Items - Len(v.told) \in Nat
  <2>1. PICK k \in 0..4 : Shape(v.told, Items + k)
    BY <1>3 DEF Story
  <2> QED
    BY <1>1, <2>1 DEF Shape
<1>4. CASE place = "closing"
  BY <1>3, <1>4 DEF StepsLeft
<1>5. CASE place # "closing"
  BY <1>2, <1>5 DEF StepsLeft, Places, Streaming, Over
<1> QED
  BY <1>4, <1>5

LEMMA LeftIsNat == ASSUME Inv, NEW r \in Requests PROVE Left(r) \in Nat
  BY StepsAreNat DEF Inv, Stories, SlotInv, Types, Left

\* A request that a step leaves where it is, with what it was told and decided.
LEMMA Stays ==
  ASSUME Inv, NEW r \in Requests, pc'[r] = pc[r],
         visit'[r].decided = visit[r].decided, visit'[r].told = visit[r].told
  PROVE  Left(r)' = Left(r)
  BY DEF Left, StepsLeft

\* A step of another request leaves this one where it is, or lets it have the
\* slot it waited for.
LEMMA OthersNoLonger ==
  ASSUME Inv, NEW r \in Requests, NEW q \in Requests \ {r}, Handle(q) \/ World(q)
  PROVE  Left(r)' <= Left(r)
<1>1. Left(r) \in Nat
  BY LeftIsNat
<1>2. visit'[r] = visit[r]
  BY DEF Inv, Stories, Handle, World, Acquire, Stream, Ask, Select, GiveUp, Refuse, Begin,
         DecideItem, EmitItem, LogItem, EndRun, SendClosing, Report, Release, Arrive, Leave,
         Cancel, QueueWaitEnds, Deadline, Forgets, Logs, Tells
<1>3. CASE pc'[r] = pc[r]
  BY <1>1, <1>2, <1>3, Stays
<1>4. CASE pc'[r] # pc[r]
  <2>1. Release(q) /\ line # <<>>
    BY <1>4 DEF Inv, SlotInv, Types, Handle, World, Acquire, Stream, Ask, Select, GiveUp,
                Refuse, Begin, DecideItem, EmitItem, LogItem, EndRun, SendClosing, Report,
                Release, Arrive, Leave, Cancel, QueueWaitEnds, Deadline, Goes, TakesSlot
  <2>2. pc' = [pc EXCEPT ![q] = "over", ![Head(line)] = "granted"]
    BY <2>1 DEF Release
  <2>3. Head(line) = line[1] /\ 1 \in 1..Len(line)
    BY <2>1 DEF Inv, SlotInv, Types
  <2>4. pc[r] = "parked" /\ pc'[r] = "granted"
    BY <1>4, <2>2, <2>3 DEF Inv, SlotInv, Types, InLine
  <2>5. visit[r].decided \in Nat /\ Items \in Nat
    BY DemoAssumption DEF Inv, Stories, VisitType
  <2> QED
    BY <1>2, <2>4, <2>5 DEF Left, StepsLeft
<1> QED
  BY <1>3, <1>4

\* Every step of the handler brings its request nearer to its end.
LEMMA HandlerGoesOn ==
  ASSUME Inv, NEW r \in Requests, Handle(r)
  PROVE  Left(r)' < Left(r)
<1> DEFINE v == visit[r]
<1>1. /\ v \in VisitType /\ Story(pc[r], v) /\ Items \in Nat
      /\ pc \in [Requests -> Places] /\ visit \in [Requests -> VisitType]
  BY DemoAssumption DEF Inv, Stories, SlotInv, Types
<1>2. v.decided \in 0..Items /\ v.told \in Seq(Events)
  BY <1>1 DEF VisitType
<1>3. CASE Ask(r) \/ Select(r) \/ GiveUp(r)
  <2>1. UNCHANGED visit
    BY <1>3 DEF Ask, Select, GiveUp
  <2>2. \/ pc[r] = "asking" /\ pc'[r] \in {"granted", "selecting", "refusing"}
        \/ pc[r] = "selecting" /\ pc'[r] \in {"granted", "parked", "refusing"}
        \/ pc[r] = "parked" /\ pc'[r] = "refusing"
    BY <1>1, <1>3 DEF Ask, Select, GiveUp, At, Goes, TakesSlot
  <2> QED
    BY <1>1, <1>2, <2>1, <2>2 DEF Left, StepsLeft
<1>4. CASE Refuse(r)
  <2>1. pc[r] = "refusing" /\ pc'[r] = "refused"
    BY <1>1, <1>4 DEF Refuse, At, Goes
  <2> QED
    BY <2>1 DEF Left, StepsLeft
<1>5. CASE Begin(r) \/ LogItem(r)
  <2>1. pc[r] \in {"granted", "logging"} /\ pc'[r] = "deciding"
    BY <1>1, <1>5 DEF Begin, LogItem, At, Goes
  <2>2. visit'[r].decided = v.decided
    BY <1>1, <1>5 DEF Begin, LogItem, Logs, VisitType
  <2> QED
    BY <1>1, <1>2, <2>1, <2>2 DEF Left, StepsLeft
<1>6. CASE DecideItem(r)
  <2>1. pc[r] = "deciding" /\ pc'[r] = "pacing"
    BY <1>1, <1>6 DEF DecideItem, At, Goes
  <2>2. visit'[r].decided = v.decided + 1
    BY <1>1, <1>6 DEF DecideItem, VisitType
  <2> QED
    BY <1>1, <1>2, <2>1, <2>2 DEF Left, StepsLeft
<1>7. CASE EmitItem(r)
  <2>1. pc[r] = "pacing" /\ pc'[r] \in {"logging", "reporting"}
    BY <1>1, <1>7 DEF EmitItem, At, Goes, AfterLostRow
  <2>2. visit'[r].decided = v.decided
    BY <1>1, <1>7 DEF EmitItem, Tells, VisitType
  <2> QED
    BY <1>1, <1>2, <2>1, <2>2 DEF Left, StepsLeft
<1>8. CASE EndRun(r)
  <2>1. pc[r] = "deciding" /\ pc'[r] \in {"closing", "reporting"} /\ UNCHANGED visit
    BY <1>1, <1>8 DEF EndRun, At, Goes
  <2>2. v.decided = Items /\ Len(v.told) = Items
    BY <1>1, <1>8, <2>1 DEF EndRun, Story, Shape
  <2> QED
    BY <1>1, <2>1, <2>2 DEF Left, StepsLeft
<1>9. CASE SendClosing(r)
  <2>1. pc[r] = "closing"
    BY <1>9 DEF SendClosing, At
  <2>2. PICK k \in 0..4 : Len(v.told) = Items + k
    BY <1>1, <2>1 DEF Story, Shape
  <2>3. \/ pc'[r] \in {"releasing", "reporting"}
        \/ pc'[r] = "closing" /\ Len(visit'[r].told) = Len(v.told) + 1
    BY <1>1, <1>2, <1>9 DEF SendClosing, Tells, Goes, VisitType
  <2> QED
    BY <1>1, <2>1, <2>2, <2>3 DEF Left, StepsLeft
<1>10. CASE Report(r)
  <2>1. pc[r] = "reporting" /\ pc'[r] = "releasing"
    BY <1>1, <1>10 DEF Report, At, Goes, AfterReport
  <2> QED
    BY <2>1 DEF Left, StepsLeft
<1>11. CASE Release(r)
  <2>1. pc[r] = "releasing" /\ pc'[r] = "over"
    <3>1. line # <<>> => Head(line) = line[1] /\ 1 \in 1..Len(line)
      BY DEF Inv, SlotInv, Types
    <3>2. line # <<>> => Head(line) # r
      BY <1>11, <3>1 DEF Inv, SlotInv, InLine, Release, At
    <3> QED
      BY <1>1, <1>11, <3>2 DEF Release, At, Goes
  <2> QED
    BY <2>1 DEF Left, StepsLeft
<1> QED
  BY <1>3, <1>4, <1>5, <1>6, <1>7, <1>8, <1>9, <1>10, <1>11 DEF Handle, Acquire, Stream

\* The number of steps a request has left falls with every step of its handler,
\* and once it is here nothing ever raises it: not another visit, a reader who
\* leaves, a timer, or the process.  So no request is served for ever, sent
\* back in the line, or started again.
THEOREM RequestsGoForward ==
  Spec => [][\A r \in Requests :
               /\ Left(r) \in Nat
               /\ Handle(r) => Left(r)' < Left(r)
               /\ pc[r] # "away" => Left(r)' <= Left(r)]_vars
<1>1. ASSUME Inv, Next, NEW r \in Requests, pc[r] # "away" PROVE Left(r)' <= Left(r)
  <2>1. Left(r) \in Nat
    BY <1>1, LeftIsNat
  <2>2. CASE Shutdown
    BY <1>1, <2>1, <2>2, Stays DEF Shutdown
  <2>3. CASE Exit
    <3>1. pc'[r] = "over"
      BY <2>3 DEF Exit
    <3>2. Left(r)' = 0
      BY <3>1 DEF Left, StepsLeft
    <3> QED
      BY <2>1, <3>2
  <2>4. CASE Handle(r)
    <3>1. Inv'
      BY <1>1, InvNext
    <3>2. Left(r)' < Left(r)
      BY <1>1, <2>4, HandlerGoesOn
    <3>3. Left(r)' \in Nat
      BY <3>1, StepsAreNat DEF Inv, Stories, SlotInv, Types, Left
    <3> QED
      BY <2>1, <3>2, <3>3
  <2>5. CASE World(r)
    <3>1. ~Arrive(r)
      BY <1>1 DEF Arrive
    <3>2. pc' = pc /\ visit \in [Requests -> VisitType]
      BY <1>1, <2>5, <3>1 DEF World, Leave, Cancel, QueueWaitEnds, Deadline, Inv, Stories
    <3>3. visit'[r].decided = visit[r].decided /\ visit'[r].told = visit[r].told
      BY <2>5, <3>1, <3>2 DEF World, Leave, Cancel, QueueWaitEnds, Deadline, VisitType
    <3> QED
      BY <1>1, <2>1, <3>2, <3>3, Stays
  <2>6. ASSUME NEW q \in Requests \ {r}, Handle(q) \/ World(q) PROVE Left(r)' <= Left(r)
    BY <1>1, <2>6, OthersNoLonger
  <2> QED
    BY <1>1, <2>2, <2>3, <2>4, <2>5, <2>6 DEF Next
<1>2. Inv /\ [Next]_vars => [\A r \in Requests :
               /\ Left(r) \in Nat
               /\ Handle(r) => Left(r)' < Left(r)
               /\ pc[r] # "away" => Left(r)' <= Left(r)]_vars
  BY <1>1, LeftIsNat, HandlerGoesOn
<1> QED
  BY <1>2, InvAlways, PTL DEF Spec
-----------------------------------------------------------------------------
(* Nobody is forgotten in the line.                                        *)

\* Where a request has a place in the line: InLine the other way round.
HasAPlace(r) == \E i \in 1..Len(line) : line[i] = r

ParkedInLine == \A r \in Requests : pc[r] = "parked" => HasAPlace(r)

LEMMA KeepsPlace ==
  ASSUME Inv, ParkedInLine, Next, NEW r \in Requests, pc'[r] = "parked"
  PROVE  HasAPlace(r)'
<1>1. /\ line \in Seq(Requests) /\ Len(line) \in Nat
      /\ pc \in [Requests -> Places]
  BY DEF Inv, SlotInv, Types
<1>2. CASE pc[r] # "parked"
  <2>1. PICK q \in Requests : Handle(q) \/ World(q)
    BY <1>1, <1>2 DEF Next, Shutdown, Exit
  <2>2. pc'[r] # pc[r] /\ pc'[r] \notin {"granted", "refusing"}
    BY <1>2
  <2>3. Select(r) /\ line' = Append(line, r)
    BY <1>1, <2>1, <2>2
       DEF Handle, World, Acquire, Stream, Ask, Select, GiveUp, Refuse, Begin, DecideItem,
           EmitItem, LogItem, EndRun, SendClosing, Report, Release, Arrive, Leave, Cancel,
           QueueWaitEnds, Deadline, Goes, TakesSlot, AfterLostRow, AfterReport
  <2>4. Len(line') = Len(line) + 1 /\ line'[Len(line) + 1] = r
    BY <1>1, <2>3
  <2> QED
    BY <1>1, <2>4 DEF HasAPlace
<1>3. CASE pc[r] = "parked"
  <2>1. PICK i \in 1..Len(line) : line[i] = r
    BY <1>3 DEF ParkedInLine, HasAPlace
  <2>2. CASE line' = line
    BY <2>1, <2>2 DEF HasAPlace
  <2>3. CASE line' # line
    <3>1. ~Shutdown /\ ~Exit
      BY <1>1, <2>3 DEF Shutdown, Exit, queue
    <3>2. PICK q \in Requests : Handle(q) \/ World(q)
      BY <3>1 DEF Next
    <3>3. Select(q) \/ GiveUp(q) \/ Release(q)
      BY <2>3, <3>2
         DEF Handle, World, Acquire, Stream, Ask, Refuse, Begin, DecideItem, EmitItem,
             LogItem, EndRun, SendClosing, Report, Arrive, Leave, Cancel, QueueWaitEnds,
             Deadline, queue
    <3>4. CASE Select(q)
      <4>1. line' = Append(line, q)
        BY <2>3, <3>4 DEF Select, queue
      <4>2. Len(line') = Len(line) + 1 /\ line'[i] = line[i]
        BY <1>1, <4>1
      <4> QED
        BY <1>1, <2>1, <4>2 DEF HasAPlace
    <3>5. CASE GiveUp(q)
      <4>1. PICK k \in 1..Len(line) : line[k] = q /\ line' = Unparked(k)
        BY <3>5 DEF GiveUp
      <4>2. /\ Len(line') = Len(line) - 1
            /\ \A n \in 1..Len(line') : line'[n] = line[IF n < k THEN n ELSE n + 1]
        BY <1>1, <4>1, MovedUp
      <4>3. q # r
        BY <1>1, <1>3, <3>5 DEF GiveUp, Goes
      <4>4. i # k
        BY <2>1, <4>1, <4>3
      <4>5. CASE i < k
        <5>1. i \in 1..Len(line')
          BY <1>1, <4>2, <4>5
        <5> QED
          BY <2>1, <4>2, <4>5, <5>1 DEF HasAPlace
      <4>6. CASE i > k
        <5>1. i - 1 \in 1..Len(line') /\ ~(i - 1 < k) /\ (i - 1) + 1 = i
          BY <1>1, <4>2, <4>6
        <5>2. line'[i - 1] = r
          BY <2>1, <4>2, <5>1
        <5> QED
          BY <5>1, <5>2 DEF HasAPlace
      <4> QED
        BY <1>1, <4>4, <4>5, <4>6
    <3>6. CASE Release(q)
      <4>1. /\ line # <<>> /\ line' = Tail(line)
            /\ pc' = [pc EXCEPT ![q] = "over", ![Head(line)] = "granted"]
        BY <2>3, <3>6 DEF Release
      <4>2. Head(line) = line[1] /\ line[1] \in Requests
        BY <1>1, <4>1
      <4>3. i # 1
        BY <1>1, <2>1, <4>1, <4>2
      <4>4. Len(line') = Len(line) - 1 /\ \A n \in 1..Len(line') : line'[n] = line[n + 1]
        BY <1>1, <4>1
      <4>5. i - 1 \in 1..Len(line') /\ (i - 1) + 1 = i
        BY <1>1, <4>3, <4>4
      <4>6. line'[i - 1] = r
        BY <2>1, <4>4, <4>5
      <4> QED
        BY <4>5, <4>6 DEF HasAPlace
    <3> QED
      BY <3>3, <3>4, <3>5, <3>6
  <2> QED
    BY <2>2, <2>3
<1> QED
  BY <1>2, <1>3

\* A request that waits has a place in the line, and somebody else has the slot
\* and will hand it on: a send that was cut off in the instant the slot became
\* free does not leave the others parked on a free slot, or a request parked
\* with nothing that could wake it.
THEOREM NobodyIsStranded ==
  Spec => [](\A r \in Requests : pc[r] = "parked" =>
               HasAPlace(r) /\ \E h \in Streams : h # r)
<1>1. Init => ParkedInLine
  BY DEF Init, ParkedInLine
<1>2. Inv /\ ParkedInLine /\ [Next]_vars => ParkedInLine'
  <2> SUFFICES ASSUME Inv, ParkedInLine, [Next]_vars PROVE ParkedInLine'
    OBVIOUS
  <2>1. CASE UNCHANGED vars
    BY <2>1 DEF vars, queue, ParkedInLine, HasAPlace
  <2>2. CASE Next
    BY <2>2, KeepsPlace DEF ParkedInLine
  <2> QED
    BY <2>1, <2>2
<1>3. ASSUME Inv, ParkedInLine, NEW r \in Requests, pc[r] = "parked"
      PROVE  HasAPlace(r) /\ \E h \in Streams : h # r
  <2>1. HasAPlace(r)
    BY <1>3 DEF ParkedInLine
  <2>2. slot = 1
    BY <1>3, <2>1 DEF HasAPlace, Inv, SlotInv, InLine
  <2>3. PICK h \in Requests : Streams = {h}
    BY <1>3, <2>2 DEF Inv, SlotInv, OneHolder
  <2>4. h # r
    BY <1>3, <2>3 DEF Streams, Streaming
  <2> QED
    BY <2>1, <2>3, <2>4
<1>4. Inv /\ ParkedInLine =>
        \A r \in Requests : pc[r] = "parked" => HasAPlace(r) /\ \E h \in Streams : h # r
  BY <1>3
<1> QED
  BY <1>1, <1>2, <1>4, InvAlways, PTL DEF Spec
=============================================================================
