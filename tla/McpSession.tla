------------------------------ MODULE McpSession ------------------------------
(***************************************************************************)
(* One invocation of rzp-mcp (cmd/rzp-mcp/main.go): it reads the item it   *)
(* was started for and files its class, serves tools until the client      *)
(* leaves, reads the order back and writes one outcome row.                *)
(*                                                                         *)
(* The row is made of the tally the server kept while it served, so it is  *)
(* as true as the tally: what finishAction counted once its row was down.  *)
(* The SDK's Run comes back when the calls it was serving are over.  The   *)
(* status it reads back is copied, and left out.  main.go gives the server *)
(* the one item; the model lets it hold others beside it.                  *)
(***************************************************************************)
EXTENDS McpServer

VARIABLES
  phase,   \* where run is
  served,  \* the item of this invocation
  tally,   \* Server.tallies
  outcome  \* the row in outcomes.jsonl, once there is one

sessionVars == <<vars, phase, served, tally, outcome>>

\* An item that no call finished on has done nothing.
FreshTally ==
  [reached |-> FALSE, escalated |-> FALSE, action |-> "do_nothing",
   allowed |-> "none", refused |-> "none"]

NoOutcome ==
  [filed |-> FALSE, observed |-> FALSE, reached |-> FALSE, escalated |-> FALSE,
   action |-> "none", verdict |-> "none"]

SessionInit ==
  /\ Init
  /\ phase = "observing" /\ served \in Items
  /\ tally = [i \in Items |-> FreshTally] /\ outcome = NoOutcome

ServedRow(kind) == Row(kind, 0, [NoRequest EXCEPT !.item = served], "none", FALSE)

\* The class is on record before the agent sees anything, or nothing is served.
ObserveAndRecord ==
  /\ phase = "observing"
  /\ \/ phase' = "serving" /\ Written(ServedRow("classified"))
     \/ phase' = "over" /\ (NotWritten \/ UNCHANGED ledgerFile)
  /\ UNCHANGED <<session, now, calls, handle, holder, books, call, errored, sent,
                 served, tally, outcome>>

-----------------------------------------------------------------------------
(* The tally.                                                              *)

\* Mutant of Tallied: what was let through is what was done.
TalliedIfAllowed(t, c) ==
  [t EXCEPT !.reached   = @ \/ ReachedGateway(c),
            !.escalated = @ \/ c.req.action = "escalate",
            !.allowed   = IF c.pc = "settle" THEN c.verdict ELSE @,
            !.refused   = IF c.pc = "refuse" THEN c.verdict ELSE @,
            !.action    = IF c.pc = "settle" THEN c.req.action ELSE @]

\* finishAction: what the call c adds, in the end of its handler.
Tallied(t, c) ==
  [t EXCEPT !.reached   = @ \/ ReachedGateway(c),
            !.escalated = @ \/ (c.req.action = "escalate" /\ c.accepted),
            !.allowed   = IF c.pc = "settle" THEN c.verdict ELSE @,
            !.refused   = IF c.pc = "refuse" THEN c.verdict ELSE @,
            !.action    = IF c.pc = "settle" /\ c.accepted THEN c.req.action ELSE @]

\* Only a call whose action row went down is tallied.
ServeTool(w) ==
  /\ phase = "serving"
  /\ Serve(w)
  /\ tally' = IF call[w].pc \in {"settle", "refuse"} /\ errored' = errored
              THEN [tally EXCEPT ![call[w].req.item] = Tallied(@, call[w])]
              ELSE tally
  /\ UNCHANGED <<phase, served, outcome>>

-----------------------------------------------------------------------------
(* The end of the session.                                                 *)

\* Mutant of VerdictOf: the refusal that came last is the verdict.
VerdictOfRefusal(t) == IF t.refused # "none" THEN t.refused ELSE t.allowed

\* Server.Tally: the verdict behind what was done comes before any refusal.
VerdictOf(t) == IF t.allowed # "none" THEN t.allowed ELSE t.refused

OutcomeRow(observed) ==
  [filed |-> TRUE, observed |-> observed,
   reached |-> tally[served].reached, escalated |-> tally[served].escalated,
   action |-> tally[served].action, verdict |-> VerdictOf(tally[served])]

\* The client closes its end, or the context ends.
EndServe ==
  /\ phase = "serving" /\ \A w \in Callers : At(w, "idle")
  /\ phase' = "reading"
  /\ UNCHANGED <<vars, served, tally, outcome>>

\* The order is read back, on a context of its own, and what was seen is filed.
\* A row that does not go down ends the invocation without an outcome.
ReadBack ==
  /\ phase = "reading"
  /\ \/ phase' = "blind" /\ UNCHANGED ledgerFile
     \/ phase' = "observed" /\ Written(ServedRow("outcome_observed"))
     \/ phase' = "over" /\ NotWritten
  /\ UNCHANGED <<session, now, calls, handle, holder, books, call, errored, sent,
                 served, tally, outcome>>

\* The outcome row is appended, or that fails.
FileOutcome ==
  /\ phase \in {"blind", "observed"}
  /\ phase' = "over"
  /\ outcome' \in {OutcomeRow(phase = "observed"), outcome}
  /\ UNCHANGED <<vars, served, tally>>

Client ==
  /\ phase = "serving"
  /\ Tick \/ \E w \in Callers, req \in Requests : Gate(w, req)
  /\ UNCHANGED <<phase, served, tally, outcome>>

SessionNext ==
  \/ ObserveAndRecord \/ Client \/ EndServe \/ ReadBack \/ FileOutcome
  \/ \E w \in Callers : ServeTool(w)

SessionSpec == SessionInit /\ [][SessionNext]_sessionVars

\* A goroutine that can run is run, and a client owes the server nothing.
FairSession == SessionSpec /\ \A w \in Callers : WF_sessionVars(ServeTool(w))

-----------------------------------------------------------------------------
(* Properties.                                                             *)

\* The outcome row says of the item what the ledger says of it: that a request
\* was made, which action was done and under which verdict, never that of a
\* later refusal, and that the end was observed.  A contact it does not report
\* was answered with an error.
OutcomeIsTrue ==
  outcome.filed =>
    LET taken == {r \in rows : r.item = served /\ r.kind = "action_taken"}
    IN /\ outcome.reached <=> \E r \in taken : r.reached
       /\ outcome.reached => outcome.verdict = "allow"
       /\ outcome.action # "do_nothing" =>
            \E r \in taken : r.action = outcome.action /\ r.verdict = outcome.verdict
       /\ outcome.escalated => \E r \in taken : r.action = "escalate"
       /\ \A e \in sent :
            e.item = served /\ e.happened => outcome.reached \/ e.no \in errored
       /\ outcome.observed <=>
            \E r \in rows : r.item = served /\ r.kind = "outcome_observed"
=============================================================================
