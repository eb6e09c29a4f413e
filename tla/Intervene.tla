------------------------------ MODULE Intervene ------------------------------
(***************************************************************************)
(* The intervention engine: internal/intervene.                            *)
(*                                                                         *)
(* One Apply takes an item and an action and does at most one thing: a     *)
(* gateway call, a promise-ledger write or an escalation-sink write.  What *)
(* the other side does is the answer:                                      *)
(*   ok         the call was accepted (a notify was read back as sent)     *)
(*   unread     a notify was accepted and the verifying read failed        *)
(*   silent     a 2xx that carries no status                               *)
(*   declined   a 4xx: the gateway read the request and refused it         *)
(*   refused    a 2xx that carries success false                           *)
(*   failed     no answer, and nothing happened                            *)
(*   lost       no answer (a 5xx, a broken connection), and it happened    *)
(* The code cannot tell the last two apart; the world can.                 *)
(***************************************************************************)
EXTENDS Integers

LOCAL NotifySet  == {"notify_email", "notify_sms", "resend_link"}
LOCAL GatewaySet == NotifySet \cup {"create_payment_link", "cancel_write_off"}
LOCAL LocalSet   == {"log_promise", "escalate"}
LOCAL LawfulSet  == GatewaySet \cup LocalSet \cup {"do_nothing"}

Answers == {"ok", "unread", "silent", "declined", "refused", "failed", "lost"}

\* Which answers a call can get: only an invoice is read back, a promise or a
\* sink write either lands or fails, a cancel always carries the status.
AnswersTo(item, action) ==
  IF action \in NotifySet
    THEN {"ok", "declined", "refused", "failed", "lost"}
         \cup (IF item.handle = "invoice" THEN {"unread", "silent"} ELSE {})
  ELSE IF action = "create_payment_link"
    THEN {"ok", "silent", "declined", "failed", "lost"}
  ELSE IF action = "cancel_write_off"
    THEN {"ok", "declined", "failed", "lost"}
  ELSE {"ok", "failed"}

-----------------------------------------------------------------------------
\* What to bill: the outstanding amount, or the whole debt when the gateway
\* reported neither a due nor a paid amount.
LinkAmount(item) ==
  IF item.due <= 0 /\ item.paid = 0 THEN item.amount ELSE item.due

\* The reason an action is refused before anything is called, "" for none.
Refusal(item, action) ==
  CASE action \notin LawfulSet -> "unlawful_action"
    [] action \in NotifySet /\ ~item.email /\ ~item.phone -> "no_contact_channel"
    [] /\ action \in NotifySet
       /\ item.email \/ item.phone
       /\ item.handle = "none" -> "no_handle"
    [] action = "create_payment_link" /\ item.handle # "none" -> "handle_exists"
    [] /\ action = "create_payment_link"
       /\ item.handle = "none"
       /\ LinkAmount(item) <= 0 -> "no_amount"
    [] action = "cancel_write_off" /\ item.handle # "invoice" -> "not_an_invoice"
    [] OTHER -> ""

Attempted(item, action) == Refusal(item, action) = "" /\ action # "do_nothing"

\* Outcome.Observable: the strongest thing the answer lets the row claim.
Observable(item, action, answer) ==
  IF ~Attempted(item, action) THEN "none"
  ELSE IF action \in NotifySet
    THEN CASE answer = "ok" -> IF item.handle = "invoice" THEN "sent" ELSE "accepted"
           [] answer \in {"unread", "silent"}    -> "accepted"
           [] answer \in {"declined", "refused"} -> "refused"
           [] answer \in {"failed", "lost"}      -> "failed"
  ELSE IF answer \in {"ok", "silent"} THEN "status" ELSE "none"

\* Engine.dispatch: the Outcome, whether anything was called, whether the
\* call came back as a Go error, and whether the world was changed.
Dispatch(item, action, answer) ==
  LET called == Attempted(item, action)
      good   == answer \in {"ok", "unread", "silent"}
  IN [ action     |-> action,
       accepted   |-> IF called THEN good ELSE action = "do_nothing",
       attempted  |-> called,
       observable |-> Observable(item, action, answer),
       failed     |-> called /\ answer \in {"failed", "lost"},
       effect     |-> called /\ (good \/ answer = "lost"),
       mints      |-> called /\ good /\ action = "create_payment_link" ]

-----------------------------------------------------------------------------
\* The key the guard collapses on: the caller's key, or the sighting id when
\* the caller sent none (<<>>), and always the action.
GuardKey(callerKey, id, action) ==
  <<IF callerKey = <<>> THEN <<id>> ELSE callerKey, action>>

\* An accepted action seals its slot, do_nothing excepted.
Guarded(action) == action # "do_nothing"

\* Mutants of Seals: any call made seals, the refused ones too; or only a
\* notification does.
SealsNotices(out) == out.accepted /\ out.action \in NotifySet
SealsAttempt(out) == out.attempted /\ Guarded(out.action)

Seals(out) == out.accepted /\ Guarded(out.action)

\* The kind of the one audit row an Apply owes.
EventKind(out, attempted, replay) ==
  CASE replay \/ ~attempted -> "action_skipped"
    [] ~replay /\ attempted /\ out.accepted /\ out.action = "escalate" -> "escalation_raised"
    [] ~replay /\ attempted /\ out.accepted /\ out.action = "log_promise" -> "promise_logged"
    [] OTHER -> "intervention_applied"
=============================================================================
