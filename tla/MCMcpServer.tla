----------------------------- MODULE MCMcpServer -----------------------------
(* One served debt and the calls two parallel callers make about it. *)
EXTENDS McpServer, TLC

Debt(source, held, signal, class) ==
  [source |-> source, handle |-> held, email |-> TRUE, phone |-> TRUE,
   signal |-> signal, class |-> class, amount |-> 2, paid |-> 0, due |-> 2,
   since |-> 1, status |-> "created", disputed |-> FALSE, hold |-> 0]

OrderBook == [ord |-> Debt("unpaid_order", "none", FALSE, "unclassified")]

\* An invoice beside a payment whose failure nobody could read.
InvoiceBook == [inv |-> Debt("overdue_invoice", "invoice", FALSE, "unclassified"),
                pay |-> Debt("failed_payment", "none", FALSE, "unclassified")]

Call(tool, item, action) == [tool |-> tool, item |-> item, action |-> action, valid |-> TRUE]

ActionsOn(i) ==
  {Call("notify_item", i, "notify_email"),
   Call("resend_link_for_item", i, "resend_link"),
   Call("create_payment_link_for_item", i, "create_payment_link"),
   Call("log_promise", i, "log_promise")}

Decision(i) == Call("record_decision", i, "notify_email")

OrderRequests == ActionsOn("ord") \cup {Decision("ord")}

Malformed ==
  {[Decision("inv") EXCEPT !.valid = FALSE],
   [Call("log_promise", "inv", "log_promise") EXCEPT !.valid = FALSE],
   Call("record_decision", "unlisted", "do_nothing"),
   Call("notify_item", "", "notify_email"),
   Call("retry_payment", "inv", "do_nothing"),
   Call("list_risk_items", "", "do_nothing")}

SurfaceRequests ==
  Malformed \cup {Decision("inv"), Decision("pay"),
                  Call("notify_item", "inv", "notify_sms"),
                  Call("create_payment_link_for_item", "pay", "create_payment_link"),
                  Call("log_promise", "inv", "log_promise"),
                  Call("escalate_item", "pay", "escalate")}

CallerSymmetry == Permutations(Callers)

Row3(grace, maxTouches, cooldown, requiresSignal) ==
  [grace |-> grace, maxTouches |-> maxTouches, cooldown |-> cooldown,
   requiresSignal |-> requiresSignal]

\* An order's cap leaves room for two notifications behind the link they need,
\* so that the window between them decides.
MCSourceTable ==
  [ failed_payment  |-> Row3(0, 1, 1, TRUE),
    unpaid_order    |-> Row3(1, 3, 1, FALSE),
    overdue_invoice |-> Row3(1, 2, 1, FALSE) ]

MCDefaults ==
  [maxTouches |-> 2, cooldown |-> 1, notifyWindow |-> 2, ceiling |-> 5,
   floor |-> 1, budget |-> 3, window |-> <<1, 6>>]

StandardConfig ==
  [maxTouches |-> 0, maxAttempts |-> 0, cooldown |-> 0, notifyWindow |-> 0,
   ceiling |-> 0, floor |-> 0, budget |-> 0, window |-> <<0, 0>>,
   killSwitch |-> FALSE]
=============================================================================
