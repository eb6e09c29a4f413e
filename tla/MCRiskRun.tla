------------------------------ MODULE MCRiskRun ------------------------------
(* Small books of debts for RiskRun. *)
EXTENDS RiskRun

Debt(source, handle, email, phone, signal, class) ==
  [source |-> source, handle |-> handle, email |-> email, phone |-> phone,
   signal |-> signal, class |-> class, amount |-> 2, paid |-> 0, due |-> 2,
   since |-> 1, status |-> "issued", disputed |-> FALSE, hold |-> 0]

Invoice == Debt("overdue_invoice", "invoice", TRUE, TRUE, FALSE, "unclassified")
Order   == Debt("unpaid_order", "none", TRUE, FALSE, FALSE, "unclassified")
Payment == Debt("failed_payment", "none", TRUE, TRUE, TRUE, "other")

\* Every shape of debt that some rule tells apart.
WideBook ==
  [ inv        |-> Invoice,
    invSMS     |-> [Invoice EXCEPT !.email = FALSE],
    invNobody  |-> [Invoice EXCEPT !.email = FALSE, !.phone = FALSE],
    invDispute |-> [Invoice EXCEPT !.disputed = TRUE],
    invBig     |-> [Invoice EXCEPT !.due = 9, !.amount = 9],
    invPromise |-> [Invoice EXCEPT !.hold = 4],
    invGone    |-> [Invoice EXCEPT !.status = "expired"],
    ord        |-> Order,
    ordNew     |-> [Order EXCEPT !.since = 0],
    pay        |-> Payment,
    payUnread  |-> [Payment EXCEPT !.class = "unclassified"],
    payRisk    |-> [Payment EXCEPT !.class = "never_retry"] ]

\* Few debts that all act, to let their steps meet in one run: three invoices,
\* so that two of them are the engine's, and a debt of each other source.
DeepBook ==
  [ inv        |-> Invoice,
    invSMS     |-> [Invoice EXCEPT !.email = FALSE],
    invDispute |-> [Invoice EXCEPT !.disputed = TRUE],
    pay        |-> Payment,
    ord        |-> Order ]

Row(grace, maxTouches, cooldown, requiresSignal) ==
  [grace |-> grace, maxTouches |-> maxTouches, cooldown |-> cooldown,
   requiresSignal |-> requiresSignal]

MCSourceTable ==
  [ failed_payment  |-> Row(0, 1, 2, TRUE),
    unpaid_order    |-> Row(2, 1, 2, FALSE),
    overdue_invoice |-> Row(1, 2, 3, FALSE) ]

MCDefaults ==
  [maxTouches |-> 1, cooldown |-> 2, notifyWindow |-> 2, ceiling |-> 5,
   floor |-> 1, budget |-> 2, window |-> <<3, 6>>]

StandardConfig ==
  [maxTouches |-> 0, maxAttempts |-> 0, cooldown |-> 0, notifyWindow |-> 0,
   ceiling |-> 0, floor |-> 0, budget |-> 0, window |-> <<0, 0>>,
   killSwitch |-> FALSE]
=============================================================================
