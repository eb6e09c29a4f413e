-------------------------------- MODULE Store --------------------------------
(***************************************************************************)
(* The attempt ledger of one process: internal/store.                      *)
(*                                                                         *)
(* A store is a record: what is known of each debt, the idempotency keys   *)
(* already committed, and the number of actions of the run.  Each operator *)
(* is one method, which holds the store's lock for its whole length; no    *)
(* lock covers two of them.                                                *)
(***************************************************************************)
EXTENDS Integers

Untouched == [attempts |-> 0, lastAction |-> 0, lastNotify |-> 0]

NewStore(debts) ==
  [debt |-> [d \in debts |-> Untouched], keys |-> {}, actions |-> 0]

StoreType(debts, allKeys) ==
  [debt : [debts -> [attempts : Nat, lastAction : Nat, lastNotify : Nat]],
   keys : SUBSET allKeys, actions : Nat]

\* Store.Observe raises a debt's attempts to what the gateway showed.
Observe(st, d, seen) ==
  IF seen > st.debt[d].attempts THEN [st EXCEPT !.debt[d].attempts = seen] ELSE st

\* Store.Snapshot: the State a proposed action is judged on.  The notify clock
\* is the debt's own.
Snapshot(st, d, key, killed) ==
  [touches    |-> st.debt[d].attempts,
   lastTouch  |-> st.debt[d].lastAction,
   lastNotify |-> st.debt[d].lastNotify,
   actions    |-> st.actions,
   killed     |-> killed,
   keySeen    |-> key \in st.keys]

\* What a caller without an idempotency key commits with.
NoKey == <<>>

\* Store.Commit: a replayed key moves nothing; whatever is not a notification
\* put an attempt on the debt.
Commit(st, d, key, notifies, now) ==
  IF key \in st.keys THEN st
  ELSE [st EXCEPT !.keys = @ \cup ({key} \ {NoKey}),
                  !.actions = @ + 1,
                  !.debt[d].lastAction = now,
                  !.debt[d].lastNotify = IF notifies THEN now ELSE @,
                  !.debt[d].attempts = IF notifies THEN @ ELSE @ + 1]
=============================================================================
