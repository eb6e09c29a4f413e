------------------------------- MODULE Policy -------------------------------
(***************************************************************************)
(* The policy gate: internal/policy and internal/quiet.                    *)
(*                                                                         *)
(* Evaluate is pure.  It reads the settings, the instant, what the caller  *)
(* knows of the run (a State) and the proposed action (a Request); fifteen *)
(* rules look at them in a fixed order and the first that fires decides.   *)
(* Here a rule is a member of a set of rule ids, Refusals is the set of    *)
(* the rules that fire, and the order is a rank on the ids.                *)
(*                                                                         *)
(* Instants are naturals and 0 is Go's zero time: "never", "unknown".      *)
(* Paise are integers.  Idempotency keys are the triple that sha256 is     *)
(* taken of.                                                               *)
(***************************************************************************)
EXTENDS Integers

CONSTANTS
  Config,       \* what the caller passed to policy.New
  Defaults,     \* the package's default settings
  SourceTable,  \* the per-source cadence, one row per known source
  MinutesPerDay \* length of a day in the clock's unit

\* The three sources a detector can report, and the closed action set.
Sources == {"failed_payment", "unpaid_order", "overdue_invoice"}

NotifyActions  == {"notify_email", "notify_sms", "resend_link"}
ContactActions == NotifyActions \cup {"create_payment_link"}
SafeActions    == {"escalate", "do_nothing", "log_promise"}
LawfulActions  == ContactActions \cup SafeActions \cup {"cancel_write_off"}

TerminalStatuses == {"cancelled", "canceled", "expired"}

Classes == {"unclassified", "never_retry", "other"}

ASSUME PolicyAssumption ==
  /\ Config \in [maxTouches : Int, maxAttempts : Int, cooldown : Int,
                notifyWindow : Int, ceiling : Int, floor : Int, budget : Int,
                window : Int \X Int, killSwitch : BOOLEAN]
  /\ Defaults \in [maxTouches : Nat, cooldown : Int, notifyWindow : Int,
                  ceiling : Int, floor : Int, budget : Nat, window : Int \X Int]
  /\ DOMAIN SourceTable \subseteq Sources
  /\ SourceTable \in [DOMAIN SourceTable ->
                       [grace : Nat, maxTouches : Nat, cooldown : Int,
                        requiresSignal : BOOLEAN]]
  /\ MinutesPerDay \in Nat \ {0}

-----------------------------------------------------------------------------
(* Settings.                                                               *)

OrDefault(value, fallback) == IF value <= 0 THEN fallback ELSE value

\* The zero fields of a Config mean the standard setting.  The contact cap and
\* the cooldown are different: zero leaves the choice to the source table.
WithDefaults(c) ==
  [ maxTouches   |-> OrDefault(c.maxTouches, OrDefault(c.maxAttempts, 0)),
    cooldown     |-> c.cooldown,
    notifyWindow |-> OrDefault(c.notifyWindow, Defaults.notifyWindow),
    ceiling      |-> OrDefault(c.ceiling, Defaults.ceiling),
    floor        |-> IF c.floor = 0 THEN Defaults.floor ELSE c.floor,
    budget       |-> OrDefault(c.budget, Defaults.budget),
    window       |-> IF c.window = <<0, 0>> THEN Defaults.window ELSE c.window,
    killSwitch   |-> c.killSwitch ]

Settings == WithDefaults(Config)

\* The cadence in force for a source.  A source with no row falls back on the
\* package defaults, and a Config-wide override wins over both.
ParamsFor(source) ==
  LET row == IF source \in DOMAIN SourceTable THEN SourceTable[source]
             ELSE [grace |-> 0, requiresSignal |-> FALSE,
                   maxTouches |-> Defaults.maxTouches,
                   cooldown   |-> Defaults.cooldown]
  IN [row EXCEPT !.maxTouches = OrDefault(Settings.maxTouches, @),
                 !.cooldown   = OrDefault(Settings.cooldown, @)]

\* quiet.Window.Contains: the band is half open, it wraps past midnight when
\* it starts after it ends, and an ambiguous band contains no instant.
InBand(window, now) ==
  LET minute == now % MinutesPerDay
  IN \/ /\ window[1] < window[2]
        /\ window[1] <= minute
        /\ minute < window[2]
     \/ /\ window[1] > window[2]
        /\ window[1] <= minute \/ minute < window[2]

\* A classified item as a caller has it.
ItemRecord ==
  [source : Sources, handle : {"none", "invoice", "payment_link"},
   email : BOOLEAN, phone : BOOLEAN, signal : BOOLEAN, class : Classes,
   amount : Int, paid : Int, due : Int, since : Nat, status : STRING,
   disputed : BOOLEAN, hold : Nat]

\* policy.RequestFromClassified: what the rules see of an item, it, proposed an
\* action, with the facts the item does not carry (a promise hold, 0 for none,
\* and the number of the contact this would be).
RequestFromClassified(i, it, action, hold, touchNo) ==
  [item |-> i, source |-> it.source, action |-> action, class |-> it.class,
   signal |-> it.signal, due |-> it.due, email |-> it.email,
   phone |-> it.phone, status |-> it.status, disputed |-> it.disputed,
   since |-> it.since, hold |-> hold, touchNo |-> touchNo]

-----------------------------------------------------------------------------
(* The rules.  s is the State, q the Request, now the policy clock.        *)

\* Mutant of IsSafe: an escalation is refused like any other action.
IsSafeNoEscalate(q) == q.action \in {"do_nothing", "log_promise"}

IsSafe(q)    == q.action \in SafeActions
IsContact(q) == q.action \in ContactActions
IsNotify(q)  == q.action \in NotifyActions

Unrecognised(q) ==
  \/ q.source \notin DOMAIN SourceTable
  \/ q.action \notin LawfulActions
  \/ ParamsFor(q.source).requiresSignal /\ ~q.signal
  \/ q.signal /\ q.class = "unclassified"

NotYetDue(q, now) ==
  LET grace == ParamsFor(q.source).grace
  IN /\ ~IsSafe(q)
     /\ grace > 0
     /\ q.since = 0 \/ now - q.since < grace

NoChannel(q) ==
  /\ IsContact(q)
  /\ \/ ~q.email /\ ~q.phone
     \/ q.action = "notify_email" /\ ~q.email
     \/ q.action = "notify_sms" /\ ~q.phone

NeverContact(q) ==
  /\ IsContact(q)
  /\ \/ q.class = "never_retry"
     \/ q.status \in TerminalStatuses
     \/ q.due <= 0

NeedsApproval(q) ==
  \/ q.action = "cancel_write_off" /\ q.due > Settings.floor
  \/ ~IsSafe(q) /\ q.due > Settings.ceiling

\* Mutant of Within: the interval ends one unit early.
WithinShort(now, last, interval) == last # 0 /\ now - last < interval - 1

Within(now, last, interval) == last # 0 /\ now - last < interval

Fires(rule, s, q, now) ==
  CASE rule = "R8"  -> Settings.killSwitch \/ s.killed
    [] rule = "R9"  -> s.keySeen
    [] rule = "R7"  -> Unrecognised(q)
    [] rule = "R11" -> NotYetDue(q, now)
    [] rule = "R10" -> NoChannel(q)
    [] rule = "R4"  -> NeverContact(q)
    [] rule = "R15" -> ~IsSafe(q) /\ q.hold # 0 /\ now < q.hold
    [] rule = "R12" -> IsNotify(q) /\ ~InBand(Settings.window, now)
    [] rule = "R13" -> ~IsSafe(q) /\ q.disputed
    [] rule = "R3"  -> NeedsApproval(q)
    [] rule = "R1"  -> IsContact(q) /\ s.touches >= ParamsFor(q.source).maxTouches
    [] rule = "R2"  -> IsContact(q) /\ Within(now, s.lastTouch, ParamsFor(q.source).cooldown)
    [] rule = "R6"  -> IsNotify(q) /\ Within(now, s.lastNotify, Settings.notifyWindow)
    [] rule = "R5"  -> ~IsSafe(q) /\ s.actions >= Settings.budget

\* The order of evaluation is a contract: a rule of a lower rank speaks first.
Rank == [ R8 |-> 1, R9 |-> 2, R7 |-> 3, R11 |-> 4, R10 |-> 5, R4 |-> 6,
          R15 |-> 7, R12 |-> 8, R13 |-> 9, R3 |-> 10, R1 |-> 11, R2 |-> 12,
          R6 |-> 13, R5 |-> 14 ]

Rules       == DOMAIN Rank
Escalating  == {"R7", "R10", "R4", "R13", "R3", "R1"}
Verdicts    == {"allow", "deny", "escalate"}

Refusals(s, q, now) == {r \in Rules : Fires(r, s, q, now)}

IdempotencyKey(item, action, touchNo) == <<item, action, touchNo>>

\* policy.Evaluate.
Evaluate(s, q, now) ==
  LET hit   == Refusals(s, q, now)
      rule  == IF hit = {} THEN "R0"
               ELSE CHOOSE r \in hit : \A o \in hit : Rank[r] <= Rank[o]
      left  == ParamsFor(q.source).maxTouches - s.touches
  IN [ rule      |-> rule,
       verdict   |-> IF hit = {} THEN "allow"
                     ELSE IF rule \in Escalating THEN "escalate" ELSE "deny",
       remaining |-> IF left > 0 THEN left ELSE 0,
       replay    |-> rule = "R9",
       key       |-> IdempotencyKey(q.item, q.action, q.touchNo) ]

\* Mutant of Allowed: whatever is not denied runs.
AllowedUnlessDenied(decision) == decision.verdict # "deny"

Allowed(decision) == decision.verdict = "allow"

\* policy.KillSwitchFile: a missing file is clear, an unreadable one is an
\* error and never a clear.
KillSwitchFile(path) ==
  CASE path = "present" -> [engaged |-> TRUE,  err |-> FALSE]
    [] path = "missing" -> [engaged |-> FALSE, err |-> FALSE]
    [] path = "unreadable" -> [engaged |-> FALSE, err |-> TRUE]
=============================================================================
