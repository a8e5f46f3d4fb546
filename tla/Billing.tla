------------------------------- MODULE Billing ------------------------------
(***************************************************************************)
(* The API's billing of one user (api/app/services/billing_service.py):    *)
(* payment links with a promo code, the payment provider's webhook, which  *)
(* completes a payment and extends the subscription, the trial, and the    *)
(* gate that looks at the user's fields (api/app/utils/dependencies.py).   *)
(*                                                                         *)
(* Requests are transactions under READ COMMITTED and a step here is what  *)
(* one does between two awaits.  The session flushes only the columns it   *)
(* changed, so a column whose new value is the one that was read is not    *)
(* written.  Time is counted in days.                                      *)
(*                                                                         *)
(* Administrators may set these fields by hand (api/app/routers/admin.py,  *)
(* lines 139-156, 391-408); the module has only what billing itself does.  *)
(***************************************************************************)
EXTENDS Integers, FiniteSets, Sequences

CONSTANTS
  Payments,  \* payments the user may order (a bound)
  Workers,   \* requests served at once (a bound)
  Plan,      \* the plan of each payment
  Days,      \* the days of each plan, "trial" among them
  MaxUses,   \* the limit of the promo code
  Horizon,   \* the last day (a bound)
  NoPayment

ASSUME BillingAssumption ==
  /\ NoPayment \notin Payments /\ {"promo", "user"} \cap Payments = {}
  /\ Plan \in [Payments -> DOMAIN Days]
  /\ \A p \in Payments : Plan[p] \in DOMAIN Days \ {"trial", "free"}
  /\ "trial" \in DOMAIN Days
  /\ \A plan \in DOMAIN Days : Days[plan] \in Nat \ {0}
  /\ MaxUses \in Nat \ {0} /\ Horizon \in Nat

VARIABLES
  now,
  status,    \* the state of each payment
  promo,     \* payments ordered with the promo code
  uses,      \* current_uses of the promo code
  user,      \* the user's denormalized fields
  subs,      \* the user's subscriptions, as they were committed
  requests,  \* the requests in flight, with what they read
  overlaps,  \* history: payments and rows that two transactions used at once
  owed       \* history: the day up to which the user has paid

billingVars == <<now, status, promo, uses, user, subs, requests, overlaps, owed>>
tables == <<status, promo, uses, user, subs>>

Plans == DOMAIN Days
Never == 0  \* no date, before every day

NewUser == [tier |-> "free", expires |-> Never, trial |-> FALSE]

\* A request in no hand.  One at work has its payment, the promo code's uses and
\* the user it has read, the date it has computed, and the day it came.
Nothing ==
  [pc |-> "idle", payment |-> NoPayment, uses |-> 0, user |-> NewUser,
   expires |-> Never, day |-> 0]

Is(w, label) == requests[w].pc = label
Becomes(w, r) == requests' = [requests EXCEPT ![w] = r]
Finish(w) == Becomes(w, Nothing)

\* Another request that has read the same row and not committed.
OverlapsOn(w, labels) == \E v \in Workers \ {w} : requests[v].pc \in labels

BillingInit ==
  /\ now = 1
  /\ status = [p \in Payments |-> "none"]
  /\ promo = {} /\ uses = 0
  /\ user = NewUser
  /\ subs = << >>
  /\ requests = [w \in Workers |-> Nothing]
  /\ overlaps = {} /\ owed = Never
-----------------------------------------------------------------------------
(* create_payment_link.                                                    *)

\* Without a code, or with one that is not valid, nothing is read first.
Order(p) ==
  /\ status[p] = "none" /\ \A w \in Workers : requests[w].payment # p
  /\ status' = [status EXCEPT ![p] = "pending"]
  /\ UNCHANGED <<now, promo, uses, user, subs, requests, overlaps, owed>>

\* A fault: the limit is passed by one.
ValidPromoPastLimit == uses <= MaxUses

\* validate_promo, as far as the number of uses goes.
ValidPromo == uses < MaxUses

OrderWithPromo(w, p) ==
  /\ Is(w, "idle") /\ status[p] = "none" /\ ValidPromo
  /\ \A v \in Workers : requests[v].payment # p
  /\ Becomes(w, [Nothing EXCEPT !.pc = "link", !.payment = p, !.uses = uses])
  /\ overlaps' = IF OverlapsOn(w, {"link"}) THEN overlaps \cup {"promo"}
                                            ELSE overlaps
  /\ UNCHANGED <<now, tables, owed>>

CommitLink(w) ==
  /\ Is(w, "link")
  /\ status' = [status EXCEPT ![requests[w].payment] = "pending"]
  /\ promo' = promo \cup {requests[w].payment}
  /\ uses' = requests[w].uses + 1
  /\ Finish(w)
  /\ UNCHANGED <<now, user, subs, overlaps, owed>>
-----------------------------------------------------------------------------
(* process_webhook: the provider may deliver a payment again and again.    *)

\* A fault: any payment that exists will do.
FindAnyPayment(w, p) ==
  /\ Is(w, "idle") /\ status[p] # "none"
  /\ Becomes(w, [Nothing EXCEPT !.pc = "found", !.payment = p, !.day = now])
  /\ overlaps' = IF \E v \in Workers : requests[v].payment = p
                 THEN overlaps \cup {p} ELSE overlaps
  /\ UNCHANGED <<now, tables, owed>>

FindPayment(w, p) ==
  /\ Is(w, "idle") /\ status[p] = "pending"
  /\ Becomes(w, [Nothing EXCEPT !.pc = "found", !.payment = p, !.day = now])
  /\ overlaps' = IF \E v \in Workers : requests[v].payment = p
                 THEN overlaps \cup {p} ELSE overlaps
  /\ UNCHANGED <<now, tables, owed>>

\* A fault: a date that has passed is extended like any other.
ExpiryFromOld(plan, current) ==
  (IF current # Never THEN current ELSE now) + Days[plan]

CalculateExpiry(plan, current) ==
  (IF current > now THEN current ELSE now) + Days[plan]

\* The query for the user first flushes the payment's new status, which waits
\* for whoever wrote that row and has not committed.
LockPayment(w) ==
  LET p == requests[w].payment IN
  /\ Is(w, "found")
  /\ \A v \in Workers : requests[v].payment = p => requests[v].pc # "locked"
  /\ Becomes(w, [requests[w] EXCEPT
                   !.pc = "locked", !.user = user,
                   !.expires = CalculateExpiry(Plan[p], user.expires)])
  /\ overlaps' = IF OverlapsOn(w, {"locked", "trial"})
                 THEN overlaps \cup {"user"} ELSE overlaps
  /\ UNCHANGED <<now, tables, owed>>

\* What a transaction leaves in a column that it read as old and sets to new.
Flushed(old, new, committed) == IF new = old THEN committed ELSE new

\* The user's fields after a request that read them sets these.
Denormalize(read, tier, expires, trial) ==
  [tier    |-> Flushed(read.tier, tier, user.tier),
   expires |-> Flushed(read.expires, expires, user.expires),
   trial   |-> Flushed(read.trial, trial, user.trial)]

\* A fault: the row's days are counted from today, the user's are not.
RowFromToday(plan, payment, expires) ==
  [plan |-> plan, payment |-> payment, expires |-> now + Days[plan]]

\* The subscription's row.
Row(plan, payment, expires) ==
  [plan |-> plan, payment |-> payment, expires |-> expires]

Latest(d, e) == IF d > e THEN d ELSE e
Earliest(d, e) == IF d < e THEN d ELSE e

CommitPayment(w) ==
  LET r == requests[w]
      plan == Plan[r.payment]
  IN
  /\ Is(w, "locked")
  /\ status' = [status EXCEPT ![r.payment] = "completed"]
  /\ subs' = Append(subs, Row(plan, r.payment, r.expires))
  /\ user' = Denormalize(r.user, plan, r.expires, r.user.trial)
  /\ owed' = Latest(owed, r.day) + Days[plan]
  /\ Finish(w)
  /\ UNCHANGED <<now, promo, uses, overlaps>>
-----------------------------------------------------------------------------
(* activate_trial.                                                         *)

\* get_current_user loads the user.
BeginTrial(w) ==
  /\ Is(w, "idle")
  /\ Becomes(w, [Nothing EXCEPT !.pc = "trial", !.user = user])
  /\ overlaps' = IF OverlapsOn(w, {"locked", "trial"})
                 THEN overlaps \cup {"user"} ELSE overlaps
  /\ UNCHANGED <<now, tables, owed>>

TrialAllowed(w) == ~requests[w].user.trial

TrialRefused(w) ==
  /\ Is(w, "trial") /\ ~TrialAllowed(w)
  /\ Finish(w)
  /\ UNCHANGED <<now, tables, overlaps, owed>>

CommitTrial(w) ==
  LET expires == now + Days["trial"] IN
  /\ Is(w, "trial") /\ TrialAllowed(w)
  /\ subs' = Append(subs, Row("trial", NoPayment, expires))
  /\ user' = Denormalize(requests[w].user, "trial", expires, TRUE)
  /\ owed' = Earliest(owed, expires)
  /\ Finish(w)
  /\ UNCHANGED <<now, status, promo, uses, overlaps>>
-----------------------------------------------------------------------------
Tomorrow ==
  /\ now < Horizon
  /\ now' = now + 1
  /\ UNCHANGED <<tables, requests, overlaps, owed>>

BillingNext ==
  \/ Tomorrow
  \/ \E p \in Payments : Order(p)
  \/ \E w \in Workers :
       \/ \E p \in Payments : OrderWithPromo(w, p) \/ FindPayment(w, p)
       \/ CommitLink(w) \/ LockPayment(w) \/ CommitPayment(w)
       \/ BeginTrial(w) \/ TrialRefused(w) \/ CommitTrial(w)

BillingSpec == BillingInit /\ [][BillingNext]_billingVars

\* get_subscribed_user lets the user start sessions.
Subscribed ==
  /\ user.tier # "free"
  /\ ~(user.expires # Never /\ user.expires < now)
-----------------------------------------------------------------------------
(* Properties.                                                             *)

\* The type of the state.
BillingTypeOK ==
  LET fields == [tier : Plans \cup {"free"}, expires : Nat, trial : BOOLEAN]
      rows == Payments \cup {NoPayment}
  IN
  /\ now \in Nat
  /\ status \in [Payments -> {"none", "pending", "completed"}]
  /\ promo \subseteq Payments /\ uses \in Nat
  /\ user \in fields
  /\ subs \in Seq([plan : Plans, payment : rows, expires : Nat])
  /\ requests \in [Workers ->
       [pc : {"idle", "link", "found", "locked", "trial"}, payment : rows,
        uses : Nat, user : fields, expires : Nat, day : Nat]]
  /\ overlaps \subseteq Payments \cup {"promo", "user"}
  /\ owed \in Nat

\* Nothing is granted twice: however often the provider delivers a payment, it
\* buys one subscription, unless two deliveries had both found it pending; and
\* a user has one trial, unless requests of the user overlapped.
GrantedOnce ==
  \A i, j \in DOMAIN subs :
    i # j /\ subs[i].payment = subs[j].payment =>
      (IF subs[i].payment = NoPayment THEN "user" ELSE subs[i].payment)
        \in overlaps

\* The user gets every day that was paid for: a payment's days follow the day
\* the provider told of it, or those paid before if these are not over, and the
\* date in the user's fields is not before the last of them; unless requests of
\* the user overlapped.  A trial puts an end to the days paid before it that
\* reach beyond its own (billing_service.py:240).
EveryDayPaid == "user" \notin overlaps => user.expires >= owed

\* The gate looks at the user's fields (dependencies.py:44-58), which are written
\* beside the subscriptions and column by column (billing_service.py:197-212):
\* however requests overlap, it never lets in a user without a subscription that
\* still lasts.
GateBacked == Subscribed => \E i \in DOMAIN subs : subs[i].expires >= now

\* The promo code is never counted past its limit, and each payment that used
\* it is counted unless two links were made at once.
PromoCounted ==
  /\ uses <= MaxUses
  /\ "promo" \notin overlaps => uses = Cardinality(promo)
=============================================================================
