------------------------------- MODULE Billing -------------------------------
(***************************************************************************)
(* Subscriptions and payments of one user: the plan-change API             *)
(* (subscriptions.service.ts), the Stripe webhook endpoint                 *)
(* (webhooks.service.ts, stripe-handlers.ts), the two tables they write,   *)
(* the Redis keys they guard themselves with, and Stripe as they use it.   *)
(* Users share no billing row, Redis key or Stripe object, so one user     *)
(* stands for all.                                                         *)
(*                                                                         *)
(* A request or a webhook delivery is a process; its pc stands at the      *)
(* await points where another process can interleave, one step per         *)
(* external effect (a committed database transaction, a Redis command, a   *)
(* Stripe call). A rejected request (4xx before any effect) changes        *)
(* nothing and is not a step.                                              *)
(***************************************************************************)
EXTENDS BillingRow

CONSTANTS Intents, NoIntent,   \* PaymentIntent ids, and none
          Workers,             \* concurrent webhook deliveries
          Reqs,                \* concurrent API requests
          Kinds,               \* the requests the user may make
          RefundWindow,        \* REFUND_WINDOW_MS, in clock units
          MaxNow, MaxSent, MaxReq,     \* bounds: clock, Stripe events, requests
          MaxFail, MaxOutage,          \* bounds: handler or request failures; outages
          InOrder,             \* Stripe delivers events one after the other, in order
          Redelivery,          \* Stripe may redeliver while a delivery is in progress
          QuickRequests,       \* no period turns while a plan change has its local write to do
          PaidEvents,          \* events per paid invoice: invoice.paid, .payment_succeeded
          SessionIntent,       \* may the completed Checkout Session name its PaymentIntent?
          PeriodOnSubscription \* Stripe still returns current_period_end on Subscription

RequestKinds == {"activateFree", "activateMonthly", "activateYearly", "upgradeMonthly",
                 "upgradeYearly", "downgradeFree", "downgradeMonthly", "cancel", "refund"}

ASSUME BillingAssumption ==
    /\ NoIntent \notin Intents
    /\ MaxNow \in Nat /\ MaxSent \in Nat /\ MaxReq \in Nat /\ MaxFail \in Nat /\ MaxOutage \in Nat
    /\ RefundWindow \in Nat
    /\ PaidEvents \in {1, 2}
    /\ SessionIntent \subseteq BOOLEAN
    /\ Kinds \subseteq RequestKinds
    /\ {InOrder, Redelivery, QuickRequests, PeriodOnSubscription} \subseteq BOOLEAN

VARIABLES
    now,        \* the clock, in billing periods
    ss,         \* Stripe: its subscriptions
    intent,     \* Stripe: its PaymentIntents
    sent,       \* Stripe: the webhook events it has created
    nsent,      \* Stripe: how many
    acked,      \* Stripe: the events answered with 200, never delivered again
    sub, pay,   \* Postgres: the user's subscription row, the payment rows
    onboarding, \* Postgres: the user's onboardingStatus
    claims,     \* Redis: the stripe_event:<id> keys
    lock,       \* Redis: the refund:<payment id> keys
    notice,     \* "due" from a webhook's plan write until plan_changed is published
    wk, rq,     \* in-flight deliveries and requests
    nreq, fails,  \* counters behind the bounds
    outages       \* how often the process died or a claim could not be deleted

stripeVars == <<now, ss, intent, sent, nsent>>
dbVars     == <<sub, pay, onboarding>>
counters   == <<nreq, fails, outages>>
vars == <<stripeVars, acked, dbVars, claims, lock, notice, wk, rq, counters>>

EventTypes == {"checkout", "paid", "failed", "updated", "deleted", "refunded"}

Event == [id : Nat, type : EventTypes \cup {"none"}, s : Subs \cup {NoSub},
          i : Intents \cup {NoIntent}, cape : BOOLEAN, end : Nat]

NoEvent == [id |-> 0, type |-> "none", s |-> NoSub, i |-> NoIntent, cape |-> FALSE, end |-> 0]

\* A Stripe subscription: an open Checkout Session, then live, then gone. cape is
\* cancel_at_period_end, start and end the period it is in, toMonthly an attached schedule,
\* open the PaymentIntent of an unpaid invoice; meta the billingCycle in the session's metadata.
StripeSub == [st : {"none", "session", "live", "gone"}, meta : Cycles, cycle : Cycles,
              cape : BOOLEAN, start : Nat, end : Nat, toMonthly : BOOLEAN,
              open : Intents \cup {NoIntent}]

NoStripeSub == [st |-> "none", meta |-> "none", cycle |-> "none", cape |-> FALSE,
                start |-> 0, end |-> 0, toMonthly |-> FALSE, open |-> NoIntent]

IntentStates == {"none", "open", "paid", "refunded"}

\* row is the subscription row the handler read, end the period it read from Stripe.
Worker == [pc : {"idle", "write", "tail", "publish"}, ev : Event, row : Row, end : Nat]

IdleWorker == [pc |-> "idle", ev |-> NoEvent, row |-> NoRow, end |-> 0]

StepKinds == {"none", "activateFree", "toYearly", "reactivate", "downgradeFree", "toMonthly",
              "cancel", "refund"}

RequestSteps == {"idle", "create", "stripe", "write", "lock", "flip", "refund", "restore",
                 "cape", "schedule", "unlock"}

\* row is the subscription row the request read first, end the period Stripe answered
\* with, i the payment it refunds.
Request == [pc : RequestSteps, kind : StepKinds, row : Row, end : Nat,
            i : Intents \cup {NoIntent}]

IdleRequest == [pc |-> "idle", kind |-> "none", row |-> NoRow, end |-> 0, i |-> NoIntent]

StripeTypeOK  == ss \in [Subs -> StripeSub] /\ intent \in [Intents -> IntentStates]
EventTypeOK   == sent \subseteq Event /\ acked \subseteq sent /\ claims \subseteq sent
RowTypeOK     == sub \in Row
PaymentTypeOK == pay \in [Intents -> Payment] /\ lock \subseteq Intents
WorkerTypeOK  == wk \in [Workers -> Worker]
RequestTypeOK == rq \in [Reqs -> Request]
ScalarTypeOK  == /\ onboarding \in {"verified", "complete"} /\ notice \in {"sent", "due"}
                 /\ now \in Nat /\ nsent \in Nat
                 /\ nreq \in Nat /\ fails \in Nat /\ outages \in Nat

TypeOK ==
    /\ StripeTypeOK /\ EventTypeOK /\ RowTypeOK /\ PaymentTypeOK
    /\ WorkerTypeOK /\ RequestTypeOK /\ ScalarTypeOK

Init ==
    /\ now = 1
    /\ ss = [s \in Subs |-> NoStripeSub]
    /\ intent = [i \in Intents |-> "none"]
    /\ sent = {} /\ nsent = 0 /\ acked = {}
    /\ sub = NoRow
    /\ pay = [i \in Intents |-> NoPayment]
    /\ onboarding = "verified" /\ notice = "sent"
    /\ claims = {}
    /\ lock = {}
    /\ wk = [w \in Workers |-> IdleWorker]
    /\ rq = [r \in Reqs |-> IdleRequest]
    /\ nreq = 0 /\ fails = 0 /\ outages = 0

-----------------------------------------------------------------------------
(* Stripe (external): what the code relies on and what it can observe. *)

Ev(k, type, s, i, cape, end) ==
    [id |-> nsent + k, type |-> type, s |-> s, i |-> i, cape |-> cape, end |-> end]

\* evs are the next n events.
Emit(n, evs) ==
    /\ nsent + n <= MaxSent
    /\ sent' = sent \cup evs
    /\ nsent' = nsent + n

\* invoice.paid and, depending on the integration, its sibling invoice.payment_succeeded.
\* The period_end of a subscription's invoice is the end of the period before the one it
\* pays for: the period it pays for starts there.
PaidEvs(k, s, i, start) == {Ev(k + j, "paid", s, i, FALSE, start) : j \in 0..(PaidEvents - 1)}

\* The customer pays in an open Checkout Session: the subscription starts.
CheckoutPaid(s, i, named) ==
    /\ ss[s].st = "session" /\ intent[i] = "none"
    /\ ss' = [ss EXCEPT ![s] = [@ EXCEPT !.st = "live", !.start = now, !.end = now + 1]]
    /\ intent' = [intent EXCEPT ![i] = "paid"]
    /\ Emit(1 + PaidEvents, {Ev(1, "checkout", s, IF named THEN i ELSE NoIntent, FALSE, 0)}
                            \cup PaidEvs(2, s, i, now))
    /\ UNCHANGED <<now, acked, dbVars, claims, lock, notice, wk, rq, counters>>

\* What the subscription is when its next period starts: an attached schedule switches
\* the price.
Renewed(x, i) == [x EXCEPT !.start = x.end, !.end = @ + 1, !.open = i, !.toMonthly = FALSE,
                           !.cycle = IF x.toMonthly THEN "monthly" ELSE @]

\* No plan change is between its Stripe call and its local write.
NoWritePending == \A r \in Reqs : rq[r].pc # "write"

PeriodOver(s) == ss[s].st = "live" /\ ss[s].end <= now

PeriodTurns(s) == PeriodOver(s) /\ (QuickRequests => NoWritePending)

\* The period ends and the next invoice is paid; i = NoIntent is an invoice that nothing
\* is due on.
Renews(s, i) ==
    /\ PeriodTurns(s) /\ ~ss[s].cape /\ ss[s].open = NoIntent
    /\ i # NoIntent => intent[i] = "none"
    /\ ss' = [ss EXCEPT ![s] = Renewed(@, NoIntent)]
    /\ intent' = [j \in Intents |-> IF j = i THEN "paid" ELSE intent[j]]
    /\ Emit(1 + PaidEvents, {Ev(1, "updated", s, NoIntent, FALSE, ss[s].end + 1)}
                            \cup PaidEvs(2, s, i, ss[s].end))
    /\ UNCHANGED <<now, acked, dbVars, claims, lock, notice, wk, rq, counters>>

\* The period ends and the charge fails; Stripe keeps the invoice open to retry it.
RenewalFails(s, i) ==
    /\ PeriodTurns(s) /\ ~ss[s].cape /\ ss[s].open = NoIntent
    /\ intent[i] = "none"
    /\ ss' = [ss EXCEPT ![s] = Renewed(@, i)]
    /\ intent' = [intent EXCEPT ![i] = "open"]
    /\ Emit(2, {Ev(1, "updated", s, NoIntent, FALSE, ss[s].end + 1), Ev(2, "failed", s, i, FALSE, 0)})
    /\ UNCHANGED <<now, acked, dbVars, claims, lock, notice, wk, rq, counters>>

\* A later attempt at the same invoice, on the same PaymentIntent, succeeds.
RetrySucceeds(s) ==
    /\ ss[s].st = "live" /\ ss[s].open # NoIntent
    /\ ss' = [ss EXCEPT ![s].open = NoIntent]
    /\ intent' = [intent EXCEPT ![ss[s].open] = "paid"]
    /\ Emit(PaidEvents, PaidEvs(1, s, ss[s].open, ss[s].start))
    /\ UNCHANGED <<now, acked, dbVars, claims, lock, notice, wk, rq, counters>>

\* The subscription ends: at the end of a period it was cancelled for, or when Stripe
\* gives an unpaid invoice up. Giving up takes days, a request at most seconds.
Ends(s) ==
    /\ \/ PeriodTurns(s) /\ ss[s].cape
       \/ ss[s].st = "live" /\ ss[s].open # NoIntent /\ NoWritePending
    /\ ss' = [ss EXCEPT ![s].st = "gone"]
    /\ Emit(1, {Ev(1, "deleted", s, NoIntent, FALSE, 0)})
    /\ UNCHANGED <<now, intent, acked, dbVars, claims, lock, notice, wk, rq, counters>>

\* Time passes. Stripe acts on a subscription's period end before the next one comes.
Tick ==
    /\ now < MaxNow
    /\ \A s \in Subs : ~PeriodOver(s)
    /\ now' = now + 1
    /\ UNCHANGED <<ss, intent, sent, nsent, acked, dbVars, claims, lock, notice, wk, rq, counters>>

\* stripe.subscriptions.update(s, { cancel_at_period_end }): fails once the subscription
\* is gone, and sends customer.subscription.updated.
StripeUpdate(s, x) ==
    /\ ss[s].st = "live"
    /\ ss' = [ss EXCEPT ![s] = x]
    /\ Emit(1, {Ev(1, "updated", s, NoIntent, x.cape, x.end)})
    /\ UNCHANGED <<now, intent>>

\* What the Stripe calls of each plan change do to the subscription.
StripeAfter(kind, x) ==
    CASE kind = "toYearly"                     -> [x EXCEPT !.cycle = "yearly", !.cape = FALSE]
      [] kind = "reactivate"                   -> [x EXCEPT !.cape = FALSE]
      [] kind \in {"downgradeFree", "cancel"}  -> [x EXCEPT !.cape = TRUE]
      [] kind = "toMonthly"                    -> [x EXCEPT !.toMonthly = TRUE]

-----------------------------------------------------------------------------
(* POST /webhooks/stripe: processWebhookEvent and the handlers.            *)
(*                                                                         *)
(* The Redis claim and the handler's first read are one step: nothing can  *)
(* tell a claim without the read from one a moment earlier.                *)

\* A handler returns early, with 200, when the row its event is about is not there.
HandlerSkips(e) ==
    CASE e.type = "checkout"                        -> FALSE
      [] e.type = "paid"                            -> e.i = NoIntent \/ sub.stripeId # e.s
      [] e.type \in {"failed", "updated", "deleted"} -> sub.stripeId # e.s
      [] e.type = "refunded"                        -> pay[e.i].status = "none"

Deliverable(w, e) ==
    /\ wk[w].pc = "idle"
    /\ e \in sent \ acked
    /\ InOrder => \A f \in sent : f.id < e.id => f \in acked

InProgress(e) == \E v \in Workers : wk[v].pc # "idle" /\ wk[v].ev = e

\* What the handler holds after its first reads: the local row it decides on, or the
\* period stripe.subscriptions.retrieve returned.
Dispatched(e) ==
    [pc |-> "write", ev |-> e,
     row |-> IF e.type \in {"updated", "deleted"} THEN sub ELSE NoRow,
     end |-> IF e.type = "checkout" THEN ss[e.s].end ELSE 0]

\* SET NX says the key exists: 200 { duplicate: true }.
DeliverDuplicate(w, e) ==
    /\ Deliverable(w, e) /\ e \in claims
    /\ Redelivery \/ ~InProgress(e)
    /\ acked' = acked \cup {e}
    /\ UNCHANGED <<stripeVars, dbVars, claims, lock, notice, wk, rq, counters>>

\* Mutant: GET, dispatch, SET: a delivery runs although another one is running.
Claim_CheckThenSet(w, e) ==
    /\ Deliverable(w, e)
    /\ Redelivery \/ ~InProgress(e)
    /\ claims' = claims \cup {e}
    /\ IF HandlerSkips(e)
       THEN acked' = acked \cup {e} /\ UNCHANGED wk
       ELSE /\ wk' = [wk EXCEPT ![w] = Dispatched(e)]
            /\ UNCHANGED acked
    /\ UNCHANGED <<stripeVars, dbVars, lock, notice, rq, counters>>

\* SET NX claims the event; the handler reads what it decides on, or returns early.
Claim(w, e) ==
    /\ Deliverable(w, e) /\ e \notin claims
    /\ claims' = claims \cup {e}
    /\ IF HandlerSkips(e)
       THEN acked' = acked \cup {e} /\ UNCHANGED wk
       ELSE /\ wk' = [wk EXCEPT ![w] = Dispatched(e)]
            /\ UNCHANGED acked
    /\ UNCHANGED <<stripeVars, dbVars, lock, notice, rq, counters>>

Handling(w, pc, type) == wk[w].pc = pc /\ wk[w].ev.type = type

Goto(w, pc) == wk' = [wk EXCEPT ![w].pc = pc] /\ UNCHANGED acked

\* The handler returned: 200, and the claim stays.
Ack(w) ==
    /\ acked' = acked \cup {wk[w].ev}
    /\ wk' = [wk EXCEPT ![w] = IdleWorker]

\* Mutant: the 500 leaves the claim in place.
Release_Keeps(w) ==
    /\ wk' = [wk EXCEPT ![w] = IdleWorker]
    /\ UNCHANGED <<acked, claims, outages>>

\* The handler threw: the claim is deleted and 500 is answered, so Stripe delivers again.
\* A failure of the DEL is swallowed, and leaves the claim behind.
Release(w) ==
    /\ \/ claims' = claims \ {wk[w].ev} /\ UNCHANGED outages
       \/ UNCHANGED claims /\ outages < MaxOutage /\ outages' = outages + 1
    /\ wk' = [wk EXCEPT ![w] = IdleWorker]
    /\ UNCHANGED acked

\* The transaction of handleCheckoutSessionCompleted. payment.create on an intent that has
\* a row throws (unique key) and rolls all of it back.
handleCheckoutSessionCompleted(w) ==
    LET e == wk[w].ev IN
    /\ Handling(w, "write", "checkout")
    /\ IF e.i # NoIntent /\ pay[e.i].status # "none"
       THEN Release(w) /\ UNCHANGED dbVars
       ELSE /\ sub' = upsertSubscriptionFromCheckout(e.s, ss[e.s].meta, wk[w].end)
            /\ pay' = [i \in Intents |-> IF i = e.i THEN PaidUpsert(pay[i], now) ELSE pay[i]]
            /\ onboarding' = "complete"
            /\ Goto(w, "tail") /\ UNCHANGED <<claims, outages>>
    /\ UNCHANGED <<stripeVars, lock, notice, rq, nreq, fails>>

\* The read of the user that follows the commit, for the emails.
CheckoutTail(w) ==
    /\ Handling(w, "tail", "checkout")
    /\ Ack(w)
    /\ UNCHANGED <<stripeVars, dbVars, claims, lock, notice, rq, counters>>

handleInvoicePaymentSucceeded(w) ==
    LET e == wk[w].ev IN
    /\ Handling(w, "write", "paid")
    /\ pay' = [pay EXCEPT ![e.i] = PaidUpsert(@, now)]
    /\ sub' = [sub EXCEPT !.end = e.end]
    /\ Ack(w)
    /\ UNCHANGED <<stripeVars, onboarding, claims, lock, notice, rq, counters>>

handleInvoicePaymentFailed(w) ==
    /\ Handling(w, "write", "failed")
    /\ pay' = [pay EXCEPT ![wk[w].ev.i] = FailedUpsert(@, now)]
    /\ Ack(w)
    /\ UNCHANGED <<stripeVars, sub, onboarding, claims, lock, notice, rq, counters>>

\* A plan write, to be announced.
WriteRow(row) == sub' = row /\ notice' = "due"

handleSubscriptionUpdated(w) ==
    LET e == wk[w].ev IN
    /\ Handling(w, "write", "updated")
    /\ WriteRow(SubscriptionUpdatedWrite(wk[w].row, sub, e.cape, e.end))
    /\ Goto(w, "publish")
    /\ UNCHANGED <<stripeVars, pay, onboarding, claims, lock, rq, counters>>

handleSubscriptionDeleted(w) ==
    /\ Handling(w, "write", "deleted")
    /\ WriteRow(SubscriptionDeletedWrite(wk[w].row, sub))
    /\ Goto(w, "publish")
    /\ UNCHANGED <<stripeVars, pay, onboarding, claims, lock, rq, counters>>

\* redis.publish('user_events', plan_changed), the last step of the two handlers above.
PublishPlanChanged(w) ==
    /\ wk[w].pc = "publish"
    /\ notice' = "sent"
    /\ Ack(w)
    /\ UNCHANGED <<stripeVars, dbVars, claims, lock, rq, counters>>

handleChargeRefunded(w) ==
    /\ Handling(w, "write", "refunded")
    /\ pay' = [pay EXCEPT ![wk[w].ev.i] = RefundedUpdate(@)]
    /\ Ack(w)
    /\ UNCHANGED <<stripeVars, sub, onboarding, claims, lock, notice, rq, counters>>

\* The database, Redis or Stripe fails under a handler, before its next effect.
HandlerThrows(w) ==
    /\ wk[w].pc # "idle" /\ fails < MaxFail
    /\ fails' = fails + 1
    /\ Release(w)
    /\ UNCHANGED <<stripeVars, dbVars, lock, notice, rq, nreq>>

-----------------------------------------------------------------------------
(* The subscription API. Each request loads the row once, in its first     *)
(* step, and decides on what it loaded.                                    *)

\* A new request of one of the enabled kinds.
Starts(r, kind) ==
    /\ kind \in Kinds /\ rq[r].pc = "idle" /\ nreq < MaxReq
    /\ nreq' = nreq + 1

Loaded(r, pc, kind, i) ==
    rq' = [rq EXCEPT ![r] = [pc |-> pc, kind |-> kind, row |-> sub, end |-> 0, i |-> i]]

Finish(r) == rq' = [rq EXCEPT ![r] = IdleRequest]

Advance(r, pc) == rq' = [rq EXCEPT ![r].pc = pc]

CycleOf(kind) == IF kind \in {"activateMonthly", "upgradeMonthly"} THEN "monthly" ELSE "yearly"

\* activateSubscription { plan: 'free' }: the guard, then the transaction.
ActivateFree(r) ==
    /\ Starts(r, "activateFree") /\ onboarding = "verified"
    /\ Loaded(r, "create", "activateFree", NoIntent)
    /\ UNCHANGED <<stripeVars, acked, dbVars, claims, lock, notice, wk, fails, outages>>

\* subscription.create on a user that has a row throws (unique userId).
ActivateFreeCommit(r) ==
    /\ rq[r].pc = "create"
    /\ IF sub.plan = "none"
       THEN sub' = createFreeSubscription /\ onboarding' = "complete"
       ELSE UNCHANGED <<sub, onboarding>>
    /\ Finish(r)
    /\ UNCHANGED <<stripeVars, acked, pay, claims, lock, notice, wk, counters>>

\* The requests that end in a Stripe Checkout URL: activateSubscription { plan: 'pro' },
\* and upgradeSubscription from an expired or a free row.
createProCheckoutSession(r, kind, s) ==
    /\ Starts(r, kind)
    /\ \/ kind \in {"activateMonthly", "activateYearly"} /\ onboarding = "verified"
       \/ /\ kind \in {"upgradeMonthly", "upgradeYearly"}
          /\ sub.plan # "none"
          /\ sub.status = "expired" \/ sub.plan = "free"
    /\ ss[s].st = "none"
    /\ ss' = [ss EXCEPT ![s] = [@ EXCEPT !.st = "session", !.meta = CycleOf(kind),
                                         !.cycle = CycleOf(kind)]]
    /\ UNCHANGED <<now, intent, sent, nsent, acked, dbVars, claims, lock, notice, wk, rq, fails, outages>>

ProInForce == sub.plan = "pro" /\ sub.status # "expired"

\* upgradeSubscription on a Pro row: monthly to yearly now, or the reactivation of the
\* cycle in force when a cancellation or a downgrade is pending.
upgradeSubscription(r, kind) ==
    /\ kind \in {"upgradeMonthly", "upgradeYearly"}
    /\ Starts(r, kind) /\ ProInForce
    /\ \/ sub.cycle = "monthly" /\ CycleOf(kind) = "yearly" /\ Loaded(r, "stripe", "toYearly", NoIntent)
       \/ sub.cycle = CycleOf(kind) /\ hasPendingState(sub) /\ Loaded(r, "stripe", "reactivate", NoIntent)
    /\ UNCHANGED <<stripeVars, acked, dbVars, claims, lock, notice, wk, fails, outages>>

downgradeSubscription(r, kind) ==
    /\ kind \in {"downgradeFree", "downgradeMonthly"}
    /\ Starts(r, kind) /\ ProInForce /\ ~HasScheduledChange(sub)
    /\ \/ kind = "downgradeFree" /\ Loaded(r, "stripe", "downgradeFree", NoIntent)
       \/ kind = "downgradeMonthly" /\ sub.cycle # "monthly" /\ Loaded(r, "stripe", "toMonthly", NoIntent)
    /\ UNCHANGED <<stripeVars, acked, dbVars, claims, lock, notice, wk, fails, outages>>

cancelSubscription(r) ==
    /\ Starts(r, "cancel") /\ ProInForce /\ sub.status # "cancelled"
    /\ Loaded(r, "stripe", "cancel", NoIntent)
    /\ UNCHANGED <<stripeVars, acked, dbVars, claims, lock, notice, wk, fails, outages>>

\* A monthly-to-yearly change, and the schedule of a yearly-to-monthly one, read the period
\* off the top level of the Stripe subscription.
PeriodIsRead(r, kind) == rq[r].kind = kind => PeriodOnSubscription

\* The Stripe call of a plan change.
PlanChangeAtStripe(r) ==
    LET s == rq[r].row.stripeId IN
    /\ rq[r].pc = "stripe" /\ PeriodIsRead(r, "toMonthly")
    /\ s \in Subs
    /\ StripeUpdate(s, StripeAfter(rq[r].kind, ss[s]))
    /\ rq' = [rq EXCEPT ![r] = [@ EXCEPT !.pc = "write", !.end = ss[s].end]]
    /\ UNCHANGED <<acked, dbVars, claims, lock, notice, wk, counters>>

\* ... and its local write, by row id. Where the new period is absent, the date is invalid
\* and the write throws.
PlanChangeCommit(r) ==
    /\ rq[r].pc = "write"
    /\ sub' = IF PeriodIsRead(r, "toYearly") THEN PlanChangeWrite(rq[r].kind, sub, rq[r].end)
              ELSE sub
    /\ Finish(r)
    /\ UNCHANGED <<stripeVars, acked, pay, onboarding, claims, lock, notice, wk, counters>>

\* Stripe refuses the call: the subscription is gone, or the phase of the schedule has no
\* end date.
StripeRefuses(r) ==
    /\ rq[r].pc = "stripe"
    /\ ss[rq[r].row.stripeId].st # "live" \/ ~PeriodIsRead(r, "toMonthly")
    /\ Finish(r)
    /\ UNCHANGED <<stripeVars, acked, dbVars, claims, lock, notice, wk, counters>>

\* Stripe, Redis or the database fails under a request: 500, nothing is undone.
RequestFails(r) ==
    /\ rq[r].pc \in {"create", "stripe", "write", "lock"} /\ fails < MaxFail
    /\ fails' = fails + 1
    /\ Finish(r)
    /\ UNCHANGED <<stripeVars, acked, dbVars, claims, lock, notice, wk, nreq, outages>>

-----------------------------------------------------------------------------
(* refundSubscription, and the failures around all of the above.           *)

Succeeded == {i \in Intents : pay[i].status = "succeeded"}

\* The latest succeeded payment, when it is eligible.
refundSubscription(r, i) ==
    /\ Starts(r, "refund") /\ sub.plan # "none"
    /\ i \in Succeeded /\ \A j \in Succeeded : pay[j].createdAt <= pay[i].createdAt
    /\ RefundEligible(pay[i], now, RefundWindow)
    /\ Loaded(r, "lock", "refund", i)
    /\ UNCHANGED <<stripeVars, acked, dbVars, claims, lock, notice, wk, fails, outages>>

\* SET NX refund:<id>; 409 when another request holds it.
RefundLock(r) ==
    LET i == rq[r].i IN
    /\ rq[r].pc = "lock"
    /\ IF i \in lock THEN Finish(r) /\ UNCHANGED lock
                     ELSE Advance(r, "flip") /\ lock' = lock \cup {i}
    /\ UNCHANGED <<stripeVars, acked, dbVars, claims, notice, wk, counters>>

\* Mutant: refundAvailable is cleared by a plain update.
RefundFlip_NoGuard(r) ==
    /\ rq[r].pc = "flip"
    /\ pay' = [pay EXCEPT ![rq[r].i] = SetRefundAvailable(@, FALSE)]
    /\ Advance(r, "refund")
    /\ UNCHANGED <<stripeVars, acked, sub, onboarding, claims, lock, notice, wk, counters>>

\* updateMany where refundAvailable: the compare-and-set before the Stripe call.
RefundFlip(r) ==
    /\ rq[r].pc = "flip"
    /\ pay' = [pay EXCEPT ![rq[r].i] = SetRefundAvailable(@, FALSE)]
    /\ Advance(r, IF pay[rq[r].i].refundAvailable THEN "refund" ELSE "unlock")
    /\ UNCHANGED <<stripeVars, acked, sub, onboarding, claims, lock, notice, wk, counters>>

\* The refund exists at Stripe. The idempotency key (and a charge that is fully refunded)
\* make a second call a no-op.
StripeRefund(i) ==
    IF intent[i] = "refunded" THEN UNCHANGED <<intent, sent, nsent>>
    ELSE /\ intent' = [intent EXCEPT ![i] = "refunded"]
         /\ Emit(1, {Ev(1, "refunded", NoSub, i, FALSE, 0)})

\* stripe.refunds.create answers.
RefundAtStripe(r) ==
    /\ rq[r].pc = "refund"
    /\ StripeRefund(rq[r].i)
    /\ Advance(r, IF rq[r].row.stripeId # NoSub /\ rq[r].row.plan # "free" THEN "cape" ELSE "unlock")
    /\ UNCHANGED <<now, ss, acked, dbVars, claims, lock, notice, wk, counters>>

\* stripe.refunds.create throws: before Stripe acted, or after it did (the answer is lost).
RefundCallFails(r) ==
    /\ rq[r].pc = "refund"
    /\ UNCHANGED <<intent, sent, nsent>> \/ StripeRefund(rq[r].i)
    /\ Advance(r, "restore")
    /\ UNCHANGED <<now, ss, acked, dbVars, claims, lock, notice, wk, counters>>

\* refundAvailable is set back; a failure of this write is swallowed.
RefundRestore(r) ==
    /\ rq[r].pc = "restore"
    /\ \/ pay' = [pay EXCEPT ![rq[r].i] = SetRefundAvailable(@, TRUE)]
       \/ UNCHANGED pay
    /\ Advance(r, "unlock")
    /\ UNCHANGED <<stripeVars, acked, sub, onboarding, claims, lock, notice, wk, counters>>

\* The period-end downgrade after the refund: Stripe first ...
RefundCape(r) ==
    LET s == rq[r].row.stripeId IN
    /\ rq[r].pc = "cape"
    /\ StripeUpdate(s, [ss[s] EXCEPT !.cape = TRUE])
    /\ Advance(r, "schedule")
    /\ UNCHANGED <<acked, dbVars, claims, lock, notice, wk, counters>>

\* ... then the local row.
RefundSchedule(r) ==
    /\ rq[r].pc = "schedule"
    /\ sub' = PlanChangeWrite("downgradeFree", sub, 0)
    /\ Advance(r, "unlock")
    /\ UNCHANGED <<stripeVars, acked, pay, onboarding, claims, lock, notice, wk, counters>>

\* Either of the two fails: it is logged and swallowed. So is a database failure at the
\* flip, which leaves by the finally block.
RefundStepFails(r) ==
    /\ rq[r].pc \in {"flip", "cape", "schedule"}
    /\ Advance(r, "unlock")
    /\ UNCHANGED <<stripeVars, acked, dbVars, claims, lock, notice, wk, counters>>

\* finally: DEL refund:<id>, whoever holds it now.
RefundUnlock(r) ==
    /\ rq[r].pc = "unlock"
    /\ lock' = lock \ {rq[r].i}
    /\ Finish(r)
    /\ UNCHANGED <<stripeVars, acked, dbVars, claims, notice, wk, counters>>

\* EX 120: the key expires under a slow, or a dead, holder.
LockExpires(i) ==
    /\ i \in lock
    /\ lock' = lock \ {i}
    /\ UNCHANGED <<stripeVars, acked, dbVars, claims, notice, wk, rq, counters>>

\* The server process dies: what is in flight is gone, Postgres and Redis are not.
Crash ==
    /\ outages < MaxOutage
    /\ outages' = outages + 1
    /\ wk' = [w \in Workers |-> IdleWorker]
    /\ rq' = [r \in Reqs |-> IdleRequest]
    /\ UNCHANGED <<stripeVars, acked, dbVars, claims, lock, notice, nreq, fails>>

-----------------------------------------------------------------------------
StripeStep ==
    \/ Tick
    \/ \E s \in Subs : RetrySucceeds(s) \/ Ends(s)
    \/ \E s \in Subs, i \in Intents : RenewalFails(s, i)
    \/ \E s \in Subs, i \in Intents \cup {NoIntent} : Renews(s, i)
    \/ \E s \in Subs, i \in Intents, named \in SessionIntent : CheckoutPaid(s, i, named)

\* The steps of a delivery that has claimed its event.
HandlerStep(w) ==
    \/ handleCheckoutSessionCompleted(w) \/ CheckoutTail(w)
    \/ handleInvoicePaymentSucceeded(w) \/ handleInvoicePaymentFailed(w)
    \/ handleSubscriptionUpdated(w) \/ handleSubscriptionDeleted(w) \/ PublishPlanChanged(w)
    \/ handleChargeRefunded(w)

DeliverStep(w) == \E e \in sent : DeliverDuplicate(w, e) \/ Claim(w, e)

\* The steps that start a request, and those that carry it on.
RequestStart(r) ==
    \/ ActivateFree(r) \/ cancelSubscription(r)
    \/ \E kind \in Kinds : upgradeSubscription(r, kind) \/ downgradeSubscription(r, kind)
    \/ \E kind \in Kinds, s \in Subs : createProCheckoutSession(r, kind, s)
    \/ \E i \in Intents : refundSubscription(r, i)

RequestStep(r) ==
    \/ ActivateFreeCommit(r) \/ PlanChangeAtStripe(r) \/ PlanChangeCommit(r) \/ StripeRefuses(r)
    \/ RequestFails(r) \/ RefundLock(r) \/ RefundFlip(r) \/ RefundAtStripe(r) \/ RefundCallFails(r)
    \/ RefundRestore(r) \/ RefundCape(r) \/ RefundSchedule(r) \/ RefundStepFails(r)
    \/ RefundUnlock(r)

Next ==
    \/ StripeStep
    \/ \E w \in Workers : HandlerStep(w) \/ DeliverStep(w) \/ HandlerThrows(w)
    \/ \E r \in Reqs : RequestStart(r) \/ RequestStep(r)
    \/ \E i \in Intents : LockExpires(i)
    \/ Crash

Spec == Init /\ [][Next]_vars

(* Node runs every ready continuation, so a started handler or request goes on until it
   ends (each await settles: the clients have timeouts); Stripe keeps delivering an event
   until it is answered with 200. Nothing obliges a user to make a request or time to
   pass. *)
Fairness ==
    /\ \A w \in Workers : WF_vars(HandlerStep(w))
    /\ WF_vars(\E w \in Workers : DeliverStep(w))
    /\ \A r \in Reqs : WF_vars(RequestStep(r))

FairSpec == Spec /\ Fairness

-----------------------------------------------------------------------------
(* Properties *)

\* Nothing is in flight: every event is answered, no delivery or request runs, and Stripe
\* has acted on every period that is over.
Quiescent ==
    /\ sent = acked
    /\ \A w \in Workers : wk[w].pc = "idle"
    /\ \A r \in Reqs : rq[r].pc = "idle"
    /\ \A s \in Subs : ~PeriodOver(s)

\* Two deliveries never run the handler of the same event at once: what the atomic SET NX
\* in processWebhookEvent is for.
OneHandlerPerEvent ==
    \A v, w \in Workers :
        v # w /\ wk[v].pc # "idle" /\ wk[w].pc # "idle" => wk[v].ev # wk[w].ev

\* A Pro row names the Stripe subscription and the cycle behind it, a free one names
\* no subscription, and a plan change acts on a row that did: no non-null assertion
\* (stripeSubscriptionId!, billingCycle!) of subscriptions.service.ts can fail,
\* whatever the order of webhooks, requests and crashes.
LinkedRow ==
    /\ sub.plan = "pro" => sub.stripeId \in Subs /\ sub.cycle # "none"
    /\ sub.plan # "pro" => sub.stripeId = NoSub
    /\ \A r \in Reqs : rq[r].pc \in {"stripe", "cape"} => rq[r].row.stripeId \in Subs

Refunding(r, i) == rq[r].pc \in {"refund", "restore"} /\ rq[r].i = i

\* At most one request at a time is between the refundAvailable compare-and-set and the
\* outcome of its Stripe refund, and the payment is not offered for refund meanwhile:
\* although the Redis lock can expire under its holder, or be deleted by another one.
RefundExclusive ==
    \A r \in Reqs, i \in Intents : Refunding(r, i) =>
        /\ ~pay[i].refundAvailable
        /\ \A q \in Reqs : Refunding(q, i) => q = r

\* A payment recorded as refunded stays so: no late or repeated invoice event and no
\* restored flag brings it back.
RefundedIsFinal ==
    [][\A i \in Intents : pay[i].status = "refunded" => pay'[i].status = "refunded"]_vars

\* The last period Stripe has announced of the subscription came with an invoice.
InvoiceLast(s) ==
    \E p \in sent : /\ p.type = "paid" /\ p.s = s
                   /\ \A f \in sent : f.type = "updated" /\ f.s = s => f.id < p.id

\* When everything has settled and no claim was left behind, the plan the user has is the
\* plan Stripe bills: Pro while the subscription behind the row is live, not Pro once it is
\* gone. Excused is the row of a cancelled subscription whose period was last written by
\* handleInvoicePaymentSucceeded, which stores the end of a period that is over.
Converged ==
    Quiescent /\ outages = 0 /\ sub.stripeId \in Subs =>
        IF ss[sub.stripeId].st = "live"
        THEN \/ getEffectivePlan(sub, now) = "pro"
             \/ sub.status = "cancelled" /\ InvoiceLast(sub.stripeId)
        ELSE getEffectivePlan(sub, now) = "free"

\* A Pro row expires or turns free only after Stripe has ended the subscription behind it:
\* cancel, downgrade and refund take nothing away before the period end.
ProEndsOnlyWithStripe ==
    [][sub.plan = "pro" /\ sub.status # "expired" /\ (sub'.plan # "pro" \/ sub'.status = "expired")
         => ss[sub.stripeId].st = "gone"]_vars

\* The claim outlived its delivery, by a crash or a DEL that failed: redeliveries are
\* answered as duplicates.
LeftBehind(e) == e \in claims \ acked /\ ~InProgress(e) /\ outages > 0

\* A subscription that Stripe has ended eventually gives its user no Pro any more, although
\* handlers may fail on the way: the released claim lets Stripe's retry through. Excused is
\* a deletion whose claim was left behind at some time.
DeletionApplied ==
    \A s \in Subs :
        \/ ss[s].st = "gone" ~> (sub.stripeId # s \/ getEffectivePlan(sub, now) = "free")
        \/ <>(\E e \in sent : e.type = "deleted" /\ e.s = s /\ LeftBehind(e))

-----------------------------------------------------------------------------
(* What the repository says of the webhooks and the code does not do: each of the
   following is violated (README.md, "Finding" and "Disagreements"). *)

\* webhooks.service.ts handles invoice.paid "so a paid invoice always persists a Payment
\* row": when everything has settled, every collected PaymentIntent has a row.
PaidInvoiceRecorded ==
    Quiescent => \A i \in Intents : intent[i] \in {"paid", "refunded"} => pay[i].status # "none"

\* webhooks.service.ts releases the claim because "a partial/transient failure must not be
\* permanently deduped": an event that Stripe was told is received is never one whose
\* handler failed and was not run again.
FailureIsRedelivered == acked \subseteq claims

\* The same comment, and README.md: "If a handled event fails, the Redis claim is released so
\* Stripe can retry."
ClaimIsReleased == \A e \in sent : ~LeftBehind(e)

\* The build guide says of POST /subscriptions/cancel that the subscription "remains active
\* until period end": when everything has settled, a cancelled row is Pro as long as Stripe
\* has the subscription.
CancelledStaysActive ==
    Quiescent /\ sub.status = "cancelled" /\ ss[sub.stripeId].st = "live" =>
        getEffectivePlan(sub, now) = "pro"

\* The build guide says of POST /subscriptions/upgrade that it "handles free->pro and
\* monthly->yearly; takes effect immediately": when everything has settled, a Pro row has the
\* cycle that Stripe bills.
UpgradeTakesEffect ==
    Quiescent /\ sub.plan = "pro" /\ ss[sub.stripeId].st = "live" =>
        sub.cycle = ss[sub.stripeId].cycle

\* stripe-handlers.ts publishes plan_changed "so connected sockets are closed on plan
\* change": when everything has settled, every plan write has been announced.
PlanChangeIsAnnounced == Quiescent => notice = "sent"
=============================================================================
