---------------------------- MODULE BillingProofs ----------------------------
(***************************************************************************)
(* Proofs about Billing, for any number of deliveries, requests, Stripe    *)
(* subscriptions and PaymentIntents, any order of events, any number of    *)
(* failures and crashes; the last two theorems are about events delivered  *)
(* in order.                                                               *)
(***************************************************************************)
EXTENDS Billing, TLAPS

ChangeKinds == {"toYearly", "reactivate", "downgradeFree", "toMonthly", "cancel"}

\* An event about a subscription names it, a refund names its PaymentIntent.
EventShape ==
    \A e \in sent : /\ e.type \in EventTypes
                    /\ e.type # "refunded" => e.s \in Subs
                    /\ e.type # "refunded" => ss[e.s].st # "none"
                    /\ e.type = "refunded" => e.i \in Intents

\* A Checkout Session knows the cycle it was opened for.
SessionShape == \A s \in Subs : ss[s].st # "none" => ss[s].meta # "none"

\* A delivery at work holds the claim of an event that Stripe sent.
HoldsClaim == \A w \in Workers : wk[w].pc # "idle" => wk[w].ev \in claims

\* What a request holds at each of its steps.
RequestShape ==
    \A r \in Reqs :
        /\ rq[r].pc \in {"stripe", "write"} => rq[r].kind \in ChangeKinds
        /\ rq[r].pc \in {"lock", "flip", "refund", "restore", "cape", "schedule", "unlock"}
             => rq[r].i \in Intents

\* A request that got as far as the flip refunds a payment that has a row. 
RefundsARow ==
    \A r \in Reqs :
        rq[r].pc \in {"lock", "flip", "refund", "restore", "cape", "schedule", "unlock"}
          => pay[rq[r].i].status # "none"

IInv == /\ TypeOK /\ EventShape /\ SessionShape /\ HoldsClaim /\ OneHandlerPerEvent
        /\ RequestShape /\ RefundsARow /\ LinkedRow /\ RefundExclusive

USE BillingAssumption, NoSubAssumption

-----------------------------------------------------------------------------
(* The operators on rows and Stripe objects: each stays in its type, and keeps or sets
   the fields the invariants speak of. *)

\* The checkout upsert links the row to the subscription that was bought.
LEMMA CheckoutRow ==
    ASSUME NEW s \in Subs, NEW cycle \in Cycles, NEW end \in Nat,
           NEW row, row = upsertSubscriptionFromCheckout(s, cycle, end)
    PROVE  row \in Row /\ row.plan = "pro" /\ row.stripeId = s /\ row.cycle = cycle
BY DEF upsertSubscriptionFromCheckout, Row, Plans, Statuses, Cycles

\* A free row is linked to nothing.
LEMMA FreeRow ==
    /\ createFreeSubscription \in Row
    /\ createFreeSubscription.plan = "free"
    /\ createFreeSubscription.stripeId = NoSub
BY DEF createFreeSubscription, NoRow, Row, Plans, Statuses, Cycles

\* subscription.updated writes the period and the status only.
LEMMA UpdatedRow ==
    ASSUME NEW read \in Row, NEW row \in Row, NEW cape, NEW end \in Nat,
           NEW new, new = SubscriptionUpdatedWrite(read, row, cape, end)
    PROVE  /\ new \in Row
           /\ new.plan = row.plan /\ new.stripeId = row.stripeId /\ new.cycle = row.cycle
BY DEF SubscriptionUpdatedWrite, Row, Statuses

\* subscription.deleted writes a free row, or the status only.
LEMMA DeletedRow ==
    ASSUME NEW read \in Row, NEW row \in Row, NEW new, new = SubscriptionDeletedWrite(read, row)
    PROVE  /\ new \in Row
           /\ \/ new.plan = "free" /\ new.stripeId = NoSub
              \/ new.plan = row.plan /\ new.stripeId = row.stripeId /\ new.cycle = row.cycle
<1>1. CASE read.schedPlan = "free"
      BY <1>1, FreeRow DEF SubscriptionDeletedWrite, applyScheduledDowngrade
<1>2. CASE read.schedPlan # "free"
      BY <1>2 DEF SubscriptionDeletedWrite, Row, Statuses
<1> QED BY <1>1, <1>2

\* A plan change never writes the plan or the link, and leaves a cycle behind.
LEMMA ChangedRow ==
    ASSUME NEW kind \in ChangeKinds, NEW row \in Row, NEW end \in Nat,
           NEW new, new = PlanChangeWrite(kind, row, end)
    PROVE  /\ new \in Row
           /\ new.plan = row.plan /\ new.stripeId = row.stripeId
           /\ row.cycle # "none" => new.cycle # "none"
<1>1. CASE kind = "toYearly"
      BY <1>1, ZenonT(60) DEF PlanChangeWrite, Row, Plans, Cycles, Statuses
<1>2. CASE kind = "reactivate"
      BY <1>2, ZenonT(60) DEF PlanChangeWrite, Row, Plans, Cycles, Statuses
<1>3. CASE kind = "downgradeFree"
      BY <1>3 DEF PlanChangeWrite, Row, Plans, Cycles
<1>4. CASE kind = "toMonthly"
      BY <1>4 DEF PlanChangeWrite, Row, Cycles
<1>5. CASE kind = "cancel"
      BY <1>5 DEF PlanChangeWrite, Row, Statuses
<1> QED BY <1>1, <1>2, <1>3, <1>4, <1>5 DEF ChangeKinds

\* No payment write removes a row, and only the creation of one offers it for refund.
LEMMA PaymentWrites ==
    ASSUME NEW p \in Payment, NEW t \in Nat
    PROVE  /\ PaidUpsert(p, t) \in Payment /\ FailedUpsert(p, t) \in Payment
           /\ RefundedUpdate(p) \in Payment
           /\ PaidUpsert(p, t).status # "none" /\ FailedUpsert(p, t).status # "none"
           /\ RefundedUpdate(p).status = "refunded" /\ ~RefundedUpdate(p).refundAvailable
           /\ \A b \in BOOLEAN : /\ SetRefundAvailable(p, b) \in Payment
                                /\ SetRefundAvailable(p, b).status = p.status
                                /\ SetRefundAvailable(p, b).refundAvailable = b
           /\ p.status # "none" => PaidUpsert(p, t) = p /\ FailedUpsert(p, t) = p
<1>1. PaidUpsert(p, t) \in Payment /\ PaidUpsert(p, t).status # "none"
      BY DEF PaidUpsert, Payment, PayStatus
<1>2. FailedUpsert(p, t) \in Payment /\ FailedUpsert(p, t).status # "none"
      BY DEF FailedUpsert, Payment, PayStatus
<1>3. /\ RefundedUpdate(p) \in Payment
      /\ RefundedUpdate(p).status = "refunded" /\ ~RefundedUpdate(p).refundAvailable
      BY DEF RefundedUpdate, Payment, PayStatus
<1>4. p.status # "none" => PaidUpsert(p, t) = p /\ FailedUpsert(p, t) = p
      BY DEF PaidUpsert, FailedUpsert
<1>5. \A b \in BOOLEAN : /\ SetRefundAvailable(p, b) \in Payment
                         /\ SetRefundAvailable(p, b).status = p.status
                         /\ SetRefundAvailable(p, b).refundAvailable = b
      BY DEF SetRefundAvailable, Payment
<1> QED BY <1>1, <1>2, <1>3, <1>4, <1>5

\* A Stripe call of a plan change leaves the subscription live and its session as it was.
LEMMA ChangedStripeSub ==
    ASSUME NEW kind \in ChangeKinds, NEW x \in StripeSub, NEW new, new = StripeAfter(kind, x)
    PROVE  new \in StripeSub /\ new.st = x.st /\ new.meta = x.meta
<1>1. CASE kind = "toYearly"    BY <1>1 DEF StripeAfter, StripeSub, Cycles
<1>2. CASE kind = "reactivate"  BY <1>2 DEF StripeAfter, StripeSub
<1>3. CASE kind \in {"downgradeFree", "cancel"}  BY <1>3 DEF StripeAfter, StripeSub
<1>4. CASE kind = "toMonthly"   BY <1>4 DEF StripeAfter, StripeSub
<1> QED BY <1>1, <1>2, <1>3, <1>4 DEF ChangeKinds

\* So does a renewal.
LEMMA RenewedStripeSub ==
    ASSUME NEW x \in StripeSub, NEW i \in Intents \cup {NoIntent}
    PROVE  Renewed(x, i) \in StripeSub /\ Renewed(x, i).st = x.st /\ Renewed(x, i).meta = x.meta
<1> DEFINE c == IF x.toMonthly THEN "monthly" ELSE x.cycle
<1>1. c \in Cycles  BY DEF StripeSub, Cycles
<1>2. Renewed(x, i) = [x EXCEPT !.start = x.end, !.end = x.end + 1, !.open = i,
                               !.toMonthly = FALSE, !.cycle = c]
      BY DEF Renewed
<1>3. x.end \in Nat /\ x.end + 1 \in Nat  BY DEF StripeSub
<1> HIDE DEF c
<1> QED BY <1>1, <1>2, <1>3, ZenonT(60) DEF StripeSub

\* A new event is an event, about what it was made for.
LEMMA NewEvent ==
    ASSUME ScalarTypeOK, NEW k \in Nat, NEW type \in EventTypes, NEW s \in Subs \cup {NoSub},
           NEW i \in Intents \cup {NoIntent}, NEW cape \in BOOLEAN, NEW end \in Nat
    PROVE  LET e == Ev(k, type, s, i, cape, end) IN
           e \in Event /\ e.type = type /\ e.s = s /\ e.i = i
BY DEF Ev, Event, ScalarTypeOK

\* A paid invoice is announced to the subscription and for the PaymentIntent it has.
LEMMA NewPaidEvents ==
    ASSUME ScalarTypeOK, NEW k \in Nat, NEW s \in Subs,
           NEW i \in Intents \cup {NoIntent}, NEW end \in Nat
    PROVE  \A e \in PaidEvs(k, s, i, end) : e \in Event /\ e.type = "paid" /\ e.s = s /\ e.i = i
<1> SUFFICES ASSUME NEW j \in 0..(PaidEvents - 1)
             PROVE  LET e == Ev(k + j, "paid", s, i, FALSE, end) IN
                    e \in Event /\ e.type = "paid" /\ e.s = s /\ e.i = i
    BY DEF PaidEvs
<1>1. k + j \in Nat  OBVIOUS
<1> QED BY <1>1 DEF Ev, Event, EventTypes, ScalarTypeOK

\* Emitting well-formed events keeps the event sets well-formed, as long as no
\* subscription disappears.
LEMMA Emitted ==
    ASSUME EventTypeOK, EventShape, NEW n, NEW evs, Emit(n, evs), UNCHANGED <<acked, claims>>,
           \A s \in Subs : ss[s].st # "none" => ss'[s].st # "none",
           \A e \in evs : /\ e \in Event /\ e.type \in EventTypes
                          /\ e.type # "refunded" => e.s \in Subs /\ ss'[e.s].st # "none"
                          /\ e.type = "refunded" => e.i \in Intents
    PROVE  EventTypeOK' /\ EventShape'
BY DEF EventTypeOK, EventShape, Emit

\* Moving a request on changes its pc alone.
LEMMA Advanced ==
    ASSUME RequestTypeOK, NEW r \in Reqs, NEW pc \in RequestSteps, Advance(r, pc)
    PROVE  /\ RequestTypeOK'
           /\ rq'[r].pc = pc /\ rq'[r].kind = rq[r].kind /\ rq'[r].row = rq[r].row
           /\ rq'[r].i = rq[r].i
           /\ \A q \in Reqs \ {r} : rq'[q] = rq[q]
BY DEF Advance, RequestTypeOK, Request

\* Moving a delivery on changes its pc alone; it keeps its claim.
LEMMA Gone ==
    ASSUME WorkerTypeOK, HoldsClaim, OneHandlerPerEvent, NEW w \in Workers, wk[w].pc # "idle",
           NEW pc \in {"tail", "publish"}, Goto(w, pc), UNCHANGED claims
    PROVE  WorkerTypeOK' /\ HoldsClaim' /\ OneHandlerPerEvent' /\ UNCHANGED acked
<1>1. /\ WorkerTypeOK'
      /\ wk'[w].pc = pc /\ wk'[w].ev = wk[w].ev /\ acked' = acked
      /\ \A v \in Workers \ {w} : wk'[v] = wk[v]
      BY DEF Goto, WorkerTypeOK, Worker
<1> QED BY <1>1 DEF HoldsClaim, OneHandlerPerEvent

\* A worker between deliveries.
LEMMA IdleDelivery == IdleWorker \in Worker /\ IdleWorker.pc = "idle"
BY DEF IdleWorker, Worker, NoRow, Row, Plans, Cycles, Statuses, NoEvent, Event

\* A delivery that returns is answered and keeps its claim.
LEMMA Returned ==
    ASSUME WorkerTypeOK, HoldsClaim, OneHandlerPerEvent, EventTypeOK, NEW w \in Workers,
           wk[w].pc # "idle", Ack(w), UNCHANGED <<sent, claims>>
    PROVE  WorkerTypeOK' /\ HoldsClaim' /\ OneHandlerPerEvent' /\ EventTypeOK'
<1>1. /\ WorkerTypeOK' /\ wk'[w].pc = "idle"
      /\ \A v \in Workers \ {w} : wk'[v] = wk[v]
      BY IdleDelivery DEF Ack, WorkerTypeOK
<1>2. EventTypeOK'  BY DEF Ack, EventTypeOK, HoldsClaim
<1> QED BY <1>1, <1>2 DEF HoldsClaim, OneHandlerPerEvent

\* A delivery that throws gives up its own claim and nobody else's.
LEMMA Released ==
    ASSUME WorkerTypeOK, HoldsClaim, OneHandlerPerEvent, EventTypeOK, NEW w \in Workers,
           wk[w].pc # "idle", Release(w), UNCHANGED sent
    PROVE  WorkerTypeOK' /\ HoldsClaim' /\ OneHandlerPerEvent' /\ EventTypeOK'
<1>1. /\ WorkerTypeOK' /\ wk'[w].pc = "idle"
      /\ \A v \in Workers \ {w} : wk'[v] = wk[v]
      BY IdleDelivery DEF Release, WorkerTypeOK
<1>2. EventTypeOK'  BY DEF Release, EventTypeOK
<1>3. \A v \in Workers \ {w} : wk[v].pc # "idle" => wk[v].ev \in claims'
      BY DEF Release, HoldsClaim, OneHandlerPerEvent
<1> QED BY <1>1, <1>2, <1>3 DEF HoldsClaim, OneHandlerPerEvent

\* An idle request is a request.
LEMMA Finished ==
    ASSUME RequestTypeOK, NEW r \in Reqs, Finish(r)
    PROVE  /\ RequestTypeOK'
           /\ rq'[r].pc = "idle"
           /\ \A q \in Reqs \ {r} : rq'[q] = rq[q]
<1>1. IdleRequest \in Request /\ IdleRequest.pc = "idle"
      BY DEF IdleRequest, Request, RequestSteps, StepKinds, NoRow, Row, Plans, Cycles,
             Statuses
<1> QED BY <1>1 DEF Finish, RequestTypeOK

\* A new request holds the row as it is.
LEMMA LoadedRequest ==
    ASSUME RequestTypeOK, RowTypeOK, NEW r \in Reqs, NEW pc \in RequestSteps,
           NEW kind \in StepKinds, NEW i \in Intents \cup {NoIntent}, Loaded(r, pc, kind, i)
    PROVE  /\ RequestTypeOK'
           /\ rq'[r].pc = pc /\ rq'[r].kind = kind /\ rq'[r].row = sub /\ rq'[r].i = i
           /\ \A q \in Reqs \ {r} : rq'[q] = rq[q]
<1> DEFINE x == [pc |-> pc, kind |-> kind, row |-> sub, end |-> 0, i |-> i]
<1>1. x \in Request  BY DEF Request, RowTypeOK
<1>2. rq' = [rq EXCEPT ![r] = x]  BY DEF Loaded
<1> QED BY <1>1, <1>2 DEF RequestTypeOK

\* stripe.subscriptions.update keeps the Stripe objects and the events well-formed.
LEMMA StripeUpdated ==
    ASSUME StripeTypeOK, EventTypeOK, EventShape, SessionShape, ScalarTypeOK, NEW s \in Subs,
           NEW x \in StripeSub, x.st = ss[s].st, x.meta = ss[s].meta,
           StripeUpdate(s, x), UNCHANGED <<acked, claims>>
    PROVE  StripeTypeOK' /\ EventTypeOK' /\ EventShape' /\ SessionShape' /\ nsent' \in Nat
<1>1. /\ ss' \in [Subs -> StripeSub] /\ ss'[s].st # "none"
      /\ \A t \in Subs : ss'[t].st = ss[t].st /\ ss'[t].meta = ss[t].meta
      BY DEF StripeUpdate, StripeTypeOK
<1> DEFINE e == Ev(1, "updated", s, NoIntent, x.cape, x.end)
<1>2. e \in Event /\ e.type = "updated" /\ e.s = s
      BY DEF Ev, Event, EventTypes, ScalarTypeOK, StripeSub
<1>3. Emit(1, {e})  BY DEF StripeUpdate
<1>4. EventTypeOK' /\ EventShape'
  <2> HIDE DEF e
  <2> QED BY <1>1, <1>2, <1>3, Emitted DEF EventTypes
<1>5. intent' = intent  BY DEF StripeUpdate
<1>6. StripeTypeOK' /\ SessionShape'  BY <1>1, <1>5 DEF StripeTypeOK, SessionShape
<1>7. nsent' \in Nat  BY <1>3 DEF Emit, ScalarTypeOK
<1> QED BY <1>4, <1>6, <1>7

\* So does stripe.refunds.create.
LEMMA StripeRefunded ==
    ASSUME StripeTypeOK, EventTypeOK, EventShape, ScalarTypeOK, NEW i \in Intents,
           StripeRefund(i), UNCHANGED <<ss, acked, claims>>
    PROVE  StripeTypeOK' /\ EventTypeOK' /\ EventShape' /\ nsent' \in Nat
<1>1. CASE intent[i] = "refunded"
      BY <1>1 DEF StripeRefund, StripeTypeOK, EventTypeOK, EventShape, ScalarTypeOK
<1>2. CASE intent[i] # "refunded"
  <2> DEFINE e == Ev(1, "refunded", NoSub, i, FALSE, 0)
  <2>1. e \in Event /\ e.type = "refunded" /\ e.i = i
        BY DEF Ev, Event, EventTypes, ScalarTypeOK
  <2>2. Emit(1, {e}) /\ intent' = [intent EXCEPT ![i] = "refunded"]
        BY <1>2 DEF StripeRefund
  <2>3. EventTypeOK' /\ EventShape'
    <3> HIDE DEF e
    <3> QED BY <2>1, <2>2, Emitted DEF EventTypes
  <2>4. StripeTypeOK'  BY <2>2 DEF StripeTypeOK, IntentStates
  <2>5. nsent' \in Nat  BY <2>2 DEF Emit, ScalarTypeOK
  <2> QED BY <2>3, <2>4, <2>5
<1> QED BY <1>1, <1>2
\* Time passes.
LEMMA Tick_Inv ==
    ASSUME IInv, Tick PROVE IInv'
<1>1. now' \in Nat  BY DEF IInv, TypeOK, ScalarTypeOK, Tick
<1>2. UNCHANGED <<ss, intent, sent, nsent, acked, sub, pay, onboarding, claims, lock, notice,
                  wk, rq, nreq, fails, outages>>
      BY DEF Tick, stripeVars, dbVars, counters
<1>3. ScalarTypeOK'  BY <1>1, <1>2 DEF IInv, TypeOK, ScalarTypeOK
<1>4. (/\ StripeTypeOK /\ EventTypeOK /\ RowTypeOK /\ PaymentTypeOK /\ WorkerTypeOK
       /\ RequestTypeOK /\ EventShape /\ SessionShape /\ HoldsClaim /\ OneHandlerPerEvent
       /\ RequestShape /\ RefundsARow /\ LinkedRow /\ RefundExclusive)'
      BY <1>2
      DEF IInv, TypeOK, StripeTypeOK, EventTypeOK, RowTypeOK, PaymentTypeOK, WorkerTypeOK,
          RequestTypeOK, EventShape, SessionShape, HoldsClaim, OneHandlerPerEvent,
          RequestShape, RefundsARow, LinkedRow, RefundExclusive, Refunding
<1> QED BY <1>3, <1>4 DEF IInv, TypeOK

\* Stripe ends a subscription: customer.subscription.deleted is sent.
LEMMA Ends_Inv ==
    ASSUME IInv, NEW s \in Subs, Ends(s) PROVE IInv'
<1>1. ss[s].st = "live"  BY DEF PeriodTurns, PeriodOver, Ends
<1>2. /\ ss' \in [Subs -> StripeSub] /\ ss'[s].st # "none"
      /\ \A t \in Subs : 
            /\ (ss[t].st # "none" <=> ss'[t].st # "none")
            /\ ss'[t].meta = ss[t].meta
      BY <1>1 DEF StripeTypeOK, StripeSub, IInv, TypeOK, Ends
<1>3. LET e == Ev(1, "deleted", s, NoIntent, FALSE, 0) IN
      e \in Event /\ e.type = "deleted" /\ e.s = s
      BY DEF Ev, Event, EventTypes, ScalarTypeOK, IInv, TypeOK
<1> DEFINE evs == {Ev(1, "deleted", s, NoIntent, FALSE, 0)}
<1>4. \A e \in evs :
          /\ e \in Event /\ e.type \in EventTypes
          /\ e.type # "refunded" => e.s \in Subs /\ ss'[e.s].st # "none"
          /\ e.type = "refunded" => e.i \in Intents
      BY <1>1, <1>2, <1>3 DEF EventTypes, IInv, TypeOK, Ends
<1>5. Emit(1, evs)  BY DEF Ends
<1> HIDE DEF evs
<1>6. EventTypeOK' /\ EventShape'  BY <1>4, <1>5, Emitted DEF IInv, TypeOK, Ends
<1>7. nsent' \in Nat  BY DEF Emit, ScalarTypeOK, IInv, TypeOK, Ends
<1>8. UNCHANGED <<now, intent, acked, sub, pay, onboarding, claims, lock, notice, wk, rq,
                  nreq, fails, outages>>
      BY DEF Ends, stripeVars, dbVars, counters
<1>9. StripeTypeOK'  BY <1>2, <1>8 DEF IInv, TypeOK, StripeTypeOK
<1>10. ScalarTypeOK'  BY <1>7, <1>8 DEF IInv, TypeOK, ScalarTypeOK
<1>11. SessionShape'  BY <1>1, <1>2 DEF IInv, SessionShape
<1>12. (/\ RowTypeOK /\ PaymentTypeOK /\ WorkerTypeOK /\ RequestTypeOK /\ HoldsClaim
        /\ OneHandlerPerEvent /\ RequestShape /\ RefundsARow /\ LinkedRow /\ RefundExclusive)'
       BY <1>8
       DEF IInv, TypeOK, RowTypeOK, PaymentTypeOK, WorkerTypeOK, RequestTypeOK, HoldsClaim,
           OneHandlerPerEvent, RequestShape, RefundsARow, LinkedRow, RefundExclusive,
           Refunding
<1> QED BY <1>6, <1>9, <1>10, <1>11, <1>12 DEF IInv, TypeOK

\* Stripe collects an open invoice: invoice.paid is sent.
LEMMA RetrySucceeds_Inv ==
    ASSUME IInv, NEW s \in Subs, RetrySucceeds(s) PROVE IInv'
<1>1. ss[s].open \in Intents \cup {NoIntent} /\ ss[s].start \in Nat
      BY DEF IInv, TypeOK, StripeTypeOK, StripeSub, RetrySucceeds
<1>2. \A e \in PaidEvs(1, s, ss[s].open, ss[s].start) : e \in Event /\ e.type = "paid" /\ e.s = s
      BY <1>1, NewPaidEvents DEF IInv, TypeOK
<1>3. /\ ss' \in [Subs -> StripeSub] /\ ss'[s].st # "none"
      /\ \A t \in Subs : 
            /\ (ss[t].st # "none" <=> ss'[t].st # "none")
            /\ ss'[t].meta = ss[t].meta
      BY DEF StripeTypeOK, StripeSub, IInv, TypeOK, RetrySucceeds
<1> DEFINE evs == PaidEvs(1, s, ss[s].open, ss[s].start)
<1>4. \A e \in evs :
          /\ e \in Event /\ e.type \in EventTypes
          /\ e.type # "refunded" => e.s \in Subs /\ ss'[e.s].st # "none"
          /\ e.type = "refunded" => e.i \in Intents
      BY <1>1, <1>2 DEF EventTypes, RetrySucceeds
<1>5. Emit(PaidEvents, evs)  BY DEF RetrySucceeds
<1> HIDE DEF evs
<1>6. EventTypeOK' /\ EventShape'  BY <1>4, <1>5, Emitted DEF IInv, TypeOK, RetrySucceeds
<1>7. nsent' \in Nat  BY DEF Emit, ScalarTypeOK, IInv, TypeOK, RetrySucceeds
<1>8. intent' \in [Intents -> IntentStates]
      BY DEF IInv, TypeOK, StripeTypeOK, StripeSub, IntentStates, RetrySucceeds
<1>9. UNCHANGED <<now, acked, sub, pay, onboarding, claims, lock, notice, wk, rq, nreq,
                  fails, outages>>
      BY DEF RetrySucceeds, stripeVars, dbVars, counters
<1>10. StripeTypeOK'  BY <1>1, <1>3, <1>8 DEF StripeTypeOK
<1>11. ScalarTypeOK'  BY <1>7, <1>9 DEF IInv, TypeOK, ScalarTypeOK
<1>12. SessionShape'  BY <1>1, <1>3 DEF IInv, SessionShape
<1>13. (/\ RowTypeOK /\ PaymentTypeOK /\ WorkerTypeOK /\ RequestTypeOK /\ HoldsClaim
        /\ OneHandlerPerEvent /\ RequestShape /\ RefundsARow /\ LinkedRow /\ RefundExclusive)'
       BY <1>9
       DEF IInv, TypeOK, RowTypeOK, PaymentTypeOK, WorkerTypeOK, RequestTypeOK, HoldsClaim,
           OneHandlerPerEvent, RequestShape, RefundsARow, LinkedRow, RefundExclusive,
           Refunding
<1> QED BY <1>6, <1>10, <1>11, <1>12, <1>13 DEF IInv, TypeOK

\* A renewal is not paid: subscription.updated and invoice.payment_failed are sent.
LEMMA RenewalFails_Inv ==
    ASSUME IInv, NEW s \in Subs, NEW i \in Intents, RenewalFails(s, i) PROVE IInv'
<1>1. LET x == Renewed(ss[s], i) IN x \in StripeSub /\ x.st = ss[s].st /\ x.meta = ss[s].meta
      BY RenewedStripeSub DEF StripeTypeOK, IInv, TypeOK
<1>2. /\ ss' \in [Subs -> StripeSub] /\ ss'[s].st # "none"
      /\ \A t \in Subs : 
            /\ (ss[t].st # "none" <=> ss'[t].st # "none")
            /\ ss'[t].meta = ss[t].meta
      BY <1>1 DEF StripeTypeOK, PeriodTurns, PeriodOver, IInv, TypeOK, RenewalFails
<1>3. ss[s].end + 1 \in Nat  BY DEF StripeTypeOK, StripeSub, IInv, TypeOK
<1>4. LET e == Ev(1, "updated", s, NoIntent, FALSE, ss[s].end + 1) IN
      e \in Event /\ e.type = "updated" /\ e.s = s
      BY DEF Ev, Event, EventTypes, ScalarTypeOK, StripeTypeOK, StripeSub, IInv, TypeOK
<1>5. LET e == Ev(2, "failed", s, i, FALSE, 0) IN e \in Event /\ e.type = "failed" /\ e.s = s
      BY DEF Ev, Event, EventTypes, ScalarTypeOK, IInv, TypeOK
<1> DEFINE evs == {Ev(1, "updated", s, NoIntent, FALSE, ss[s].end + 1),
                   Ev(2, "failed", s, i, FALSE, 0)}
<1>6. \A e \in evs :
          /\ e \in Event /\ e.type \in EventTypes
          /\ e.type # "refunded" => e.s \in Subs /\ ss'[e.s].st # "none"
          /\ e.type = "refunded" => e.i \in Intents
      BY <1>1, <1>2, <1>3, <1>4, <1>5 DEF EventTypes, IInv, TypeOK, RenewalFails
<1>7. Emit(2, evs)  BY DEF RenewalFails
<1> HIDE DEF evs
<1>8. EventTypeOK' /\ EventShape'
      BY <1>1, <1>6, <1>7, Emitted DEF IInv, TypeOK, RenewalFails
<1>9. nsent' \in Nat  BY DEF Emit, ScalarTypeOK, IInv, TypeOK, RenewalFails
<1>10. intent' \in [Intents -> IntentStates]
       BY DEF IInv, TypeOK, StripeTypeOK, IntentStates, RenewalFails
<1>11. UNCHANGED <<now, acked, sub, pay, onboarding, claims, lock, notice, wk, rq, nreq,
                   fails, outages>>
       BY DEF RenewalFails, stripeVars, dbVars, counters
<1>12. StripeTypeOK'  BY <1>1, <1>2, <1>10 DEF StripeTypeOK
<1>13. ScalarTypeOK'  BY <1>9, <1>11 DEF IInv, TypeOK, ScalarTypeOK
<1>14. SessionShape'  BY <1>1, <1>2 DEF IInv, SessionShape
<1>15. (/\ RowTypeOK /\ PaymentTypeOK /\ WorkerTypeOK /\ RequestTypeOK /\ HoldsClaim
        /\ OneHandlerPerEvent /\ RequestShape /\ RefundsARow /\ LinkedRow /\ RefundExclusive)'
       BY <1>11
       DEF IInv, TypeOK, RowTypeOK, PaymentTypeOK, WorkerTypeOK, RequestTypeOK, HoldsClaim,
           OneHandlerPerEvent, RequestShape, RefundsARow, LinkedRow, RefundExclusive,
           Refunding
<1> QED BY <1>8, <1>12, <1>13, <1>14, <1>15 DEF IInv, TypeOK

\* A renewal is paid: subscription.updated and invoice.paid are sent.
LEMMA Renews_Inv ==
    ASSUME IInv, NEW s \in Subs, NEW i \in Intents \cup {NoIntent}, Renews(s, i) PROVE IInv'
<1>1. LET x == Renewed(ss[s], NoIntent) IN
      x \in StripeSub /\ x.st = ss[s].st /\ x.meta = ss[s].meta
      BY RenewedStripeSub DEF StripeTypeOK, IInv, TypeOK
<1>2. /\ ss' \in [Subs -> StripeSub] /\ ss'[s].st # "none"
      /\ \A t \in Subs : 
            /\ (ss[t].st # "none" <=> ss'[t].st # "none")
            /\ ss'[t].meta = ss[t].meta
      BY <1>1 DEF StripeTypeOK, PeriodTurns, PeriodOver, IInv, TypeOK, Renews
<1>3. ss[s].end \in Nat /\ ss[s].end + 1 \in Nat  BY DEF StripeTypeOK, StripeSub, IInv, TypeOK
<1>4. LET e == Ev(1, "updated", s, NoIntent, FALSE, ss[s].end + 1) IN
      e \in Event /\ e.type = "updated" /\ e.s = s
      BY DEF Ev, Event, EventTypes, ScalarTypeOK, StripeTypeOK, StripeSub, IInv, TypeOK
<1>5. \A e \in PaidEvs(2, s, i, ss[s].end) : e \in Event /\ e.type = "paid" /\ e.s = s
      BY <1>3, NewPaidEvents DEF IInv, TypeOK
<1> DEFINE evs == {Ev(1, "updated", s, NoIntent, FALSE, ss[s].end + 1)}
                  \cup PaidEvs(2, s, i, ss[s].end)
<1>6. \A e \in evs :
          /\ e \in Event /\ e.type \in EventTypes
          /\ e.type # "refunded" => e.s \in Subs /\ ss'[e.s].st # "none"
          /\ e.type = "refunded" => e.i \in Intents
      BY <1>1, <1>2, <1>3, <1>4, <1>5, ZenonT(60) DEF EventTypes, IInv, TypeOK, Renews
<1>7. Emit(1 + PaidEvents, evs)  BY DEF Renews
<1> HIDE DEF evs
<1>8. EventTypeOK' /\ EventShape'  BY <1>1, <1>6, <1>7, Emitted DEF IInv, TypeOK, Renews
<1>9. nsent' \in Nat  BY DEF Emit, ScalarTypeOK, IInv, TypeOK, Renews
<1>10. intent' \in [Intents -> IntentStates]
       BY DEF IInv, TypeOK, StripeTypeOK, IntentStates, Renews
<1>11. UNCHANGED <<now, acked, sub, pay, onboarding, claims, lock, notice, wk, rq, nreq,
                   fails, outages>>
       BY DEF Renews, stripeVars, dbVars, counters
<1>12. StripeTypeOK'  BY <1>1, <1>2, <1>10 DEF StripeTypeOK
<1>13. ScalarTypeOK'  BY <1>9, <1>11 DEF IInv, TypeOK, ScalarTypeOK
<1>14. SessionShape'  BY <1>1, <1>2 DEF IInv, SessionShape
<1>15. (/\ RowTypeOK /\ PaymentTypeOK /\ WorkerTypeOK /\ RequestTypeOK /\ HoldsClaim
        /\ OneHandlerPerEvent /\ RequestShape /\ RefundsARow /\ LinkedRow /\ RefundExclusive)'
       BY <1>11
       DEF IInv, TypeOK, RowTypeOK, PaymentTypeOK, WorkerTypeOK, RequestTypeOK, HoldsClaim,
           OneHandlerPerEvent, RequestShape, RefundsARow, LinkedRow, RefundExclusive,
           Refunding
<1> QED BY <1>8, <1>12, <1>13, <1>14, <1>15 DEF IInv, TypeOK

\* The user pays: checkout.session.completed and invoice.paid are sent.
LEMMA CheckoutPaid_Inv ==
    ASSUME IInv, NEW s \in Subs, NEW i \in Intents, NEW named \in SessionIntent,
           CheckoutPaid(s, i, named)
    PROVE  IInv'
<1>1. now \in Nat /\ now + 1 \in Nat /\ 2 \in Nat /\ i \in Intents \cup {NoIntent}
      BY DEF IInv, TypeOK, ScalarTypeOK, CheckoutPaid
<1>2. \A e \in PaidEvs(2, s, i, now) : e \in Event /\ e.type = "paid" /\ e.s = s
      BY <1>1, NewPaidEvents DEF IInv, TypeOK
<1>3. LET x == [ss[s] EXCEPT !.st = "live", !.start = now, !.end = now + 1] IN
      x \in StripeSub /\ x.st = "live" /\ x.meta = ss[s].meta
  <2>1. ss[s] \in StripeSub  BY DEF IInv, TypeOK, StripeTypeOK
  <2> QED BY <1>1, <2>1, ZenonT(60) DEF StripeSub
<1>4. /\ ss' \in [Subs -> StripeSub] /\ ss'[s].st # "none"
      /\ \A t \in Subs : 
            /\ (ss[t].st # "none" <=> ss'[t].st # "none")
            /\ ss'[t].meta = ss[t].meta
      BY <1>3 DEF StripeTypeOK, IInv, TypeOK, CheckoutPaid
<1>5. LET e == Ev(1, "checkout", s, IF named THEN i ELSE NoIntent, FALSE, 0) IN
      e \in Event /\ e.type = "checkout" /\ e.s = s
      BY DEF Ev, Event, EventTypes, ScalarTypeOK, IInv, TypeOK
<1> DEFINE evs == {Ev(1, "checkout", s, IF named THEN i ELSE NoIntent, FALSE, 0)}
                  \cup PaidEvs(2, s, i, now)
<1>6. \A e \in evs :
          /\ e \in Event /\ e.type \in EventTypes
          /\ e.type # "refunded" => e.s \in Subs /\ ss'[e.s].st # "none"
          /\ e.type = "refunded" => e.i \in Intents
      BY <1>1, <1>2, <1>3, <1>4, <1>5, ZenonT(60) DEF EventTypes, IInv, TypeOK, CheckoutPaid
<1>7. Emit(1 + PaidEvents, evs)  BY DEF CheckoutPaid
<1> HIDE DEF evs
<1>8. EventTypeOK' /\ EventShape'  BY <1>6, <1>7, Emitted DEF IInv, TypeOK, CheckoutPaid
<1>9. nsent' \in Nat  BY DEF Emit, ScalarTypeOK, IInv, TypeOK, CheckoutPaid
<1>10. intent' \in [Intents -> IntentStates]
       BY DEF IInv, TypeOK, StripeTypeOK, IntentStates, CheckoutPaid
<1>11. UNCHANGED <<now, acked, sub, pay, onboarding, claims, lock, notice, wk, rq, nreq,
                   fails, outages>>
       BY DEF CheckoutPaid, stripeVars, dbVars, counters
<1>12. StripeTypeOK'  BY <1>1, <1>4, <1>10 DEF StripeTypeOK
<1>13. ScalarTypeOK'  BY <1>9, <1>11 DEF IInv, TypeOK, ScalarTypeOK
<1>14. SessionShape'  BY <1>1, <1>4 DEF IInv, SessionShape
<1>15. (/\ RowTypeOK /\ PaymentTypeOK /\ WorkerTypeOK /\ RequestTypeOK /\ HoldsClaim
        /\ OneHandlerPerEvent /\ RequestShape /\ RefundsARow /\ LinkedRow /\ RefundExclusive)'
       BY <1>11
       DEF IInv, TypeOK, RowTypeOK, PaymentTypeOK, WorkerTypeOK, RequestTypeOK, HoldsClaim,
           OneHandlerPerEvent, RequestShape, RefundsARow, LinkedRow, RefundExclusive,
           Refunding
<1> QED BY <1>8, <1>12, <1>13, <1>14, <1>15 DEF IInv, TypeOK

\* processWebhookEvent, the claim is taken: the event is answered.
LEMMA DeliverDuplicate_Inv ==
    ASSUME IInv, NEW w \in Workers, NEW e \in sent, DeliverDuplicate(w, e) PROVE IInv'
<1>1. EventTypeOK'  BY DEF IInv, TypeOK, EventTypeOK, stripeVars, DeliverDuplicate
<1>2. UNCHANGED <<now, ss, intent, sent, nsent, sub, pay, onboarding, claims, lock, notice,
                  wk, rq, nreq, fails, outages>>
      BY DEF DeliverDuplicate, stripeVars, dbVars, counters
<1>3. (/\ StripeTypeOK /\ RowTypeOK /\ PaymentTypeOK /\ WorkerTypeOK /\ RequestTypeOK
       /\ ScalarTypeOK /\ EventShape /\ SessionShape /\ HoldsClaim /\ OneHandlerPerEvent
       /\ RequestShape /\ RefundsARow /\ LinkedRow /\ RefundExclusive)'
      BY <1>2
      DEF IInv, TypeOK, StripeTypeOK, RowTypeOK, PaymentTypeOK, WorkerTypeOK, RequestTypeOK,
          ScalarTypeOK, EventShape, SessionShape, HoldsClaim, OneHandlerPerEvent,
          RequestShape, RefundsARow, LinkedRow, RefundExclusive, Refunding
<1> QED BY <1>1, <1>3 DEF IInv, TypeOK

\* processWebhookEvent, the claim is free: no delivery at work has this event.
LEMMA Claim_Inv ==
    ASSUME IInv, NEW w \in Workers, NEW e \in sent, Claim(w, e) PROVE IInv'
<1>1. e \in Event /\ (e.type = "checkout" => e.s \in Subs)
      BY DEF IInv, TypeOK, EventTypeOK, EventShape
<1>2. Dispatched(e) \in Worker /\ Dispatched(e).ev = e
      BY <1>1
      DEF IInv, TypeOK, Dispatched, Worker, RowTypeOK, StripeTypeOK, StripeSub, NoRow, Row,
          Plans, Cycles, Statuses
<1>3. wk' = wk \/ wk' = [wk EXCEPT ![w] = Dispatched(e)]  BY DEF Claim
<1>4. wk' \in [Workers -> Worker] /\ \A v \in Workers : v # w => wk'[v] = wk[v]
      BY <1>2, <1>3 DEF IInv, TypeOK, WorkerTypeOK
<1>5. wk'[w] = wk[w] \/ wk'[w].ev = e  BY <1>2, <1>3 DEF IInv, TypeOK, WorkerTypeOK
<1>6. EventTypeOK' /\ e \notin claims /\ claims' = claims \cup {e}
      BY DEF IInv, TypeOK, EventTypeOK, stripeVars, Claim
<1>7. UNCHANGED <<now, ss, intent, sent, nsent, sub, pay, onboarding, lock, notice, rq, nreq,
                  fails, outages>>
      BY DEF Claim, stripeVars, dbVars, counters
<1>8. WorkerTypeOK'  BY <1>1, <1>2, <1>4 DEF WorkerTypeOK
<1>9. HoldsClaim'  BY <1>2, <1>3, <1>4, <1>6 DEF IInv, HoldsClaim
<1>10. OneHandlerPerEvent'  BY <1>4, <1>5, <1>6 DEF IInv, OneHandlerPerEvent, HoldsClaim
<1>11. (/\ StripeTypeOK /\ RowTypeOK /\ PaymentTypeOK /\ RequestTypeOK /\ ScalarTypeOK
        /\ EventShape /\ SessionShape /\ RequestShape /\ RefundsARow /\ LinkedRow
        /\ RefundExclusive)'
       BY <1>7
       DEF IInv, TypeOK, StripeTypeOK, RowTypeOK, PaymentTypeOK, RequestTypeOK, ScalarTypeOK,
           EventShape, SessionShape, RequestShape, RefundsARow, LinkedRow, RefundExclusive,
           Refunding
<1> QED BY <1>6, <1>8, <1>9, <1>10, <1>11 DEF IInv, TypeOK

\* handleCheckoutSessionCompleted returns.
LEMMA CheckoutTail_Inv ==
    ASSUME IInv, NEW w \in Workers, CheckoutTail(w) PROVE IInv'
<1>1. WorkerTypeOK' /\ HoldsClaim' /\ OneHandlerPerEvent' /\ EventTypeOK'
      BY Returned DEF IInv, TypeOK, Handling, stripeVars, CheckoutTail
<1>2. UNCHANGED <<now, ss, intent, sent, nsent, sub, pay, onboarding, claims, lock, notice,
                  rq, nreq, fails, outages>>
      BY DEF CheckoutTail, stripeVars, dbVars, counters
<1>3. (/\ StripeTypeOK /\ RowTypeOK /\ PaymentTypeOK /\ RequestTypeOK /\ ScalarTypeOK
       /\ EventShape /\ SessionShape /\ RequestShape /\ RefundsARow /\ LinkedRow
       /\ RefundExclusive)'
      BY <1>2
      DEF IInv, TypeOK, StripeTypeOK, RowTypeOK, PaymentTypeOK, RequestTypeOK, ScalarTypeOK,
          EventShape, SessionShape, RequestShape, RefundsARow, LinkedRow, RefundExclusive,
          Refunding
<1> QED BY <1>1, <1>3 DEF IInv, TypeOK

\* A payment row is created or left alone, the period end moves.
LEMMA handleInvoicePaymentSucceeded_Inv ==
    ASSUME IInv, NEW w \in Workers, handleInvoicePaymentSucceeded(w) PROVE IInv'
<1>1. wk[w].ev \in sent /\ wk[w].ev \in Event
      BY DEF IInv, TypeOK, HoldsClaim, EventTypeOK, Handling, handleInvoicePaymentSucceeded
<1>2. now \in Nat /\ \A i \in Intents : pay[i] \in Payment
      BY DEF IInv, TypeOK, PaymentTypeOK, ScalarTypeOK
<1>3. \A i \in Intents :
        LET p == PaidUpsert(pay[i], now) IN
        p \in Payment /\ p.status # "none" /\ (pay[i].status # "none" => p = pay[i])
      BY <1>2, PaymentWrites
<1>4. WorkerTypeOK' /\ HoldsClaim' /\ OneHandlerPerEvent' /\ EventTypeOK'
      BY Returned DEF IInv, TypeOK, Handling, stripeVars, handleInvoicePaymentSucceeded
<1>5. pay' = [pay EXCEPT ![wk[w].ev.i] = PaidUpsert(pay[wk[w].ev.i], now)]
      BY DEF handleInvoicePaymentSucceeded
<1>6. /\ pay' \in [Intents -> Payment]
      /\ \A i \in Intents : pay[i].status # "none" => pay'[i] = pay[i]
      BY <1>3, <1>5 DEF IInv, TypeOK, PaymentTypeOK
<1>7. sub' = [sub EXCEPT !.end = wk[w].ev.end]  BY DEF handleInvoicePaymentSucceeded
<1>8. /\ sub' \in Row /\ sub'.plan = sub.plan /\ sub'.stripeId = sub.stripeId
      /\ sub'.cycle = sub.cycle
      BY <1>1, <1>7 DEF IInv, TypeOK, RowTypeOK, Row, Event
<1>9. UNCHANGED <<now, ss, intent, sent, nsent, onboarding, claims, lock, notice, rq, nreq,
                  fails, outages>>
      BY DEF handleInvoicePaymentSucceeded, stripeVars, dbVars, counters
<1>10. RowTypeOK'  BY <1>1, <1>2, <1>8 DEF RowTypeOK
<1>11. PaymentTypeOK'  BY <1>6, <1>9 DEF IInv, TypeOK, PaymentTypeOK
<1>12. RefundsARow'  BY <1>5, <1>6, <1>9 DEF IInv, RefundsARow
<1>13. LinkedRow'  BY <1>7, <1>9 DEF IInv, LinkedRow
<1>14. RefundExclusive'
       BY <1>3, <1>5, <1>9 DEF IInv, RefundExclusive, Refunding, RefundsARow
<1>15. (/\ StripeTypeOK /\ RequestTypeOK /\ ScalarTypeOK /\ EventShape /\ SessionShape
        /\ RequestShape)'
       BY <1>9
       DEF IInv, TypeOK, StripeTypeOK, RequestTypeOK, ScalarTypeOK, EventShape, SessionShape,
           RequestShape
<1> QED BY <1>4, <1>10, <1>11, <1>12, <1>13, <1>14, <1>15 DEF IInv, TypeOK

\* A failed payment row is created or left alone.
LEMMA handleInvoicePaymentFailed_Inv ==
    ASSUME IInv, NEW w \in Workers, handleInvoicePaymentFailed(w) PROVE IInv'
<1>1. now \in Nat /\ \A i \in Intents : pay[i] \in Payment
      BY DEF IInv, TypeOK, PaymentTypeOK, ScalarTypeOK
<1>2. \A i \in Intents :
        LET p == FailedUpsert(pay[i], now) IN
        p \in Payment /\ p.status # "none" /\ (pay[i].status # "none" => p = pay[i])
      BY <1>1, PaymentWrites
<1>3. WorkerTypeOK' /\ HoldsClaim' /\ OneHandlerPerEvent' /\ EventTypeOK'
      BY Returned DEF IInv, TypeOK, Handling, stripeVars, handleInvoicePaymentFailed
<1>4. pay' = [pay EXCEPT ![wk[w].ev.i] = FailedUpsert(pay[wk[w].ev.i], now)]
      BY DEF handleInvoicePaymentFailed
<1>5. /\ pay' \in [Intents -> Payment]
      /\ \A i \in Intents : pay[i].status # "none" => pay'[i] = pay[i]
      BY <1>2, <1>4 DEF IInv, TypeOK, PaymentTypeOK
<1>6. UNCHANGED <<now, ss, intent, sent, nsent, sub, onboarding, claims, lock, notice, rq,
                  nreq, fails, outages>>
      BY DEF handleInvoicePaymentFailed, stripeVars, dbVars, counters
<1>7. PaymentTypeOK'  BY <1>5, <1>6 DEF IInv, TypeOK, PaymentTypeOK
<1>8. RefundsARow'  BY <1>4, <1>5, <1>6 DEF IInv, RefundsARow
<1>9. RefundExclusive'
      BY <1>2, <1>4, <1>6 DEF IInv, RefundExclusive, Refunding, RefundsARow
<1>10. (/\ StripeTypeOK /\ RowTypeOK /\ RequestTypeOK /\ ScalarTypeOK /\ EventShape
        /\ SessionShape /\ RequestShape /\ LinkedRow)'
       BY <1>6
       DEF IInv, TypeOK, StripeTypeOK, RowTypeOK, RequestTypeOK, ScalarTypeOK, EventShape,
           SessionShape, RequestShape, LinkedRow
<1> QED BY <1>3, <1>7, <1>8, <1>9, <1>10 DEF IInv, TypeOK

\* The row keeps its link.
LEMMA handleSubscriptionUpdated_Inv ==
    ASSUME IInv, NEW w \in Workers, handleSubscriptionUpdated(w) PROVE IInv'
<1>1. wk[w].ev \in sent /\ wk[w].ev \in Event
      BY DEF IInv, TypeOK, HoldsClaim, EventTypeOK, Handling, handleSubscriptionUpdated
<1>2. wk[w].row \in Row /\ wk[w].ev.end \in Nat /\ sub \in Row
      BY DEF IInv, TypeOK, RowTypeOK, WorkerTypeOK, Worker, Event
<1>3. sub' = SubscriptionUpdatedWrite(wk[w].row, sub, wk[w].ev.cape, wk[w].ev.end)
      BY DEF handleSubscriptionUpdated, WriteRow
<1>4. /\ sub' \in Row /\ sub'.plan = sub.plan /\ sub'.stripeId = sub.stripeId
      /\ sub'.cycle = sub.cycle
      BY <1>2, <1>3, UpdatedRow
<1>5. WorkerTypeOK' /\ HoldsClaim' /\ OneHandlerPerEvent' /\ UNCHANGED acked
      BY Gone DEF IInv, TypeOK, Handling, handleSubscriptionUpdated
<1>6. notice' = "due"  BY DEF WriteRow, handleSubscriptionUpdated
<1>7. UNCHANGED <<now, ss, intent, sent, nsent, pay, onboarding, claims, lock, rq, nreq,
                  fails, outages>>
      BY DEF handleSubscriptionUpdated, stripeVars, dbVars, counters
<1>8. EventTypeOK'  BY <1>5, <1>7 DEF IInv, TypeOK, EventTypeOK
<1>9. RowTypeOK'  BY <1>1, <1>2, <1>4 DEF RowTypeOK
<1>10. ScalarTypeOK'  BY <1>6, <1>7 DEF IInv, TypeOK, ScalarTypeOK
<1>11. LinkedRow'  BY <1>4, <1>7 DEF IInv, LinkedRow
<1>12. (/\ StripeTypeOK /\ PaymentTypeOK /\ RequestTypeOK /\ EventShape /\ SessionShape
        /\ RequestShape /\ RefundsARow /\ RefundExclusive)'
       BY <1>7
       DEF IInv, TypeOK, StripeTypeOK, PaymentTypeOK, RequestTypeOK, EventShape,
           SessionShape, RequestShape, RefundsARow, RefundExclusive, Refunding
<1> QED BY <1>5, <1>8, <1>9, <1>10, <1>11, <1>12 DEF IInv, TypeOK

\* The row keeps its link, or becomes a free one without.
LEMMA handleSubscriptionDeleted_Inv ==
    ASSUME IInv, NEW w \in Workers, handleSubscriptionDeleted(w) PROVE IInv'
<1>1. wk[w].ev \in sent /\ wk[w].ev \in Event
      BY DEF IInv, TypeOK, HoldsClaim, EventTypeOK, Handling, handleSubscriptionDeleted
<1>2. wk[w].row \in Row /\ sub \in Row  BY DEF IInv, TypeOK, RowTypeOK, WorkerTypeOK, Worker
<1>3. sub' = SubscriptionDeletedWrite(wk[w].row, sub)
      BY DEF handleSubscriptionDeleted, WriteRow
<1>4. /\ sub' \in Row
      /\ \/ sub'.plan = "free" /\ sub'.stripeId = NoSub
         \/ sub'.plan = sub.plan /\ sub'.stripeId = sub.stripeId /\ sub'.cycle = sub.cycle
      BY <1>2, <1>3, DeletedRow
<1>5. WorkerTypeOK' /\ HoldsClaim' /\ OneHandlerPerEvent' /\ UNCHANGED acked
      BY Gone DEF IInv, TypeOK, Handling, handleSubscriptionDeleted
<1>6. notice' = "due"  BY DEF WriteRow, handleSubscriptionDeleted
<1>7. UNCHANGED <<now, ss, intent, sent, nsent, pay, onboarding, claims, lock, rq, nreq,
                  fails, outages>>
      BY DEF handleSubscriptionDeleted, stripeVars, dbVars, counters
<1>8. EventTypeOK'  BY <1>5, <1>7 DEF IInv, TypeOK, EventTypeOK
<1>9. RowTypeOK'  BY <1>1, <1>2, <1>4 DEF RowTypeOK
<1>10. ScalarTypeOK'  BY <1>6, <1>7 DEF IInv, TypeOK, ScalarTypeOK
<1>11. LinkedRow'  BY <1>4, <1>7 DEF IInv, LinkedRow
<1>12. (/\ StripeTypeOK /\ PaymentTypeOK /\ RequestTypeOK /\ EventShape /\ SessionShape
        /\ RequestShape /\ RefundsARow /\ RefundExclusive)'
       BY <1>7
       DEF IInv, TypeOK, StripeTypeOK, PaymentTypeOK, RequestTypeOK, EventShape,
           SessionShape, RequestShape, RefundsARow, RefundExclusive, Refunding
<1> QED BY <1>5, <1>8, <1>9, <1>10, <1>11, <1>12 DEF IInv, TypeOK

\* The handler publishes and returns.
LEMMA PublishPlanChanged_Inv ==
    ASSUME IInv, NEW w \in Workers, PublishPlanChanged(w) PROVE IInv'
<1>1. WorkerTypeOK' /\ HoldsClaim' /\ OneHandlerPerEvent' /\ EventTypeOK'
      BY Returned DEF IInv, TypeOK, Handling, stripeVars, PublishPlanChanged
<1>2. notice' = "sent"  BY DEF PublishPlanChanged
<1>3. UNCHANGED <<now, ss, intent, sent, nsent, sub, pay, onboarding, claims, lock, rq, nreq,
                  fails, outages>>
      BY DEF PublishPlanChanged, stripeVars, dbVars, counters
<1>4. ScalarTypeOK'  BY <1>2, <1>3 DEF IInv, TypeOK, ScalarTypeOK
<1>5. (/\ StripeTypeOK /\ RowTypeOK /\ PaymentTypeOK /\ RequestTypeOK /\ EventShape
       /\ SessionShape /\ RequestShape /\ RefundsARow /\ LinkedRow /\ RefundExclusive)'
      BY <1>3
      DEF IInv, TypeOK, StripeTypeOK, RowTypeOK, PaymentTypeOK, RequestTypeOK, EventShape,
          SessionShape, RequestShape, RefundsARow, LinkedRow, RefundExclusive, Refunding
<1> QED BY <1>1, <1>4, <1>5 DEF IInv, TypeOK

\* The payment is refunded and no longer available.
LEMMA handleChargeRefunded_Inv ==
    ASSUME IInv, NEW w \in Workers, handleChargeRefunded(w) PROVE IInv'
<1>1. now \in Nat /\ \A i \in Intents : pay[i] \in Payment
      BY DEF IInv, TypeOK, PaymentTypeOK, ScalarTypeOK
<1>2. \A i \in Intents : LET p == RefundedUpdate(pay[i]) IN
                         p \in Payment /\ p.status = "refunded" /\ ~p.refundAvailable
      BY <1>1, PaymentWrites
<1>3. WorkerTypeOK' /\ HoldsClaim' /\ OneHandlerPerEvent' /\ EventTypeOK'
      BY Returned DEF IInv, TypeOK, Handling, stripeVars, handleChargeRefunded
<1>4. pay' = [pay EXCEPT ![wk[w].ev.i] = RefundedUpdate(pay[wk[w].ev.i])]
      BY DEF handleChargeRefunded
<1>5. pay' \in [Intents -> Payment]  BY <1>2, <1>4 DEF IInv, TypeOK, PaymentTypeOK
<1>6. UNCHANGED <<now, ss, intent, sent, nsent, sub, onboarding, claims, lock, notice, rq,
                  nreq, fails, outages>>
      BY DEF handleChargeRefunded, stripeVars, dbVars, counters
<1>7. PaymentTypeOK'  BY <1>5, <1>6 DEF IInv, TypeOK, PaymentTypeOK
<1>8. RefundsARow'  BY <1>2, <1>4, <1>5, <1>6 DEF IInv, RefundsARow
<1>9. RefundExclusive'  BY <1>2, <1>4, <1>6 DEF IInv, RefundExclusive, Refunding
<1>10. (/\ StripeTypeOK /\ RowTypeOK /\ RequestTypeOK /\ ScalarTypeOK /\ EventShape
        /\ SessionShape /\ RequestShape /\ LinkedRow)'
       BY <1>6
       DEF IInv, TypeOK, StripeTypeOK, RowTypeOK, RequestTypeOK, ScalarTypeOK, EventShape,
           SessionShape, RequestShape, LinkedRow
<1> QED BY <1>3, <1>7, <1>8, <1>9, <1>10 DEF IInv, TypeOK

\* A handler throws and its own claim is deleted.
LEMMA HandlerThrows_Inv ==
    ASSUME IInv, NEW w \in Workers, HandlerThrows(w) PROVE IInv'
<1>1. WorkerTypeOK' /\ HoldsClaim' /\ OneHandlerPerEvent' /\ EventTypeOK'
      BY Released DEF IInv, TypeOK, stripeVars, HandlerThrows
<1>2. fails' \in Nat /\ outages' \in Nat
      BY DEF IInv, TypeOK, ScalarTypeOK, HandlerThrows, Release
<1>3. UNCHANGED <<now, ss, intent, sent, nsent, sub, pay, onboarding, lock, notice, rq, nreq>>
      BY DEF HandlerThrows, stripeVars, dbVars, counters
<1>4. ScalarTypeOK'  BY <1>2, <1>3 DEF IInv, TypeOK, ScalarTypeOK
<1>5. (/\ StripeTypeOK /\ RowTypeOK /\ PaymentTypeOK /\ RequestTypeOK /\ EventShape
       /\ SessionShape /\ RequestShape /\ RefundsARow /\ LinkedRow /\ RefundExclusive)'
      BY <1>3
      DEF IInv, TypeOK, StripeTypeOK, RowTypeOK, PaymentTypeOK, RequestTypeOK, EventShape,
          SessionShape, RequestShape, RefundsARow, LinkedRow, RefundExclusive, Refunding
<1> QED BY <1>1, <1>4, <1>5 DEF IInv, TypeOK

\* activateSubscription, free: the request starts.
LEMMA ActivateFree_Inv ==
    ASSUME IInv, NEW r \in Reqs, ActivateFree(r) PROVE IInv'
<1>1. /\ RequestTypeOK' /\ rq'[r].pc = "create" /\ rq'[r].kind \in {"activateFree"}
      /\ rq'[r].row = sub /\ rq'[r].i = NoIntent /\ \A q \in Reqs \ {r} : rq'[q] = rq[q]
  <2>1. Loaded(r, "create", "activateFree", NoIntent)  BY DEF ActivateFree
  <2>2. "create" \in RequestSteps /\ "activateFree" \in StepKinds  BY DEF RequestSteps, StepKinds
  <2>3. RequestTypeOK /\ RowTypeOK  BY DEF IInv, TypeOK
  <2> QED BY <2>1, <2>2, <2>3, LoadedRequest
<1>2. nreq' \in Nat  BY DEF IInv, TypeOK, ScalarTypeOK, Starts, ActivateFree
<1>3. UNCHANGED <<now, ss, intent, sent, nsent, acked, sub, pay, onboarding, claims, lock,
                  notice, wk, fails, outages>>
      BY DEF ActivateFree, stripeVars, dbVars, counters
<1>4. ScalarTypeOK'  BY <1>2, <1>3 DEF IInv, TypeOK, ScalarTypeOK
<1>5. RequestShape'  BY <1>1 DEF IInv, RequestShape, ChangeKinds
<1>6. RefundsARow'  BY <1>1, <1>3 DEF IInv, RefundsARow
<1>7. LinkedRow'  BY <1>1, <1>3 DEF IInv, LinkedRow
<1>8. RefundExclusive'  BY <1>1, <1>3 DEF IInv, RefundExclusive, Refunding
<1>9. (/\ StripeTypeOK /\ EventTypeOK /\ RowTypeOK /\ PaymentTypeOK /\ WorkerTypeOK
       /\ EventShape /\ SessionShape /\ HoldsClaim /\ OneHandlerPerEvent)'
      BY <1>3
      DEF IInv, TypeOK, StripeTypeOK, EventTypeOK, RowTypeOK, PaymentTypeOK, WorkerTypeOK,
          EventShape, SessionShape, HoldsClaim, OneHandlerPerEvent
<1> QED BY <1>1, <1>4, <1>5, <1>6, <1>7, <1>8, <1>9 DEF IInv, TypeOK

\* cancelSubscription starts on a row that is linked.
LEMMA cancelSubscription_Inv ==
    ASSUME IInv, NEW r \in Reqs, cancelSubscription(r) PROVE IInv'
<1>1. /\ RequestTypeOK' /\ rq'[r].pc = "stripe" /\ rq'[r].kind \in {"cancel"}
      /\ rq'[r].row = sub /\ rq'[r].i = NoIntent /\ \A q \in Reqs \ {r} : rq'[q] = rq[q]
  <2>1. Loaded(r, "stripe", "cancel", NoIntent)  BY DEF cancelSubscription
  <2>2. "stripe" \in RequestSteps /\ "cancel" \in StepKinds  BY DEF RequestSteps, StepKinds
  <2>3. RequestTypeOK /\ RowTypeOK  BY DEF IInv, TypeOK
  <2> QED BY <2>1, <2>2, <2>3, LoadedRequest
<1>2. nreq' \in Nat  BY DEF IInv, TypeOK, ScalarTypeOK, Starts, cancelSubscription
<1>3. sub.stripeId \in Subs  BY DEF IInv, LinkedRow, ProInForce, cancelSubscription
<1>4. UNCHANGED <<now, ss, intent, sent, nsent, acked, sub, pay, onboarding, claims, lock,
                  notice, wk, fails, outages>>
      BY DEF cancelSubscription, stripeVars, dbVars, counters
<1>5. ScalarTypeOK'  BY <1>2, <1>4 DEF IInv, TypeOK, ScalarTypeOK
<1>6. RequestShape'  BY <1>1 DEF IInv, RequestShape, ChangeKinds
<1>7. RefundsARow'  BY <1>1, <1>4 DEF IInv, RefundsARow
<1>8. LinkedRow'  BY <1>1, <1>3, <1>4 DEF IInv, LinkedRow
<1>9. RefundExclusive'  BY <1>1, <1>4 DEF IInv, RefundExclusive, Refunding
<1>10. (/\ StripeTypeOK /\ EventTypeOK /\ RowTypeOK /\ PaymentTypeOK /\ WorkerTypeOK
        /\ EventShape /\ SessionShape /\ HoldsClaim /\ OneHandlerPerEvent)'
       BY <1>4
       DEF IInv, TypeOK, StripeTypeOK, EventTypeOK, RowTypeOK, PaymentTypeOK, WorkerTypeOK,
           EventShape, SessionShape, HoldsClaim, OneHandlerPerEvent
<1> QED BY <1>1, <1>5, <1>6, <1>7, <1>8, <1>9, <1>10 DEF IInv, TypeOK

\* activateSubscription, free: the row is created, or the insert throws.
LEMMA ActivateFreeCommit_Inv ==
    ASSUME IInv, NEW r \in Reqs, ActivateFreeCommit(r) PROVE IInv'
<1>1. RequestTypeOK' /\ rq'[r].pc = "idle" /\ \A q \in Reqs \ {r} : rq'[q] = rq[q]
      BY Finished DEF IInv, TypeOK, ActivateFreeCommit
<1>2. /\ createFreeSubscription \in Row /\ createFreeSubscription.plan = "free"
      /\ createFreeSubscription.stripeId = NoSub
      BY FreeRow
<1>3. sub' = sub \/ sub' = createFreeSubscription  BY DEF ActivateFreeCommit
<1>4. onboarding' = onboarding \/ onboarding' = "complete"  BY DEF ActivateFreeCommit
<1>5. UNCHANGED <<now, ss, intent, sent, nsent, acked, pay, claims, lock, notice, wk, nreq,
                  fails, outages>>
      BY DEF ActivateFreeCommit, stripeVars, dbVars, counters
<1>6. RowTypeOK'  BY <1>2, <1>3 DEF IInv, TypeOK, RowTypeOK
<1>7. ScalarTypeOK'  BY <1>4, <1>5 DEF IInv, TypeOK, ScalarTypeOK
<1>8. RequestShape'  BY <1>1 DEF IInv, RequestShape, ChangeKinds
<1>9. RefundsARow'  BY <1>1, <1>5 DEF IInv, RefundsARow
<1>10. LinkedRow'  BY <1>1, <1>2, <1>3 DEF IInv, LinkedRow
<1>11. RefundExclusive'  BY <1>1, <1>5 DEF IInv, RefundExclusive, Refunding
<1>12. (/\ StripeTypeOK /\ EventTypeOK /\ PaymentTypeOK /\ WorkerTypeOK /\ EventShape
        /\ SessionShape /\ HoldsClaim /\ OneHandlerPerEvent)'
       BY <1>5
       DEF IInv, TypeOK, StripeTypeOK, EventTypeOK, PaymentTypeOK, WorkerTypeOK, EventShape,
           SessionShape, HoldsClaim, OneHandlerPerEvent
<1> QED BY <1>1, <1>6, <1>7, <1>8, <1>9, <1>10, <1>11, <1>12 DEF IInv, TypeOK

\* The Stripe call of a plan change, on the subscription the row named.
LEMMA PlanChangeAtStripe_Inv ==
    ASSUME IInv, NEW r \in Reqs, PlanChangeAtStripe(r) PROVE IInv'
<1>1. rq[r].kind \in ChangeKinds /\ rq[r].row.stripeId \in Subs
      BY DEF IInv, RequestShape, LinkedRow, PlanChangeAtStripe
<1> DEFINE s == rq[r].row.stripeId
<1> DEFINE x == StripeAfter(rq[r].kind, ss[s])
<1>2. x \in StripeSub /\ x.st = ss[s].st /\ x.meta = ss[s].meta
      BY <1>1, ChangedStripeSub DEF IInv, TypeOK, StripeTypeOK
<1>3. StripeUpdate(s, x) /\ UNCHANGED <<acked, claims>>  BY DEF PlanChangeAtStripe
<1> HIDE DEF x
<1>4. StripeTypeOK' /\ EventTypeOK' /\ EventShape' /\ SessionShape' /\ nsent' \in Nat
      BY <1>1, <1>2, <1>3, StripeUpdated DEF IInv, TypeOK
<1>5. ss[s].end \in Nat /\ rq[r] \in Request
      BY <1>1 DEF IInv, TypeOK, RequestTypeOK, StripeTypeOK, StripeSub
<1> DEFINE y == [rq[r] EXCEPT !.pc = "write", !.end = ss[s].end]
<1>6. y \in Request /\ y.pc = "write" /\ y.kind = rq[r].kind
      BY <1>5 DEF Request, RequestSteps
<1>7. rq' = [rq EXCEPT ![r] = y]  BY DEF PlanChangeAtStripe
<1> HIDE DEF y
<1>8. /\ RequestTypeOK' /\ rq'[r].pc = "write" /\ rq'[r].kind = rq[r].kind
      /\ \A q \in Reqs \ {r} : rq'[q] = rq[q]
      BY <1>6, <1>7 DEF IInv, TypeOK, RequestTypeOK
<1>9. UNCHANGED <<acked, sub, pay, onboarding, claims, lock, notice, wk, nreq, fails,
                  outages, now>>
      BY DEF PlanChangeAtStripe, stripeVars, dbVars, counters, StripeUpdate
<1>10. ScalarTypeOK'  BY <1>4, <1>9 DEF IInv, TypeOK, ScalarTypeOK
<1>11. RequestShape'  BY <1>1, <1>6, <1>7 DEF IInv, RequestShape
<1>12. RefundsARow'  BY <1>6, <1>7, <1>9 DEF IInv, RefundsARow
<1>13. LinkedRow'  BY <1>6, <1>7, <1>9 DEF IInv, LinkedRow
<1>14. RefundExclusive'  BY <1>6, <1>7, <1>9 DEF IInv, RefundExclusive, Refunding
<1>15. (RowTypeOK /\ PaymentTypeOK /\ WorkerTypeOK /\ HoldsClaim /\ OneHandlerPerEvent)'
       BY <1>9
       DEF IInv, TypeOK, RowTypeOK, PaymentTypeOK, WorkerTypeOK, HoldsClaim,
           OneHandlerPerEvent
<1> QED BY <1>4, <1>8, <1>10, <1>11, <1>12, <1>13, <1>14, <1>15 DEF IInv, TypeOK

\* The local write of a plan change keeps plan, link and cycle.
LEMMA PlanChangeCommit_Inv ==
    ASSUME IInv, NEW r \in Reqs, PlanChangeCommit(r) PROVE IInv'
<1>1. RequestTypeOK' /\ rq'[r].pc = "idle" /\ \A q \in Reqs \ {r} : rq'[q] = rq[q]
      BY Finished DEF IInv, TypeOK, PlanChangeCommit
<1>2. sub \in Row /\ rq[r].kind \in ChangeKinds /\ rq[r].end \in Nat
      BY DEF IInv, TypeOK, RowTypeOK, RequestTypeOK, Request, RequestShape, PlanChangeCommit
<1>3. sub' = sub \/ sub' = PlanChangeWrite(rq[r].kind, sub, rq[r].end)
      BY DEF PlanChangeCommit
<1>4. /\ sub' \in Row /\ sub'.plan = sub.plan /\ sub'.stripeId = sub.stripeId
      /\ (sub.cycle # "none" => sub'.cycle # "none")
      BY <1>2, <1>3, ChangedRow
<1>5. UNCHANGED <<now, ss, intent, sent, nsent, acked, pay, onboarding, claims, lock, notice,
                  wk, nreq, fails, outages>>
      BY DEF PlanChangeCommit, stripeVars, dbVars, counters
<1>6. RowTypeOK'  BY <1>2, <1>3, <1>4 DEF RowTypeOK
<1>7. RequestShape'  BY <1>1 DEF IInv, RequestShape, ChangeKinds
<1>8. RefundsARow'  BY <1>1, <1>5 DEF IInv, RefundsARow
<1>9. LinkedRow'  BY <1>1, <1>4 DEF IInv, LinkedRow
<1>10. RefundExclusive'  BY <1>1, <1>5 DEF IInv, RefundExclusive, Refunding
<1>11. (/\ StripeTypeOK /\ EventTypeOK /\ PaymentTypeOK /\ WorkerTypeOK /\ ScalarTypeOK
        /\ EventShape /\ SessionShape /\ HoldsClaim /\ OneHandlerPerEvent)'
       BY <1>5
       DEF IInv, TypeOK, StripeTypeOK, EventTypeOK, PaymentTypeOK, WorkerTypeOK,
           ScalarTypeOK, EventShape, SessionShape, HoldsClaim, OneHandlerPerEvent
<1> QED BY <1>1, <1>6, <1>7, <1>8, <1>9, <1>10, <1>11 DEF IInv, TypeOK

\* A refused plan change ends and has changed nothing.
LEMMA StripeRefuses_Inv ==
    ASSUME IInv, NEW r \in Reqs, StripeRefuses(r) PROVE IInv'
<1>1. RequestTypeOK' /\ rq'[r].pc = "idle" /\ \A q \in Reqs \ {r} : rq'[q] = rq[q]
      BY Finished DEF IInv, TypeOK, StripeRefuses
<1>2. UNCHANGED <<now, ss, intent, sent, nsent, acked, sub, pay, onboarding, claims, lock,
                  notice, wk, nreq, fails, outages>>
      BY DEF StripeRefuses, stripeVars, dbVars, counters
<1>3. RequestShape'  BY <1>1 DEF IInv, RequestShape, ChangeKinds
<1>4. RefundsARow'  BY <1>1, <1>2 DEF IInv, RefundsARow
<1>5. LinkedRow'  BY <1>1, <1>2 DEF IInv, LinkedRow
<1>6. RefundExclusive'  BY <1>1, <1>2 DEF IInv, RefundExclusive, Refunding
<1>7. (/\ StripeTypeOK /\ EventTypeOK /\ RowTypeOK /\ PaymentTypeOK /\ WorkerTypeOK
       /\ ScalarTypeOK /\ EventShape /\ SessionShape /\ HoldsClaim /\ OneHandlerPerEvent)'
      BY <1>2
      DEF IInv, TypeOK, StripeTypeOK, EventTypeOK, RowTypeOK, PaymentTypeOK, WorkerTypeOK,
          ScalarTypeOK, EventShape, SessionShape, HoldsClaim, OneHandlerPerEvent
<1> QED BY <1>1, <1>3, <1>4, <1>5, <1>6, <1>7 DEF IInv, TypeOK

\* A request fails; nothing is undone.
LEMMA RequestFails_Inv ==
    ASSUME IInv, NEW r \in Reqs, RequestFails(r) PROVE IInv'
<1>1. RequestTypeOK' /\ rq'[r].pc = "idle" /\ \A q \in Reqs \ {r} : rq'[q] = rq[q]
      BY Finished DEF IInv, TypeOK, RequestFails
<1>2. UNCHANGED <<now, ss, intent, sent, nsent, acked, sub, pay, onboarding, claims, lock,
                  notice, wk, nreq, outages>>
      BY DEF RequestFails, stripeVars, dbVars
<1>3. fails' \in Nat  BY DEF IInv, TypeOK, ScalarTypeOK, RequestFails
<1>4. RequestShape'  BY <1>1 DEF IInv, RequestShape, ChangeKinds
<1>5. RefundsARow'  BY <1>1, <1>2 DEF IInv, RefundsARow
<1>6. LinkedRow'  BY <1>1, <1>2 DEF IInv, LinkedRow
<1>7. RefundExclusive'  BY <1>1, <1>2 DEF IInv, RefundExclusive, Refunding
<1>8. (/\ StripeTypeOK /\ EventTypeOK /\ RowTypeOK /\ PaymentTypeOK /\ WorkerTypeOK
       /\ ScalarTypeOK /\ EventShape /\ SessionShape /\ HoldsClaim /\ OneHandlerPerEvent)'
      BY <1>3, <1>2
      DEF IInv, TypeOK, StripeTypeOK, EventTypeOK, RowTypeOK, PaymentTypeOK, WorkerTypeOK,
          ScalarTypeOK, EventShape, SessionShape, HoldsClaim, OneHandlerPerEvent
<1> QED BY <1>1, <1>4, <1>5, <1>6, <1>7, <1>8 DEF IInv, TypeOK

\* The Redis lock is taken or found taken: the invariant does not rest on it.
LEMMA RefundLock_Inv ==
    ASSUME IInv, NEW r \in Reqs, RefundLock(r) PROVE IInv'
<1>1. rq[r].i \in Intents /\ pay[rq[r].i].status # "none"
      BY DEF IInv, RequestShape, RefundsARow, RefundLock
<1>2. lock' \subseteq Intents  BY <1>1 DEF IInv, TypeOK, PaymentTypeOK, RefundLock
<1>3. Finish(r) \/ Advance(r, "flip")  BY DEF RefundLock
<1>4. Finish(r) => RequestTypeOK' /\ rq'[r].pc = "idle" /\ \A q \in Reqs \ {r} : rq'[q] = rq[q]
      BY Finished DEF IInv, TypeOK
<1>5. Advance(r, "flip") => /\ RequestTypeOK' /\ rq'[r].pc = "flip" /\ rq'[r].i = rq[r].i
                            /\ \A q \in Reqs \ {r} : rq'[q] = rq[q]
      BY Advanced DEF IInv, TypeOK, RequestSteps
<1>6. UNCHANGED <<now, ss, intent, sent, nsent, acked, sub, pay, onboarding, claims, notice,
                  wk, nreq, fails, outages>>
      BY DEF RefundLock, stripeVars, dbVars, counters
<1>7. PaymentTypeOK'  BY <1>2, <1>6 DEF IInv, TypeOK, PaymentTypeOK
<1>8. RequestShape'  BY <1>1, <1>3, <1>4, <1>5 DEF IInv, RequestShape
<1>9. RefundsARow'  BY <1>1, <1>3, <1>4, <1>5, <1>6 DEF IInv, RefundsARow
<1>10. LinkedRow'  BY <1>3, <1>4, <1>5, <1>6 DEF IInv, LinkedRow
<1>11. RefundExclusive'  BY <1>3, <1>4, <1>5, <1>6 DEF IInv, RefundExclusive, Refunding
<1>12. (/\ StripeTypeOK /\ EventTypeOK /\ RowTypeOK /\ WorkerTypeOK /\ ScalarTypeOK
        /\ EventShape /\ SessionShape /\ HoldsClaim /\ OneHandlerPerEvent)'
       BY <1>6
       DEF IInv, TypeOK, StripeTypeOK, EventTypeOK, RowTypeOK, WorkerTypeOK, ScalarTypeOK,
           EventShape, SessionShape, HoldsClaim, OneHandlerPerEvent
<1> QED BY <1>1, <1>2, <1>3, <1>4, <1>5, <1>6, <1>7, <1>8, <1>9, <1>10, <1>11, <1>12
    DEF IInv, TypeOK

\* The compare-and-set: it succeeds only if no request is refunding the payment.
LEMMA RefundFlip_Inv ==
    ASSUME IInv, NEW r \in Reqs, RefundFlip(r) PROVE IInv'
<1>1. /\ RequestTypeOK' /\ rq'[r].pc \in {"refund", "unlock"} /\ rq'[r].kind = rq[r].kind
      /\ rq'[r].row = rq[r].row /\ rq'[r].i = rq[r].i
      /\ \A q \in Reqs \ {r} : rq'[q] = rq[q]
      BY Advanced DEF IInv, TypeOK, RequestSteps, RefundFlip
<1>2. rq[r].i \in Intents  BY DEF IInv, RequestShape, RefundFlip
<1>3. now \in Nat /\ \A j \in Intents : pay[j] \in Payment
      BY DEF IInv, TypeOK, PaymentTypeOK, ScalarTypeOK
<1>4. LET p == SetRefundAvailable(pay[rq[r].i], FALSE) IN
      p \in Payment /\ p.status = pay[rq[r].i].status /\ p.refundAvailable = FALSE
      BY <1>2, <1>3, PaymentWrites
<1>5. pay' = [pay EXCEPT ![rq[r].i] = SetRefundAvailable(pay[rq[r].i], FALSE)]
      BY DEF RefundFlip
<1>6. pay' \in [Intents -> Payment] /\ \A j \in Intents : pay'[j].status = pay[j].status
      BY <1>2, <1>4, <1>5 DEF IInv, TypeOK, PaymentTypeOK
<1>7. ~pay'[rq[r].i].refundAvailable  BY <1>2, <1>4, <1>5 DEF IInv, TypeOK, PaymentTypeOK
<1>8. \A j \in Intents : j # rq[r].i => pay'[j] = pay[j]  BY <1>2, <1>5 DEF PaymentTypeOK
<1>9. rq[r].pc = "flip"  BY DEF RefundFlip
<1>10. rq'[r].pc = "refund" => pay[rq[r].i].refundAvailable
       BY Advanced DEF IInv, TypeOK, RequestSteps, RefundFlip
<1>11. rq[r].i \in Intents /\ pay[rq[r].i].status # "none"
       BY DEF IInv, RequestShape, RefundsARow, RefundFlip
<1>12. \A q \in Reqs : rq[q].pc \in {"refund", "restore"} /\ rq[q].i = rq[r].i
                         => ~pay[rq[r].i].refundAvailable
       BY <1>2 DEF IInv, RefundExclusive, Refunding
<1>13. UNCHANGED <<now, ss, intent, sent, nsent, acked, sub, onboarding, claims, lock,
                   notice, wk, nreq, fails, outages>>
       BY DEF RefundFlip, stripeVars, dbVars, counters
<1>14. PaymentTypeOK'
       BY <1>6, <1>7, <1>8, <1>9, <1>10, <1>11, <1>12, <1>13 DEF IInv, TypeOK, PaymentTypeOK
<1>15. RequestShape'  BY <1>1, <1>2 DEF IInv, RequestShape
<1>16. RefundsARow'  BY <1>1, <1>6, <1>11 DEF IInv, RefundsARow, RequestShape
<1>17. LinkedRow'  BY <1>1, <1>13 DEF IInv, LinkedRow
<1>18. RefundExclusive'  BY <1>1, <1>7, <1>8, <1>10 DEF IInv, RefundExclusive, Refunding
<1>19. (/\ StripeTypeOK /\ EventTypeOK /\ RowTypeOK /\ WorkerTypeOK /\ ScalarTypeOK
        /\ EventShape /\ SessionShape /\ HoldsClaim /\ OneHandlerPerEvent)'
       BY <1>13
       DEF IInv, TypeOK, StripeTypeOK, EventTypeOK, RowTypeOK, WorkerTypeOK, ScalarTypeOK,
           EventShape, SessionShape, HoldsClaim, OneHandlerPerEvent
<1> QED BY <1>1, <1>14, <1>15, <1>16, <1>17, <1>18, <1>19 DEF IInv, TypeOK

\* stripe.refunds.create answers: the request stops refunding.
LEMMA RefundAtStripe_Inv ==
    ASSUME IInv, NEW r \in Reqs, RefundAtStripe(r) PROVE IInv'
<1>1. rq[r].i \in Intents /\ pay[rq[r].i].status # "none"
      BY DEF IInv, RequestShape, RefundsARow, RefundAtStripe
<1>2. StripeTypeOK' /\ EventTypeOK' /\ EventShape' /\ nsent' \in Nat
      BY <1>1, StripeRefunded DEF IInv, TypeOK, RefundAtStripe
<1>3. /\ RequestTypeOK' /\ rq'[r].pc \in {"cape", "unlock"} /\ rq'[r].kind = rq[r].kind
      /\ rq'[r].row = rq[r].row /\ rq'[r].i = rq[r].i
      /\ \A q \in Reqs \ {r} : rq'[q] = rq[q]
      BY Advanced DEF IInv, TypeOK, RequestSteps, RefundAtStripe
<1>4. rq'[r].pc = "cape" => rq[r].row.stripeId \in Subs
      BY Advanced DEF IInv, TypeOK, RequestTypeOK, Request, Row, RequestSteps,
                      RefundAtStripe
<1>5. UNCHANGED <<now, ss, acked, sub, pay, onboarding, claims, lock, notice, wk, nreq,
                  fails, outages>>
      BY DEF RefundAtStripe, stripeVars, dbVars, counters
<1>6. ScalarTypeOK'  BY <1>2, <1>5 DEF IInv, TypeOK, ScalarTypeOK
<1>7. RequestShape'  BY <1>1, <1>3 DEF IInv, RequestShape
<1>8. RefundsARow'  BY <1>1, <1>3, <1>5 DEF IInv, RefundsARow
<1>9. LinkedRow'  BY <1>3, <1>4, <1>5 DEF IInv, LinkedRow
<1>10. RefundExclusive'  BY <1>3, <1>5 DEF IInv, RefundExclusive, Refunding
<1>11. (/\ RowTypeOK /\ PaymentTypeOK /\ WorkerTypeOK /\ SessionShape /\ HoldsClaim
        /\ OneHandlerPerEvent)'
       BY <1>5
       DEF IInv, TypeOK, RowTypeOK, PaymentTypeOK, WorkerTypeOK, SessionShape, HoldsClaim,
           OneHandlerPerEvent
<1> QED BY <1>2, <1>3, <1>6, <1>7, <1>8, <1>9, <1>10, <1>11 DEF IInv, TypeOK

\* stripe.refunds.create throws: the request goes on refunding, to restore the flag.
LEMMA RefundCallFails_Inv ==
    ASSUME IInv, NEW r \in Reqs, RefundCallFails(r) PROVE IInv'
<1>1. rq[r].i \in Intents /\ pay[rq[r].i].status # "none"
      BY DEF IInv, RequestShape, RefundsARow, RefundCallFails
<1>2. /\ UNCHANGED <<ss, acked, claims>>
      /\ (UNCHANGED <<intent, sent, nsent>> \/ StripeRefund(rq[r].i))
      BY DEF RefundCallFails
<1>3. StripeTypeOK' /\ EventTypeOK' /\ EventShape' /\ nsent' \in Nat
      BY <1>1, <1>2, StripeRefunded
      DEF IInv, TypeOK, StripeTypeOK, EventTypeOK, EventShape, ScalarTypeOK
<1>4. /\ RequestTypeOK' /\ rq'[r].pc \in {"restore"} /\ rq'[r].kind = rq[r].kind
      /\ rq'[r].row = rq[r].row /\ rq'[r].i = rq[r].i
      /\ \A q \in Reqs \ {r} : rq'[q] = rq[q]
      BY Advanced DEF IInv, TypeOK, RequestSteps, RefundCallFails
<1>5. rq[r].pc = "refund"  BY DEF RefundCallFails
<1>6. UNCHANGED <<now, ss, acked, sub, pay, onboarding, claims, lock, notice, wk, nreq,
                  fails, outages>>
      BY DEF RefundCallFails, stripeVars, dbVars, counters
<1>7. ScalarTypeOK'  BY <1>3, <1>6 DEF IInv, TypeOK, ScalarTypeOK
<1>8. RequestShape'  BY <1>1, <1>4 DEF IInv, RequestShape
<1>9. RefundsARow'  BY <1>1, <1>4, <1>6 DEF IInv, RefundsARow
<1>10. LinkedRow'  BY <1>4, <1>6 DEF IInv, LinkedRow
<1>11. RefundExclusive'  BY <1>4, <1>5, <1>6 DEF IInv, RefundExclusive, Refunding
<1>12. (/\ RowTypeOK /\ PaymentTypeOK /\ WorkerTypeOK /\ SessionShape /\ HoldsClaim
        /\ OneHandlerPerEvent)'
       BY <1>6
       DEF IInv, TypeOK, RowTypeOK, PaymentTypeOK, WorkerTypeOK, SessionShape, HoldsClaim,
           OneHandlerPerEvent
<1> QED BY <1>3, <1>4, <1>7, <1>8, <1>9, <1>10, <1>11, <1>12 DEF IInv, TypeOK

\* The flag is restored by the only request that refunds the payment.
LEMMA RefundRestore_Inv ==
    ASSUME IInv, NEW r \in Reqs, RefundRestore(r) PROVE IInv'
<1>1. /\ RequestTypeOK' /\ rq'[r].pc \in {"unlock"} /\ rq'[r].kind = rq[r].kind
      /\ rq'[r].row = rq[r].row /\ rq'[r].i = rq[r].i
      /\ \A q \in Reqs \ {r} : rq'[q] = rq[q]
      BY Advanced DEF IInv, TypeOK, RequestSteps, RefundRestore
<1>2. rq[r].i \in Intents  BY DEF IInv, RequestShape, RefundRestore
<1>3. now \in Nat /\ \A j \in Intents : pay[j] \in Payment
      BY DEF IInv, TypeOK, PaymentTypeOK, ScalarTypeOK
<1>4. LET p == SetRefundAvailable(pay[rq[r].i], TRUE) IN
      p \in Payment /\ p.status = pay[rq[r].i].status /\ p.refundAvailable = TRUE
      BY <1>2, <1>3, PaymentWrites
<1>5. pay' = pay \/ pay' = [pay EXCEPT ![rq[r].i] = SetRefundAvailable(pay[rq[r].i], TRUE)]
      BY DEF RefundRestore
<1>6. /\ pay' \in [Intents -> Payment]
      /\ \A j \in Intents : pay'[j].status = pay[j].status
      /\ \A j \in Intents : j # rq[r].i => pay'[j] = pay[j]
      BY <1>2, <1>4, <1>5 DEF IInv, TypeOK, PaymentTypeOK
<1>7. rq[r].i \in Intents /\ pay[rq[r].i].status # "none"
      BY DEF IInv, RequestShape, RefundsARow, RefundRestore
<1>8. \A q \in Reqs : rq[q].pc \in {"refund", "restore"} /\ rq[q].i = rq[r].i => q = r
      BY <1>2 DEF IInv, RefundExclusive, Refunding, RefundRestore
<1>9. UNCHANGED <<now, ss, intent, sent, nsent, acked, sub, onboarding, claims, lock, notice,
                  wk, nreq, fails, outages>>
      BY DEF RefundRestore, stripeVars, dbVars, counters
<1>10. PaymentTypeOK'  BY <1>6, <1>9 DEF IInv, TypeOK, PaymentTypeOK
<1>11. RequestShape'  BY <1>1, <1>2 DEF IInv, RequestShape
<1>12. RefundsARow'  BY <1>1, <1>6, <1>7 DEF IInv, RefundsARow, RequestShape
<1>13. LinkedRow'  BY <1>1, <1>9 DEF IInv, LinkedRow
<1>14. RefundExclusive'  BY <1>1, <1>6, <1>8 DEF IInv, RefundExclusive, Refunding
<1>15. (/\ StripeTypeOK /\ EventTypeOK /\ RowTypeOK /\ WorkerTypeOK /\ ScalarTypeOK
        /\ EventShape /\ SessionShape /\ HoldsClaim /\ OneHandlerPerEvent)'
       BY <1>9
       DEF IInv, TypeOK, StripeTypeOK, EventTypeOK, RowTypeOK, WorkerTypeOK, ScalarTypeOK,
           EventShape, SessionShape, HoldsClaim, OneHandlerPerEvent
<1> QED BY <1>1, <1>10, <1>11, <1>12, <1>13, <1>14, <1>15 DEF IInv, TypeOK

\* The period-end cancellation after a refund, on a row that is linked.
LEMMA RefundCape_Inv ==
    ASSUME IInv, NEW r \in Reqs, RefundCape(r) PROVE IInv'
<1>1. rq[r].i \in Intents /\ pay[rq[r].i].status # "none"
      BY DEF IInv, RequestShape, RefundsARow, RefundCape
<1>2. rq[r].row.stripeId \in Subs  BY DEF IInv, LinkedRow, RefundCape
<1> DEFINE s == rq[r].row.stripeId
<1> DEFINE x == [ss[s] EXCEPT !.cape = TRUE]
<1>3. ss[s] \in StripeSub  BY <1>2 DEF IInv, TypeOK, StripeTypeOK
<1>4. x \in StripeSub /\ x.st = ss[s].st /\ x.meta = ss[s].meta  BY <1>3 DEF StripeSub
<1>5. StripeUpdate(s, x) /\ UNCHANGED <<acked, claims>>  BY DEF RefundCape
<1> HIDE DEF x
<1>6. StripeTypeOK' /\ EventTypeOK' /\ EventShape' /\ SessionShape' /\ nsent' \in Nat
      BY <1>2, <1>4, <1>5, StripeUpdated DEF IInv, TypeOK
<1>7. /\ RequestTypeOK' /\ rq'[r].pc \in {"schedule"} /\ rq'[r].kind = rq[r].kind
      /\ rq'[r].row = rq[r].row /\ rq'[r].i = rq[r].i
      /\ \A q \in Reqs \ {r} : rq'[q] = rq[q]
      BY Advanced DEF IInv, TypeOK, RequestSteps, RefundCape
<1>8. UNCHANGED <<acked, sub, pay, onboarding, claims, lock, notice, wk, nreq, fails,
                  outages, now>>
      BY DEF RefundCape, stripeVars, dbVars, counters, StripeUpdate
<1>9. ScalarTypeOK'  BY <1>6, <1>8 DEF IInv, TypeOK, ScalarTypeOK
<1>10. RequestShape'  BY <1>1, <1>7 DEF IInv, RequestShape
<1>11. RefundsARow'  BY <1>1, <1>7, <1>8 DEF IInv, RefundsARow
<1>12. LinkedRow'  BY <1>7, <1>8 DEF IInv, LinkedRow
<1>13. RefundExclusive'  BY <1>7, <1>8 DEF IInv, RefundExclusive, Refunding
<1>14. (RowTypeOK /\ PaymentTypeOK /\ WorkerTypeOK /\ HoldsClaim /\ OneHandlerPerEvent)'
       BY <1>8
       DEF IInv, TypeOK, RowTypeOK, PaymentTypeOK, WorkerTypeOK, HoldsClaim,
           OneHandlerPerEvent
<1> QED BY <1>6, <1>7, <1>9, <1>10, <1>11, <1>12, <1>13, <1>14 DEF IInv, TypeOK

\* The scheduled downgrade after a refund keeps plan and link.
LEMMA RefundSchedule_Inv ==
    ASSUME IInv, NEW r \in Reqs, RefundSchedule(r) PROVE IInv'
<1>1. /\ RequestTypeOK' /\ rq'[r].pc \in {"unlock"} /\ rq'[r].kind = rq[r].kind
      /\ rq'[r].row = rq[r].row /\ rq'[r].i = rq[r].i
      /\ \A q \in Reqs \ {r} : rq'[q] = rq[q]
      BY Advanced DEF IInv, TypeOK, RequestSteps, RefundSchedule
<1>2. "downgradeFree" \in ChangeKinds /\ sub \in Row /\ 0 \in Nat
      BY DEF ChangeKinds, IInv, TypeOK, RowTypeOK
<1>3. sub' = PlanChangeWrite("downgradeFree", sub, 0)  BY DEF RefundSchedule
<1>4. /\ sub' \in Row /\ sub'.plan = sub.plan /\ sub'.stripeId = sub.stripeId
      /\ (sub.cycle # "none" => sub'.cycle # "none")
      BY <1>2, <1>3, ChangedRow
<1>5. rq[r].i \in Intents /\ pay[rq[r].i].status # "none"
      BY DEF IInv, RequestShape, RefundsARow, RefundSchedule
<1>6. UNCHANGED <<now, ss, intent, sent, nsent, acked, pay, onboarding, claims, lock, notice,
                  wk, nreq, fails, outages>>
      BY DEF RefundSchedule, stripeVars, dbVars, counters
<1>7. RowTypeOK'  BY <1>2, <1>3, <1>4 DEF RowTypeOK
<1>8. RequestShape'  BY <1>1, <1>5 DEF IInv, RequestShape
<1>9. RefundsARow'  BY <1>1, <1>5, <1>6 DEF IInv, RefundsARow
<1>10. LinkedRow'  BY <1>1, <1>4 DEF IInv, LinkedRow
<1>11. RefundExclusive'  BY <1>1, <1>6 DEF IInv, RefundExclusive, Refunding
<1>12. (/\ StripeTypeOK /\ EventTypeOK /\ PaymentTypeOK /\ WorkerTypeOK /\ ScalarTypeOK
        /\ EventShape /\ SessionShape /\ HoldsClaim /\ OneHandlerPerEvent)'
       BY <1>6
       DEF IInv, TypeOK, StripeTypeOK, EventTypeOK, PaymentTypeOK, WorkerTypeOK,
           ScalarTypeOK, EventShape, SessionShape, HoldsClaim, OneHandlerPerEvent
<1> QED BY <1>1, <1>7, <1>8, <1>9, <1>10, <1>11, <1>12 DEF IInv, TypeOK

\* A step after the refund fails and is swallowed.
LEMMA RefundStepFails_Inv ==
    ASSUME IInv, NEW r \in Reqs, RefundStepFails(r) PROVE IInv'
<1>1. /\ RequestTypeOK' /\ rq'[r].pc \in {"unlock"} /\ rq'[r].kind = rq[r].kind
      /\ rq'[r].row = rq[r].row /\ rq'[r].i = rq[r].i
      /\ \A q \in Reqs \ {r} : rq'[q] = rq[q]
      BY Advanced DEF IInv, TypeOK, RequestSteps, RefundStepFails
<1>2. rq[r].i \in Intents /\ pay[rq[r].i].status # "none"
      BY DEF IInv, RequestShape, RefundsARow, RefundStepFails
<1>3. UNCHANGED <<now, ss, intent, sent, nsent, acked, sub, pay, onboarding, claims, lock,
                  notice, wk, nreq, fails, outages>>
      BY DEF RefundStepFails, stripeVars, dbVars, counters
<1>4. RequestShape'  BY <1>1, <1>2 DEF IInv, RequestShape
<1>5. RefundsARow'  BY <1>1, <1>2, <1>3 DEF IInv, RefundsARow
<1>6. LinkedRow'  BY <1>1, <1>3 DEF IInv, LinkedRow
<1>7. RefundExclusive'  BY <1>1, <1>3 DEF IInv, RefundExclusive, Refunding
<1>8. (/\ StripeTypeOK /\ EventTypeOK /\ RowTypeOK /\ PaymentTypeOK /\ WorkerTypeOK
       /\ ScalarTypeOK /\ EventShape /\ SessionShape /\ HoldsClaim /\ OneHandlerPerEvent)'
      BY <1>3
      DEF IInv, TypeOK, StripeTypeOK, EventTypeOK, RowTypeOK, PaymentTypeOK, WorkerTypeOK,
          ScalarTypeOK, EventShape, SessionShape, HoldsClaim, OneHandlerPerEvent
<1> QED BY <1>1, <1>4, <1>5, <1>6, <1>7, <1>8 DEF IInv, TypeOK

\* The finally block.
LEMMA RefundUnlock_Inv ==
    ASSUME IInv, NEW r \in Reqs, RefundUnlock(r) PROVE IInv'
<1>1. RequestTypeOK' /\ rq'[r].pc = "idle" /\ \A q \in Reqs \ {r} : rq'[q] = rq[q]
      BY Finished DEF IInv, TypeOK, RefundUnlock
<1>2. lock' \subseteq Intents  BY DEF IInv, TypeOK, PaymentTypeOK, RefundUnlock
<1>3. UNCHANGED <<now, ss, intent, sent, nsent, acked, sub, pay, onboarding, claims, notice,
                  wk, nreq, fails, outages>>
      BY DEF RefundUnlock, stripeVars, dbVars, counters
<1>4. PaymentTypeOK'  BY <1>2, <1>3 DEF IInv, TypeOK, PaymentTypeOK
<1>5. RequestShape'  BY <1>1 DEF IInv, RequestShape, ChangeKinds
<1>6. RefundsARow'  BY <1>1, <1>3 DEF IInv, RefundsARow
<1>7. LinkedRow'  BY <1>1, <1>3 DEF IInv, LinkedRow
<1>8. RefundExclusive'  BY <1>1, <1>3 DEF IInv, RefundExclusive, Refunding
<1>9. (/\ StripeTypeOK /\ EventTypeOK /\ RowTypeOK /\ WorkerTypeOK /\ ScalarTypeOK
       /\ EventShape /\ SessionShape /\ HoldsClaim /\ OneHandlerPerEvent)'
      BY <1>3
      DEF IInv, TypeOK, StripeTypeOK, EventTypeOK, RowTypeOK, WorkerTypeOK, ScalarTypeOK,
          EventShape, SessionShape, HoldsClaim, OneHandlerPerEvent
<1> QED BY <1>1, <1>4, <1>5, <1>6, <1>7, <1>8, <1>9 DEF IInv, TypeOK

\* upgradeSubscription starts on a row that is linked.
LEMMA upgradeSubscription_Inv ==
    ASSUME IInv, NEW r \in Reqs, NEW kind \in Kinds, upgradeSubscription(r, kind) PROVE IInv'
<1>1. /\ RequestTypeOK' /\ rq'[r].pc = "stripe"
      /\ rq'[r].kind \in {"toYearly", "reactivate"} /\ rq'[r].row = sub
      /\ rq'[r].i = NoIntent /\ \A q \in Reqs \ {r} : rq'[q] = rq[q]
  <2>1. PICK k \in {"toYearly", "reactivate"} : Loaded(r, "stripe", k, NoIntent)
        BY DEF upgradeSubscription
  <2>2. "stripe" \in RequestSteps /\ k \in StepKinds  BY DEF RequestSteps, StepKinds
  <2>3. RequestTypeOK /\ RowTypeOK  BY DEF IInv, TypeOK
  <2> QED BY <2>1, <2>2, <2>3, LoadedRequest
<1>2. nreq' \in Nat  BY DEF IInv, TypeOK, ScalarTypeOK, Starts, upgradeSubscription
<1>3. sub.stripeId \in Subs  BY DEF IInv, LinkedRow, ProInForce, upgradeSubscription
<1>4. UNCHANGED <<now, ss, intent, sent, nsent, acked, sub, pay, onboarding, claims, lock,
                  notice, wk, fails, outages>>
      BY DEF upgradeSubscription, stripeVars, dbVars, counters
<1>5. ScalarTypeOK'  BY <1>2, <1>4 DEF IInv, TypeOK, ScalarTypeOK
<1>6. RequestShape'  BY <1>1 DEF IInv, RequestShape, ChangeKinds
<1>7. RefundsARow'  BY <1>1, <1>4 DEF IInv, RefundsARow
<1>8. LinkedRow'  BY <1>1, <1>3, <1>4 DEF IInv, LinkedRow
<1>9. RefundExclusive'  BY <1>1, <1>4 DEF IInv, RefundExclusive, Refunding
<1>10. (/\ StripeTypeOK /\ EventTypeOK /\ RowTypeOK /\ PaymentTypeOK /\ WorkerTypeOK
        /\ EventShape /\ SessionShape /\ HoldsClaim /\ OneHandlerPerEvent)'
       BY <1>4
       DEF IInv, TypeOK, StripeTypeOK, EventTypeOK, RowTypeOK, PaymentTypeOK, WorkerTypeOK,
           EventShape, SessionShape, HoldsClaim, OneHandlerPerEvent
<1> QED BY <1>1, <1>5, <1>6, <1>7, <1>8, <1>9, <1>10 DEF IInv, TypeOK

\* downgradeSubscription starts on a row that is linked.
LEMMA downgradeSubscription_Inv ==
    ASSUME IInv, NEW r \in Reqs, NEW kind \in Kinds, downgradeSubscription(r, kind) PROVE IInv'
<1>1. /\ RequestTypeOK' /\ rq'[r].pc = "stripe"
      /\ rq'[r].kind \in {"downgradeFree", "toMonthly"} /\ rq'[r].row = sub
      /\ rq'[r].i = NoIntent /\ \A q \in Reqs \ {r} : rq'[q] = rq[q]
  <2>1. PICK k \in {"downgradeFree", "toMonthly"} : Loaded(r, "stripe", k, NoIntent)
        BY DEF downgradeSubscription
  <2>2. "stripe" \in RequestSteps /\ k \in StepKinds  BY DEF RequestSteps, StepKinds
  <2>3. RequestTypeOK /\ RowTypeOK  BY DEF IInv, TypeOK
  <2> QED BY <2>1, <2>2, <2>3, LoadedRequest
<1>2. nreq' \in Nat  BY DEF IInv, TypeOK, ScalarTypeOK, Starts, downgradeSubscription
<1>3. sub.stripeId \in Subs  BY DEF IInv, LinkedRow, ProInForce, downgradeSubscription
<1>4. UNCHANGED <<now, ss, intent, sent, nsent, acked, sub, pay, onboarding, claims, lock,
                  notice, wk, fails, outages>>
      BY DEF downgradeSubscription, stripeVars, dbVars, counters
<1>5. ScalarTypeOK'  BY <1>2, <1>4 DEF IInv, TypeOK, ScalarTypeOK
<1>6. RequestShape'  BY <1>1 DEF IInv, RequestShape, ChangeKinds
<1>7. RefundsARow'  BY <1>1, <1>4 DEF IInv, RefundsARow
<1>8. LinkedRow'  BY <1>1, <1>3, <1>4 DEF IInv, LinkedRow
<1>9. RefundExclusive'  BY <1>1, <1>4 DEF IInv, RefundExclusive, Refunding
<1>10. (/\ StripeTypeOK /\ EventTypeOK /\ RowTypeOK /\ PaymentTypeOK /\ WorkerTypeOK
        /\ EventShape /\ SessionShape /\ HoldsClaim /\ OneHandlerPerEvent)'
       BY <1>4
       DEF IInv, TypeOK, StripeTypeOK, EventTypeOK, RowTypeOK, PaymentTypeOK, WorkerTypeOK,
           EventShape, SessionShape, HoldsClaim, OneHandlerPerEvent
<1> QED BY <1>1, <1>5, <1>6, <1>7, <1>8, <1>9, <1>10 DEF IInv, TypeOK

\* A Checkout Session is opened, with the cycle in its metadata.
LEMMA createProCheckoutSession_Inv ==
    ASSUME IInv, NEW r \in Reqs, NEW kind \in Kinds, NEW s \in Subs,
           createProCheckoutSession(r, kind, s)
    PROVE  IInv'
<1>1. CycleOf(kind) \in Cycles \ {"none"}  BY DEF CycleOf, Cycles
<1>2. ss[s] \in StripeSub  BY DEF IInv, TypeOK, StripeTypeOK
<1> DEFINE x == [ss[s] EXCEPT !.st = "session", !.meta = CycleOf(kind), !.cycle = CycleOf(kind)]
<1>3. x \in StripeSub /\ x.st = "session" /\ x.meta = CycleOf(kind)
      BY <1>1, <1>2 DEF StripeSub
<1>4. ss' = [ss EXCEPT ![s] = x]  BY DEF createProCheckoutSession
<1> HIDE DEF x
<1>5. nreq' \in Nat  BY DEF IInv, TypeOK, ScalarTypeOK, Starts, createProCheckoutSession
<1>6. UNCHANGED <<now, intent, sent, nsent, acked, sub, pay, onboarding, claims, lock,
                  notice, wk, rq, fails, outages>>
      BY DEF createProCheckoutSession, stripeVars, dbVars, counters
<1>7. StripeTypeOK'  BY <1>3, <1>4, <1>6 DEF IInv, TypeOK, StripeTypeOK
<1>8. ScalarTypeOK'  BY <1>5, <1>6 DEF IInv, TypeOK, ScalarTypeOK
<1>9. EventShape'  BY <1>3, <1>4, <1>6 DEF IInv, EventShape
<1>10. SessionShape'  BY <1>1, <1>3, <1>4 DEF IInv, SessionShape
<1>11. (/\ EventTypeOK /\ RowTypeOK /\ PaymentTypeOK /\ WorkerTypeOK /\ RequestTypeOK
        /\ HoldsClaim /\ OneHandlerPerEvent /\ RequestShape /\ RefundsARow /\ LinkedRow
        /\ RefundExclusive)'
       BY <1>6
       DEF IInv, TypeOK, EventTypeOK, RowTypeOK, PaymentTypeOK, WorkerTypeOK, RequestTypeOK,
           HoldsClaim, OneHandlerPerEvent, RequestShape, RefundsARow, LinkedRow,
           RefundExclusive, Refunding
<1> QED BY <1>7, <1>8, <1>9, <1>10, <1>11 DEF IInv, TypeOK

\* refundSubscription starts on a succeeded payment.
LEMMA refundSubscription_Inv ==
    ASSUME IInv, NEW r \in Reqs, NEW i \in Intents, refundSubscription(r, i) PROVE IInv'
<1>1. /\ RequestTypeOK' /\ rq'[r].pc = "lock" /\ rq'[r].kind \in {"refund"}
      /\ rq'[r].row = sub /\ rq'[r].i = i /\ \A q \in Reqs \ {r} : rq'[q] = rq[q]
  <2>1. Loaded(r, "lock", "refund", i)  BY DEF refundSubscription
  <2>2. "lock" \in RequestSteps /\ "refund" \in StepKinds  BY DEF RequestSteps, StepKinds
  <2>3. RequestTypeOK /\ RowTypeOK  BY DEF IInv, TypeOK
  <2> QED BY <2>1, <2>2, <2>3, LoadedRequest
<1>2. nreq' \in Nat  BY DEF IInv, TypeOK, ScalarTypeOK, Starts, refundSubscription
<1>3. pay[i].status # "none"  BY DEF Succeeded, refundSubscription
<1>4. UNCHANGED <<now, ss, intent, sent, nsent, acked, sub, pay, onboarding, claims, lock,
                  notice, wk, fails, outages>>
      BY DEF refundSubscription, stripeVars, dbVars, counters
<1>5. ScalarTypeOK'  BY <1>2, <1>4 DEF IInv, TypeOK, ScalarTypeOK
<1>6. RequestShape'  BY <1>1 DEF IInv, RequestShape, ChangeKinds
<1>7. RefundsARow'  BY <1>1, <1>3, <1>4 DEF IInv, RefundsARow
<1>8. LinkedRow'  BY <1>1, <1>4 DEF IInv, LinkedRow
<1>9. RefundExclusive'  BY <1>1, <1>4 DEF IInv, RefundExclusive, Refunding
<1>10. (/\ StripeTypeOK /\ EventTypeOK /\ RowTypeOK /\ PaymentTypeOK /\ WorkerTypeOK
        /\ EventShape /\ SessionShape /\ HoldsClaim /\ OneHandlerPerEvent)'
       BY <1>4
       DEF IInv, TypeOK, StripeTypeOK, EventTypeOK, RowTypeOK, PaymentTypeOK, WorkerTypeOK,
           EventShape, SessionShape, HoldsClaim, OneHandlerPerEvent
<1> QED BY <1>1, <1>5, <1>6, <1>7, <1>8, <1>9, <1>10 DEF IInv, TypeOK

\* The Redis lock expires.
LEMMA LockExpires_Inv ==
    ASSUME IInv, NEW i \in Intents, LockExpires(i) PROVE IInv'
<1>1. lock' \subseteq Intents  BY DEF IInv, TypeOK, PaymentTypeOK, LockExpires
<1>2. UNCHANGED <<now, ss, intent, sent, nsent, acked, sub, pay, onboarding, claims, notice,
                  wk, rq, nreq, fails, outages>>
      BY DEF LockExpires, stripeVars, dbVars, counters
<1>3. PaymentTypeOK'  BY <1>1, <1>2 DEF IInv, TypeOK, PaymentTypeOK
<1>4. (/\ StripeTypeOK /\ EventTypeOK /\ RowTypeOK /\ WorkerTypeOK /\ RequestTypeOK
       /\ ScalarTypeOK /\ EventShape /\ SessionShape /\ HoldsClaim /\ OneHandlerPerEvent
       /\ RequestShape /\ RefundsARow /\ LinkedRow /\ RefundExclusive)'
      BY <1>2
      DEF IInv, TypeOK, StripeTypeOK, EventTypeOK, RowTypeOK, WorkerTypeOK, RequestTypeOK,
          ScalarTypeOK, EventShape, SessionShape, HoldsClaim, OneHandlerPerEvent,
          RequestShape, RefundsARow, LinkedRow, RefundExclusive, Refunding
<1> QED BY <1>3, <1>4 DEF IInv, TypeOK

\* The process dies: nothing is in flight.
LEMMA Crash_Inv ==
    ASSUME IInv, Crash PROVE IInv'
<1>1. /\ IdleRequest \in Request /\ IdleRequest.pc = "idle" /\ IdleWorker \in Worker
      /\ IdleWorker.pc = "idle"
      BY DEF IdleRequest, IdleWorker, Request, Worker, RequestSteps, StepKinds, NoRow, Row,
             Plans, Cycles, Statuses, NoEvent, Event
<1>2. \A w \in Workers : wk'[w] = IdleWorker  BY DEF Crash
<1>3. \A r \in Reqs : rq'[r] = IdleRequest  BY DEF Crash
<1>4. wk' \in [Workers -> Worker] /\ rq' \in [Reqs -> Request] /\ outages' \in Nat
      BY <1>1 DEF Crash, IInv, TypeOK, ScalarTypeOK
<1>5. UNCHANGED <<now, ss, intent, sent, nsent, acked, sub, pay, onboarding, claims, lock,
                  notice, nreq, fails>>
      BY DEF Crash, stripeVars, dbVars, counters
<1>6. WorkerTypeOK'  BY <1>1, <1>2, <1>4 DEF WorkerTypeOK
<1>7. RequestTypeOK'  BY <1>1, <1>3, <1>4 DEF RequestTypeOK
<1>8. ScalarTypeOK'  BY <1>4, <1>5 DEF IInv, TypeOK, ScalarTypeOK
<1>9. HoldsClaim'  BY <1>1, <1>2, <1>4 DEF HoldsClaim
<1>10. OneHandlerPerEvent'  BY <1>1, <1>2, <1>4 DEF OneHandlerPerEvent
<1>11. RequestShape'  BY <1>1, <1>3 DEF RequestShape, ChangeKinds
<1>12. RefundsARow'  BY <1>1, <1>3, <1>4 DEF RefundsARow
<1>13. LinkedRow'  BY <1>1, <1>3, <1>5 DEF IInv, LinkedRow
<1>14. RefundExclusive'  BY <1>1, <1>3 DEF RefundExclusive, Refunding
<1>15. (/\ StripeTypeOK /\ EventTypeOK /\ RowTypeOK /\ PaymentTypeOK /\ EventShape
        /\ SessionShape)'
       BY <1>5
       DEF IInv, TypeOK, StripeTypeOK, EventTypeOK, RowTypeOK, PaymentTypeOK, EventShape,
           SessionShape
<1> QED BY <1>6, <1>7, <1>8, <1>9, <1>10, <1>11, <1>12, <1>13, <1>14, <1>15 DEF IInv, TypeOK

\* checkout.session.completed links the row, records the payment when the session names
\* one, and either goes on to its tail, is answered, or throws and releases the claim.
LEMMA handleCheckoutSessionCompleted_Inv ==
    ASSUME IInv, NEW w \in Workers, handleCheckoutSessionCompleted(w) PROVE IInv'
<1> DEFINE e == wk[w].ev
<1>1. UNCHANGED <<now, ss, intent, sent, nsent, lock, notice, rq, nreq, fails>>
      BY DEF handleCheckoutSessionCompleted, stripeVars, counters
<1>2. (StripeTypeOK /\ RequestTypeOK /\ EventShape /\ SessionShape /\ RequestShape)'
      BY <1>1 DEF IInv, TypeOK, StripeTypeOK, RequestTypeOK, EventShape, SessionShape,
                  RequestShape
<1>3. wk[w].pc # "idle"
      BY DEF handleCheckoutSessionCompleted, Handling
<1>4. CASE Release(w) /\ UNCHANGED dbVars
  <2>1. (RowTypeOK /\ PaymentTypeOK /\ ScalarTypeOK /\ RefundsARow /\ LinkedRow /\ RefundExclusive)'
        BY <1>1, <1>4 DEF IInv, TypeOK, dbVars, RowTypeOK, PaymentTypeOK, ScalarTypeOK,
                          RefundsARow, LinkedRow, RefundExclusive, Refunding, Release
  <2>2. (WorkerTypeOK /\ HoldsClaim /\ OneHandlerPerEvent /\ EventTypeOK)'
        BY <1>1, <1>3, <1>4, Released DEF IInv, TypeOK
  <2> QED BY <1>2, <2>1, <2>2 DEF IInv, TypeOK
<1>5. CASE /\ sub' = upsertSubscriptionFromCheckout(e.s, ss[e.s].meta, wk[w].end)
           /\ pay' = [i \in Intents |-> IF i = e.i THEN PaidUpsert(pay[i], now) ELSE pay[i]]
           /\ onboarding' = "complete" /\ Goto(w, "tail")
           /\ UNCHANGED <<claims, outages>>
  <2>1. e \in sent /\ e.type = "checkout"
        BY <1>3 DEF IInv, TypeOK, HoldsClaim, EventTypeOK, handleCheckoutSessionCompleted,
                    Handling
  <2>2. e.s \in Subs /\ ss[e.s].meta \in Cycles /\ ss[e.s].meta # "none" /\ wk[w].end \in Nat
        BY <2>1 DEF IInv, TypeOK, EventShape, SessionShape, StripeTypeOK, StripeSub,
                    WorkerTypeOK, Worker
  <2>3. sub' \in Row /\ sub'.plan = "pro" /\ sub'.stripeId \in Subs /\ sub'.cycle # "none"
    <3> DEFINE s == e.s  cycle == ss[e.s].meta  end == wk[w].end
    <3>1. s \in Subs /\ cycle \in Cycles /\ end \in Nat /\ cycle # "none"  BY <2>2
    <3>2. sub' = upsertSubscriptionFromCheckout(s, cycle, end)  BY <1>5
    <3> HIDE DEF s, cycle, end
    <3> QED BY <3>1, <3>2, CheckoutRow
  <2>4. \A i \in Intents : /\ PaidUpsert(pay[i], now) \in Payment
                           /\ pay[i].status # "none" => PaidUpsert(pay[i], now) = pay[i]
    <3>1. now \in Nat /\ \A i \in Intents : pay[i] \in Payment
          BY DEF IInv, TypeOK, PaymentTypeOK, ScalarTypeOK
    <3> TAKE i \in Intents
    <3> DEFINE p == pay[i]
    <3>2. p \in Payment /\ now \in Nat  BY <3>1
    <3> HIDE DEF p
    <3>3. /\ PaidUpsert(p, now) \in Payment
          /\ p.status # "none" => PaidUpsert(p, now) = p
          BY <3>2, PaymentWrites
    <3> QED BY <3>3 DEF p
  <2>5. /\ pay' \in [Intents -> Payment]
        /\ \A i \in Intents : pay[i].status # "none" => pay'[i] = pay[i]
        BY <1>5, <2>4 DEF IInv, TypeOK, PaymentTypeOK
  <2>6. (WorkerTypeOK /\ HoldsClaim /\ OneHandlerPerEvent)' /\ UNCHANGED acked
        BY <1>3, <1>5, Gone DEF IInv, TypeOK
  <2>7. (EventTypeOK /\ ScalarTypeOK)'
        BY <1>1, <1>5, <2>6 DEF IInv, TypeOK, EventTypeOK, ScalarTypeOK
  <2>8. (RowTypeOK /\ LinkedRow)'
        BY <1>1, <2>3 DEF IInv, RowTypeOK, LinkedRow
  <2>9. (PaymentTypeOK /\ RefundsARow /\ RefundExclusive)'
        BY <1>1, <2>5 DEF IInv, TypeOK, PaymentTypeOK, RequestShape, RefundsARow,
                          RefundExclusive, Refunding
  <2> QED BY <1>2, <2>6, <2>7, <2>8, <2>9 DEF IInv, TypeOK, RowTypeOK
<1> QED BY <1>4, <1>5 DEF handleCheckoutSessionCompleted

-----------------------------------------------------------------------------
(* The theorems *)

\* The invariant holds initially: nothing is in flight and nothing is recorded.
LEMMA Init_Inv == ASSUME Init PROVE IInv
<1>1. IdleRequest \in Request /\ IdleRequest.pc = "idle"
      BY DEF IdleRequest, Request, RequestSteps, StepKinds, NoRow, Row, Plans, Cycles,
             Statuses
<1>2. NoRow \in Row /\ NoRow.plan = "none" /\ NoRow.stripeId = NoSub
      BY DEF NoRow, Row, Plans, Cycles, Statuses
<1>3. NoStripeSub \in StripeSub /\ NoStripeSub.st = "none"
      BY DEF NoStripeSub, StripeSub, Cycles
<1>4. NoPayment \in Payment
      BY DEF NoPayment, Payment, PayStatus
<1>5. StripeTypeOK /\ SessionShape
      BY <1>3 DEF Init, StripeTypeOK, SessionShape, IntentStates
<1>6. EventTypeOK /\ EventShape /\ ScalarTypeOK
      BY DEF Init, EventTypeOK, EventShape, ScalarTypeOK
<1>7. WorkerTypeOK /\ HoldsClaim /\ OneHandlerPerEvent
      BY IdleDelivery DEF Init, WorkerTypeOK, HoldsClaim, OneHandlerPerEvent
<1>8. RequestTypeOK /\ RequestShape /\ RefundsARow /\ RefundExclusive
      BY <1>1 DEF Init, RequestTypeOK, RequestShape, RefundsARow, RefundExclusive, Refunding
<1>9. RowTypeOK /\ PaymentTypeOK /\ LinkedRow
      BY <1>1, <1>2, <1>4 DEF Init, RowTypeOK, PaymentTypeOK, LinkedRow
<1> QED BY <1>5, <1>6, <1>7, <1>8, <1>9 DEF IInv, TypeOK

\* Every step, of any actor, preserves the invariant.
LEMMA Next_Inv == ASSUME IInv, [Next]_vars PROVE IInv'
<1>1. CASE StripeStep
      BY <1>1, Tick_Inv, RetrySucceeds_Inv, Ends_Inv, RenewalFails_Inv, Renews_Inv, CheckoutPaid_Inv
      DEF StripeStep
<1>2. ASSUME NEW w \in Workers, HandlerStep(w) PROVE IInv'
      BY <1>2, handleCheckoutSessionCompleted_Inv, CheckoutTail_Inv,
         handleInvoicePaymentSucceeded_Inv,
         handleInvoicePaymentFailed_Inv, handleSubscriptionUpdated_Inv,
         handleSubscriptionDeleted_Inv,
         PublishPlanChanged_Inv, handleChargeRefunded_Inv
      DEF HandlerStep
<1>3. ASSUME NEW w \in Workers, DeliverStep(w) \/ HandlerThrows(w) PROVE IInv'
      BY <1>3, DeliverDuplicate_Inv, Claim_Inv, HandlerThrows_Inv DEF DeliverStep
<1>4. ASSUME NEW r \in Reqs, RequestStart(r) PROVE IInv'
      BY <1>4, ActivateFree_Inv, cancelSubscription_Inv, upgradeSubscription_Inv,
         downgradeSubscription_Inv, createProCheckoutSession_Inv, refundSubscription_Inv
      DEF RequestStart
<1>5. ASSUME NEW r \in Reqs, RequestStep(r) PROVE IInv'
      BY <1>5, ActivateFreeCommit_Inv, PlanChangeAtStripe_Inv, PlanChangeCommit_Inv,
         StripeRefuses_Inv, RequestFails_Inv,
         RefundLock_Inv, RefundFlip_Inv, RefundAtStripe_Inv, RefundCallFails_Inv, RefundRestore_Inv,
         RefundCape_Inv, RefundSchedule_Inv, RefundStepFails_Inv, RefundUnlock_Inv
      DEF RequestStep
<1>6. CASE UNCHANGED vars
      BY <1>6 DEF IInv, TypeOK, StripeTypeOK, EventTypeOK, RowTypeOK, PaymentTypeOK,
                  WorkerTypeOK, RequestTypeOK, ScalarTypeOK, EventShape, SessionShape,
                  HoldsClaim, OneHandlerPerEvent, RequestShape, RefundsARow, LinkedRow,
                  RefundExclusive, Refunding, vars, stripeVars, dbVars, counters
<1> QED BY <1>1, <1>2, <1>3, <1>4, <1>5, <1>6, LockExpires_Inv, Crash_Inv DEF Next

\* The inductive invariant, for every number of deliveries, requests, subscriptions and
\* PaymentIntents, every order of delivery and every number of failures and crashes.
THEOREM Invariance == Spec => []IInv
<1>1. Init => IInv  BY Init_Inv
<1>2. IInv /\ [Next]_vars => IInv'  BY Next_Inv
<1> QED BY <1>1, <1>2, PTL DEF Spec

\* Type correctness of the rows, events, Stripe objects, deliveries and requests.
THEOREM TypeCorrect == Spec => []TypeOK
<1>1. IInv => TypeOK  BY DEF IInv
<1> QED BY <1>1, Invariance, PTL

\* processWebhookEvent: the SET NX claim keeps two deliveries of an event from running its
\* handler at once, although a failing delivery deletes its claim.
THEOREM OneHandler == Spec => []OneHandlerPerEvent
<1>1. IInv => OneHandlerPerEvent  BY DEF IInv
<1> QED BY <1>1, Invariance, PTL

\* subscriptions.service.ts: stripeSubscriptionId! and billingCycle! are never null where
\* they are asserted, whatever webhooks and requests interleave.
THEOREM RowIsLinked == Spec => []LinkedRow
<1>1. IInv => LinkedRow  BY DEF IInv
<1> QED BY <1>1, Invariance, PTL

\* refundSubscription: the refundAvailable compare-and-set lets one request at a time reach
\* Stripe with a payment, without any help of the Redis lock.
THEOREM OneRefund == Spec => []RefundExclusive
<1>1. IInv => RefundExclusive  BY DEF IInv
<1> QED BY <1>1, Invariance, PTL

\* No step takes a payment out of the refunded status.
LEMMA Next_KeepsRefunded ==
    ASSUME IInv, [Next]_vars, NEW i \in Intents, pay[i].status = "refunded"
    PROVE  pay'[i].status = "refunded"
<1>1. pay \in [Intents -> Payment] /\ now \in Nat
      BY DEF IInv, TypeOK, PaymentTypeOK, ScalarTypeOK
<1>2. /\ PaidUpsert(pay[i], now) = pay[i] /\ FailedUpsert(pay[i], now) = pay[i]
      /\ RefundedUpdate(pay[i]).status = "refunded"
      /\ SetRefundAvailable(pay[i], TRUE).status = "refunded"
      /\ SetRefundAvailable(pay[i], FALSE).status = "refunded"
      BY <1>1, PaymentWrites, ZenonT(60)
<1>3. CASE UNCHANGED pay
      BY <1>3
<1>4. CASE StripeStep \/ Crash \/ \E j \in Intents : LockExpires(j)
      BY <1>3, <1>4 DEF StripeStep, Tick, RetrySucceeds, Ends, RenewalFails, Renews,
                        CheckoutPaid, Crash, LockExpires, dbVars
<1>5. ASSUME NEW w \in Workers, HandlerStep(w) PROVE pay'[i].status = "refunded"
  <2>1. CASE handleCheckoutSessionCompleted(w)
        BY <1>2, <1>3, <2>1 DEF handleCheckoutSessionCompleted, dbVars
  <2>2. CASE handleInvoicePaymentSucceeded(w)
        BY <1>1, <1>2, <2>2 DEF handleInvoicePaymentSucceeded
  <2>3. CASE handleInvoicePaymentFailed(w)
        BY <1>1, <1>2, <2>3 DEF handleInvoicePaymentFailed
  <2>4. CASE handleChargeRefunded(w)
        BY <1>1, <1>2, <2>4 DEF handleChargeRefunded
  <2>5. CASE CheckoutTail(w) \/ handleSubscriptionUpdated(w) \/ handleSubscriptionDeleted(w)
             \/ PublishPlanChanged(w)
        BY <1>3, <2>5 DEF CheckoutTail, handleSubscriptionUpdated, handleSubscriptionDeleted,
                          PublishPlanChanged, dbVars
  <2> QED BY <1>5, <2>1, <2>2, <2>3, <2>4, <2>5 DEF HandlerStep
<1>6. ASSUME NEW w \in Workers, DeliverStep(w) \/ HandlerThrows(w) PROVE pay'[i].status = "refunded"
      BY <1>3, <1>6 DEF DeliverStep, DeliverDuplicate, Claim, HandlerThrows, dbVars
<1>7. ASSUME NEW r \in Reqs, RequestStart(r) PROVE pay'[i].status = "refunded"
      BY <1>3, <1>7 DEF RequestStart, ActivateFree, cancelSubscription, upgradeSubscription,
                        downgradeSubscription, createProCheckoutSession, refundSubscription,
                        dbVars
<1>8. ASSUME NEW r \in Reqs, RequestStep(r) PROVE pay'[i].status = "refunded"
  <2>1. CASE RefundFlip(r)
        BY <1>1, <1>2, <2>1 DEF RefundFlip
  <2>2. CASE RefundRestore(r)
        BY <1>1, <1>2, <1>3, <2>2 DEF RefundRestore
  <2>3. CASE \/ ActivateFreeCommit(r) \/ PlanChangeAtStripe(r) \/ PlanChangeCommit(r)
             \/ StripeRefuses(r) \/ RequestFails(r)
        BY <1>3, <2>3 DEF ActivateFreeCommit, PlanChangeAtStripe, PlanChangeCommit,
                          StripeRefuses, RequestFails, dbVars
  <2>4. CASE \/ RefundLock(r) \/ RefundAtStripe(r) \/ RefundCallFails(r) \/ RefundCape(r)
             \/ RefundSchedule(r) \/ RefundStepFails(r) \/ RefundUnlock(r)
        BY <1>3, <2>4 DEF RefundLock, RefundAtStripe, RefundCallFails, RefundCape,
                          RefundSchedule, RefundStepFails, RefundUnlock, dbVars
  <2> QED BY <1>8, <2>1, <2>2, <2>3, <2>4 DEF RequestStep
<1>9. CASE UNCHANGED vars
      BY <1>3, <1>9 DEF vars, dbVars
<1> QED BY <1>4, <1>5, <1>6, <1>7, <1>8, <1>9 DEF Next

\* charge.refunded is final: late or repeated invoice events and the flag restored after a
\* lost Stripe answer leave the status alone.
THEOREM RefundIsFinal == Spec => RefundedIsFinal
<1>1. IInv /\ [Next]_vars
        => [\A i \in Intents : pay[i].status = "refunded" => pay'[i].status = "refunded"]_vars
      BY Next_KeepsRefunded
<1> QED BY <1>1, Invariance, PTL DEF Spec, RefundedIsFinal
-----------------------------------------------------------------------------
(* The row follows Stripe. What a step does to the events, the deliveries and the row, as far
   as the properties Converged and ProEndsOnlyWithStripe can tell. *)

Busy(w)  == wk[w].pc # "idle"
Begun(s) == ss[s].st \in {"live", "gone"}

StripeKept == UNCHANGED <<ss, sent, nsent>>
WorkKept   == UNCHANGED <<acked, claims, wk>>
RowKept    == /\ sub'.stripeId = sub.stripeId
              /\ sub.stripeId # NoSub => sub'.status = sub.status /\ sub'.end = sub.end
RequestKept(r) == \/ rq'[r] = rq[r]
                  \/ /\ rq'[r].pc # "write"
                     /\ rq'[r].row.stripeId \in {rq[r].row.stripeId, sub.stripeId, NoSub}
RequestsKept == \A r \in Reqs : RequestKept(r)

\* Nothing of it changes.
Still == StripeKept /\ WorkKept /\ RowKept /\ RequestsKept

\* A Checkout Session is opened.
Opens(s) == /\ UNCHANGED <<sent, nsent, sub, rq>> /\ WorkKept
            /\ s \in Subs /\ ss[s].st = "none" /\ ss'[s].st = "session"
            /\ \A t \in Subs \ {s} : ss'[t] = ss[t]

\* Stripe creates the events evs, about s; of refunds; or as s starts, goes on, or ends.
Posts(evs) ==
    /\ sent' = sent \cup evs /\ nsent' \in Nat /\ nsent <= nsent'
    /\ \A e \in evs : e \in Event /\ nsent < e.id /\ e.id <= nsent'
    /\ \A e, f \in evs : e.id = f.id => e = f
    /\ sub' = sub /\ WorkKept
Refunds(evs) == Posts(evs) /\ ss' = ss /\ RequestsKept /\ \A e \in evs : e.type = "refunded"
Moves(s, evs) == /\ Posts(evs) /\ s \in Subs
                 /\ \A t \in Subs \ {s} : ss'[t] = ss[t]
                 /\ \A e \in evs : e.s = s
Unpinned == QuickRequests => NoWritePending
Begins(s, evs) ==
    /\ Moves(s, evs) /\ rq' = rq
    /\ ss[s].st = "session" /\ ss'[s].st = "live" /\ ss'[s].end # 0
    /\ \E c \in evs : /\ c.type = "checkout"
                      /\ \A e \in evs \ {c} : e.type = "paid" /\ c.id < e.id
Calls(r, s) == /\ rq[r].row.stripeId = s /\ rq'[r].pc = "write"
               /\ rq'[r].row = rq[r].row /\ rq'[r].end = ss[s].end
               /\ \A q \in Reqs \ {r} : rq'[q] = rq[q]
Goes(s, evs) ==
    /\ Moves(s, evs) /\ ss[s].st = "live" /\ ss'[s].st = "live"
    /\ \A e \in evs : /\ e.type \in {"updated", "paid", "failed"}
                      /\ e.type = "updated" => e.end = ss'[s].end
    /\ \/ ss'[s].end = ss[s].end /\ (RequestsKept \/ \E r \in Reqs : Calls(r, s))
       \/ rq' = rq /\ Unpinned /\ ss'[s].end # 0 /\ \E f \in evs : f.type = "updated"
Closes(s, evs) == /\ Moves(s, evs) /\ rq' = rq /\ Unpinned
                  /\ ss[s].st = "live" /\ ss'[s].st = "gone"
                  /\ \E d : evs = {d} /\ d.type = "deleted"

\* A plan change writes the row.
Changes(r) == /\ StripeKept /\ WorkKept /\ RequestsKept /\ rq[r].pc = "write"
              /\ sub'.stripeId = sub.stripeId
              /\ sub'.status \in {sub.status, "active", "cancelled"}
              /\ sub'.end \in {sub.end, rq[r].end}

\* A delivery throws; is answered and writes nothing; writes the row.
Turns(w, pc, type) == StripeKept /\ rq' = rq /\ Handling(w, pc, type)
Throws(w)  == StripeKept /\ rq' = rq /\ sub' = sub /\ Busy(w) /\ Release(w)
Answers(w) == /\ StripeKept /\ rq' = rq /\ sub' = sub /\ Ack(w) /\ claims' = claims
              /\ \/ wk[w].pc \in {"tail", "publish"}
                 \/ Handling(w, "write", "failed") \/ Handling(w, "write", "refunded")
Bills(w)   == /\ Turns(w, "write", "paid") /\ Ack(w) /\ claims' = claims
              /\ sub' = [sub EXCEPT !.end = wk[w].ev.end]
Links(w)   == /\ Turns(w, "write", "checkout") /\ Goto(w, "tail") /\ claims' = claims
              /\ sub'.stripeId = wk[w].ev.s /\ sub'.status = "active" /\ sub'.end = wk[w].end
Updates(w) == /\ Turns(w, "write", "updated") /\ Goto(w, "publish") /\ claims' = claims
              /\ sub'.stripeId = sub.stripeId
              /\ sub'.status \in {sub.status, "active", "cancelled"}
              /\ sub'.end = IF wk[w].ev.end # 0 THEN wk[w].ev.end ELSE sub.end
Deletes(w) == /\ Turns(w, "write", "deleted") /\ Goto(w, "publish") /\ claims' = claims
              /\ \/ sub'.stripeId = NoSub
                 \/ sub'.stripeId = sub.stripeId /\ sub'.status = "expired"

\* What Stripe, a delivery or a request can do.
StripeMoves == \/ \E s \in Subs : Opens(s)
               \/ \E evs : Refunds(evs)
               \/ \E s \in Subs : \E evs : Begins(s, evs) \/ Goes(s, evs) \/ Closes(s, evs)
Handles(w)  == \/ Throws(w) \/ Answers(w) \/ Bills(w) \/ Links(w) \/ Updates(w) \/ Deletes(w)

-----------------------------------------------------------------------------

\* The events of a paid invoice are numbered one after the other.
LEMMA PaidNumbers ==
    ASSUME ScalarTypeOK, NEW k \in Nat, k > 0, NEW s \in Subs, NEW i \in Intents \cup {NoIntent}, NEW end \in Nat
    PROVE  /\ \A e \in PaidEvs(k, s, i, end) :
                  /\ e \in Event /\ e.type = "paid" /\ e.s = s /\ e.end = end
                  /\ nsent + k <= e.id /\ e.id <= nsent + k + PaidEvents - 1
           /\ \A e, f \in PaidEvs(k, s, i, end) : e.id = f.id => e = f
<1>1. ASSUME NEW j \in 0..(PaidEvents - 1)
      PROVE  LET e == Ev(k + j, "paid", s, i, FALSE, end) IN
             e \in Event /\ e.type = "paid" /\ e.s = s /\ e.end = end /\ e.id = nsent + (k + j)
    <2>1. nsent + (k + j) \in Nat  BY DEF ScalarTypeOK
    <2> QED BY <2>1 DEF Ev, Event, EventTypes
<1>2. PaidEvents \in Nat /\ nsent \in Nat  BY DEF ScalarTypeOK
<1>3. ASSUME NEW e \in PaidEvs(k, s, i, end)
      PROVE  \E j \in 0..(PaidEvents - 1) : e = Ev(k + j, "paid", s, i, FALSE, end) /\ e.id = nsent + (k + j)
    BY <1>1, <1>3 DEF PaidEvs
<1>4. ASSUME NEW e \in PaidEvs(k, s, i, end)
      PROVE  /\ e \in Event /\ e.type = "paid" /\ e.s = s /\ e.end = end
             /\ nsent + k <= e.id /\ e.id <= nsent + k + PaidEvents - 1
    <2>1. PICK j \in 0..(PaidEvents - 1) : e = Ev(k + j, "paid", s, i, FALSE, end) /\ e.id = nsent + (k + j)
        BY <1>3
    <2>2. e \in Event /\ e.type = "paid" /\ e.s = s /\ e.end = end  BY <1>1, <2>1
    <2>3. e.id = nsent + (k + j)  BY <2>1
    <2>4. nsent + k <= e.id /\ e.id <= nsent + k + PaidEvents - 1  BY <1>2, <2>3
    <2> QED BY <2>2, <2>4
<1>5. ASSUME NEW e \in PaidEvs(k, s, i, end), NEW f \in PaidEvs(k, s, i, end), e.id = f.id PROVE e = f
    <2>1. PICK j \in 0..(PaidEvents - 1) : e = Ev(k + j, "paid", s, i, FALSE, end) /\ e.id = nsent + (k + j)
        BY <1>3
    <2>2. PICK m \in 0..(PaidEvents - 1) : f = Ev(k + m, "paid", s, i, FALSE, end) /\ f.id = nsent + (k + m)
        BY <1>3
    <2>3. e.id = nsent + (k + j) /\ f.id = nsent + (k + m)  BY <2>1, <2>2
    <2>4. j = m
        <3>1. j \in Nat /\ m \in Nat /\ nsent \in Nat  BY <1>2
        <3>2. nsent + (k + j) = nsent + (k + m)  BY <1>5, <2>3
        <3> QED BY <3>1, <3>2
    <2> QED BY <2>1, <2>2, <2>4
<1> QED BY <1>4, <1>5

\* A single event has the next number.
LEMMA OneNumber ==
    ASSUME ScalarTypeOK, NEW type \in EventTypes, NEW s \in Subs \cup {NoSub}, NEW i \in Intents \cup {NoIntent},
           NEW cape \in BOOLEAN, NEW end \in Nat, NEW k \in {1, 2}
    PROVE  LET e == Ev(k, type, s, i, cape, end) IN
           e \in Event /\ e.type = type /\ e.s = s /\ e.end = end /\ e.id = nsent + k
<1>1. nsent + k \in Nat  BY DEF ScalarTypeOK
<1> QED BY <1>1 DEF Ev, Event

\* stripe.subscriptions.update lets a live subscription go on with its end.
LEMMA StripeUpdateIs ==
    ASSUME StripeTypeOK, ScalarTypeOK, NEW s \in Subs, NEW x \in StripeSub, x.st = ss[s].st, x.end = ss[s].end,
           StripeUpdate(s, x), sub' = sub, WorkKept, RequestsKept \/ \E r \in Reqs : Calls(r, s)
    PROVE  \E evs : Goes(s, evs)
<1> DEFINE e == Ev(1, "updated", s, NoIntent, x.cape, x.end)
<1>1. e \in Event /\ e.type = "updated" /\ e.s = s /\ e.end = x.end /\ e.id = nsent + 1
    <2>1. x.cape \in BOOLEAN /\ x.end \in Nat  BY DEF StripeSub
    <2>2. "updated" \in EventTypes /\ s \in Subs \cup {NoSub} /\ NoIntent \in Intents \cup {NoIntent} /\ 1 \in {1, 2}
        BY DEF EventTypes
    <2> QED BY <2>1, <2>2, OneNumber
<1>2. ss[s].st = "live" /\ ss' = [ss EXCEPT ![s] = x] /\ sent' = sent \cup {e} /\ nsent' = nsent + 1
    BY DEF StripeUpdate, Emit
<1> HIDE DEF e
<1>3. nsent \in Nat  BY DEF ScalarTypeOK
<1>4. Posts({e})  BY <1>1, <1>2, <1>3 DEF Posts
<1>5. ss'[s] = x /\ \A t \in Subs \ {s} : ss'[t] = ss[t]  BY <1>2 DEF StripeTypeOK
<1>6. Moves(s, {e})  BY <1>1, <1>4, <1>5 DEF Moves
<1> QED BY <1>1, <1>2, <1>5, <1>6 DEF Goes

\* A request that starts, moves on elsewhere than to its write, or ends.
LEMMA KeepsRequests ==
    ASSUME RequestTypeOK, RowTypeOK, NEW r \in Reqs,
           \/ Finish(r)
           \/ \E pc \in RequestSteps \ {"write"} : Advance(r, pc)
           \/ \E pc \in RequestSteps \ {"write"}, kind \in StepKinds, i \in Intents \cup {NoIntent} : Loaded(r, pc, kind, i)
    PROVE  RequestsKept
<1>1. CASE Finish(r)
    <2>1. rq'[r] = IdleRequest /\ \A q \in Reqs \ {r} : rq'[q] = rq[q]  BY <1>1 DEF Finish, RequestTypeOK
    <2>2. IdleRequest.pc = "idle" /\ IdleRequest.row.stripeId = NoSub  BY DEF IdleRequest, NoRow
    <2> QED BY <2>1, <2>2 DEF RequestsKept, RequestKept
<1>2. ASSUME NEW pc \in RequestSteps \ {"write"}, Advance(r, pc) PROVE RequestsKept
    <2>1. rq'[r].pc = pc /\ rq'[r].row = rq[r].row /\ \A q \in Reqs \ {r} : rq'[q] = rq[q]
        BY <1>2, Advanced
    <2> QED BY <2>1 DEF RequestsKept, RequestKept
<1>3. ASSUME NEW pc \in RequestSteps \ {"write"}, NEW kind \in StepKinds, NEW i \in Intents \cup {NoIntent},
             Loaded(r, pc, kind, i)
      PROVE  RequestsKept
    <2>1. rq'[r].pc = pc /\ rq'[r].row = sub /\ \A q \in Reqs \ {r} : rq'[q] = rq[q]
        BY <1>3, LoadedRequest
    <2> QED BY <2>1 DEF RequestsKept, RequestKept
<1> QED BY <1>1, <1>2, <1>3

\* The steps of Stripe.
LEMMA StripeStepIs ==
    ASSUME IInv, StripeStep
    PROVE  Still \/ StripeMoves
<1>0. StripeTypeOK /\ ScalarTypeOK /\ nsent \in Nat /\ now \in Nat  BY DEF IInv, TypeOK, ScalarTypeOK
<1>7. nsent + 1 \in Nat /\ nsent + 2 \in Nat  BY <1>0
<1>1. CASE Tick
    BY <1>1 DEF Tick, Still, StripeKept, WorkKept, RowKept, RequestsKept, RequestKept, dbVars
<1>2. ASSUME NEW s \in Subs, RetrySucceeds(s) PROVE StripeMoves
    <2> DEFINE i == ss[s].open  start == ss[s].start  evs == PaidEvs(1, s, i, start)
    <2>1. i \in Intents \cup {NoIntent} /\ start \in Nat  BY <1>0 DEF StripeTypeOK, StripeSub
    <2>2. /\ \A e \in evs : /\ e \in Event /\ e.type = "paid" /\ e.s = s
                            /\ nsent + 1 <= e.id /\ e.id <= nsent + 1 + PaidEvents - 1
          /\ \A e, f \in evs : e.id = f.id => e = f
        <3> HIDE DEF start
        <3> QED BY <1>0, <2>1, PaidNumbers
    <2>3. /\ ss[s].st = "live" /\ ss' = [ss EXCEPT ![s].open = NoIntent] /\ sent' = sent \cup evs
          /\ nsent' = nsent + PaidEvents /\ sub' = sub /\ WorkKept /\ rq' = rq
        BY <1>2 DEF RetrySucceeds, Emit, dbVars, WorkKept
    <2> HIDE DEF evs
    <2>4. Posts(evs)  BY <1>0, <2>2, <2>3 DEF Posts, Event
    <2>5. ss'[s].st = "live" /\ ss'[s].end = ss[s].end /\ \A t \in Subs \ {s} : ss'[t] = ss[t]
        BY <1>0, <2>3 DEF StripeTypeOK, StripeSub
    <2>6. Goes(s, evs)  BY <2>2, <2>3, <2>4, <2>5 DEF Goes, Moves, RequestsKept, RequestKept
    <2> QED BY <2>6 DEF StripeMoves
<1>3. ASSUME NEW s \in Subs, Ends(s) PROVE StripeMoves
    <2> DEFINE d == Ev(1, "deleted", s, NoIntent, FALSE, 0)
    <2>1. d \in Event /\ d.type = "deleted" /\ d.s = s /\ d.id = nsent + 1
        BY <1>0, <1>7 DEF Ev, Event, EventTypes
    <2>2. /\ ss[s].st = "live" /\ ss' = [ss EXCEPT ![s].st = "gone"] /\ sent' = sent \cup {d}
          /\ nsent' = nsent + 1 /\ sub' = sub /\ WorkKept /\ rq' = rq /\ Unpinned
        BY <1>3 DEF Ends, PeriodTurns, PeriodOver, Emit, dbVars, WorkKept, Unpinned
    <2> HIDE DEF d
    <2>3. Posts({d})  BY <1>0, <2>1, <2>2 DEF Posts
    <2>4. ss'[s].st = "gone" /\ \A t \in Subs \ {s} : ss'[t] = ss[t]
        BY <1>0, <2>2 DEF StripeTypeOK, StripeSub
    <2>5. Closes(s, {d})  BY <2>1, <2>2, <2>3, <2>4 DEF Closes, Moves
    <2> QED BY <2>5 DEF StripeMoves
<1>4. ASSUME NEW s \in Subs, NEW i \in Intents, RenewalFails(s, i) PROVE StripeMoves
    <2> DEFINE e == Ev(1, "updated", s, NoIntent, FALSE, ss[s].end + 1)
               f == Ev(2, "failed", s, i, FALSE, 0)
    <2>1. ss[s].end + 1 \in Nat /\ ss[s].end + 1 # 0  BY <1>0 DEF StripeTypeOK, StripeSub
    <2>2. e \in Event /\ e.type = "updated" /\ e.s = s /\ e.id = nsent + 1 /\ e.end = ss[s].end + 1
        BY <1>0, <2>1, <1>7 DEF Ev, Event, EventTypes
    <2>3. f \in Event /\ f.type = "failed" /\ f.s = s /\ f.id = nsent + 2
        BY <1>0, <1>7 DEF Ev, Event, EventTypes
    <2>4. /\ ss[s].st = "live" /\ ss' = [ss EXCEPT ![s] = Renewed(@, i)] /\ sent' = sent \cup {e, f}
          /\ nsent' = nsent + 2 /\ sub' = sub /\ WorkKept /\ rq' = rq /\ Unpinned
        BY <1>4 DEF RenewalFails, PeriodTurns, PeriodOver, Emit, dbVars, WorkKept, Unpinned
    <2> HIDE DEF e, f
    <2>5. Posts({e, f})  BY <1>0, <2>2, <2>3, <2>4 DEF Posts
    <2>6. ss'[s].st = "live" /\ ss'[s].end = ss[s].end + 1 /\ \A t \in Subs \ {s} : ss'[t] = ss[t]
        BY <1>0, <2>4 DEF StripeTypeOK, StripeSub, Renewed
    <2>7. Goes(s, {e, f})  BY <2>1, <2>2, <2>3, <2>4, <2>5, <2>6 DEF Goes, Moves
    <2> QED BY <2>7 DEF StripeMoves
<1>5. ASSUME NEW s \in Subs, NEW i \in Intents \cup {NoIntent}, Renews(s, i) PROVE StripeMoves
    <2> DEFINE e == Ev(1, "updated", s, NoIntent, FALSE, ss[s].end + 1)
               evs == PaidEvs(2, s, i, ss[s].end)
    <2>1. ss[s].end + 1 \in Nat /\ ss[s].end + 1 # 0  BY <1>0 DEF StripeTypeOK, StripeSub
    <2>2. e \in Event /\ e.type = "updated" /\ e.s = s /\ e.id = nsent + 1 /\ e.end = ss[s].end + 1
        BY <1>0, <2>1, <1>7 DEF Ev, Event, EventTypes
    <2>3. /\ \A f \in evs : /\ f \in Event /\ f.type = "paid" /\ f.s = s
                            /\ nsent + 2 <= f.id /\ f.id <= nsent + 2 + PaidEvents - 1
          /\ \A f, g \in evs : f.id = g.id => f = g
        <3> DEFINE end == ss[s].end
        <3>1. end \in Nat  BY <1>0 DEF StripeTypeOK, StripeSub
        <3> HIDE DEF end
        <3>2. /\ \A f \in PaidEvs(2, s, i, end) :
                    /\ f \in Event /\ f.type = "paid" /\ f.s = s /\ f.end = end
                    /\ nsent + 2 <= f.id /\ f.id <= nsent + 2 + PaidEvents - 1
              /\ \A f, g \in PaidEvs(2, s, i, end) : f.id = g.id => f = g
            BY <1>0, <3>1, PaidNumbers
        <3> QED BY <3>2 DEF end
    <2>4. /\ ss[s].st = "live" /\ ss' = [ss EXCEPT ![s] = Renewed(@, NoIntent)] /\ sent' = sent \cup ({e} \cup evs)
          /\ nsent' = nsent + (1 + PaidEvents) /\ sub' = sub /\ WorkKept /\ rq' = rq /\ Unpinned
        BY <1>5 DEF Renews, PeriodTurns, PeriodOver, Emit, dbVars, WorkKept, Unpinned
    <2> HIDE DEF e, evs
    <2>5. \A f \in {e} \cup evs : f \in Event /\ nsent < f.id /\ f.id <= nsent'
        BY <1>0, <2>2, <2>3, <2>4 DEF Event
    <2>6. \A f, g \in {e} \cup evs : f.id = g.id => f = g
        BY <1>0, <2>2, <2>3 DEF Event
    <2>7. Posts({e} \cup evs)  BY <1>0, <2>4, <2>5, <2>6 DEF Posts
    <2>8. ss'[s].st = "live" /\ ss'[s].end = ss[s].end + 1 /\ \A t \in Subs \ {s} : ss'[t] = ss[t]
        BY <1>0, <2>4 DEF StripeTypeOK, StripeSub, Renewed
    <2>9. Goes(s, {e} \cup evs)  BY <2>1, <2>2, <2>3, <2>4, <2>7, <2>8 DEF Goes, Moves
    <2> QED BY <2>9 DEF StripeMoves
<1>6. ASSUME NEW s \in Subs, NEW i \in Intents, NEW named \in SessionIntent, CheckoutPaid(s, i, named) PROVE StripeMoves
    <2> DEFINE j == IF named THEN i ELSE NoIntent
               c == Ev(1, "checkout", s, j, FALSE, 0)
               evs == PaidEvs(2, s, i, now)
    <2>0. j \in Intents \cup {NoIntent}  OBVIOUS
    <2>1. now + 1 \in Nat /\ now + 1 # 0  BY <1>0
    <2> HIDE DEF j
    <2>2. c \in Event /\ c.type = "checkout" /\ c.s = s /\ c.id = nsent + 1
        BY <1>0, <2>0, <1>7 DEF Ev, Event, EventTypes
    <2>3. /\ \A f \in evs : /\ f \in Event /\ f.type = "paid" /\ f.s = s
                            /\ nsent + 2 <= f.id /\ f.id <= nsent + 2 + PaidEvents - 1
          /\ \A f, g \in evs : f.id = g.id => f = g
        <3>1. 2 \in Nat /\ 2 > 0 /\ i \in Intents \cup {NoIntent} /\ now \in Nat  BY <1>0
        <3>2. \A f \in PaidEvs(2, s, i, now) :
                  /\ f \in Event /\ f.type = "paid" /\ f.s = s
                  /\ nsent + 2 <= f.id /\ f.id <= nsent + 2 + PaidEvents - 1
            BY <1>0, <3>1, PaidNumbers
        <3>3. \A f, g \in PaidEvs(2, s, i, now) : f.id = g.id => f = g
            BY <1>0, <3>1, PaidNumbers
        <3> QED BY <3>2, <3>3
    <2>4. /\ ss[s].st = "session" /\ ss' = [ss EXCEPT ![s] = [@ EXCEPT !.st = "live", !.start = now, !.end = now + 1]]
          /\ sent' = sent \cup ({c} \cup evs)
          /\ nsent' = nsent + (1 + PaidEvents) /\ sub' = sub /\ WorkKept /\ rq' = rq
        BY <1>6 DEF CheckoutPaid, Emit, dbVars, WorkKept, j
    <2> HIDE DEF c, evs
    <2>5. \A f \in {c} \cup evs : f \in Event /\ nsent < f.id /\ f.id <= nsent'
        BY <1>0, <2>2, <2>3, <2>4 DEF Event
    <2>6. \A f, g \in {c} \cup evs : f.id = g.id => f = g
        BY <1>0, <2>2, <2>3 DEF Event
    <2>7. Posts({c} \cup evs)  BY <1>0, <2>4, <2>5, <2>6 DEF Posts
    <2>8. ss'[s].st = "live" /\ ss'[s].end = now + 1 /\ \A t \in Subs \ {s} : ss'[t] = ss[t]
        BY <1>0, <2>4 DEF StripeTypeOK, StripeSub
    <2>9. \A f \in ({c} \cup evs) \ {c} : f.type = "paid" /\ c.id < f.id
        BY <1>0, <2>2, <2>3, <2>8 DEF Event
    <2>10. Begins(s, {c} \cup evs)  BY <2>1, <2>2, <2>3, <2>4, <2>7, <2>8, <2>9 DEF Begins, Moves
    <2> QED BY <2>10 DEF StripeMoves
<1> QED BY <1>1, <1>2, <1>3, <1>4, <1>5, <1>6 DEF StripeStep

\* The steps of a delivery that has claimed its event.
LEMMA HandlerStepIs ==
    ASSUME IInv, NEW w \in Workers, HandlerStep(w) \/ HandlerThrows(w)
    PROVE  Handles(w)
<1>0. wk[w] \in Worker /\ sub \in Row  BY DEF IInv, TypeOK, WorkerTypeOK, RowTypeOK
<1>1. CASE HandlerThrows(w)
    BY <1>1 DEF HandlerThrows, Handles, Throws, Busy, StripeKept, stripeVars, dbVars
<1>2. CASE handleCheckoutSessionCompleted(w)
    <2> DEFINE e == wk[w].ev
    <2>1. StripeKept /\ rq' = rq /\ Handling(w, "write", "checkout")
        BY <1>2 DEF handleCheckoutSessionCompleted, StripeKept, stripeVars
    <2>2. CASE Release(w) /\ UNCHANGED dbVars
        BY <2>1, <2>2 DEF Handles, Throws, Busy, dbVars, Handling
    <2>3. CASE /\ sub' = upsertSubscriptionFromCheckout(e.s, ss[e.s].meta, wk[w].end)
               /\ Goto(w, "tail") /\ UNCHANGED claims
        <3>1. sub'.stripeId = e.s /\ sub'.status = "active" /\ sub'.end = wk[w].end
            BY <2>3 DEF upsertSubscriptionFromCheckout
        <3> QED BY <2>1, <2>3, <3>1 DEF Handles, Links, Turns
    <2> QED BY <1>2, <2>2, <2>3 DEF handleCheckoutSessionCompleted
<1>3. CASE CheckoutTail(w) \/ PublishPlanChanged(w) \/ handleInvoicePaymentFailed(w) \/ handleChargeRefunded(w)
    BY <1>3 DEF CheckoutTail, PublishPlanChanged, handleInvoicePaymentFailed, handleChargeRefunded, Handling,
                Handles, Answers, StripeKept, stripeVars, dbVars
<1>4. CASE handleInvoicePaymentSucceeded(w)
    BY <1>4 DEF handleInvoicePaymentSucceeded, Handles, Bills, Turns, StripeKept, stripeVars
<1>5. CASE handleSubscriptionUpdated(w)
    <2> DEFINE e == wk[w].ev  read == wk[w].row
               status == IF e.cape /\ read.status = "active" THEN "cancelled"
                         ELSE IF ~e.cape /\ read.status = "cancelled" THEN "active" ELSE sub.status
               end == IF e.end # 0 THEN e.end ELSE sub.end
    <2>1. StripeKept /\ rq' = rq /\ Handling(w, "write", "updated") /\ Goto(w, "publish") /\ claims' = claims
        BY <1>5 DEF handleSubscriptionUpdated, StripeKept, stripeVars
    <2>2. sub' = [sub EXCEPT !.end = end, !.status = status]
        BY <1>5 DEF handleSubscriptionUpdated, WriteRow, SubscriptionUpdatedWrite
    <2>3. status \in {sub.status, "active", "cancelled"}  OBVIOUS
    <2> HIDE DEF status, end
    <2>4. sub'.stripeId = sub.stripeId /\ sub'.status = status /\ sub'.end = end
        BY <1>0, <2>2 DEF Row
    <2> QED BY <2>1, <2>3, <2>4 DEF Handles, Updates, Turns, end
<1>6. CASE handleSubscriptionDeleted(w)
    <2> DEFINE read == wk[w].row
    <2>1. StripeKept /\ rq' = rq /\ Handling(w, "write", "deleted") /\ Goto(w, "publish") /\ claims' = claims
        BY <1>6 DEF handleSubscriptionDeleted, StripeKept, stripeVars
    <2>2. sub' = SubscriptionDeletedWrite(read, sub)  BY <1>6 DEF handleSubscriptionDeleted, WriteRow
    <2>3. CASE read.schedPlan = "free"
        <3>1. sub'.stripeId = NoSub  BY <2>2, <2>3, FreeRow DEF SubscriptionDeletedWrite, applyScheduledDowngrade
        <3> QED BY <2>1, <3>1 DEF Handles, Deletes, Turns
    <2>4. CASE read.schedPlan # "free"
        <3>1. sub'.stripeId = sub.stripeId /\ sub'.status = "expired"
            BY <1>0, <2>2, <2>4 DEF SubscriptionDeletedWrite, Row
        <3> QED BY <2>1, <3>1 DEF Handles, Deletes, Turns
    <2> QED BY <2>3, <2>4
<1> QED BY <1>1, <1>2, <1>3, <1>4, <1>5, <1>6 DEF HandlerStep

\* The first step of a request.
LEMMA RequestStartIs ==
    ASSUME IInv, NEW r \in Reqs, RequestStart(r)
    PROVE  Still \/ StripeMoves
<1>0. RequestTypeOK /\ RowTypeOK /\ StripeTypeOK  BY DEF IInv, TypeOK
<1>k. {"create", "stripe", "lock"} \subseteq RequestSteps \ {"write"}
      /\ {"activateFree", "cancel", "refund", "toYearly", "reactivate", "downgradeFree", "toMonthly"} \subseteq StepKinds
    BY DEF RequestSteps, StepKinds
<1>n. NoIntent \in Intents \cup {NoIntent} /\ \A i \in Intents : i \in Intents \cup {NoIntent}  OBVIOUS
<1>1. CASE ActivateFree(r)
    <2>1. RequestsKept  BY <1>0, <1>1, <1>k, <1>n, KeepsRequests DEF ActivateFree
    <2> QED BY <1>1, <2>1 DEF ActivateFree, Still, StripeKept, WorkKept, RowKept, stripeVars, dbVars
<1>2. CASE cancelSubscription(r)
    <2>1. RequestsKept  BY <1>0, <1>2, <1>k, <1>n, KeepsRequests DEF cancelSubscription
    <2> QED BY <1>2, <2>1 DEF cancelSubscription, Still, StripeKept, WorkKept, RowKept, stripeVars, dbVars
<1>3. ASSUME NEW kind \in Kinds, upgradeSubscription(r, kind) PROVE Still
    <2>1. RequestsKept  BY <1>0, <1>3, <1>k, <1>n, KeepsRequests DEF upgradeSubscription
    <2> QED BY <1>3, <2>1 DEF upgradeSubscription, Still, StripeKept, WorkKept, RowKept, stripeVars, dbVars
<1>4. ASSUME NEW kind \in Kinds, downgradeSubscription(r, kind) PROVE Still
    <2>1. RequestsKept  BY <1>0, <1>4, <1>k, <1>n, KeepsRequests DEF downgradeSubscription
    <2> QED BY <1>4, <2>1 DEF downgradeSubscription, Still, StripeKept, WorkKept, RowKept, stripeVars, dbVars
<1>5. ASSUME NEW kind \in Kinds, NEW s \in Subs, createProCheckoutSession(r, kind, s) PROVE StripeMoves
    <2>1. /\ ss[s].st = "none"
          /\ ss' = [ss EXCEPT ![s] = [@ EXCEPT !.st = "session", !.meta = CycleOf(kind), !.cycle = CycleOf(kind)]]
          /\ UNCHANGED <<sent, nsent, sub, rq>> /\ WorkKept
        BY <1>5 DEF createProCheckoutSession, WorkKept, dbVars
    <2>2. ss'[s].st = "session" /\ \A t \in Subs \ {s} : ss'[t] = ss[t]
        BY <1>0, <2>1 DEF StripeTypeOK, StripeSub
    <2>3. Opens(s)  BY <2>1, <2>2 DEF Opens
    <2> QED BY <2>3 DEF StripeMoves
<1>6. ASSUME NEW i \in Intents, refundSubscription(r, i) PROVE Still
    <2>1. RequestsKept  BY <1>0, <1>6, <1>k, <1>n, KeepsRequests DEF refundSubscription
    <2> QED BY <1>6, <2>1 DEF refundSubscription, Still, StripeKept, WorkKept, RowKept, stripeVars, dbVars
<1> QED BY <1>1, <1>2, <1>3, <1>4, <1>5, <1>6 DEF RequestStart

\* stripe.refunds.create leaves all as it is, or emits a refund.
LEMMA StripeRefundIs ==
    ASSUME IInv, NEW i \in Intents, StripeRefund(i), UNCHANGED <<ss, sub>>, WorkKept, RequestsKept
    PROVE  Still \/ StripeMoves
<1>1. CASE intent[i] = "refunded"
    BY <1>1 DEF StripeRefund, Still, StripeKept, RowKept
<1>2. CASE intent[i] # "refunded"
    <2> DEFINE e == Ev(1, "refunded", NoSub, i, FALSE, 0)
    <2>0. nsent \in Nat /\ nsent + 1 \in Nat  BY DEF IInv, TypeOK, ScalarTypeOK
    <2>1. e \in Event /\ e.type = "refunded" /\ e.id = nsent + 1  BY <2>0 DEF Ev, Event, EventTypes
    <2>2. sent' = sent \cup {e} /\ nsent' = nsent + 1  BY <1>2 DEF StripeRefund, Emit
    <2> HIDE DEF e
    <2>3. Refunds({e})  BY <2>0, <2>1, <2>2 DEF Refunds, Posts
    <2> QED BY <2>3 DEF StripeMoves
<1> QED BY <1>1, <1>2

\* The other steps of a request.
LEMMA RequestStepIs ==
    ASSUME IInv, NEW r \in Reqs, RequestStep(r)
    PROVE  Still \/ StripeMoves \/ Changes(r)
<1>0. RequestTypeOK /\ RowTypeOK /\ StripeTypeOK /\ ScalarTypeOK /\ LinkedRow /\ RequestShape /\ sub \in Row /\ rq[r] \in Request
    BY DEF IInv, TypeOK, RequestTypeOK, RowTypeOK
<1>k. {"create", "stripe", "lock", "flip", "refund", "restore", "cape", "schedule", "unlock"} \subseteq RequestSteps \ {"write"}
    BY DEF RequestSteps
<1>1. CASE ActivateFreeCommit(r)
    <2>1. RequestsKept  BY <1>0, <1>1, KeepsRequests DEF ActivateFreeCommit
    <2>2. RowKept
        <3>1. sub.plan = "none" => sub.stripeId = NoSub  BY <1>0 DEF LinkedRow
        <3> QED BY <1>1, <3>1, FreeRow DEF ActivateFreeCommit, RowKept
    <2> QED BY <1>1, <2>1, <2>2 DEF ActivateFreeCommit, Still, StripeKept, WorkKept, stripeVars
<1>2. CASE PlanChangeAtStripe(r)
    <2> DEFINE s == rq[r].row.stripeId  x == StripeAfter(rq[r].kind, ss[s])
    <2>1. /\ s \in Subs /\ rq[r].pc = "stripe" /\ StripeUpdate(s, x) /\ sub' = sub /\ WorkKept
          /\ rq' = [rq EXCEPT ![r] = [@ EXCEPT !.pc = "write", !.end = ss[s].end]]
        BY <1>2 DEF PlanChangeAtStripe, WorkKept, dbVars
    <2>2. rq[r].kind \in ChangeKinds /\ ss[s] \in StripeSub  BY <1>0, <2>1 DEF RequestShape, StripeTypeOK
    <2>3. x \in StripeSub /\ x.st = ss[s].st  BY <2>2, ChangedStripeSub
    <2>4. x.end = ss[s].end
        <3> DEFINE y == ss[s]
        <3>1. y \in StripeSub /\ rq[r].kind \in ChangeKinds  BY <2>2
        <3> HIDE DEF y
        <3>2. \A kind \in ChangeKinds : StripeAfter(kind, y).end = y.end
            <4> TAKE kind \in ChangeKinds
            <4>1. CASE kind = "toYearly"  BY <3>1, <4>1 DEF StripeAfter, StripeSub
            <4>2. CASE kind = "reactivate"  BY <3>1, <4>2 DEF StripeAfter, StripeSub
            <4>3. CASE kind \in {"downgradeFree", "cancel"}  BY <3>1, <4>3 DEF StripeAfter, StripeSub
            <4>4. CASE kind = "toMonthly"  BY <3>1, <4>4 DEF StripeAfter, StripeSub
            <4> QED BY <4>1, <4>2, <4>3, <4>4 DEF ChangeKinds
        <3> QED BY <3>1, <3>2 DEF y
    <2>5. Calls(r, s)  BY <1>0, <2>1 DEF Calls, RequestTypeOK, Request
    <2> HIDE DEF x, s
    <2>6. \E evs : Goes(s, evs)  BY <1>0, <2>1, <2>3, <2>4, <2>5, StripeUpdateIs
    <2> QED BY <2>1, <2>6 DEF StripeMoves
<1>3. CASE PlanChangeCommit(r)
    <2>1. RequestsKept  BY <1>0, <1>3, KeepsRequests DEF PlanChangeCommit
    <2>2. rq[r].pc = "write" /\ rq[r].kind \in ChangeKinds  BY <1>0, <1>3 DEF PlanChangeCommit, RequestShape
    <2>3. /\ sub'.stripeId = sub.stripeId /\ sub'.status \in {sub.status, "active", "cancelled"}
          /\ sub'.end \in {sub.end, rq[r].end}
        <3> DEFINE end == rq[r].end  kind == rq[r].kind
        <3>1. sub' = sub \/ sub' = PlanChangeWrite(kind, sub, end)  BY <1>3 DEF PlanChangeCommit
        <3>2. kind \in ChangeKinds  BY <2>2
        <3> HIDE DEF end, kind
        <3>3. CASE kind = "toYearly"  BY <1>0, <3>1, <3>3 DEF PlanChangeWrite, Row, end
        <3>4. CASE kind = "reactivate"  BY <1>0, <3>1, <3>4 DEF PlanChangeWrite, Row
        <3>5. CASE kind = "downgradeFree"  BY <1>0, <3>1, <3>5 DEF PlanChangeWrite, Row
        <3>6. CASE kind = "toMonthly"  BY <1>0, <3>1, <3>6 DEF PlanChangeWrite, Row
        <3>7. CASE kind = "cancel"  BY <1>0, <3>1, <3>7 DEF PlanChangeWrite, Row
        <3> QED BY <3>2, <3>3, <3>4, <3>5, <3>6, <3>7 DEF ChangeKinds
    <2> QED BY <1>3, <2>1, <2>2, <2>3 DEF PlanChangeCommit, Changes, StripeKept, WorkKept, stripeVars
<1>4. CASE StripeRefuses(r) \/ RequestFails(r)
    <2>1. RequestsKept  BY <1>0, <1>4, KeepsRequests DEF StripeRefuses, RequestFails
    <2> QED BY <1>4, <2>1 DEF StripeRefuses, RequestFails, Still, StripeKept, WorkKept, RowKept, stripeVars, dbVars
<1>5. CASE RefundLock(r) \/ RefundUnlock(r)
    <2>1. RequestsKept  BY <1>0, <1>5, <1>k, KeepsRequests DEF RefundLock, RefundUnlock
    <2> QED BY <1>5, <2>1 DEF RefundLock, RefundUnlock, Still, StripeKept, WorkKept, RowKept, stripeVars, dbVars
<1>6. CASE RefundFlip(r) \/ RefundRestore(r)
    <2>1. RequestsKept  BY <1>0, <1>6, <1>k, KeepsRequests DEF RefundFlip, RefundRestore
    <2> QED BY <1>6, <2>1 DEF RefundFlip, RefundRestore, Still, StripeKept, WorkKept, RowKept, stripeVars
<1>7. CASE RefundStepFails(r)
    <2>1. RequestsKept  BY <1>0, <1>7, <1>k, KeepsRequests DEF RefundStepFails
    <2> QED BY <1>7, <2>1 DEF RefundStepFails, Still, StripeKept, WorkKept, RowKept, stripeVars, dbVars
<1>8. CASE RefundAtStripe(r) \/ RefundCallFails(r)
    <2>1. RequestsKept  BY <1>0, <1>8, <1>k, KeepsRequests DEF RefundAtStripe, RefundCallFails
    <2>2. rq[r].i \in Intents  BY <1>0, <1>8 DEF RefundAtStripe, RefundCallFails, RequestShape
    <2>3. UNCHANGED <<ss, sub>> /\ WorkKept
        BY <1>8 DEF RefundAtStripe, RefundCallFails, WorkKept, dbVars
    <2>4. CASE UNCHANGED <<intent, sent, nsent>>
        BY <2>1, <2>3, <2>4 DEF Still, StripeKept, RowKept
    <2>5. CASE StripeRefund(rq[r].i)
        BY <2>1, <2>2, <2>3, <2>5, StripeRefundIs
    <2> QED BY <1>8, <2>4, <2>5 DEF RefundAtStripe, RefundCallFails
<1>9. CASE RefundCape(r)
    <2> DEFINE s == rq[r].row.stripeId  x == [ss[s] EXCEPT !.cape = TRUE]
    <2>1. rq[r].pc = "cape" /\ StripeUpdate(s, x) /\ sub' = sub /\ WorkKept
        BY <1>9 DEF RefundCape, WorkKept, dbVars
    <2>2. s \in Subs  BY <1>0, <2>1 DEF LinkedRow
    <2>6. ss[s] \in StripeSub  BY <1>0, <2>2 DEF StripeTypeOK
    <2>3. x \in StripeSub /\ x.st = ss[s].st /\ x.end = ss[s].end  BY <2>6 DEF StripeSub
    <2>4. RequestsKept  BY <1>0, <1>9, <1>k, KeepsRequests DEF RefundCape
    <2> HIDE DEF x, s
    <2>5. \E evs : Goes(s, evs)  BY <1>0, <2>1, <2>2, <2>3, <2>4, StripeUpdateIs
    <2> QED BY <2>2, <2>5 DEF StripeMoves
<1>10. CASE RefundSchedule(r)
    <2>1. RequestsKept  BY <1>0, <1>10, <1>k, KeepsRequests DEF RefundSchedule
    <2>2. RowKept  BY <1>0, <1>10 DEF RefundSchedule, PlanChangeWrite, Row, RowKept
    <2> QED BY <1>10, <2>1, <2>2 DEF RefundSchedule, Still, StripeKept, WorkKept, stripeVars
<1> QED BY <1>1, <1>2, <1>3, <1>4, <1>5, <1>6, <1>7, <1>8, <1>9, <1>10 DEF RequestStep

\* Every step.
LEMMA StepIs ==
    ASSUME IInv, [Next]_vars
    PROVE  \/ Still \/ StripeMoves \/ Crash
           \/ \E w \in Workers : Handles(w) \/ DeliverStep(w)
           \/ \E r \in Reqs : Changes(r)
<1>1. CASE UNCHANGED vars
    BY <1>1 DEF vars, stripeVars, dbVars, Still, StripeKept, WorkKept, RowKept, RequestsKept, RequestKept
<1>2. CASE StripeStep  BY <1>2, StripeStepIs
<1>3. ASSUME NEW w \in Workers, HandlerStep(w) \/ DeliverStep(w) \/ HandlerThrows(w)
      PROVE  Handles(w) \/ DeliverStep(w)
    BY <1>3, HandlerStepIs
<1>4. ASSUME NEW r \in Reqs, RequestStart(r) \/ RequestStep(r) PROVE Still \/ StripeMoves \/ Changes(r)
    BY <1>4, RequestStartIs, RequestStepIs
<1>5. ASSUME NEW i \in Intents, LockExpires(i) PROVE Still
    BY <1>5 DEF LockExpires, stripeVars, dbVars, Still, StripeKept, WorkKept, RowKept, RequestsKept, RequestKept
<1> QED BY <1>1, <1>2, <1>3, <1>4, <1>5 DEF Next

-----------------------------------------------------------------------------
(* Events in order: when Stripe sends an event only after the earlier ones are answered, and not
   while it is being handled, one delivery is at work at a time. *)

InTurn == InOrder /\ ~Redelivery

\* Events are numbered as they are created, and answered in that order.
Numbered  == /\ \A e \in sent : e.id <= nsent
             /\ \A e, f \in sent : e.id = f.id => e = f
AckedDown == \A e \in acked, f \in sent : f.id < e.id => f \in acked

\* The event a delivery is about is the first one that is not answered, and no other is handled.
Working == \A w \in Workers : Busy(w) =>
               /\ wk[w].ev \in sent \ acked
               /\ \A f \in sent : f.id < wk[w].ev.id => f \in acked
Alone   == \A v, w \in Workers : Busy(v) /\ Busy(w) => v = w

\* A handler that is about to write the row still finds the subscription it has read there.
Reading == \A w \in Workers :
               wk[w].pc = "write" /\ wk[w].ev.type \in {"paid", "updated", "deleted"} => sub.stripeId = wk[w].ev.s

\* A deletion is announced once the subscription is gone.
DeletedIsGone == \A d \in sent : d.type = "deleted" => ss[d.s].st = "gone"

OrderInv == Numbered /\ AckedDown /\ Working /\ Alone /\ Reading /\ DeletedIsGone

\* A delivery that claims its event finds no other delivery at work.
LEMMA ClaimsAlone ==
    ASSUME IInv, OrderInv, InTurn, NEW w \in Workers, NEW e \in sent, Deliverable(w, e), e \notin claims
    PROVE  \A v \in Workers : ~Busy(v)
<1> SUFFICES ASSUME NEW v \in Workers, Busy(v) PROVE FALSE  OBVIOUS
<1> DEFINE f == wk[v].ev
<1>1. f \in claims /\ f \in sent \ acked /\ \A g \in sent : g.id < f.id => g \in acked
    BY DEF IInv, HoldsClaim, OrderInv, Working, Busy
<1>2. e \in sent \ acked /\ \A g \in sent : g.id < e.id => g \in acked  BY DEF Deliverable, InTurn
<1>3. e.id \in Nat /\ f.id \in Nat  BY <1>1 DEF IInv, TypeOK, EventTypeOK, Event
<1>4. ~(e.id < f.id) /\ ~(f.id < e.id)  BY <1>1, <1>2
<1>5. e = f  BY <1>1, <1>2, <1>3, <1>4 DEF OrderInv, Numbered
<1> QED BY <1>1, <1>5

\* Posting events keeps the order.
LEMMA PostOrder ==
    ASSUME IInv, OrderInv, NEW evs, Posts(evs)
    PROVE  Numbered' /\ AckedDown' /\ Working' /\ Alone' /\ Reading'
<1>1. nsent \in Nat /\ \A e \in sent : e.id \in Nat  BY DEF IInv, TypeOK, EventTypeOK, Event, ScalarTypeOK
<1>2. sent' = sent \cup evs /\ nsent' \in Nat /\ nsent <= nsent' /\ UNCHANGED <<sub, acked, claims, wk>>  BY DEF Posts, WorkKept
<1>3. \A e \in evs : e.id \in Nat /\ nsent < e.id /\ e.id <= nsent'  BY DEF Posts, Event
<1>4. \A e, f \in evs : e.id = f.id => e = f  BY DEF Posts
<1>5. \A e \in sent : e.id <= nsent  BY DEF OrderInv, Numbered
<1>6. \A e \in sent, f \in evs : e.id < f.id  BY <1>1, <1>3, <1>5
<1>7. Numbered'
    <2>1. \A e \in sent' : e.id <= nsent'  BY <1>1, <1>2, <1>3, <1>5
    <2>2. \A e, f \in sent' : e.id = f.id => e = f
        BY <1>1, <1>2, <1>3, <1>4, <1>6 DEF OrderInv, Numbered
    <2> QED BY <2>1, <2>2 DEF Numbered
<1>8. acked \subseteq sent  BY DEF IInv, TypeOK, EventTypeOK
<1>9. AckedDown'
    <2> SUFFICES ASSUME NEW e \in acked, NEW f \in sent', f.id < e.id PROVE f \in acked  BY <1>2 DEF AckedDown
    <2>1. e \in sent /\ f \notin evs  BY <1>1, <1>3, <1>6, <1>8
    <2> QED BY <1>2, <2>1 DEF OrderInv, AckedDown
<1>10. Working'
    <2> SUFFICES ASSUME NEW w \in Workers, Busy(w)'
                 PROVE  wk[w].ev \in sent' \ acked /\ \A f \in sent' : f.id < wk[w].ev.id => f \in acked
        BY <1>2 DEF Working
    <2>1. wk[w].ev \in sent \ acked /\ \A f \in sent : f.id < wk[w].ev.id => f \in acked
        BY <1>2 DEF OrderInv, Working, Busy
    <2>2. ASSUME NEW f \in evs, f.id < wk[w].ev.id PROVE FALSE  BY <1>1, <1>3, <1>6, <2>1, <2>2
    <2> QED BY <1>2, <2>1, <2>2
<1> QED BY <1>2, <1>7, <1>9, <1>10 DEF OrderInv, Alone, Busy, Reading

\* So does what a delivery does with its event.
LEMMA HandleOrder ==
    ASSUME IInv, OrderInv, NEW w \in Workers, Handles(w)
    PROVE  OrderInv'
<1> DEFINE e == wk[w].ev
<1>0. /\ Busy(w) /\ StripeKept
      /\ \/ Release(w)
         \/ Ack(w) /\ claims' = claims
         \/ \E pc \in {"tail", "publish"} : Goto(w, pc) /\ claims' = claims
    BY DEF Handles, Throws, Answers, Bills, Links, Updates, Deletes, Turns, Handling, Busy
<1>1. /\ e \in sent \ acked /\ \A f \in sent : f.id < e.id => f \in acked
      /\ \A v \in Workers \ {w} : ~Busy(v)
    BY <1>0 DEF OrderInv, Working, Alone
<1>2. WorkerTypeOK  BY DEF IInv, TypeOK
<1>3. /\ acked' = acked \/ (acked' = acked \cup {e} /\ ~Busy(w)')
      /\ wk'[w].pc \in {"idle", "tail", "publish"}
      /\ Busy(w)' => wk'[w].ev = e
      /\ \A v \in Workers \ {w} : ~Busy(v)'
    <2>1. CASE Release(w) \/ Ack(w)
        <3>1. wk'[w].pc = "idle" /\ \A v \in Workers \ {w} : wk'[v] = wk[v]
            BY <1>2, <2>1, IdleDelivery DEF Release, Ack, WorkerTypeOK
        <3>2. acked' = acked \/ acked' = acked \cup {e}  BY <2>1 DEF Release, Ack
        <3> QED BY <1>1, <3>1, <3>2 DEF Busy
    <2>2. ASSUME NEW pc \in {"tail", "publish"}, Goto(w, pc)
          PROVE  /\ acked' = acked /\ wk'[w].pc = pc /\ wk'[w].ev = e
                 /\ \A v \in Workers \ {w} : wk'[v] = wk[v]
        BY <1>2, <2>2 DEF Goto, WorkerTypeOK, Worker
    <2> QED BY <1>0, <1>1, <2>1, <2>2 DEF Busy
<1>4. Numbered' /\ DeletedIsGone'  BY <1>0 DEF StripeKept, OrderInv, Numbered, DeletedIsGone
<1>5. AckedDown'
    <2>1. sent' = sent  BY <1>0 DEF StripeKept
    <2> QED BY <1>1, <1>3, <2>1 DEF OrderInv, AckedDown
<1>6. Working'
    <2>1. sent' = sent  BY <1>0 DEF StripeKept
    <2>2. ASSUME NEW v \in Workers, Busy(v)' PROVE v = w /\ acked' = acked /\ wk'[v].ev = e
        BY <1>3, <2>2
    <2> QED BY <1>1, <2>1, <2>2 DEF Working
<1>7. Alone'  BY <1>3 DEF Alone
<1>8. Reading'
    <2> SUFFICES ASSUME NEW v \in Workers, wk'[v].pc = "write" PROVE FALSE  BY DEF Reading
    <2> QED BY <1>3 DEF Busy
<1> QED BY <1>4, <1>5, <1>6, <1>7, <1>8 DEF OrderInv

\* And the deliveries themselves.
LEMMA DeliverOrder ==
    ASSUME IInv, OrderInv, InTurn, NEW w \in Workers, DeliverStep(w)
    PROVE  OrderInv'
<1>1. PICK e \in sent : DeliverDuplicate(w, e) \/ Claim(w, e)  BY DEF DeliverStep
<1>2. /\ Deliverable(w, e) /\ ss' = ss /\ sent' = sent /\ nsent' = nsent /\ sub' = sub
      /\ wk[w].pc = "idle" /\ e \notin acked /\ \A f \in sent : f.id < e.id => f \in acked
    BY <1>1 DEF DeliverDuplicate, Claim, Deliverable, InTurn, stripeVars, dbVars
<1>3. Numbered' /\ DeletedIsGone'  BY <1>2 DEF OrderInv, Numbered, DeletedIsGone
<1>4. acked' = acked \/ acked' = acked \cup {e}  BY <1>1 DEF DeliverDuplicate, Claim
<1>5. AckedDown'  BY <1>2, <1>4 DEF OrderInv, AckedDown
<1>6. CASE DeliverDuplicate(w, e)
    <2>1. wk' = wk /\ ~InProgress(e)  BY <1>6 DEF DeliverDuplicate, InTurn
    <2>2. \A v \in Workers : Busy(v) => wk[v].ev # e  BY <2>1 DEF InProgress, Busy
    <2>3. Working'  BY <1>2, <1>4, <2>1, <2>2 DEF OrderInv, Working, Busy
    <2> QED BY <1>2, <1>3, <1>5, <2>1, <2>3 DEF OrderInv, Alone, Busy, Reading
<1>7. CASE Claim(w, e)
    <2>1. \A v \in Workers : ~Busy(v)  BY <1>2, <1>7, ClaimsAlone DEF Claim
    <2>2. CASE HandlerSkips(e)
        <3>1. wk' = wk  BY <1>7, <2>2 DEF Claim
        <3> QED BY <1>2, <1>3, <1>5, <2>1, <3>1 DEF OrderInv, Working, Alone, Busy, Reading
    <2>3. CASE ~HandlerSkips(e)
        <3>1. wk' = [wk EXCEPT ![w] = Dispatched(e)] /\ acked' = acked  BY <1>7, <2>3 DEF Claim
        <3>2. wk'[w].ev = e /\ \A v \in Workers \ {w} : wk'[v] = wk[v]
            BY <3>1 DEF Dispatched, IInv, TypeOK, WorkerTypeOK
        <3>3. Working' /\ Alone'  BY <1>2, <2>1, <3>1, <3>2 DEF Working, Alone, Busy
        <3>4. e.type \in {"paid", "updated", "deleted"} => sub.stripeId = e.s  BY <2>3 DEF HandlerSkips
        <3>5. Reading'  BY <1>2, <2>1, <3>2, <3>4 DEF Reading, Busy
        <3> QED BY <1>3, <1>5, <3>3, <3>5 DEF OrderInv
    <2> QED BY <2>2, <2>3
<1> QED BY <1>1, <1>6, <1>7

\* Every step keeps the order.
LEMMA OrderStep ==
    ASSUME IInv, OrderInv, InTurn, [Next]_vars
    PROVE  OrderInv'
<1>1. CASE Still \/ \E r \in Reqs : Changes(r)
    <2>1. UNCHANGED <<ss, sent, nsent, acked, claims, wk>> /\ sub'.stripeId = sub.stripeId
        BY <1>1 DEF Still, Changes, StripeKept, WorkKept, RowKept
    <2> QED BY <2>1 DEF OrderInv, Numbered, AckedDown, Working, Alone, Busy, Reading, DeletedIsGone
<1>2. CASE StripeMoves
    <2>0. EventShape /\ DeletedIsGone  BY DEF IInv, OrderInv
    <2>1. ASSUME NEW s \in Subs, Opens(s) PROVE OrderInv'
        <3>1. UNCHANGED <<sent, nsent, acked, claims, wk, sub>>  BY <2>1 DEF Opens, WorkKept
        <3>2. DeletedIsGone'
            <4> SUFFICES ASSUME NEW d \in sent, d.type = "deleted" PROVE ss'[d.s].st = "gone"
                BY <3>1 DEF DeletedIsGone
            <4>1. ss[d.s].st = "gone" /\ d.s \in Subs  BY <2>0 DEF DeletedIsGone, EventShape
            <4> QED BY <2>1, <4>1 DEF Opens
        <3> QED BY <3>1, <3>2 DEF OrderInv, Numbered, AckedDown, Working, Alone, Busy, Reading
    <2>2. ASSUME NEW evs, Refunds(evs) PROVE OrderInv'
        <3>1. DeletedIsGone'  BY <2>0, <2>2 DEF Refunds, Posts, DeletedIsGone
        <3> QED BY <2>2, <3>1, PostOrder DEF Refunds, OrderInv
    <2>3. ASSUME NEW s \in Subs, NEW evs, Begins(s, evs) \/ Goes(s, evs) \/ Closes(s, evs) PROVE OrderInv'
        <3>1. Posts(evs)  BY <2>3 DEF Begins, Goes, Closes, Moves
        <3>2. /\ sent' = sent \cup evs /\ \A t \in Subs \ {s} : ss'[t] = ss[t]
              /\ ss[s].st # "gone"
              /\ \A e \in evs : e.type = "deleted" => e.s = s /\ ss'[s].st = "gone"
            BY <2>3 DEF Begins, Goes, Closes, Moves, Posts
        <3>3. DeletedIsGone'  BY <2>0, <3>2 DEF DeletedIsGone, EventShape
        <3> QED BY <3>1, <3>3, PostOrder DEF OrderInv
    <2> QED BY <1>2, <2>1, <2>2, <2>3 DEF StripeMoves
<1>3. CASE Crash
    <2>1. UNCHANGED <<ss, sent, nsent, acked>> /\ \A w \in Workers : wk'[w].pc = "idle"
        BY <1>3, IdleDelivery DEF Crash, stripeVars
    <2> QED BY <2>1 DEF OrderInv, Numbered, AckedDown, Working, Alone, Busy, Reading, DeletedIsGone
<1> QED BY <1>1, <1>2, <1>3, StepIs, HandleOrder, DeliverOrder

\* Nothing has been sent at first.
LEMMA OrderInit == Init => OrderInv
<1> SUFFICES ASSUME Init PROVE OrderInv  OBVIOUS
<1>1. sent = {} /\ acked = {} /\ \A w \in Workers : wk[w].pc = "idle"  BY IdleDelivery DEF Init
<1> QED BY <1>1 DEF OrderInv, Numbered, AckedDown, Working, Alone, Busy, Reading, DeletedIsGone

\* When events are delivered in order, a Pro row expires or turns free only once Stripe has ended the
\* subscription behind it, whatever requests, failures and crashes there are meanwhile: only the
\* handler of customer.subscription.deleted ends it, and it writes the row it has read.
THEOREM ProEnds == ASSUME InOrder, ~Redelivery PROVE Spec => ProEndsOnlyWithStripe
<1>0. InTurn  BY DEF InTurn
<1>1. IInv /\ OrderInv /\ [Next]_vars
        => [sub.plan = "pro" /\ sub.status # "expired" /\ (sub'.plan # "pro" \/ sub'.status = "expired")
              => ss[sub.stripeId].st = "gone"]_vars
    <2> SUFFICES ASSUME IInv, OrderInv, [Next]_vars,
                        sub.plan = "pro", sub.status # "expired", sub'.plan # "pro" \/ sub'.status = "expired"
                 PROVE  ss[sub.stripeId].st = "gone"
        OBVIOUS
    <2>1. sub.stripeId \in Subs /\ sub.stripeId # NoSub /\ IInv'  BY Next_Inv DEF IInv, LinkedRow
    <2>2. sub'.stripeId = NoSub \/ sub'.status = "expired"  BY <2>1 DEF IInv, LinkedRow
    <2>3. ~(sub' = sub)  OBVIOUS
    <2>4. ~Still
        <3> SUFFICES ASSUME Still PROVE FALSE  OBVIOUS
        <3> QED BY <2>1, <2>2 DEF Still, RowKept
    <2>5. ~StripeMoves  BY <2>3 DEF StripeMoves, Opens, Refunds, Begins, Goes, Closes, Moves, Posts
    <2>6. ~Crash  BY <2>3 DEF Crash, dbVars
    <2>7. \A r \in Reqs : ~Changes(r)  BY <2>1, <2>2 DEF Changes
    <2>8. \A w \in Workers : ~DeliverStep(w)  BY <2>3 DEF DeliverStep, DeliverDuplicate, Claim, dbVars
    <2>9. PICK w \in Workers : Handles(w)  BY <2>4, <2>5, <2>6, <2>7, <2>8, StepIs
    <2>10. Deletes(w)
        <3>1. ~Throws(w) /\ ~Answers(w)  BY <2>3 DEF Throws, Answers
        <3>2. ~Bills(w)
            <4> SUFFICES ASSUME Bills(w) PROVE FALSE  OBVIOUS
            <4>1. sub'.stripeId = sub.stripeId /\ sub'.status = sub.status  BY DEF Bills, IInv, TypeOK, RowTypeOK, Row
            <4> QED BY <2>1, <2>2, <4>1
        <3>3. ~Links(w)
            <4> SUFFICES ASSUME Links(w) PROVE FALSE  OBVIOUS
            <4>1. wk[w].ev \in sent /\ wk[w].ev.type = "checkout"
                BY DEF Links, Turns, Handling, OrderInv, Working, Busy
            <4>2. wk[w].ev.s \in Subs  BY <4>1 DEF IInv, EventShape
            <4> QED BY <2>2, <4>2 DEF Links
        <3>4. ~Updates(w)  BY <2>1, <2>2 DEF Updates
        <3> QED BY <2>9, <3>1, <3>2, <3>3, <3>4 DEF Handles
    <2>11. wk[w].ev \in sent /\ wk[w].ev.type = "deleted" /\ wk[w].ev.s = sub.stripeId
        BY <2>10 DEF Deletes, Turns, Handling, OrderInv, Working, Busy, Reading
    <2> QED BY <2>11 DEF OrderInv, DeletedIsGone
<1>2. IInv /\ OrderInv /\ [Next]_vars => OrderInv'  BY <1>0, OrderStep
<1> QED BY <1>1, <1>2, OrderInit, Invariance, PTL DEF Spec, ProEndsOnlyWithStripe

-----------------------------------------------------------------------------
(* The row agrees with Stripe when everything has settled, under the delivery assumptions, with quick
   requests, until a claim is left behind, and as long as the customer does not pay a second Checkout Session while a
   subscription is live. *)

OneLive == \A s, t \in Subs : ss[s].st = "live" /\ ss[t].st = "live" => s = t

Settling == InTurn /\ QuickRequests

\* The events of a subscription: it is announced when it begins, and the checkout comes first, the
\* deletion last; the events of other subscriptions lie before those of the one that is live.
About(e, s)   == e.type # "refunded" /\ e.s = s
EventBegun    == \A e \in sent : e.type # "refunded" => Begun(e.s)
HasCheckout   == \A s \in Subs : Begun(s) => \E c \in sent : c.type = "checkout" /\ c.s = s
HasDeletion   == \A s \in Subs : ss[s].st = "gone" => \E d \in sent : d.type = "deleted" /\ d.s = s
CheckoutFirst == \A c, e \in sent : c.type = "checkout" /\ About(e, c.s) /\ e # c => c.id < e.id
DeletionLast  == \A d, e \in sent : d.type = "deleted" /\ About(e, d.s) /\ e # d => e.id < d.id
Apart         == \A c, e \in sent :
                     c.type = "checkout" /\ ss[c.s].st = "live" /\ e.type # "refunded" /\ e.s # c.s => e.id < c.id

\* A period end that Stripe has announced of the subscription itself is the present one, or a later
\* event announces that.
EndSet       == \A s \in Subs : ss[s].st = "live" => ss[s].end # 0
News(f, s)   == f.type = "updated" /\ f.s = s /\ f.end = ss[s].end
EndAnnounced == \A g \in sent : g.type = "updated" /\ ss[g.s].st = "live" =>
                    g.end = ss[g.s].end \/ \E f \in sent : News(f, g.s) /\ g.id < f.id

StripeInv == /\ EventBegun /\ HasCheckout /\ HasDeletion /\ CheckoutFirst /\ DeletionLast /\ Apart
             /\ EndSet /\ EndAnnounced

\* The row, and the rows requests have read, name subscriptions that have begun; while one is live
\* they name the same; a plan change with its write to do has the period of a live subscription.
RowBegun    == /\ sub.stripeId \in Subs => Begun(sub.stripeId)
               /\ \A r \in Reqs : rq[r].row.stripeId \in Subs => Begun(rq[r].row.stripeId)
LinkCurrent == \A r \in Reqs, s \in Subs :
                   rq[r].row.stripeId = s /\ ss[s].st = "live" => sub.stripeId = s
WritePinned == \A r \in Reqs : rq[r].pc = "write" =>
                   /\ rq[r].row.stripeId \in Subs /\ ss[rq[r].row.stripeId].st = "live"
                   /\ rq[r].end = ss[rq[r].row.stripeId].end

RowInv == RowBegun /\ LinkCurrent /\ WritePinned

\* An event that has not made its write yet, or will make it again.
Due(e)           == e \in sent \ acked /\ \A w \in Workers : wk[w].pc \in {"tail", "publish"} => wk[w].ev # e
EndKnown(s, end) == \/ end = ss[s].end \/ InvoiceLast(s)
                    \/ \E f \in sent : News(f, s) /\ Due(f)

\* A claim is of an event that is answered or being handled.
Claimed  == \A e \in claims : e \in acked \/ InProgress(e)

\* The events before the checkout of the subscription in the row are answered.
LinkPast == \A c, e \in sent : c.type = "checkout" /\ sub.stripeId = c.s /\ e.id < c.id => e \in acked

\* A live subscription is in the row, or its checkout is due; its row is not expired, and has its
\* period end, or an event that brings it is due, or the last period written came with an invoice.
LiveFollowed == \A s \in Subs : ss[s].st = "live" =>
    /\ sub.stripeId = s \/ \E c \in sent : c.type = "checkout" /\ c.s = s /\ Due(c)
    /\ sub.stripeId = s => sub.status \in {"active", "cancelled"} /\ EndKnown(s, sub.end)
    /\ \A w \in Workers : wk[w].pc = "write" /\ wk[w].ev.type = "checkout" /\ wk[w].ev.s = s => EndKnown(s, wk[w].end)

\* The row of a subscription that is gone has expired, or the deletion is due.
GoneFollowed == \A s \in Subs : ss[s].st = "gone" =>
    \/ sub.stripeId = s => sub.status = "expired"
    \/ \E d \in sent : d.type = "deleted" /\ d.s = s /\ Due(d)

FollowInv == StripeInv /\ RowInv /\ Claimed /\ LinkPast /\ LiveFollowed /\ GoneFollowed

-----------------------------------------------------------------------------

\* A step that touches neither Stripe nor deliveries.
LEMMA StillFollows ==
    ASSUME IInv, FollowInv, Still
    PROVE  FollowInv'
<1>1. UNCHANGED <<ss, sent, nsent, acked, claims, wk>> /\ RowKept /\ RequestsKept
    BY DEF Still, StripeKept, WorkKept
<1>2. StripeInv'
    BY <1>1 DEF FollowInv, StripeInv, EventBegun, HasCheckout, HasDeletion, CheckoutFirst, DeletionLast, Apart,
                EndSet, EndAnnounced, News, About, Begun
<1>3. RowInv'
    <2>1. RowBegun'  BY <1>1 DEF FollowInv, RowInv, RowBegun, Begun, RowKept, RequestsKept, RequestKept
    <2>2. LinkCurrent'  BY <1>1 DEF FollowInv, RowInv, LinkCurrent, RowKept, RequestsKept, RequestKept
    <2>3. WritePinned'  BY <1>1 DEF FollowInv, RowInv, WritePinned, RequestsKept, RequestKept
    <2> QED BY <2>1, <2>2, <2>3 DEF RowInv
<1>4. Claimed' /\ LinkPast'  BY <1>1 DEF FollowInv, Claimed, InProgress, LinkPast, RowKept
<1>5. LiveFollowed' /\ GoneFollowed'
    BY <1>1 DEF FollowInv, LiveFollowed, GoneFollowed, EndKnown, InvoiceLast, News, Due, RowKept
<1> QED BY <1>2, <1>3, <1>4, <1>5 DEF FollowInv

\* What is due stays due as Stripe posts more, and so is what it posts.
LEMMA PostDue ==
    ASSUME IInv, OrderInv, NEW evs, Posts(evs)
    PROVE  /\ \A e \in sent : Due(e) => Due(e)'
           /\ \A e \in evs : Due(e)' /\ e \notin sent
           /\ \A e \in sent, f \in evs : e.id < f.id /\ ~(f.id < e.id)
           /\ sent' = sent \cup evs /\ UNCHANGED <<sub, acked, claims, wk>>
<1>1. nsent \in Nat /\ \A e \in sent : e.id \in Nat /\ e.id <= nsent
    BY DEF IInv, TypeOK, EventTypeOK, Event, ScalarTypeOK, OrderInv, Numbered
<1>2. sent' = sent \cup evs /\ UNCHANGED <<sub, acked, claims, wk>>  BY DEF Posts, WorkKept
<1>3. \A e \in evs : e.id \in Nat /\ nsent < e.id  BY DEF Posts, Event
<1>4. \A e \in sent, f \in evs : e.id < f.id /\ ~(f.id < e.id)  BY <1>1, <1>3
<1>5. \A e \in evs : e \notin sent  BY <1>1, <1>3
<1>6. acked \subseteq sent /\ \A w \in Workers : wk[w].pc \in {"tail", "publish"} => wk[w].ev \in sent
    BY DEF IInv, TypeOK, EventTypeOK, OrderInv, Working, Busy
<1> QED BY <1>2, <1>4, <1>5, <1>6 DEF Due

\* A Checkout Session is opened.
LEMMA OpenFollows ==
    ASSUME IInv, FollowInv, NEW s \in Subs, Opens(s)
    PROVE  FollowInv'
<1>1. UNCHANGED <<sent, nsent, acked, claims, wk, sub, rq>> /\ ss[s].st = "none" /\ ss'[s].st = "session"
      /\ \A t \in Subs \ {s} : ss'[t] = ss[t]
    BY DEF Opens, WorkKept
<1>2. \A e \in sent : e.type # "refunded" => e.s \in Subs /\ e.s # s
    BY <1>1 DEF IInv, EventShape
<1>3. \A t \in Subs : (Begun(t)' <=> Begun(t)) /\ (Begun(t) => ss'[t] = ss[t])  BY <1>1 DEF Begun
<1>4. StripeInv'
    <2>1. EventBegun' /\ HasCheckout' /\ EndSet'
        BY <1>1, <1>2, <1>3 DEF FollowInv, StripeInv, EventBegun, HasCheckout, EndSet, Begun
    <2>2. HasDeletion' /\ CheckoutFirst' /\ DeletionLast'
        BY <1>1, <1>3 DEF FollowInv, StripeInv, HasDeletion, CheckoutFirst, DeletionLast, About, Begun
    <2>3. Apart' /\ EndAnnounced'
        BY <1>1, <1>2, <1>3 DEF FollowInv, StripeInv, Apart, EndAnnounced, News, Begun
    <2> QED BY <2>1, <2>2, <2>3 DEF StripeInv
<1>5. RowInv'
    BY <1>1, <1>3 DEF FollowInv, RowInv, RowBegun, LinkCurrent, WritePinned, Begun
<1>6. Claimed' /\ LinkPast'  BY <1>1 DEF FollowInv, Claimed, InProgress, LinkPast
<1>7. LiveFollowed' /\ GoneFollowed'
    BY <1>1, <1>3 DEF FollowInv, LiveFollowed, GoneFollowed, EndKnown, InvoiceLast, News, Due, Begun
<1> QED BY <1>4, <1>5, <1>6, <1>7 DEF FollowInv

\* A refund is announced.
LEMMA RefundFollows ==
    ASSUME IInv, OrderInv, FollowInv, NEW evs, Refunds(evs)
    PROVE  FollowInv'
<1>1. ss' = ss /\ RequestsKept /\ \A e \in evs : e.type = "refunded"  BY DEF Refunds
<1>2. /\ \A e \in sent : Due(e) => Due(e)'
      /\ \A e \in sent, f \in evs : ~(f.id < e.id)
      /\ sent' = sent \cup evs /\ UNCHANGED <<sub, acked, claims, wk>>
    BY PostDue DEF Refunds
<1>3. StripeInv'
    <2>1. EventBegun' /\ HasCheckout' /\ HasDeletion' /\ EndSet'
        BY <1>1, <1>2 DEF FollowInv, StripeInv, EventBegun, HasCheckout, HasDeletion, EndSet, Begun
    <2>2. CheckoutFirst' /\ DeletionLast' /\ Apart'
        BY <1>1, <1>2 DEF FollowInv, StripeInv, CheckoutFirst, DeletionLast, Apart, About
    <2>3. EndAnnounced'
        BY <1>1, <1>2 DEF FollowInv, StripeInv, EndAnnounced, News
    <2> QED BY <2>1, <2>2, <2>3 DEF StripeInv
<1>4. RowInv'
    <2>1. RowBegun'  BY <1>1, <1>2 DEF FollowInv, RowInv, RowBegun, Begun, RequestsKept, RequestKept
    <2>2. LinkCurrent'  BY <1>1, <1>2 DEF FollowInv, RowInv, LinkCurrent, RequestsKept, RequestKept
    <2>3. WritePinned'  BY <1>1 DEF FollowInv, RowInv, WritePinned, RequestsKept, RequestKept
    <2> QED BY <2>1, <2>2, <2>3 DEF RowInv
<1>5. Claimed' /\ LinkPast'  BY <1>1, <1>2 DEF FollowInv, Claimed, InProgress, LinkPast
<1>6. LiveFollowed' /\ GoneFollowed'
    <2>1. ASSUME NEW s \in Subs, NEW end, EndKnown(s, end) PROVE EndKnown(s, end)'
        BY <1>1, <1>2, <2>1 DEF EndKnown, InvoiceLast, News
    <2> QED BY <1>1, <1>2, <2>1 DEF FollowInv, LiveFollowed, GoneFollowed
<1> QED BY <1>3, <1>4, <1>5, <1>6 DEF FollowInv

\* A subscription begins.
LEMMA BeginFollows ==
    ASSUME IInv, OrderInv, FollowInv, OneLive', NEW s \in Subs, NEW evs, Begins(s, evs)
    PROVE  FollowInv'
<1>1. /\ ss[s].st = "session" /\ ss'[s].st = "live" /\ ss'[s].end # 0 /\ rq' = rq
      /\ \A t \in Subs \ {s} : ss'[t] = ss[t]
      /\ \A e \in evs : e.s = s
    BY DEF Begins, Moves
<1>2. PICK c \in evs : c.type = "checkout" /\ \A e \in evs \ {c} : e.type = "paid" /\ c.id < e.id
    BY DEF Begins
<1>3. /\ \A e \in sent : Due(e) => Due(e)'
      /\ \A e \in evs : Due(e)'
      /\ \A e \in sent, f \in evs : e.id < f.id /\ ~(f.id < e.id)
      /\ sent' = sent \cup evs /\ UNCHANGED <<sub, acked, claims, wk>>
    BY PostDue DEF Begins, Moves
<1>4. \A e \in sent : e.type # "refunded" => e.s \in Subs /\ Begun(e.s) /\ e.s # s
    BY <1>1 DEF IInv, EventShape, FollowInv, StripeInv, EventBegun, Begun
<1>5. \A t \in Subs : t # s => ss'[t].st # "live"  BY <1>1 DEF OneLive
<1>6. \A e \in evs : e = c \/ (e.type = "paid" /\ c.id < e.id)  BY <1>2
<1>7. StripeInv'
    <2>1. EventBegun'  BY <1>1, <1>3, <1>4 DEF EventBegun, Begun
    <2>2. HasCheckout'  BY <1>1, <1>2, <1>3 DEF FollowInv, StripeInv, HasCheckout, Begun
    <2>3. HasDeletion'  BY <1>1, <1>3 DEF FollowInv, StripeInv, HasDeletion
    <2>4. CheckoutFirst'
        <3> SUFFICES ASSUME NEW g \in sent', NEW e \in sent', g.type = "checkout", About(e, g.s), e # g PROVE g.id < e.id
            BY DEF CheckoutFirst, About
        <3>1. CASE g \in sent
            <4>1. e \in sent  BY <1>1, <1>3, <1>4, <3>1 DEF About
            <4> QED BY <3>1, <4>1 DEF FollowInv, StripeInv, CheckoutFirst
        <3>2. CASE g \in evs
            <4>1. g = c /\ e \in evs  BY <1>1, <1>2, <1>3, <1>4, <3>2 DEF About
            <4> QED BY <1>2, <4>1
        <3> QED BY <1>3, <3>1, <3>2
    <2>5. DeletionLast'
        <3> SUFFICES ASSUME NEW d \in sent', NEW e \in sent', d.type = "deleted", About(e, d.s), e # d PROVE e.id < d.id
            BY DEF DeletionLast, About
        <3>1. d \in sent  BY <1>2, <1>3
        <3>2. e \in sent  BY <1>1, <1>3, <1>4, <3>1 DEF About
        <3> QED BY <3>1, <3>2 DEF FollowInv, StripeInv, DeletionLast
    <2>6. Apart'
        <3> SUFFICES ASSUME NEW g \in sent', NEW e \in sent', g.type = "checkout", ss'[g.s].st = "live",
                            e.type # "refunded", e.s # g.s
                     PROVE  e.id < g.id
            BY DEF Apart
        <3>1. g.s = s /\ g \in evs  BY <1>1, <1>3, <1>4, <1>5
        <3>2. e \in sent  BY <1>1, <1>3, <3>1
        <3> QED BY <1>3, <3>1, <3>2
    <2>7. EndSet'  BY <1>1, <1>5 DEF EndSet
    <2>8. EndAnnounced'
        <3> SUFFICES ASSUME NEW g \in sent', g.type = "updated", ss'[g.s].st = "live" PROVE FALSE
            BY DEF EndAnnounced
        <3>1. g.s = s /\ g \in evs  BY <1>1, <1>3, <1>4, <1>5
        <3> QED BY <1>2, <3>1
    <2> QED BY <2>1, <2>2, <2>3, <2>4, <2>5, <2>6, <2>7, <2>8 DEF StripeInv
<1>8. /\ sub.stripeId # s /\ \A r \in Reqs : rq[r].row.stripeId # s
      /\ \A w \in Workers : wk[w].pc = "write" /\ wk[w].ev.type = "checkout" => wk[w].ev.s # s
    <2>1. ~Begun(s)  BY <1>1 DEF Begun
    <2>2. \A w \in Workers : wk[w].pc = "write" => wk[w].ev \in sent  BY DEF OrderInv, Working, Busy
    <2> QED BY <1>4, <2>1, <2>2 DEF FollowInv, RowInv, RowBegun
<1>9. RowInv'
    <2>1. RowBegun'  BY <1>1, <1>3 DEF FollowInv, RowInv, RowBegun, Begun
    <2>2. LinkCurrent'  BY <1>1, <1>5, <1>8 DEF LinkCurrent
    <2>3. WritePinned'  BY <1>1, <1>8 DEF FollowInv, RowInv, WritePinned
    <2> QED BY <2>1, <2>2, <2>3 DEF RowInv
<1>10. Claimed'  BY <1>3 DEF FollowInv, Claimed, InProgress
<1>11. LinkPast'
    <2> SUFFICES ASSUME NEW g \in sent', NEW e \in sent', g.type = "checkout", sub.stripeId = g.s, e.id < g.id PROVE e \in acked
        BY <1>3 DEF LinkPast
    <2>1. g \in sent  BY <1>1, <1>3, <1>8
    <2>2. e \in sent  BY <1>3, <2>1
    <2> QED BY <2>1, <2>2 DEF FollowInv, LinkPast
<1>12. LiveFollowed'
    <2> SUFFICES ASSUME NEW t \in Subs, ss'[t].st = "live"
                 PROVE  t = s /\ c \in sent' /\ c.type = "checkout" /\ c.s = s /\ Due(c)'
        BY <1>3, <1>8 DEF LiveFollowed
    <2> QED BY <1>1, <1>2, <1>3, <1>5
<1>13. GoneFollowed'
    <2> SUFFICES ASSUME NEW t \in Subs, ss'[t].st = "gone",
                        ~(sub.stripeId = t => sub.status = "expired")
                 PROVE  \E d \in sent' : d.type = "deleted" /\ d.s = t /\ Due(d)'
        BY <1>3 DEF GoneFollowed
    <2>1. ss[t].st = "gone"  BY <1>1
    <2> QED BY <1>3, <2>1 DEF FollowInv, GoneFollowed
<1> QED BY <1>7, <1>9, <1>10, <1>11, <1>12, <1>13 DEF FollowInv

\* A subscription goes on: its period turns, or a request changes it.
LEMMA GoFollows ==
    ASSUME IInv, OrderInv, FollowInv, Settling, OneLive, NEW s \in Subs, NEW evs, Goes(s, evs)
    PROVE  FollowInv'
<1>1. /\ ss[s].st = "live" /\ ss'[s].st = "live"
      /\ \A t \in Subs \ {s} : ss'[t] = ss[t]
      /\ \A e \in evs : /\ e.s = s /\ e.type \in {"updated", "paid", "failed"}
                        /\ e.type = "updated" => e.end = ss'[s].end
    BY DEF Goes, Moves
<1>2. \/ ss'[s].end = ss[s].end /\ (RequestsKept \/ \E r \in Reqs : Calls(r, s))
      \/ rq' = rq /\ NoWritePending /\ ss'[s].end # 0 /\ \E f \in evs : f.type = "updated"
    BY DEF Goes, Unpinned, Settling
<1>3. /\ \A e \in sent : Due(e) => Due(e)'
      /\ \A e \in evs : Due(e)'
      /\ \A e \in sent, f \in evs : e.id < f.id /\ ~(f.id < e.id)
      /\ sent' = sent \cup evs /\ UNCHANGED <<sub, acked, claims, wk>>
    BY PostDue DEF Goes, Moves
<1>4. \A t \in Subs : ss'[t].st = ss[t].st  BY <1>1
<1>5. \A t \in Subs : t # s => ss[t].st # "live"  BY <1>1 DEF OneLive
<1>6. \A e \in sent : e.type # "refunded" => e.s \in Subs  BY DEF IInv, EventShape
<1>7. StripeInv'
    <2>1. EventBegun'  BY <1>1, <1>3, <1>4, <1>6 DEF FollowInv, StripeInv, EventBegun, Begun
    <2>2. HasCheckout'  BY <1>3, <1>4 DEF FollowInv, StripeInv, HasCheckout, Begun
    <2>3. HasDeletion'  BY <1>3, <1>4 DEF FollowInv, StripeInv, HasDeletion
    <2>4. CheckoutFirst'
        <3> SUFFICES ASSUME NEW g \in sent', NEW e \in sent', g.type = "checkout", About(e, g.s), e # g PROVE g.id < e.id
            BY DEF CheckoutFirst, About
        <3>1. g \in sent  BY <1>1, <1>3
        <3> QED BY <1>3, <3>1 DEF FollowInv, StripeInv, CheckoutFirst
    <2>5. DeletionLast'
        <3> SUFFICES ASSUME NEW d \in sent', NEW e \in sent', d.type = "deleted", About(e, d.s), e # d PROVE e.id < d.id
            BY DEF DeletionLast, About
        <3>1. d \in sent  BY <1>1, <1>3
        <3>2. d.s # s  BY <1>1, <3>1 DEF OrderInv, DeletedIsGone
        <3>3. e \in sent  BY <1>1, <1>3, <3>2 DEF About
        <3> QED BY <3>1, <3>3 DEF FollowInv, StripeInv, DeletionLast
    <2>6. Apart'
        <3> SUFFICES ASSUME NEW g \in sent', NEW e \in sent', g.type = "checkout", ss'[g.s].st = "live",
                            e.type # "refunded", e.s # g.s
                     PROVE  e.id < g.id
            BY DEF Apart
        <3>1. g \in sent  BY <1>1, <1>3
        <3>2. g.s = s /\ ss[g.s].st = "live"  BY <1>1, <1>4, <1>5, <1>6, <3>1
        <3>3. e \in sent  BY <1>1, <1>3, <3>2
        <3> QED BY <3>1, <3>2, <3>3 DEF FollowInv, StripeInv, Apart
    <2>7. EndSet'
        <3>1. ss'[s].end # 0  BY <1>1, <1>2 DEF FollowInv, StripeInv, EndSet
        <3> QED BY <1>4, <1>5, <3>1 DEF EndSet
    <2>8. EndAnnounced'
        <3> SUFFICES ASSUME NEW g \in sent', g.type = "updated", ss'[g.s].st = "live", g.end # ss'[g.s].end
                     PROVE  \E f \in sent' : News(f, g.s)' /\ g.id < f.id
            BY DEF EndAnnounced
        <3>1. g \in sent /\ g.s = s  BY <1>1, <1>3, <1>4, <1>5, <1>6
        <3>2. CASE ss'[s].end = ss[s].end
            <4>1. PICK f \in sent : News(f, s) /\ g.id < f.id
                BY <1>1, <3>1, <3>2 DEF FollowInv, StripeInv, EndAnnounced
            <4> QED BY <1>3, <3>1, <3>2, <4>1 DEF News
        <3>3. ASSUME NEW f \in evs, f.type = "updated" PROVE f \in sent' /\ News(f, s)' /\ g.id < f.id
            BY <1>1, <1>3, <3>1, <3>3 DEF News
        <3> QED BY <1>2, <3>1, <3>2, <3>3
    <2> QED BY <2>1, <2>2, <2>3, <2>4, <2>5, <2>6, <2>7, <2>8 DEF StripeInv
<1>8. RowInv'
    <2>1. \A q \in Reqs : \/ rq'[q].row = rq[q].row
                          \/ rq'[q].pc # "write" /\ rq'[q].row.stripeId \in {rq[q].row.stripeId, sub.stripeId, NoSub}
        BY <1>2 DEF RequestsKept, RequestKept, Calls
    <2>2. RowBegun'  BY <1>3, <1>4, <2>1 DEF FollowInv, RowInv, RowBegun, Begun
    <2>3. LinkCurrent'  BY <1>3, <1>4, <2>1 DEF FollowInv, RowInv, LinkCurrent
    <2>4. WritePinned'
        <3> SUFFICES ASSUME NEW q \in Reqs, rq'[q].pc = "write"
                     PROVE  /\ rq'[q].row.stripeId \in Subs /\ ss'[rq'[q].row.stripeId].st = "live"
                            /\ rq'[q].end = ss'[rq'[q].row.stripeId].end
            BY DEF WritePinned
        <3>1. ss'[s].end = ss[s].end /\ (RequestsKept \/ \E r \in Reqs : Calls(r, s))
            BY <1>2 DEF NoWritePending
        <3>2. CASE rq'[q] = rq[q]
            <4>1. /\ rq[q].row.stripeId \in Subs /\ ss[rq[q].row.stripeId].st = "live"
                  /\ rq[q].end = ss[rq[q].row.stripeId].end
                BY <3>2 DEF FollowInv, RowInv, WritePinned
            <4> QED BY <1>1, <3>1, <3>2, <4>1
        <3>3. CASE rq'[q] # rq[q]
            <4>1. Calls(q, s)  BY <3>1, <3>3 DEF RequestsKept, RequestKept, Calls
            <4> QED BY <1>1, <3>1, <4>1 DEF Calls
        <3> QED BY <3>2, <3>3
    <2> QED BY <2>2, <2>3, <2>4 DEF RowInv
<1>9. Claimed'  BY <1>3 DEF FollowInv, Claimed, InProgress
<1>10. LinkPast'
    <2> SUFFICES ASSUME NEW g \in sent', NEW e \in sent', g.type = "checkout", sub.stripeId = g.s, e.id < g.id PROVE e \in acked
        BY <1>3 DEF LinkPast
    <2>1. g \in sent  BY <1>1, <1>3
    <2>2. e \in sent  BY <1>3, <2>1
    <2> QED BY <2>1, <2>2 DEF FollowInv, LinkPast
<1>11. LiveFollowed'
    <2>1. ASSUME NEW end, EndKnown(s, end) PROVE EndKnown(s, end)'
        <3>1. ASSUME NEW f \in evs, f.type = "updated" PROVE EndKnown(s, end)'
            BY <1>1, <1>3, <3>1 DEF EndKnown, News
        <3>2. CASE ss'[s].end = ss[s].end /\ \A f \in evs : f.type # "updated"
            <4>1. InvoiceLast(s) => InvoiceLast(s)'  BY <1>3, <3>2 DEF InvoiceLast
            <4> QED BY <1>3, <2>1, <3>2, <4>1 DEF EndKnown, News
        <3> QED BY <1>2, <3>1, <3>2
    <2> SUFFICES ASSUME NEW t \in Subs, ss'[t].st = "live"
                 PROVE  /\ sub.stripeId = s \/ \E c \in sent' : c.type = "checkout" /\ c.s = s /\ Due(c)'
                        /\ sub.stripeId = s => sub.status \in {"active", "cancelled"} /\ EndKnown(s, sub.end)'
                        /\ \A w \in Workers : wk[w].pc = "write" /\ wk[w].ev.type = "checkout" /\ wk[w].ev.s = s
                              => EndKnown(s, wk[w].end)'
                        /\ t = s
        BY <1>3 DEF LiveFollowed
    <2>2. t = s  BY <1>4, <1>5
    <2> QED BY <1>1, <1>3, <2>1, <2>2 DEF FollowInv, LiveFollowed
<1>12. GoneFollowed'
    <2> SUFFICES ASSUME NEW t \in Subs, ss'[t].st = "gone",
                        ~(sub.stripeId = t => sub.status = "expired")
                 PROVE  \E d \in sent' : d.type = "deleted" /\ d.s = t /\ Due(d)'
        BY <1>3 DEF GoneFollowed
    <2>1. ss[t].st = "gone"  BY <1>4
    <2> QED BY <1>3, <2>1 DEF FollowInv, GoneFollowed
<1> QED BY <1>7, <1>8, <1>9, <1>10, <1>11, <1>12 DEF FollowInv

\* A subscription ends.
LEMMA CloseFollows ==
    ASSUME IInv, OrderInv, FollowInv, Settling, OneLive, NEW s \in Subs, NEW evs, Closes(s, evs)
    PROVE  FollowInv'
<1>1. /\ ss[s].st = "live" /\ ss'[s].st = "gone" /\ rq' = rq /\ NoWritePending
      /\ \A t \in Subs \ {s} : ss'[t] = ss[t]
    BY DEF Closes, Moves, Unpinned, Settling
<1>2. PICK d : evs = {d} /\ d.type = "deleted"  BY DEF Closes
<1>3. /\ \A e \in sent : Due(e) => Due(e)'
      /\ Due(d)' /\ \A e \in sent : e.id < d.id /\ ~(d.id < e.id)
      /\ sent' = sent \cup {d} /\ d.s = s /\ UNCHANGED <<sub, acked, claims, wk>>
    BY <1>2, PostDue DEF Closes, Moves
<1>4. \A t \in Subs : ss'[t].st # "live"  BY <1>1 DEF OneLive
<1>5. \A e \in sent : e.type # "refunded" => e.s \in Subs  BY DEF IInv, EventShape
<1>6. \A t \in Subs : Begun(t)' <=> Begun(t)  BY <1>1 DEF Begun
<1>7. StripeInv'
    <2>1. EventBegun'  BY <1>1, <1>3, <1>5, <1>6 DEF FollowInv, StripeInv, EventBegun, Begun
    <2>2. HasCheckout'  BY <1>3, <1>6 DEF FollowInv, StripeInv, HasCheckout
    <2>3. HasDeletion'  BY <1>1, <1>2, <1>3 DEF FollowInv, StripeInv, HasDeletion
    <2>4. CheckoutFirst'
        <3> SUFFICES ASSUME NEW g \in sent', NEW e \in sent', g.type = "checkout", About(e, g.s), e # g PROVE g.id < e.id
            BY DEF CheckoutFirst, About
        <3>1. g \in sent  BY <1>2, <1>3
        <3> QED BY <1>3, <3>1 DEF FollowInv, StripeInv, CheckoutFirst
    <2>5. DeletionLast'
        <3> SUFFICES ASSUME NEW g \in sent', NEW e \in sent', g.type = "deleted", About(e, g.s), e # g PROVE e.id < g.id
            BY DEF DeletionLast, About
        <3>1. CASE g = d  BY <1>3, <3>1
        <3>2. CASE g # d
            <4>1. g \in sent  BY <1>3, <3>2
            <4>2. g.s # s  BY <1>1, <4>1 DEF OrderInv, DeletedIsGone
            <4>3. e \in sent  BY <1>3, <4>2 DEF About
            <4> QED BY <4>1, <4>3 DEF FollowInv, StripeInv, DeletionLast
        <3> QED BY <3>1, <3>2
    <2>6. \A e \in sent' : e.type # "refunded" => ss'[e.s].st # "live"  BY <1>3, <1>4, <1>5
    <2>7. Apart' /\ EndSet' /\ EndAnnounced'  BY <1>4, <2>6 DEF Apart, EndSet, EndAnnounced
    <2> QED BY <2>1, <2>2, <2>3, <2>4, <2>5, <2>7 DEF StripeInv
<1>8. RowInv'
    BY <1>1, <1>3, <1>4, <1>6 DEF FollowInv, RowInv, RowBegun, LinkCurrent, WritePinned, NoWritePending
<1>9. Claimed'  BY <1>3 DEF FollowInv, Claimed, InProgress
<1>10. LinkPast'
    <2> SUFFICES ASSUME NEW g \in sent', NEW e \in sent', g.type = "checkout", sub.stripeId = g.s, e.id < g.id PROVE e \in acked
        BY <1>3 DEF LinkPast
    <2>1. g \in sent  BY <1>2, <1>3
    <2>2. e \in sent  BY <1>3, <2>1
    <2> QED BY <2>1, <2>2 DEF FollowInv, LinkPast
<1>11. LiveFollowed'  BY <1>4 DEF LiveFollowed
<1>12. GoneFollowed'
    <2> SUFFICES ASSUME NEW t \in Subs, ss'[t].st = "gone",
                        ~(sub.stripeId = t => sub.status = "expired")
                 PROVE  \E e \in sent' : e.type = "deleted" /\ e.s = t /\ Due(e)'
        BY <1>3 DEF GoneFollowed
    <2>1. CASE t = s  BY <1>2, <1>3, <2>1
    <2>2. CASE t # s
        <3>1. ss[t].st = "gone"  BY <1>1, <2>2
        <3> QED BY <1>3, <3>1 DEF FollowInv, GoneFollowed
    <2> QED BY <2>1, <2>2
<1> QED BY <1>7, <1>8, <1>9, <1>10, <1>11, <1>12 DEF FollowInv

\* A plan change writes the row: the subscription it has called Stripe for is still live.
LEMMA ChangeFollows ==
    ASSUME IInv, OrderInv, FollowInv, OneLive, NEW r \in Reqs, Changes(r)
    PROVE  FollowInv'
<1>1. /\ UNCHANGED <<ss, sent, nsent, acked, claims, wk>> /\ RequestsKept /\ rq[r].pc = "write"
      /\ sub'.stripeId = sub.stripeId
      /\ sub'.status \in {sub.status, "active", "cancelled"}
      /\ sub'.end \in {sub.end, rq[r].end}
    BY DEF Changes, StripeKept, WorkKept
<1> DEFINE u == rq[r].row.stripeId
<1>2. u \in Subs /\ ss[u].st = "live" /\ rq[r].end = ss[u].end /\ sub.stripeId = u
    BY <1>1 DEF FollowInv, RowInv, WritePinned, LinkCurrent
<1>3. StripeInv'
    BY <1>1 DEF FollowInv, StripeInv, EventBegun, HasCheckout, HasDeletion, CheckoutFirst, DeletionLast, Apart,
                EndSet, EndAnnounced, News, About, Begun
<1>4. RowInv'
    <2>1. RowBegun'  BY <1>1 DEF FollowInv, RowInv, RowBegun, Begun, RequestsKept, RequestKept
    <2>2. LinkCurrent'  BY <1>1 DEF FollowInv, RowInv, LinkCurrent, RequestsKept, RequestKept
    <2>3. WritePinned'  BY <1>1 DEF FollowInv, RowInv, WritePinned, RequestsKept, RequestKept
    <2> QED BY <2>1, <2>2, <2>3 DEF RowInv
<1>5. Claimed' /\ LinkPast'  BY <1>1 DEF FollowInv, Claimed, InProgress, LinkPast
<1>6. \A s \in Subs : \A end : EndKnown(s, end)' <=> EndKnown(s, end)
    BY <1>1 DEF EndKnown, InvoiceLast, News, Due
<1>7. LiveFollowed'
    <2>1. EndKnown(u, rq[r].end)  BY <1>2 DEF EndKnown
    <2>2. \A e : Due(e)' <=> Due(e)  BY <1>1 DEF Due
    <2>3. ASSUME NEW s \in Subs, ss[s].st = "live", sub.stripeId = s
          PROVE  sub'.status \in {"active", "cancelled"} /\ EndKnown(s, sub'.end)
        <3>1. sub.status \in {"active", "cancelled"} /\ EndKnown(s, sub.end)
            BY <2>3 DEF FollowInv, LiveFollowed
        <3>2. s = u  BY <1>2, <2>3
        <3> QED BY <1>1, <2>1, <3>1, <3>2
    <2> HIDE DEF u
    <2> QED BY <1>1, <1>6, <2>2, <2>3 DEF FollowInv, LiveFollowed
<1>8. GoneFollowed'
    <2> SUFFICES ASSUME NEW t \in Subs, ss[t].st = "gone" PROVE sub'.stripeId # t
        BY <1>1 DEF GoneFollowed
    <2> QED BY <1>1, <1>2
<1> QED BY <1>3, <1>4, <1>5, <1>7, <1>8 DEF FollowInv

-----------------------------------------------------------------------------
(* The deliveries. *)

\* While no claim is left behind, a delivery that throws gives its claim up.
LEMMA ReleasedClaim ==
    ASSUME IInv, NEW w \in Workers, Release(w), outages' = 0
    PROVE  claims' = claims \ {wk[w].ev}
<1>1. outages \in Nat /\ outages' # outages + 1  BY DEF IInv, TypeOK, ScalarTypeOK
<1> QED BY <1>1 DEF Release

\* While a delivery is at work, every other event that is not answered is due; what it does touches
\* neither Stripe nor the requests, and leaves claims of answered events and of its own.
LEMMA HandleDue ==
    ASSUME IInv, OrderInv, FollowInv, outages' = 0, NEW w \in Workers, Handles(w)
    PROVE  /\ UNCHANGED <<ss, sent, nsent, rq>> /\ acked \subseteq acked'
           /\ wk[w].ev \in sent \ acked /\ \A f \in sent : f.id < wk[w].ev.id => f \in acked
           /\ \A f \in sent \ acked : f # wk[w].ev => Due(f)'
           /\ \A v \in Workers : wk'[v].pc # "write"
           /\ Claimed'
<1> DEFINE e == wk[w].ev
<1>0. /\ Busy(w) /\ UNCHANGED <<ss, sent, nsent, rq>>
      /\ \/ Release(w)
         \/ Ack(w) /\ claims' = claims
         \/ \E pc \in {"tail", "publish"} : Goto(w, pc) /\ claims' = claims
    BY DEF Handles, Throws, Answers, Bills, Links, Updates, Deletes, Turns, Handling, Busy, StripeKept
<1>1. /\ e \in sent \ acked /\ \A f \in sent : f.id < e.id => f \in acked
      /\ \A v \in Workers \ {w} : ~Busy(v)
    BY <1>0 DEF OrderInv, Working, Alone
<1>2. WorkerTypeOK  BY DEF IInv, TypeOK
<1>4. \A g \in claims : g \in acked \/ g = e
    BY <1>1 DEF FollowInv, Claimed, InProgress, Busy
<1>5. CASE Release(w) \/ Ack(w)
    <2>1. wk'[w].pc = "idle" /\ \A v \in Workers \ {w} : wk'[v] = wk[v]
        BY <1>2, <1>5, IdleDelivery DEF Release, Ack, WorkerTypeOK
    <2>2. acked' \in {acked, acked \cup {e}}  BY <1>5 DEF Release, Ack
    <2>3. Claimed'
        <3>1. CASE Release(w)
            <4>1. claims' = claims \ {e} /\ acked' = acked  BY <3>1, ReleasedClaim DEF Release
            <4> QED BY <1>4, <4>1 DEF Claimed
        <3>2. CASE Ack(w) /\ claims' = claims
            <4>1. acked' = acked \cup {e}  BY <3>2 DEF Ack
            <4> QED BY <1>4, <3>2, <4>1 DEF Claimed
        <3>3. claims' = claims \/ Release(w)  BY <1>0
        <3> QED BY <1>5, <3>1, <3>2, <3>3
    <2>4. \A v \in Workers : wk'[v].pc = "idle"  BY <1>1, <2>1 DEF Busy
    <2>5. \A f \in sent \ acked : f # e => Due(f)'  BY <1>0, <2>2, <2>4 DEF Due
    <2> QED BY <1>0, <1>1, <2>2, <2>3, <2>4, <2>5
<1>6. ASSUME NEW pc \in {"tail", "publish"}, Goto(w, pc), claims' = claims
      PROVE  /\ acked' = acked /\ \A v \in Workers : wk'[v].pc # "write"
             /\ \A f \in sent \ acked : f # e => Due(f)'
             /\ Claimed'
    <2>1. acked' = acked /\ wk'[w].pc = pc /\ wk'[w].ev = e /\ \A v \in Workers \ {w} : wk'[v] = wk[v]
        BY <1>2, <1>6 DEF Goto, WorkerTypeOK, Worker
    <2>2. \A v \in Workers \ {w} : wk'[v].pc = "idle"  BY <1>1, <2>1 DEF Busy
    <2>3. Claimed'  BY <1>4, <1>6, <2>1 DEF Claimed, InProgress
    <2>4. \A f \in sent \ acked : f # e => Due(f)'  BY <1>0, <2>1, <2>2 DEF Due
    <2> QED BY <2>1, <2>2, <2>3, <2>4
<1> QED BY <1>0, <1>1, <1>5, <1>6

\* An event later than the one at work is due after the step.
LEMMA LaterIsDue ==
    ASSUME IInv, OrderInv, FollowInv, outages' = 0, NEW w \in Workers, Handles(w), NEW f \in sent, wk[w].ev.id < f.id
    PROVE  Due(f)'
<1>1. wk[w].ev \in sent \ acked  BY HandleDue
<1>2. f \notin acked  BY <1>1 DEF OrderInv, AckedDown
<1>3. f # wk[w].ev
    <2>1. wk[w].ev.id \in Nat  BY <1>1 DEF IInv, TypeOK, EventTypeOK, Event
    <2> QED BY <2>1
<1> QED BY <1>2, <1>3, HandleDue

\* Of Stripe, and of requests, the invariant is kept.
LEMMA HandleStripe ==
    ASSUME FollowInv, UNCHANGED <<ss, sent, nsent, rq>>
    PROVE  StripeInv' /\ WritePinned'
BY DEF FollowInv, RowInv, WritePinned, StripeInv, EventBegun, HasCheckout, HasDeletion, CheckoutFirst, DeletionLast,
       Apart, EndSet, EndAnnounced, News, About, Begun

\* After an event that is at work and announces the period of a live subscription, the row may have
\* that period: it is the present one, or a later event brings that.
LEMMA PeriodKnown ==
    ASSUME IInv, OrderInv, FollowInv, outages' = 0, NEW w \in Workers, Handles(w), NEW s \in Subs,
           wk[w].ev.type \in {"paid", "updated"}, wk[w].ev.s = s, ss[s].st = "live"
    PROVE  \/ wk[w].ev.end = ss[s].end /\ wk[w].ev.end # 0
           \/ \A end : EndKnown(s, end)'
<1>1. wk[w].ev \in sent /\ UNCHANGED <<ss, sent>>  BY HandleDue
<1>2. CASE wk[w].ev.end = ss[s].end /\ wk[w].ev.type = "updated"  BY <1>2 DEF FollowInv, StripeInv, EndSet
<1>3. ASSUME NEW f \in sent, News(f, s), wk[w].ev.id < f.id PROVE \A end : EndKnown(s, end)'
    <2>1. Due(f)'  BY <1>3, LaterIsDue
    <2>2. f \in sent' /\ News(f, s)'  BY <1>1, <1>3 DEF News
    <2> QED BY <2>1, <2>2 DEF EndKnown
<1>4. CASE wk[w].ev.type = "updated"
    <2>1. wk[w].ev.end = ss[s].end \/ \E f \in sent : News(f, s) /\ wk[w].ev.id < f.id
        BY <1>1, <1>4 DEF FollowInv, StripeInv, EndAnnounced
    <2> QED BY <1>2, <1>3, <1>4, <2>1
<1>5. CASE wk[w].ev.type = "paid"
    <2>1. CASE \A f \in sent : f.type = "updated" /\ f.s = s => f.id < wk[w].ev.id
        BY <1>1, <1>5, <2>1 DEF EndKnown, InvoiceLast
    <2>2. ASSUME NEW f \in sent, f.type = "updated", f.s = s, ~(f.id < wk[w].ev.id) PROVE \A end : EndKnown(s, end)'
        <3>1. f.id \in Nat /\ wk[w].ev.id \in Nat /\ f # wk[w].ev
            BY <1>1, <1>5, <2>2 DEF IInv, TypeOK, EventTypeOK, Event
        <3>2. f.id # wk[w].ev.id  BY <1>1, <2>2, <3>1 DEF OrderInv, Numbered
        <3>3. wk[w].ev.id < f.id  BY <2>2, <3>1, <3>2
        <3>4. CASE f.end = ss[s].end  BY <1>3, <2>2, <3>3, <3>4 DEF News
        <3>5. ASSUME NEW g \in sent, News(g, s), f.id < g.id PROVE \A end : EndKnown(s, end)'
            <4>1. g.id \in Nat  BY <3>5 DEF IInv, TypeOK, EventTypeOK, Event
            <4>2. wk[w].ev.id < g.id  BY <3>1, <3>3, <3>5, <4>1
            <4> QED BY <1>3, <3>5, <4>2
        <3>6. f.end = ss[s].end \/ \E g \in sent : News(g, s) /\ f.id < g.id
            BY <2>2 DEF FollowInv, StripeInv, EndAnnounced
        <3> QED BY <3>4, <3>5, <3>6
    <2> QED BY <2>1, <2>2
<1> QED BY <1>4, <1>5

\* While the subscription of the event at work is gone, its deletion comes later, unless that is it.
LEMMA DeletionDue ==
    ASSUME IInv, OrderInv, FollowInv, outages' = 0, NEW w \in Workers, Handles(w),
           wk[w].ev.type \notin {"deleted", "refunded"}, ss[wk[w].ev.s].st = "gone"
    PROVE  \E d \in sent : d.type = "deleted" /\ d.s = wk[w].ev.s /\ Due(d)'
<1>1. wk[w].ev \in sent  BY HandleDue
<1>2. wk[w].ev.s \in Subs  BY <1>1 DEF IInv, EventShape
<1>3. PICK d \in sent : d.type = "deleted" /\ d.s = wk[w].ev.s
    BY <1>2 DEF FollowInv, StripeInv, HasDeletion
<1>4. wk[w].ev.id < d.id  BY <1>1, <1>3 DEF FollowInv, StripeInv, DeletionLast, About
<1> QED BY <1>3, <1>4, LaterIsDue

\* A checkout at work is not of another subscription than the live one in the row.
LEMMA LinkSteady ==
    ASSUME IInv, OrderInv, FollowInv, outages' = 0, NEW w \in Workers, Links(w), NEW s \in Subs, ss[s].st = "live", sub.stripeId = s
    PROVE  wk[w].ev.s = s
<1>1. wk[w].ev \in sent \ acked /\ wk[w].ev.type = "checkout"
    BY HandleDue DEF Handles, Links, Turns, Handling
<1>2. PICK c \in sent : c.type = "checkout" /\ c.s = s
    BY DEF FollowInv, StripeInv, HasCheckout, Begun
<1> SUFFICES ASSUME wk[w].ev.s # s PROVE FALSE  OBVIOUS
<1>3. wk[w].ev.id < c.id  BY <1>1, <1>2 DEF FollowInv, StripeInv, Apart
<1> QED BY <1>1, <1>2, <1>3 DEF FollowInv, LinkPast

\* What an event of another kind, or of another subscription, or none brings stays due.
LEMMA EndStays ==
    ASSUME IInv, OrderInv, FollowInv, outages' = 0, NEW w \in Workers, Handles(w),
           \A f \in sent : f.type = "updated" /\ Due(f) => Due(f)',
           NEW s \in Subs, NEW end, EndKnown(s, end)
    PROVE  EndKnown(s, end)'
<1>1. UNCHANGED <<ss, sent>>  BY HandleDue
<1>2. CASE end = ss[s].end  BY <1>1, <1>2 DEF EndKnown
<1>3. ASSUME NEW f \in sent, News(f, s), Due(f) PROVE EndKnown(s, end)'
    BY <1>1, <1>3 DEF EndKnown, News
<1>4. CASE InvoiceLast(s)  BY <1>1, <1>4 DEF EndKnown, InvoiceLast
<1> QED BY <1>2, <1>3, <1>4 DEF EndKnown

\* A delivery that writes nothing: it throws, or is answered after its write or for one of payments.
LEMMA QuietFollows ==
    ASSUME IInv, OrderInv, FollowInv, outages' = 0, NEW w \in Workers, Throws(w) \/ Answers(w)
    PROVE  FollowInv'
<1>0. Handles(w)  BY DEF Handles
<1>1. /\ UNCHANGED <<ss, sent, nsent, rq>> /\ acked \subseteq acked' /\ sub' = sub
      /\ \A v \in Workers : wk'[v].pc # "write"
      /\ StripeInv' /\ WritePinned' /\ Claimed'
    BY <1>0, HandleDue, HandleStripe DEF Throws, Answers
<1>2. ASSUME NEW f \in sent, f.type \in {"checkout", "updated", "deleted"}, Due(f) PROVE Due(f)'
    <2>1. f \in sent \ acked  BY <1>2 DEF Due
    <2>2. CASE f # wk[w].ev  BY <1>0, <2>1, <2>2, HandleDue
    <2>3. CASE Throws(w)
        <3>1. Release(w) /\ Busy(w)  BY <2>3 DEF Throws
        <3>2. \A v \in Workers : wk'[v].pc \notin {"tail", "publish"}
            <4> SUFFICES ASSUME NEW v \in Workers PROVE wk'[v].pc \notin {"tail", "publish"}  OBVIOUS
            <4>1. CASE v = w  BY <3>1, <4>1, IdleDelivery DEF Release, IInv, TypeOK, WorkerTypeOK
            <4>2. CASE v # w
                <5>1. wk'[v] = wk[v]  BY <3>1, <4>2 DEF Release, IInv, TypeOK, WorkerTypeOK
                <5>2. ~Busy(v)  BY <3>1, <4>2 DEF OrderInv, Alone
                <5> QED BY <5>1, <5>2 DEF Busy
            <4> QED BY <4>1, <4>2
        <3>3. acked' = acked  BY <3>1 DEF Release
        <3> QED BY <1>1, <2>1, <3>2, <3>3 DEF Due
    <2>4. CASE Answers(w) /\ f = wk[w].ev
        <3>1. wk[w].pc \notin {"tail", "publish"}  BY <1>2, <2>4 DEF Due
        <3> QED BY <1>2, <2>4, <3>1 DEF Answers, Handling
    <2> QED BY <2>2, <2>3, <2>4
<1>3. RowBegun' /\ LinkCurrent'  BY <1>1 DEF FollowInv, RowInv, RowBegun, LinkCurrent, Begun
<1>4. LinkPast'  BY <1>1 DEF FollowInv, LinkPast
<1>5. ASSUME NEW s \in Subs, NEW end, EndKnown(s, end) PROVE EndKnown(s, end)'
    BY <1>0, <1>2, <1>5, EndStays
<1>6. LiveFollowed'
    <2> SUFFICES ASSUME NEW s \in Subs, ss[s].st = "live"
                 PROVE  /\ sub.stripeId = s \/ \E c \in sent : c.type = "checkout" /\ c.s = s /\ Due(c)'
                        /\ sub.stripeId = s => sub.status \in {"active", "cancelled"} /\ EndKnown(s, sub.end)'
        BY <1>1 DEF LiveFollowed
    <2>1. /\ sub.stripeId = s \/ \E c \in sent : c.type = "checkout" /\ c.s = s /\ Due(c)
          /\ sub.stripeId = s => sub.status \in {"active", "cancelled"} /\ EndKnown(s, sub.end)
        BY DEF FollowInv, LiveFollowed
    <2>2. EndKnown(s, sub.end) => EndKnown(s, sub.end)'  BY <1>1, <1>5 DEF EndKnown
    <2> QED BY <1>2, <2>1, <2>2
<1>7. GoneFollowed'
    <2> SUFFICES ASSUME NEW s \in Subs, ss[s].st = "gone"
                 PROVE  \/ sub.stripeId = s => sub.status = "expired"
                        \/ \E d \in sent : d.type = "deleted" /\ d.s = s /\ Due(d)'
        BY <1>1 DEF GoneFollowed
    <2> QED BY <1>2 DEF FollowInv, GoneFollowed
<1> QED BY <1>1, <1>3, <1>4, <1>6, <1>7 DEF FollowInv, RowInv

\* An event about the subscription in the row brings a period end.
LEMMA PeriodFollows ==
    ASSUME IInv, OrderInv, FollowInv, outages' = 0, NEW w \in Workers, Bills(w) \/ Updates(w)
    PROVE  FollowInv'
<1>0. Handles(w)  BY DEF Handles
<1>1. /\ UNCHANGED <<ss, sent, nsent, rq>> /\ acked \subseteq acked'
      /\ wk[w].ev \in sent
      /\ \A f \in sent \ acked : f # wk[w].ev => Due(f)'
      /\ \A v \in Workers : wk'[v].pc # "write"
      /\ StripeInv' /\ WritePinned' /\ Claimed'
    BY <1>0, HandleDue, HandleStripe
<1>2. /\ wk[w].pc = "write" /\ wk[w].ev.type \in {"paid", "updated"}
      /\ sub'.stripeId = sub.stripeId /\ sub'.status \in {sub.status, "active", "cancelled"}
      /\ wk[w].ev.end # 0 => sub'.end = wk[w].ev.end
    BY DEF Bills, Updates, Turns, Handling, IInv, TypeOK, RowTypeOK, Row
<1>3. sub.stripeId = wk[w].ev.s /\ wk[w].ev.s \in Subs
    BY <1>1, <1>2 DEF OrderInv, Reading, IInv, EventShape
<1>4. RowBegun' /\ LinkCurrent'  BY <1>1, <1>2 DEF FollowInv, RowInv, RowBegun, LinkCurrent, Begun
<1>5. LinkPast'  BY <1>1, <1>2 DEF FollowInv, LinkPast
<1>6. LiveFollowed'
    <2> SUFFICES ASSUME NEW s \in Subs, ss[s].st = "live"
                 PROVE  /\ sub'.stripeId = s \/ \E c \in sent : c.type = "checkout" /\ c.s = s /\ Due(c)'
                        /\ sub'.stripeId = s => sub'.status \in {"active", "cancelled"} /\ EndKnown(s, sub.end)'
        BY <1>1 DEF LiveFollowed
    <2>1. /\ sub.stripeId = s \/ \E c \in sent : c.type = "checkout" /\ c.s = s /\ Due(c)
          /\ sub.stripeId = s => sub.status \in {"active", "cancelled"}
        BY DEF FollowInv, LiveFollowed
    <2>2. \A c \in sent : c.type = "checkout" /\ Due(c) => Due(c)'  BY <1>1, <1>2 DEF Due
    <2>3. ASSUME sub.stripeId = s PROVE EndKnown(s, sub.end)'
        <3>1. (wk[w].ev.end = ss[s].end /\ wk[w].ev.end # 0) \/ \A end : EndKnown(s, end)'
            BY <1>0, <1>2, <1>3, <2>3, PeriodKnown
        <3>2. CASE wk[w].ev.end = ss[s].end /\ wk[w].ev.end # 0
            BY <1>1, <1>2, <3>2 DEF EndKnown
        <3>3. CASE \A end : EndKnown(s, end)'
            BY <3>3 DEF EndKnown
        <3> QED BY <3>1, <3>2, <3>3
    <2> QED BY <1>2, <2>1, <2>2, <2>3
<1>7. GoneFollowed'
    <2> SUFFICES ASSUME NEW s \in Subs, ss[s].st = "gone", sub'.stripeId = s
                 PROVE  \E d \in sent : d.type = "deleted" /\ d.s = s /\ Due(d)'
        BY <1>1 DEF GoneFollowed
    <2>1. wk[w].ev.s = s /\ wk[w].ev.type \notin {"deleted", "refunded"}  BY <1>2, <1>3
    <2> QED BY <1>0, <2>1, DeletionDue
<1> QED BY <1>1, <1>4, <1>5, <1>6, <1>7 DEF FollowInv, RowInv

\* The subscription in the row is gone: the row expires or turns free.
LEMMA DeleteFollows ==
    ASSUME IInv, OrderInv, FollowInv, outages' = 0, NEW w \in Workers, Deletes(w)
    PROVE  FollowInv'
<1>0. Handles(w)  BY DEF Handles
<1>1. /\ UNCHANGED <<ss, sent, nsent, rq>> /\ acked \subseteq acked'
      /\ wk[w].ev \in sent
      /\ \A f \in sent \ acked : f # wk[w].ev => Due(f)'
      /\ \A v \in Workers : wk'[v].pc # "write"
      /\ StripeInv' /\ WritePinned' /\ Claimed'
    BY <1>0, HandleDue, HandleStripe
<1>2. /\ wk[w].pc = "write" /\ wk[w].ev.type = "deleted"
      /\ \/ sub'.stripeId = NoSub
         \/ sub'.stripeId = sub.stripeId /\ sub'.status = "expired"
    BY DEF Deletes, Turns, Handling
<1>3. sub.stripeId \in Subs /\ ss[sub.stripeId].st = "gone"
    BY <1>1, <1>2 DEF OrderInv, Reading, DeletedIsGone, IInv, EventShape
<1>4. RowBegun' /\ LinkCurrent'
    <2>1. \A r \in Reqs, s \in Subs : ~(rq[r].row.stripeId = s /\ ss[s].st = "live")
        BY <1>3 DEF FollowInv, RowInv, LinkCurrent
    <2> QED BY <1>1, <1>2, <2>1 DEF FollowInv, RowInv, RowBegun, LinkCurrent, Begun
<1>5. LinkPast'
    <2>1. \A c \in sent : c.type = "checkout" => c.s \in Subs  BY DEF IInv, EventShape
    <2> QED BY <1>1, <1>2, <2>1 DEF FollowInv, LinkPast
<1>6. LiveFollowed'
    <2> SUFFICES ASSUME NEW s \in Subs, ss[s].st = "live"
                 PROVE  /\ sub'.stripeId # s
                        /\ \E c \in sent : c.type = "checkout" /\ c.s = s /\ Due(c)'
        BY <1>1 DEF LiveFollowed
    <2>1. sub.stripeId # s  BY <1>3
    <2>2. \E c \in sent : c.type = "checkout" /\ c.s = s /\ Due(c)  BY <2>1 DEF FollowInv, LiveFollowed
    <2>3. \A c \in sent : c.type = "checkout" /\ Due(c) => Due(c)'  BY <1>1, <1>2 DEF Due
    <2> QED BY <1>2, <2>1, <2>2, <2>3
<1>7. GoneFollowed'
    <2> SUFFICES ASSUME NEW s \in Subs, ss[s].st = "gone",
                        ~(sub'.stripeId = s => sub'.status = "expired")
                 PROVE  FALSE
        BY <1>1 DEF GoneFollowed
    <2> QED BY <1>2
<1> QED BY <1>1, <1>4, <1>5, <1>6, <1>7 DEF FollowInv, RowInv

\* A completed Checkout Session links the row.
LEMMA LinkFollows ==
    ASSUME IInv, OrderInv, FollowInv, outages' = 0, NEW w \in Workers, Links(w)
    PROVE  FollowInv'
<1>0. Handles(w)  BY DEF Handles
<1>1. /\ UNCHANGED <<ss, sent, nsent, rq>> /\ acked \subseteq acked'
      /\ wk[w].ev \in sent /\ \A f \in sent : f.id < wk[w].ev.id => f \in acked
      /\ \A f \in sent \ acked : f # wk[w].ev => Due(f)'
      /\ \A v \in Workers : wk'[v].pc # "write"
      /\ StripeInv' /\ WritePinned' /\ Claimed'
    BY <1>0, HandleDue, HandleStripe
<1>2. PICK t : t = wk[w].ev.s  OBVIOUS
<1>3. PICK end : end = wk[w].end  OBVIOUS
<1>4. /\ wk[w].pc = "write" /\ wk[w].ev.type = "checkout"
      /\ sub'.stripeId = t /\ sub'.status = "active" /\ sub'.end = end
    BY <1>2, <1>3 DEF Links, Turns, Handling
<1>5. t \in Subs /\ Begun(t)  BY <1>1, <1>2, <1>4 DEF IInv, EventShape, FollowInv, StripeInv, EventBegun
<1>6. \A s \in Subs : ss[s].st = "live" /\ sub.stripeId = s => t = s  BY <1>2, LinkSteady
<1>7. RowBegun' /\ LinkCurrent'
    <2>1. RowBegun'  BY <1>1, <1>4, <1>5 DEF FollowInv, RowInv, RowBegun, Begun
    <2>2. LinkCurrent'  BY <1>1, <1>4, <1>6 DEF FollowInv, RowInv, LinkCurrent
    <2> QED BY <2>1, <2>2
<1>8. LinkPast'
    <2> SUFFICES ASSUME NEW c \in sent, NEW e \in sent, c.type = "checkout", c.s = t, e.id < c.id PROVE e \in acked
        BY <1>1, <1>4 DEF LinkPast
    <2>1. c = wk[w].ev
        <3> SUFFICES ASSUME c # wk[w].ev PROVE FALSE  OBVIOUS
        <3>1. c.id < wk[w].ev.id /\ wk[w].ev.id < c.id
            BY <1>1, <1>2, <1>4 DEF FollowInv, StripeInv, CheckoutFirst, About
        <3>2. c.id \in Nat /\ wk[w].ev.id \in Nat  BY <1>1 DEF IInv, TypeOK, EventTypeOK, Event
        <3> QED BY <3>1, <3>2
    <2> QED BY <1>1, <2>1
<1>9. LiveFollowed'
    <2> SUFFICES ASSUME NEW s \in Subs, ss[s].st = "live"
                 PROVE  /\ sub'.stripeId = s \/ \E c \in sent : c.type = "checkout" /\ c.s = s /\ Due(c)'
                        /\ sub'.stripeId = s => EndKnown(s, sub.end)'
        BY <1>1, <1>4 DEF LiveFollowed
    <2>1. /\ sub.stripeId = s \/ \E c \in sent : c.type = "checkout" /\ c.s = s /\ Due(c)
          /\ t = s => EndKnown(s, end)
        BY <1>2, <1>3, <1>4 DEF FollowInv, LiveFollowed
    <2>2. sub'.stripeId = s \/ \E c \in sent : c.type = "checkout" /\ c.s = s /\ Due(c)'
        <3>1. CASE sub.stripeId = s  BY <1>4, <1>6, <3>1
        <3>2. ASSUME NEW c \in sent, c.type = "checkout", c.s = s, Due(c), t # s PROVE Due(c)'
            BY <1>1, <1>2, <3>2 DEF Due
        <3> QED BY <1>4, <2>1, <3>1, <3>2
    <2>3. t = s => EndKnown(s, end)'
        <3>1. \A f \in sent : f.type = "updated" /\ Due(f) => Due(f)'  BY <1>1, <1>4 DEF Due
        <3> QED BY <1>0, <2>1, <3>1, EndStays
    <2> QED BY <1>4, <2>2, <2>3 DEF EndKnown
<1>10. GoneFollowed'
    <2> SUFFICES ASSUME NEW s \in Subs, ss[s].st = "gone", sub'.stripeId = s
                 PROVE  \E d \in sent : d.type = "deleted" /\ d.s = s /\ Due(d)'
        BY <1>1 DEF GoneFollowed
    <2>1. wk[w].ev.s = s /\ wk[w].ev.type \notin {"deleted", "refunded"}  BY <1>2, <1>4
    <2> QED BY <1>0, <2>1, DeletionDue
<1> QED BY <1>1, <1>7, <1>8, <1>9, <1>10 DEF FollowInv, RowInv

\* A delivery claims its event: its handler returns early, or reads what it decides on.
LEMMA DeliverFollows ==
    ASSUME IInv, OrderInv, FollowInv, InTurn, NEW w \in Workers, DeliverStep(w)
    PROVE  FollowInv'
<1>1. PICK e \in sent : DeliverDuplicate(w, e) \/ Claim(w, e)  BY DEF DeliverStep
<1>2. ~DeliverDuplicate(w, e)
    <2> SUFFICES ASSUME DeliverDuplicate(w, e) PROVE FALSE  OBVIOUS
    <2>1. e \in claims /\ e \notin acked /\ ~InProgress(e)  BY DEF DeliverDuplicate, Deliverable, InTurn
    <2> QED BY <2>1 DEF FollowInv, Claimed
<1>3. /\ Claim(w, e) /\ UNCHANGED <<ss, sent, nsent, sub, rq>> /\ claims' = claims \cup {e}
      /\ e \notin acked /\ \A f \in sent : f.id < e.id => f \in acked
    BY <1>1, <1>2 DEF Claim, Deliverable, InTurn, stripeVars, dbVars
<1>4. \A v \in Workers : ~Busy(v)  BY <1>3, ClaimsAlone DEF Claim
<1>5. \A g \in claims : g \in acked  BY <1>4 DEF FollowInv, Claimed, InProgress, Busy
<1>6. StripeInv' /\ WritePinned'  BY <1>3, HandleStripe
<1>7. RowBegun' /\ LinkCurrent'  BY <1>3 DEF FollowInv, RowInv, RowBegun, LinkCurrent, Begun
<1>8. CASE HandlerSkips(e)
    <2>1. acked' = acked \cup {e} /\ wk' = wk  BY <1>3, <1>8 DEF Claim
    <2>2. Claimed'  BY <1>3, <1>5, <2>1 DEF Claimed
    <2>3. LinkPast'  BY <1>3, <2>1 DEF FollowInv, LinkPast
    <2>4. e.type # "checkout" /\ (e.type \in {"updated", "deleted"} => sub.stripeId # e.s)
        BY <1>8 DEF HandlerSkips
    <2>5. \A f \in sent : f # e /\ Due(f) => Due(f)'  BY <1>3, <2>1 DEF Due
    <2>6. LiveFollowed'
        <3> SUFFICES ASSUME NEW s \in Subs, ss[s].st = "live"
                     PROVE  /\ sub.stripeId = s \/ \E c \in sent : c.type = "checkout" /\ c.s = s /\ Due(c)'
                            /\ sub.stripeId = s => sub.status \in {"active", "cancelled"} /\ EndKnown(s, sub.end)'
            BY <1>3, <1>4, <2>1 DEF LiveFollowed, Busy
        <3>1. /\ sub.stripeId = s \/ \E c \in sent : c.type = "checkout" /\ c.s = s /\ Due(c)
              /\ sub.stripeId = s => sub.status \in {"active", "cancelled"} /\ EndKnown(s, sub.end)
            BY DEF FollowInv, LiveFollowed
        <3>2. ASSUME sub.stripeId = s PROVE EndKnown(s, sub.end)'
            <4>1. \A f \in sent : News(f, s) => f # e  BY <2>4, <3>2 DEF News
            <4>2. \A f \in sent : News(f, s) => News(f, s)'  BY <1>3 DEF News
            <4> QED BY <1>3, <2>5, <3>1, <3>2, <4>1, <4>2 DEF EndKnown, InvoiceLast
        <3> QED BY <2>4, <2>5, <3>1, <3>2
    <2>7. GoneFollowed'
        <3> SUFFICES ASSUME NEW s \in Subs, ss[s].st = "gone", sub.stripeId = s, sub.status # "expired"
                     PROVE  \E d \in sent : d.type = "deleted" /\ d.s = s /\ Due(d)'
            BY <1>3 DEF GoneFollowed
        <3> QED BY <2>4, <2>5 DEF FollowInv, GoneFollowed
    <2> QED BY <1>6, <1>7, <2>2, <2>3, <2>6, <2>7 DEF FollowInv, RowInv
<1>9. CASE ~HandlerSkips(e)
    <2>1. wk' = [wk EXCEPT ![w] = Dispatched(e)] /\ acked' = acked  BY <1>3, <1>9 DEF Claim
    <2>2. /\ wk'[w] = Dispatched(e) /\ \A v \in Workers \ {w} : wk'[v] = wk[v]
        BY <2>1 DEF IInv, TypeOK, WorkerTypeOK
    <2>3. /\ wk'[w].pc = "write" /\ wk'[w].ev = e
          /\ e.type = "checkout" => wk'[w].end = ss[e.s].end
          /\ \A v \in Workers \ {w} : wk'[v].pc = "idle"
        BY <1>4, <2>2 DEF Dispatched, Busy
    <2>4. Claimed'
        <3>1. InProgress(e)'  BY <2>3 DEF InProgress
        <3> QED BY <1>3, <1>5, <2>1, <3>1 DEF Claimed
    <2>5. LinkPast'  BY <1>3, <2>1 DEF FollowInv, LinkPast
    <2>6. \A f \in sent : Due(f) => Due(f)'  BY <1>3, <2>1, <2>3 DEF Due
    <2>7. LiveFollowed'
        <3> SUFFICES ASSUME NEW s \in Subs, ss[s].st = "live"
                     PROVE  /\ sub.stripeId = s \/ \E c \in sent : c.type = "checkout" /\ c.s = s /\ Due(c)'
                            /\ sub.stripeId = s => sub.status \in {"active", "cancelled"} /\ EndKnown(s, sub.end)'
                            /\ \A v \in Workers :
                                  wk'[v].pc = "write" /\ wk'[v].ev.type = "checkout" /\ wk'[v].ev.s = s
                                     => wk'[v].end = ss[s].end
            BY <1>3 DEF LiveFollowed, EndKnown
        <3>1. /\ sub.stripeId = s \/ \E c \in sent : c.type = "checkout" /\ c.s = s /\ Due(c)
              /\ sub.stripeId = s => sub.status \in {"active", "cancelled"} /\ EndKnown(s, sub.end)
            BY DEF FollowInv, LiveFollowed
        <3>2. ASSUME EndKnown(s, sub.end) PROVE EndKnown(s, sub.end)'
            <4>1. \A f \in sent : News(f, s) => News(f, s)'  BY <1>3 DEF News
            <4> QED BY <1>3, <2>6, <3>2, <4>1 DEF EndKnown, InvoiceLast
        <3>3. \A v \in Workers : wk'[v].pc = "write" => v = w  BY <2>3
        <3> QED BY <2>3, <2>6, <3>1, <3>2, <3>3
    <2>8. GoneFollowed'
        <3> SUFFICES ASSUME NEW s \in Subs, ss[s].st = "gone"
                     PROVE  \/ sub.stripeId = s => sub.status = "expired"
                            \/ \E d \in sent : d.type = "deleted" /\ d.s = s /\ Due(d)'
            BY <1>3 DEF GoneFollowed
        <3> QED BY <2>6 DEF FollowInv, GoneFollowed
    <2> QED BY <1>6, <1>7, <2>4, <2>5, <2>7, <2>8 DEF FollowInv, RowInv
<1> QED BY <1>8, <1>9

\* Outages are counted, never forgotten.
LEMMA OutagesStay ==
    ASSUME IInv, [Next]_vars, outages' = 0
    PROVE  outages = 0 /\ ~Crash
<1>0. outages \in Nat  BY DEF IInv, TypeOK, ScalarTypeOK
<1>1. outages' \in {outages, outages + 1} /\ (Crash => outages' = outages + 1)
    <2>1. ASSUME StripeStep PROVE outages' = outages
        BY <2>1 DEF StripeStep, Tick, RetrySucceeds, Ends, RenewalFails, Renews, CheckoutPaid, counters
    <2>2. ASSUME NEW w \in Workers, HandlerStep(w) \/ DeliverStep(w) \/ HandlerThrows(w)
          PROVE  outages' \in {outages, outages + 1}
        BY <2>2 DEF HandlerStep, DeliverStep, handleCheckoutSessionCompleted, CheckoutTail, handleInvoicePaymentSucceeded,
                    handleInvoicePaymentFailed, handleSubscriptionUpdated, handleSubscriptionDeleted, PublishPlanChanged,
                    handleChargeRefunded, DeliverDuplicate, Claim, HandlerThrows, Release, counters
    <2>3. ASSUME NEW r \in Reqs, RequestStart(r) PROVE outages' = outages
        BY <2>3 DEF RequestStart, ActivateFree, cancelSubscription, upgradeSubscription, downgradeSubscription,
                    createProCheckoutSession, refundSubscription
    <2>4. ASSUME NEW r \in Reqs, RequestStep(r) PROVE outages' = outages
        BY <2>4 DEF RequestStep, ActivateFreeCommit, PlanChangeAtStripe, PlanChangeCommit, StripeRefuses, RequestFails,
                    RefundLock, RefundFlip, RefundAtStripe, RefundCallFails, RefundRestore, RefundCape, RefundSchedule,
                    RefundStepFails, RefundUnlock, counters
    <2>5. ASSUME NEW i \in Intents, LockExpires(i) PROVE outages' = outages  BY <2>5 DEF LockExpires, counters
    <2>6. ASSUME UNCHANGED vars PROVE outages' = outages  BY <2>6 DEF vars, counters
    <2>7. Crash => outages' = outages + 1  BY DEF Crash
    <2> QED BY <2>1, <2>2, <2>3, <2>4, <2>5, <2>6, <2>7 DEF Next
<1> QED BY <1>0, <1>1

\* Every step keeps the row behind Stripe, until a claim is left behind.
LEMMA FollowStep ==
    ASSUME IInv, OrderInv, FollowInv, Settling, OneLive, OneLive', [Next]_vars, outages' = 0
    PROVE  FollowInv'
<1>0. InTurn /\ ~Crash  BY OutagesStay DEF Settling
<1>1. CASE StripeMoves
    BY <1>1, OpenFollows, RefundFollows, BeginFollows, GoFollows, CloseFollows DEF StripeMoves
<1>2. ASSUME NEW w \in Workers, Handles(w) PROVE FollowInv'
    BY <1>2, QuietFollows, PeriodFollows, DeleteFollows, LinkFollows DEF Handles
<1> QED BY <1>0, <1>1, <1>2, StepIs, StillFollows, ChangeFollows, DeliverFollows

\* No subscription exists at first.
LEMMA FollowInit == Init => FollowInv
<1> SUFFICES ASSUME Init PROVE FollowInv  OBVIOUS
<1>1. /\ sent = {} /\ claims = {} /\ sub.stripeId = NoSub
      /\ \A s \in Subs : ss[s].st = "none"
      /\ \A r \in Reqs : rq[r].pc = "idle" /\ rq[r].row.stripeId = NoSub
      /\ NoSub \notin Subs
    BY DEF Init, NoRow, NoStripeSub, IdleRequest
<1>2. StripeInv
    BY <1>1 DEF StripeInv, EventBegun, HasCheckout, HasDeletion, CheckoutFirst, DeletionLast, Apart, EndSet,
                EndAnnounced, Begun
<1>3. RowInv  BY <1>1 DEF RowInv, RowBegun, LinkCurrent, WritePinned
<1> QED BY <1>1, <1>2, <1>3 DEF FollowInv, Claimed, LinkPast, LiveFollowed, GoneFollowed

\* When nothing is in flight nothing is due, so the row has what Stripe bills.
LEMMA FollowConverges ==
    ASSUME IInv, outages = 0 => FollowInv
    PROVE  Converged
<1> SUFFICES ASSUME FollowInv, Quiescent, sub.stripeId \in Subs
             PROVE  IF ss[sub.stripeId].st = "live"
                    THEN \/ getEffectivePlan(sub, now) = "pro"
                         \/ sub.status = "cancelled" /\ InvoiceLast(sub.stripeId)
                    ELSE getEffectivePlan(sub, now) = "free"
    BY DEF Converged
<1> DEFINE s == sub.stripeId
<1>1. \A e : ~Due(e)  BY DEF Quiescent, Due
<1>2. Begun(s)  BY DEF FollowInv, RowInv, RowBegun
<1>3. CASE ss[s].st = "live"
    <2>1. sub.status \in {"active", "cancelled"} /\ EndKnown(s, sub.end) /\ ss[s].end # 0
        BY <1>3 DEF FollowInv, LiveFollowed, StripeInv, EndSet
    <2>2. sub.end = ss[s].end \/ InvoiceLast(s)  BY <1>1, <2>1 DEF EndKnown
    <2>3. ~(ss[s].end <= now)  BY <1>3 DEF Quiescent, PeriodOver
    <2>4. ss[s].end \in Nat /\ now \in Nat  BY DEF IInv, TypeOK, StripeTypeOK, StripeSub, ScalarTypeOK
    <2>5. sub.end = ss[s].end => sub.end # 0 /\ sub.end > now  BY <2>1, <2>3, <2>4
    <2>6. sub.plan = "pro"  BY DEF IInv, LinkedRow
    <2> QED BY <1>3, <2>1, <2>2, <2>5, <2>6 DEF getEffectivePlan, isSubscriptionEffectivelyActive
<1>4. CASE ss[s].st = "gone"
    <2>1. sub.status = "expired"  BY <1>1, <1>4 DEF FollowInv, GoneFollowed
    <2> QED BY <1>4, <2>1 DEF getEffectivePlan, isSubscriptionEffectivelyActive
<1> QED BY <1>2, <1>3, <1>4 DEF Begun

\* When everything has settled the row gives the plan that Stripe bills, for every number of deliveries,
\* requests of every kind, subscriptions one after the other, and failures of handlers and requests:
\* given that Stripe delivers in order, no period turns between a plan change at Stripe and its local
\* write, and the customer never pays a second Checkout Session while a subscription is live. What
\* Converged excuses, a claim left behind and a cancelled row with the period of an invoice, stays
\* excused.
THEOREM RowConverges ==
    ASSUME InOrder, ~Redelivery, QuickRequests
    PROVE  Spec /\ []OneLive => []Converged
<1>0. Settling /\ InTurn  BY DEF Settling, InTurn
<1> DEFINE Follows == outages = 0 => FollowInv
<1>1. Init => OrderInv /\ Follows  BY OrderInit, FollowInit
<1>2. IInv /\ OrderInv /\ Follows /\ OneLive /\ OneLive' /\ [Next]_vars => OrderInv' /\ Follows'
    <2> SUFFICES ASSUME IInv, OrderInv, Follows, OneLive, OneLive', [Next]_vars PROVE OrderInv' /\ Follows'
        OBVIOUS
    <2>1. OrderInv'  BY <1>0, OrderStep
    <2>2. ASSUME outages' = 0 PROVE FollowInv'  BY <1>0, <2>2, OutagesStay, FollowStep
    <2> QED BY <2>1, <2>2
<1>3. IInv /\ Follows => Converged  BY FollowConverges
<1> HIDE DEF Follows
<1> QED BY <1>1, <1>2, <1>3, Invariance, PTL DEF Spec
=============================================================================
