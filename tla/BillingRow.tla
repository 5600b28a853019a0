----------------------------- MODULE BillingRow -----------------------------
(***************************************************************************)
(* The rows the billing code writes, and the pure functions on them: the   *)
(* user's single `subscription` row (Subscription.userId is unique), a     *)
(* `payment` row, and the data each API call or Stripe webhook passes to   *)
(* Prisma's update / upsert / create.                                      *)
(*                                                                         *)
(* A database null is "none" (plan, cycle and status names), NoSub         *)
(* (stripeSubscriptionId) or 0 (currentPeriodEnd; every real end is > 0).  *)
(* currentPeriodStart and stripeCustomerId are written together with the   *)
(* end and the subscription id and carry no decision: they are left out.   *)
(***************************************************************************)
EXTENDS Naturals

CONSTANTS Subs,     \* Stripe subscription ids
          NoSub     \* the null stripeSubscriptionId

ASSUME NoSubAssumption == NoSub \notin Subs

Plans     == {"none", "free", "pro"}
Cycles    == {"none", "monthly", "yearly"}
Statuses  == {"none", "active", "cancelled", "expired"}
PayStatus == {"none", "succeeded", "failed", "refunded"}

\* plan = "none": the user has no subscription row.
Row == [plan : Plans, cycle : Cycles, status : Statuses, stripeId : Subs \cup {NoSub},
        end : Nat, schedPlan : Plans, schedCycle : Cycles]

NoRow == [plan |-> "none", cycle |-> "none", status |-> "none", stripeId |-> NoSub,
          end |-> 0, schedPlan |-> "none", schedCycle |-> "none"]

\* status = "none": no payment row with this PaymentIntent id.
Payment == [status : PayStatus, refundAvailable : BOOLEAN, createdAt : Nat]

NoPayment == [status |-> "none", refundAvailable |-> FALSE, createdAt |-> 0]

-----------------------------------------------------------------------------
(* Reads *)

isSubscriptionEffectivelyActive(row, now) ==
    \/ row.status = "active"
    \/ row.status = "cancelled" /\ row.end # 0 /\ row.end > now

getEffectivePlan(row, now) ==
    IF row.plan # "none" /\ isSubscriptionEffectivelyActive(row, now) THEN row.plan ELSE "free"

HasScheduledChange(row) == row.schedPlan # "none" \/ row.schedCycle # "none"

hasPendingState(row) == row.status = "cancelled" \/ HasScheduledChange(row)

-----------------------------------------------------------------------------
(* Writes to the subscription row *)

createFreeSubscription == [NoRow EXCEPT !.plan = "free", !.status = "active"]

\* Mutant: Stripe's own status is stored.
upsertSubscriptionFromCheckout_StripeStatus(s, cycle, end) ==
    [plan |-> "pro", cycle |-> cycle, status |-> "trialing", stripeId |-> s,
     end |-> end, schedPlan |-> "none", schedCycle |-> "none"]

upsertSubscriptionFromCheckout(s, cycle, end) ==
    [plan |-> "pro", cycle |-> cycle, status |-> "active", stripeId |-> s,
     end |-> end, schedPlan |-> "none", schedCycle |-> "none"]

\* Mutant: the Stripe subscription id is left on the row.
applyScheduledDowngrade_KeepsStripeId(row) == [createFreeSubscription EXCEPT !.stripeId = row.stripeId]

applyScheduledDowngrade(row) == createFreeSubscription

\* Mutant: a cancellation at period end expires the row at once.
SubscriptionUpdatedWrite_ExpiresNow(read, row, cape, end) ==
    [row EXCEPT !.end = end, !.status = IF cape THEN "expired" ELSE "active"]

\* The write of customer.subscription.updated. `read` is the row the handler read
\* first, `row` the row as it is when the update reaches the database.
SubscriptionUpdatedWrite(read, row, cape, end) ==
    [row EXCEPT !.end = IF end # 0 THEN end ELSE @,
                !.status = IF cape /\ read.status = "active" THEN "cancelled"
                           ELSE IF ~cape /\ read.status = "cancelled" THEN "active"
                           ELSE @]

\* Mutant: the scheduled downgrade is applied, but a deletion nobody scheduled is ignored.
SubscriptionDeletedWrite_OnlyScheduled(read, row) ==
    IF read.schedPlan = "free" THEN applyScheduledDowngrade(row) ELSE row

SubscriptionDeletedWrite(read, row) ==
    IF read.schedPlan = "free" THEN applyScheduledDowngrade(row)
    ELSE [row EXCEPT !.status = "expired"]

\* The local write that ends each kind of plan-change request.
PlanChangeWrite(kind, row, end) ==
    CASE kind = "toYearly"      -> [row EXCEPT !.cycle = "yearly", !.end = end, !.status = "active",
                                               !.schedPlan = "none", !.schedCycle = "none"]
      [] kind = "reactivate"    -> [row EXCEPT !.status = "active",
                                               !.schedPlan = "none", !.schedCycle = "none"]
      [] kind = "downgradeFree" -> [row EXCEPT !.schedPlan = "free", !.schedCycle = "none"]
      [] kind = "toMonthly"     -> [row EXCEPT !.schedCycle = "monthly"]
      [] kind = "cancel"        -> [row EXCEPT !.status = "cancelled"]

-----------------------------------------------------------------------------
(* Writes to a payment row, keyed by the unique stripePaymentIntentId *)

\* Mutant: the upsert overwrites the row the sibling event wrote.
PaidUpsert_Overwrites(p, now) == [status |-> "succeeded", refundAvailable |-> TRUE, createdAt |-> now]

PaidUpsert(p, now) ==
    IF p.status = "none"
    THEN [status |-> "succeeded", refundAvailable |-> TRUE, createdAt |-> now]
    ELSE p

FailedUpsert(p, now) ==
    IF p.status = "none"
    THEN [status |-> "failed", refundAvailable |-> FALSE, createdAt |-> now]
    ELSE p

\* The flag alone: cleared before the Stripe refund, set back when it failed.
SetRefundAvailable(p, b) == [p EXCEPT !.refundAvailable = b]

RefundedUpdate(p) == [p EXCEPT !.status = "refunded", !.refundAvailable = FALSE]

RefundEligible(p, now, window) ==
    /\ p.refundAvailable
    /\ p.status = "succeeded"
    /\ now - p.createdAt <= window
=============================================================================
