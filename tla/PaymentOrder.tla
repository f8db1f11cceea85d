---------------------------- MODULE PaymentOrder ----------------------------
(***************************************************************************)
(* One payment order through its life: checkout, the provider's webhooks,  *)
(* the reconcile and expiry workers, the user's cancellation and the       *)
(* administrator's refund.                                                 *)
(*                                                                         *)
(* Every operation reads the order, decides on that copy, and writes the   *)
(* whole row back (UpdateOrder is unconditional), with calls to the        *)
(* provider, to the user's balance, to the ledger and to the subscriptions *)
(* in between; nothing is one transaction.  Each call is a step.  Orders   *)
(* share nothing but the user, so one order is modelled.                   *)
(***************************************************************************)
EXTENDS Integers, FiniteSets, FiniteSetsExt

CONSTANTS
    Jobs,           \* requests and workers that may be under way at once
    Amount,         \* what the order costs and credits
    RefundAmounts,  \* what an administrator may refund
    Products,       \* product types sold
    MaxRefunds,     \* bound: refunds requested
    MaxFaults       \* bound: failed statements and calls, crashes

ASSUME JobsAssumption == IsFiniteSet(Jobs)
ASSUME AmountAssumption == Amount \in Nat \ {0} /\ RefundAmounts \subseteq 1..Amount
ASSUME ProductsAssumption == Products \subseteq {"balance_credit", "subscription_plan"}
ASSUME BoundsAssumption == MaxRefunds \in Nat /\ MaxFaults \in Nat

VARIABLES
    order,        \* payment_orders: status and pending_refund_amount
    product,
    expired,      \* expires_at has passed
    promo,        \* the order's promo code: "none", "applied", "released"
    audit,        \* webhook keys in payment_audit_logs
    provider,     \* the provider's payment: "none", "open", "paid", "failed"
    refundAt,     \* the provider's refund of each amount
    credits,      \* balance credits given for the order
    booked,       \* payment_credit ledger entries
    subs,         \* subscriptions created from the order
    debited,      \* balance taken back
    events,       \* "paid" and "refunded" events in the outbox
    job,          \* the operation under way in each slot: its next step, its
                  \* copy of the order, what it heard from the provider
    contested,    \* history: two operations overlapped
    dropped,      \* history: a recorded paid webhook was cut short, or fulfilment failed
    interrupted,  \* history: an operation was cut short between debit and write
    refunds, faults

money == <<credits, booked, subs, debited, events>>
outside == <<product, expired, provider, refundAt>>
history == <<contested, dropped, interrupted>>
bounds == <<refunds, faults>>
vars == <<order, promo, audit, outside, money, job, history, bounds>>

Statuses == {"absent", "pending", "paid", "fulfilled", "fulfillment_failed", "expired", "canceled",
             "failed", "refunding", "refund_failed", "partially_refunded", "refunded"}
NoOrder == [status |-> "absent", refund |-> 0]
NoJob == [pc |-> "idle", copy |-> NoOrder, orig |-> NoOrder, news |-> "none", amt |-> 0]

Init ==
    /\ order = NoOrder
    /\ product \in Products
    /\ expired = FALSE
    /\ promo = "none"
    /\ audit = {}
    /\ provider = "none" /\ refundAt = [a \in RefundAmounts |-> "none"]
    /\ credits = 0 /\ booked = 0 /\ subs = 0 /\ debited = 0 /\ events = {}
    /\ job = [j \in Jobs |-> NoJob]
    /\ contested = FALSE /\ dropped = FALSE /\ interrupted = FALSE
    /\ refunds = 0 /\ faults = 0

-----------------------------------------------------------------------------
(* The provider and the clock. *)

\* The provider's answer is final: an order it declined is not paid later.
Pays ==
    /\ provider = "open"
    /\ provider' \in {"paid", "failed"}
    /\ UNCHANGED <<order, promo, audit, product, expired, refundAt, money, job, history, bounds>>

SettlesRefund(a) ==
    /\ refundAt[a] = "processing"
    /\ \E outcome \in {"refunded", "refund_failed"} : refundAt' = [refundAt EXCEPT ![a] = outcome]
    /\ UNCHANGED <<order, promo, audit, product, expired, provider, money, job, history, bounds>>

PassDeadline ==
    /\ order.status # "absent" /\ ~expired
    /\ expired' = TRUE
    /\ UNCHANGED <<order, promo, audit, product, provider, refundAt, money, job, history, bounds>>

\* What the provider has to announce: its payment, and each of its refunds.
News == {<<p, 0>> : p \in {provider} \cap {"paid", "failed"}}
        \cup {<<refundAt[a], a>> : a \in {b \in RefundAmounts : refundAt[b] \in {"refunded", "refund_failed"}}}

-----------------------------------------------------------------------------
Successors(from) ==
    CASE from = "pending" -> {"paid", "expired", "canceled", "failed"}
      [] from = "paid" -> {"fulfilled", "fulfillment_failed", "partially_refunded", "refunding", "refunded"}
      [] from = "fulfillment_failed" -> {"fulfilled", "refunding", "refunded"}
      [] from = "fulfilled" -> {"partially_refunded", "refunding", "refunded"}
      [] from = "refunding" -> {"partially_refunded", "refunded", "refund_failed"}
      [] from = "refund_failed" -> {"refunding"}
      [] from = "partially_refunded" -> {"refunding", "refunded"}
      [] OTHER -> {}

validateTransition(from, to) == from = to \/ to \in Successors(from)

At(j, pc) == job[j].pc = pc
Goto(j, pc) == job' = [job EXCEPT ![j].pc = pc]
Return(j) == job' = [job EXCEPT ![j] = NoJob]

\* An operation starts with a read of the order.
Begin(j, pc, news, amt) ==
    /\ At(j, "idle")
    /\ job' = [job EXCEPT ![j] = [NoJob EXCEPT !.pc = pc, !.copy = order, !.news = news, !.amt = amt]]
    /\ contested' = (contested \/ \E k \in Jobs : ~At(k, "idle"))

\* A worker's pass, of which the leader gate admits one at a time.
Running(worker) == \E k \in Jobs : job[k].news = worker

\* UpdateOrder: the caller's copy, with a new status, replaces the row.
UpdateOrder(j, status, pc) ==
    LET row == [job[j].copy EXCEPT !.status = status] IN
    /\ order' = row
    /\ job' = [job EXCEPT ![j] = IF pc = "idle" THEN NoJob ELSE [@ EXCEPT !.copy = row, !.pc = pc]]

-----------------------------------------------------------------------------
(* Checkout, cancellation and expiry. *)

\* CreateOrder: the row and the promo code in one transaction, ...
CreateOrder(j) ==
    /\ At(j, "idle") /\ order.status = "absent"
    /\ order' = [status |-> "pending", refund |-> 0]
    /\ promo' = "applied"
    /\ job' = [job EXCEPT ![j] = [NoJob EXCEPT !.pc = "session", !.copy = order']]
    /\ UNCHANGED <<audit, outside, money, history, bounds>>

\* ... then the provider's session, after which the user can pay, ...
CreateSession(j) ==
    /\ At(j, "session")
    /\ provider' = "open"
    /\ Goto(j, "attach")
    /\ UNCHANGED <<order, promo, audit, product, expired, refundAt, money, history, bounds>>

\* ... then the copy again, with the session attached.
AttachCheckout(j) ==
    /\ At(j, "attach")
    /\ UpdateOrder(j, job[j].copy.status, "idle")
    /\ UNCHANGED <<promo, audit, outside, money, history, bounds>>

ReadToCancel(j) ==
    /\ order.status # "absent" /\ validateTransition(order.status, "canceled")
    /\ Begin(j, "cancel", "none", 0)
    /\ UNCHANGED <<order, promo, audit, outside, money, dropped, interrupted, bounds>>

CancelOrder(j) ==
    /\ At(j, "cancel")
    /\ UpdateOrder(j, "canceled", "releasePromo")
    /\ UNCHANGED <<promo, audit, outside, money, history, bounds>>

\* ReleasePromoCode, after the write that closed the order.
ReleasePromoCode(j) ==
    /\ At(j, "releasePromo")
    /\ promo' = "released"
    /\ Return(j)
    /\ UNCHANGED <<order, audit, outside, money, history, bounds>>

ListExpiredPendingOrders(j) ==
    /\ order.status = "pending" /\ expired /\ ~Running("expiry")
    /\ Begin(j, "expire", "expiry", 0)
    /\ UNCHANGED <<order, promo, audit, outside, money, dropped, interrupted, bounds>>

\* ExpireOrder is conditional on the stored status.
ExpireOrder(j) ==
    /\ At(j, "expire")
    /\ \/ /\ order.status = "pending"
          /\ order' = [order EXCEPT !.status = "expired"]
          /\ Goto(j, "releasePromo")
       \/ /\ order.status # "pending"
          /\ Return(j)
          /\ UNCHANGED order
    /\ UNCHANGED <<promo, audit, outside, money, history, bounds>>

-----------------------------------------------------------------------------
(* Webhooks and reconciliation. *)

\* A delivery, or redelivery, of what the provider has to announce.
Webhook(j, news) ==
    /\ order.status # "absent" /\ news \in News
    /\ Begin(j, "audit", news[1], news[2])
    /\ UNCHANGED <<order, promo, audit, outside, money, dropped, interrupted, bounds>>

\* Mutant: a refund completes whatever the order's status.
RefundStepAnyStatus(copy, succeeded) ==
    IF copy.refund = 0 THEN "idle"
    ELSE IF ~succeeded THEN "refundFailed"
    ELSE IF product = "balance_credit" THEN "debit" ELSE "refunded"

\* completePendingRefund's first step for a copy, or none.
RefundStep(copy, succeeded) ==
    IF copy.status # "refunding" \/ copy.refund = 0 THEN "idle"
    ELSE IF ~succeeded THEN "refundFailed"
    ELSE IF product = "balance_credit" THEN "debit" ELSE "refunded"

\* Mutant: a paid webhook revives an order that was paid already.
WebhookStepRepays(copy, news) ==
    CASE news = "paid" -> IF copy.status = "pending" THEN "pay" ELSE "revive"
      [] news = "failed" -> IF copy.status = "pending" THEN "markFailed" ELSE "idle"
      [] OTHER -> RefundStep(copy, news = "refunded")

\* Mutant: closed orders are not revived.
WebhookStepNoRevival(copy, news) ==
    CASE news = "paid" -> IF copy.status = "pending" THEN "pay" ELSE "idle"
      [] news = "failed" -> IF copy.status = "pending" THEN "markFailed" ELSE "idle"
      [] OTHER -> RefundStep(copy, news = "refunded")

\* The branch HandleWebhook takes, on the order it read before the audit row.
WebhookStep(copy, news) ==
    CASE news = "paid" -> IF copy.status \in {"fulfilled", "paid"} THEN "idle"
                          ELSE IF copy.status \in {"expired", "canceled"} THEN "revive"
                          ELSE IF validateTransition(copy.status, "paid") THEN "pay" ELSE "idle"
      [] news = "failed" -> IF copy.status = "pending" THEN "markFailed" ELSE "idle"
      [] OTHER -> RefundStep(copy, news = "refunded")

\* The audit row is the idempotency gate: a key recorded before ends the call.
\* Every webhook modelled here is signed by the provider and matches the order
\* and its amount; one that does not is answered with an error after its audit
\* row, and changes no order.  The key tells statuses apart, as the key made
\* here does; EPay's names order and trade only, so of two notifications of one
\* trade with different statuses only the first would count.
CreateAuditLog(j) ==
    LET key == <<job[j].news, job[j].amt>>
        next == WebhookStep(job[j].copy, job[j].news)
    IN
    /\ At(j, "audit")
    /\ audit' = audit \cup {key}
    /\ IF key \in audit \/ next = "idle" THEN Return(j) ELSE Goto(j, next)
    /\ UNCHANGED <<order, promo, outside, money, history, bounds>>

Revive(j) ==
    /\ At(j, "revive")
    /\ UpdateOrder(j, "pending", "pay")
    /\ UNCHANGED <<promo, audit, outside, money, history, bounds>>

MarkFailed(j) ==
    /\ At(j, "markFailed")
    /\ UpdateOrder(j, "failed", "releasePromo")
    /\ UNCHANGED <<promo, audit, outside, money, history, bounds>>

ListPendingOrders(j) ==
    /\ order.status = "pending" /\ ~expired /\ ~Running("reconcile")
    /\ Begin(j, "query", "reconcile", 0)
    /\ UNCHANGED <<order, promo, audit, outside, money, dropped, interrupted, bounds>>

\* Mutant: any answer but a failure counts as paid.
QueryOrderTrusting(j) ==
    /\ At(j, "query")
    /\ Goto(j, IF provider = "failed" THEN "markFailed" ELSE "pay")
    /\ UNCHANGED <<order, promo, audit, outside, money, history, bounds>>

QueryOrder(j) ==
    /\ At(j, "query")
    /\ CASE provider = "paid" -> Goto(j, "pay")
         [] provider = "failed" -> Goto(j, "markFailed")
         [] OTHER -> Return(j)
    /\ UNCHANGED <<order, promo, audit, outside, money, history, bounds>>

-----------------------------------------------------------------------------
(* markPaidAndFulfill. *)

WritePaid(j) ==
    /\ At(j, "pay")
    /\ UpdateOrder(j, "paid", IF product = "balance_credit" THEN "credit" ELSE "book")
    /\ UNCHANGED <<promo, audit, outside, money, history, bounds>>

CreditBalance(j) ==
    /\ At(j, "credit")
    /\ credits' = credits + 1
    /\ Goto(j, "book")
    /\ UNCHANGED <<order, promo, audit, outside, booked, subs, debited, events, history, bounds>>

RecordBilling(j) ==
    /\ At(j, "book")
    /\ booked' = booked + 1
    /\ Goto(j, IF product = "subscription_plan" THEN "activate" ELSE "fulfill")
    /\ UNCHANGED <<order, promo, audit, outside, credits, subs, debited, events, history, bounds>>

\* CreateUserSubscription looks for the order's subscription first.
FindSubscription(j) ==
    /\ At(j, "activate")
    /\ Goto(j, IF subs > 0 THEN "fulfill" ELSE "subscribe")
    /\ UNCHANGED <<order, promo, audit, outside, money, history, bounds>>

CreateSubscription(j) ==
    /\ At(j, "subscribe")
    /\ subs' = subs + 1
    /\ Goto(j, "fulfill")
    /\ UNCHANGED <<order, promo, audit, outside, credits, booked, debited, events, history, bounds>>

\* A step of fulfill fails: the store, or CreateUserSubscription refuses a
\* second subscription of the user to the plan (ErrDuplicateSubscription).
FulfillFails(j) ==
    /\ job[j].pc \in {"credit", "book", "activate", "subscribe"}
    /\ faults < MaxFaults /\ faults' = faults + 1
    /\ dropped' = TRUE
    /\ Goto(j, "fulfillmentFailed")
    /\ UNCHANGED <<order, promo, audit, outside, money, contested, interrupted, refunds>>

\* Mutant: a failed fulfilment is recorded as a success.
WriteFulfillmentFailedAsDone(j) ==
    /\ At(j, "fulfillmentFailed")
    /\ UpdateOrder(j, "fulfilled", "idle")
    /\ UNCHANGED <<promo, audit, outside, money, history, bounds>>

WriteFulfillmentFailed(j) ==
    /\ At(j, "fulfillmentFailed")
    /\ UpdateOrder(j, "fulfillment_failed", "idle")
    /\ UNCHANGED <<promo, audit, outside, money, history, bounds>>

WriteFulfilled(j) ==
    /\ At(j, "fulfill")
    /\ UpdateOrder(j, "fulfilled", "announcePaid")
    /\ UNCHANGED <<promo, audit, outside, money, history, bounds>>

EnqueuePaid(j) ==
    /\ At(j, "announcePaid")
    /\ events' = events \cup {"paid"}
    /\ Return(j)
    /\ UNCHANGED <<order, promo, audit, outside, credits, booked, subs, debited, history, bounds>>

-----------------------------------------------------------------------------
(* RequestRefund and completePendingRefund. *)

Refundable(status) ==
    /\ status \notin {"refunded", "partially_refunded", "refunding", "refund_failed"}
    /\ validateTransition(status, "refunding")

ReadToRefund(j, a) ==
    /\ Refundable(order.status)
    /\ refunds < MaxRefunds /\ refunds' = refunds + 1
    /\ Begin(j, "refunding", "none", a)
    /\ UNCHANGED <<order, promo, audit, outside, money, dropped, interrupted, faults>>

WriteRefunding(j) ==
    LET row == [status |-> "refunding", refund |-> job[j].amt] IN
    /\ At(j, "refunding")
    /\ order' = row
    /\ job' = [job EXCEPT ![j] = [@ EXCEPT !.orig = job[j].copy, !.copy = row, !.pc = "callRefund"]]
    /\ UNCHANGED <<promo, audit, outside, money, history, bounds>>

\* The provider answers; a repeated call for the same amount has one effect.
CallRefund(j) ==
    LET a == job[j].amt IN
    /\ At(j, "callRefund")
    /\ \E answer \in IF refundAt[a] = "none" THEN {"processing", "refunded", "refund_failed"} ELSE {refundAt[a]} :
         /\ refundAt' = [refundAt EXCEPT ![a] = answer]
         /\ job' = [job EXCEPT ![j] = [@ EXCEPT !.news = answer, !.pc = "attachRefund"]]
    /\ UNCHANGED <<order, promo, audit, product, expired, provider, money, history, bounds>>

\* The call fails, or its answer is lost after the provider took the refund.
CallRefundFails(j) ==
    LET a == job[j].amt IN
    /\ At(j, "callRefund")
    /\ faults < MaxFaults /\ faults' = faults + 1
    /\ refundAt' \in {refundAt, [refundAt EXCEPT ![a] = IF @ = "none" THEN "processing" ELSE @]}
    /\ Goto(j, "restore")
    /\ UNCHANGED <<order, promo, audit, product, expired, provider, money, history, refunds>>

RestoreOrder(j) ==
    /\ At(j, "restore")
    /\ order' = job[j].orig
    /\ Return(j)
    /\ UNCHANGED <<promo, audit, outside, money, history, bounds>>

AttachRefund(j) ==
    /\ At(j, "attachRefund")
    /\ UpdateOrder(j, "refunding",
           IF job[j].news = "processing" THEN "idle" ELSE RefundStep(job[j].copy, job[j].news = "refunded"))
    /\ UNCHANGED <<promo, audit, outside, money, history, bounds>>

WriteRefundFailed(j) ==
    /\ At(j, "refundFailed")
    /\ UpdateOrder(j, "refund_failed", "idle")
    /\ UNCHANGED <<promo, audit, outside, money, history, bounds>>

DebitBalance(j) ==
    /\ At(j, "debit")
    /\ debited' = debited + job[j].copy.refund
    /\ Goto(j, "refunded")
    /\ UNCHANGED <<order, promo, audit, outside, credits, booked, subs, events, history, bounds>>

\* The user spent the money: the order stays refunding.
DebitRejected(j) ==
    /\ At(j, "debit")
    /\ Return(j)
    /\ UNCHANGED <<order, promo, audit, outside, money, history, bounds>>

WriteRefunded(j) ==
    /\ At(j, "refunded")
    /\ UpdateOrder(j, IF job[j].copy.refund < Amount THEN "partially_refunded" ELSE "refunded", "announceRefund")
    /\ UNCHANGED <<promo, audit, outside, money, history, bounds>>

EnqueueRefunded(j) ==
    /\ At(j, "announceRefund")
    /\ events' = events \cup {"refunded"}
    /\ Return(j)
    /\ UNCHANGED <<order, promo, audit, outside, credits, booked, subs, debited, history, bounds>>

-----------------------------------------------------------------------------
PayPath == {"pay", "credit", "book", "activate", "subscribe", "fulfillmentFailed", "fulfill", "announcePaid"}

\* A statement fails and the operation returns its error, or the process dies.
Abort(j) ==
    /\ ~At(j, "idle")
    /\ faults < MaxFaults /\ faults' = faults + 1
    /\ Return(j)
    /\ dropped' = (dropped \/ job[j].pc \in PayPath \cup {"revive"})
    /\ interrupted' = (interrupted \/ (At(j, "refunded") /\ product = "balance_credit"))
    /\ UNCHANGED <<order, promo, audit, outside, money, contested, refunds>>

Step(j) ==
    \/ CreateSession(j) \/ AttachCheckout(j) \/ CancelOrder(j) \/ ExpireOrder(j) \/ ReleasePromoCode(j)
    \/ CreateAuditLog(j) \/ Revive(j) \/ MarkFailed(j) \/ QueryOrder(j)
    \/ WritePaid(j) \/ CreditBalance(j) \/ RecordBilling(j) \/ FindSubscription(j) \/ CreateSubscription(j)
    \/ WriteFulfillmentFailed(j) \/ WriteFulfilled(j) \/ EnqueuePaid(j)
    \/ WriteRefunding(j) \/ CallRefund(j) \/ RestoreOrder(j) \/ AttachRefund(j) \/ WriteRefundFailed(j)
    \/ DebitBalance(j) \/ DebitRejected(j) \/ WriteRefunded(j) \/ EnqueueRefunded(j)

Next ==
    \/ Pays \/ PassDeadline \/ \E a \in RefundAmounts : SettlesRefund(a)
    \/ \E j \in Jobs :
         \/ CreateOrder(j) \/ ReadToCancel(j) \/ ListExpiredPendingOrders(j) \/ ListPendingOrders(j)
         \/ \E news \in News : Webhook(j, news)
         \/ \E a \in RefundAmounts : ReadToRefund(j, a)
         \/ Step(j) \/ FulfillFails(j) \/ CallRefundFails(j) \/ Abort(j)

Spec == Init /\ [][Next]_vars

-----------------------------------------------------------------------------
(* Properties. *)

OrderRow == [status : Statuses, refund : {0} \cup RefundAmounts]
Pcs == PayPath \cup
    {"idle", "session", "attach", "cancel", "expire", "releasePromo", "audit", "revive", "markFailed", "query",
     "refunding", "callRefund", "restore", "attachRefund", "refundFailed", "debit", "refunded", "announceRefund"}
AllNews == {"none", "expiry", "reconcile", "paid", "failed", "processing", "refunded", "refund_failed"}

\* Rows, copies and counters keep their shape, and what is taken back is a sum
\* of refunds.
TypeOK ==
    /\ order \in OrderRow
    /\ product \in Products
    /\ expired \in BOOLEAN
    /\ promo \in {"none", "applied", "released"}
    /\ audit \subseteq AllNews \X ({0} \cup RefundAmounts)
    /\ provider \in {"none", "open", "paid", "failed"}
    /\ refundAt \in [RefundAmounts -> {"none", "processing", "refunded", "refund_failed"}]
    /\ credits \in Nat /\ booked \in Nat /\ subs \in Nat /\ debited \in Nat
    /\ events \subseteq {"paid", "refunded"}
    /\ job \in [Jobs -> [pc : Pcs, copy : OrderRow, orig : OrderRow, news : AllNews, amt : {0} \cup RefundAmounts]]
    /\ contested \in BOOLEAN /\ dropped \in BOOLEAN /\ interrupted \in BOOLEAN
    /\ refunds \in Nat /\ faults \in Nat

Delivered == IF product = "balance_credit" THEN credits > 0 ELSE subs > 0

\* Nothing is delivered, booked or marked paid unless the provider was paid,
\* and no balance is taken back unless the provider refunded.
MoneyMoved ==
    /\ credits > 0 \/ subs > 0 \/ booked > 0 \/ order.status \in {"paid", "fulfilled"} => provider = "paid"
    /\ debited > 0 => \E a \in RefundAmounts : refundAt[a] = "refunded"

\* A fulfilled order - also one put back by a refund that failed, or written
\* from an old copy - was delivered, and the ledger shows it.
FulfilledDelivered == order.status = "fulfilled" => Delivered /\ booked > 0

\* While no two operations on the order overlap, it is credited at most once,
\* whatever fails, crashes or is redelivered.
CreditedOnce == ~contested => credits <= 1 /\ subs <= 1

\* Nor is more taken back than the order's amount, unless a refund was cut
\* short between its debit and its last write.
ClawbackBounded == ~contested /\ ~interrupted => debited <= Amount

\* A recorded paid webhook is never lost: whatever became of the order
\* meanwhile (expired, canceled, paid by the reconciler, overwritten from an
\* old copy), the money paid is delivered or an operation is still about to,
\* unless that operation was cut short or the fulfilment failed.
PaidNotLost ==
    <<"paid", 0>> \in audit =>
        Delivered \/ dropped \/ \E j \in Jobs : job[j].pc \in PayPath \cup {"revive"}

\* "Only balance_credit orders ever credited balance, so only those are
\* debited": what is taken back was given.
DebitedOnlyIfCredited == debited > 0 => credits > 0

\* "Idempotent per order": an order is credited once.
CreditedIdempotently == credits <= 1
=============================================================================
