------------------------- MODULE PaymentOrderProofs -------------------------
(***************************************************************************)
(* Proofs about PaymentOrder, for any number of overlapping requests and   *)
(* workers, any amounts, refunds and faults.                               *)
(***************************************************************************)
EXTENDS PaymentOrder, TLAPS

Unpaid == {"absent", "pending", "expired", "canceled", "failed"}
Closed == {"partially_refunded", "refunded"}
RefundPath == {"refunding", "callRefund", "restore", "attachRefund", "refundFailed",
               "debit", "refunded", "announceRefund"}

HasRefund == \E a \in RefundAmounts : refundAt[a] = "refunded"

\* The money paid is delivered, the delivery failed, or it is under way.
Settled == Delivered \/ dropped \/ \E j \in Jobs : job[j].pc \in PayPath \cup {"revive"}

\* What a row, stored or copied, says about the world.
StatusTrue(st) ==
    /\ st \notin Unpaid => provider = "paid" /\ Settled
    /\ st = "fulfilled" => Delivered /\ booked > 0
    /\ st = "failed" => provider = "failed"

RowTrue(row) == StatusTrue(row.status)

\* The status of an operation's copy at each of its steps.
CopyFits(q) ==
    /\ q.pc \in {"session", "attach", "pay", "markFailed", "query"} => q.copy.status = "pending"
    /\ q.pc = "cancel" => q.copy.status \in {"pending", "canceled"}
    /\ q.pc = "revive" => q.copy.status \in {"expired", "canceled"}
    /\ q.pc \in {"credit", "book", "activate", "subscribe", "fulfillmentFailed", "fulfill"} =>
          q.copy.status = "paid"
    /\ q.pc = "announcePaid" => q.copy.status = "fulfilled"
    /\ q.pc = "refunding" => q.copy.status \in {"paid", "fulfilled", "fulfillment_failed"}
    /\ q.pc \in {"callRefund", "restore", "attachRefund", "refundFailed", "debit", "refunded"} =>
          q.copy.status = "refunding"
    /\ q.pc = "announceRefund" => q.copy.status \in Closed
    /\ q.pc \in {"callRefund", "restore", "attachRefund"} =>
          q.orig.status \in {"paid", "fulfilled", "fulfillment_failed"}
    /\ q.pc = "audit" => q.copy.status # "absent"

\* What an operation has found out or done by each of its steps.
JobTrue(q) ==
    /\ q.pc \in PayPath \cup {"revive"} => provider = "paid"
    /\ q.pc \in RefundPath => provider = "paid" /\ Settled
    /\ q.pc = "markFailed" => provider = "failed"
    /\ q.pc = "session" => provider = "none"
    /\ q.pc = "audit" /\ q.news = "paid" => provider = "paid"
    /\ q.pc = "audit" /\ q.news = "failed" => provider = "failed"
    /\ q.pc \in {"audit", "attachRefund"} /\ q.news = "refunded" => HasRefund
    /\ q.pc = "debit" => HasRefund /\ product = "balance_credit"
    /\ q.pc = "fulfillmentFailed" => dropped
    /\ q.pc = "credit" => product = "balance_credit"
    /\ q.pc = "book" /\ product = "balance_credit" => credits > 0
    /\ q.pc \in {"activate", "subscribe"} => product = "subscription_plan" /\ booked > 0
    /\ q.pc \in {"fulfill", "announcePaid"} => Delivered /\ booked > 0
    /\ q.pc \in {"refunding", "callRefund"} => q.amt \in RefundAmounts

JobOK(q) == RowTrue(q.copy) /\ RowTrue(q.orig) /\ CopyFits(q) /\ JobTrue(q)

\* What has been given and taken so far.
MoneyTrue ==
    /\ credits > 0 \/ subs > 0 \/ booked > 0 => provider = "paid"
    /\ debited > 0 => HasRefund /\ product = "balance_credit"
    /\ <<"paid", 0>> \in audit => Settled

OneCheckout ==
    /\ order.status = "absent" => provider = "none" /\ \A j \in Jobs : At(j, "idle")
    /\ \A j, k \in Jobs : At(j, "session") /\ At(k, "session") => j = k

OrderInv == TypeOK /\ RowTrue(order) /\ (\A j \in Jobs : JobOK(job[j])) /\ MoneyTrue /\ OneCheckout

-----------------------------------------------------------------------------
(* The shapes of steps. *)

Paying == PayPath \cup {"revive"}
JobState == [pc : Pcs, copy : OrderRow, orig : OrderRow, news : AllNews, amt : {0} \cup RefundAmounts]

\* TypeOK without the order and the operations on it.
RestTyped ==
    /\ product \in Products /\ expired \in BOOLEAN
    /\ promo \in {"none", "applied", "released"}
    /\ audit \subseteq AllNews \X ({0} \cup RefundAmounts)
    /\ provider \in {"none", "open", "paid", "failed"}
    /\ refundAt \in [RefundAmounts -> {"none", "processing", "refunded", "refund_failed"}]
    /\ credits \in Nat /\ booked \in Nat /\ subs \in Nat /\ debited \in Nat
    /\ events \subseteq {"paid", "refunded"}
    /\ contested \in BOOLEAN /\ dropped \in BOOLEAN /\ interrupted \in BOOLEAN
    /\ refunds \in Nat /\ faults \in Nat

LEMMA RefundsNat == \A a \in RefundAmounts : a \in Nat /\ a <= Amount /\ a # 0
<1>1. Amount \in Nat /\ RefundAmounts \subseteq 1..Amount
  BY AmountAssumption
<1>2. \A a \in 1..Amount : a \in Nat /\ a <= Amount /\ a # 0
  BY <1>1
<1> QED
  BY <1>1, <1>2

LEMMA TypeParts ==
  /\ TypeOK <=> order \in OrderRow /\ job \in [Jobs -> JobState] /\ RestTyped
  /\ TypeOK' <=> order' \in OrderRow /\ job' \in [Jobs -> JobState] /\ RestTyped'
  BY DEF TypeOK, RestTyped, JobState

\* What a step never takes back.
Onward ==
    /\ product' = product
    /\ provider = "paid" => provider' = "paid"
    /\ provider = "failed" => provider' = "failed"
    /\ Settled => Settled'
    /\ Delivered => Delivered'
    /\ credits > 0 => credits' > 0
    /\ booked > 0 => booked' > 0
    /\ dropped => dropped'
    /\ HasRefund => HasRefund'

LEMMA RowStaysTrue ==
  ASSUME Onward, NEW row, RowTrue(row)
  PROVE  RowTrue(row)'
  BY DEF Onward, RowTrue, StatusTrue

LEMMA JobStaysTrue ==
  ASSUME Onward, NEW q, JobOK(q), q.pc = "session" => provider' = "none"
  PROVE  JobOK(q)'
<1>1. RowTrue(q.copy)' /\ RowTrue(q.orig)'
  BY RowStaysTrue DEF JobOK
<1>2. JobTrue(q)'
  BY DEF JobOK, JobTrue, Onward
<1> QED
  BY <1>1, <1>2 DEF JobOK, CopyFits

LEMMA MoneyStaysTrue ==
  ASSUME Onward, MoneyTrue, UNCHANGED <<audit, credits, booked, subs, debited>>
  PROVE  MoneyTrue'
  BY DEF Onward, MoneyTrue

LEMMA JobOKNow ==
  ASSUME NEW k, NEW q, job'[k] = q, JobOK(q)'
  PROVE  JobOK(job[k])'
<1>1. RowTrue(job[k].copy)' /\ RowTrue(job[k].orig)'
  BY DEF JobOK, RowTrue, StatusTrue
<1>2. CopyFits(job[k])'
  BY DEF JobOK, CopyFits
<1>3. JobTrue(job[k])'
  BY DEF JobOK, JobTrue
<1> QED
  BY <1>1, <1>2, <1>3 DEF JobOK

\* One operation moves to the state q.
LEMMA JobStep ==
  ASSUME OrderInv, NEW j \in Jobs, NEW q \in JobState, job' = [job EXCEPT ![j] = q],
         RestTyped', order' \in OrderRow, order'.status # "absent", Onward,
         JobOK(q)', RowTrue(order)', MoneyTrue',
         \A k \in Jobs \ {j} : At(k, "session") => provider' = "none" /\ q.pc # "session"
  PROVE  OrderInv'
<1>1. TypeOK /\ job \in [Jobs -> JobState]
  BY TypeParts DEF OrderInv
<1>2. job' \in [Jobs -> JobState] /\ \A k \in Jobs : job'[k] = IF k = j THEN q ELSE job[k]
  BY <1>1
<1>3. TypeOK'
  BY <1>2, TypeParts
<1>4. ASSUME NEW k \in Jobs PROVE JobOK(job[k])'
  <2>1. CASE k = j
    <3>1. job'[k] = q
      BY <2>1, <1>2
    <3> QED
      BY <3>1, JobOKNow
  <2>2. CASE k # j
    <3>1. PICK p : p = job[k]
      OBVIOUS
    <3>2. job'[k] = p /\ JobOK(p)
      BY <2>2, <1>2, <3>1 DEF OrderInv
    <3>3. p.pc = "session" => provider' = "none"
      BY <2>2, <3>1 DEF At
    <3>4. JobOK(p)'
      BY <3>2, <3>3, JobStaysTrue
    <3> QED
      BY <3>2, <3>4, JobOKNow
  <2> QED
    BY <2>1, <2>2
<1>5. OneCheckout'
  BY <1>2 DEF OneCheckout, OrderInv, At
<1> QED
  BY <1>3, <1>4, <1>5 DEF OrderInv

\* Being settled survives a step of an operation that does not drop it.
LEMMA SettledStays ==
  ASSUME job \in [Jobs -> JobState], NEW j \in Jobs, NEW q, job' = [job EXCEPT ![j] = q],
         Delivered => Delivered', dropped => dropped',
         job[j].pc \in Paying => Delivered' \/ dropped' \/ q.pc \in Paying
  PROVE  Settled => Settled'
<1>1. \A k \in Jobs : job'[k] = IF k = j THEN q ELSE job[k]
  OBVIOUS
<1> SUFFICES ASSUME Settled PROVE Settled'
  OBVIOUS
<1>2. CASE Delivered \/ dropped
  BY <1>2 DEF Settled
<1>3. CASE \E k \in Jobs : job[k].pc \in Paying
  <2>1. PICK k \in Jobs : job[k].pc \in Paying
    BY <1>3
  <2>2. CASE k = j
    BY <2>1, <2>2, <1>1 DEF Settled, Paying
  <2>3. CASE k # j
    BY <2>1, <2>3, <1>1 DEF Settled, Paying
  <2> QED
    BY <2>2, <2>3
<1> QED
  BY <1>2, <1>3 DEF Settled, Paying

\* The provider's payment stays as it is, and nothing given is taken back.
Grows ==
    /\ product' = product /\ provider' = provider
    /\ HasRefund => HasRefund'
    /\ dropped => dropped'
    /\ credits' >= credits /\ booked' >= booked /\ subs' >= subs

LEMMA GrowsOnward ==
  ASSUME OrderInv, Grows, RestTyped', NEW j \in Jobs, NEW q, job' = [job EXCEPT ![j] = q],
         job[j].pc \in Paying => Delivered' \/ dropped' \/ q.pc \in Paying
  PROVE  Onward
<1>1. job \in [Jobs -> JobState] /\ RestTyped
  BY TypeParts DEF OrderInv
<1>2. /\ credits > 0 => credits' > 0
      /\ subs > 0 => subs' > 0
      /\ booked > 0 => booked' > 0
  BY <1>1 DEF Grows, RestTyped
<1>3. Delivered => Delivered'
  BY <1>2 DEF Delivered, Grows
<1>4. Settled => Settled'
  BY <1>1, <1>3, SettledStays DEF Grows
<1> QED
  BY <1>2, <1>3, <1>4 DEF Onward, Grows

LEMMA GrowsStep ==
  ASSUME OrderInv, Grows, RestTyped', NEW j \in Jobs, NEW q \in JobState,
         job' = [job EXCEPT ![j] = q], order' \in OrderRow, order'.status # "absent",
         job[j].pc \in Paying => Delivered' \/ dropped' \/ q.pc \in Paying,
         Onward => JobOK(q)' /\ RowTrue(order)' /\ MoneyTrue',
         q.pc # "session"
  PROVE  OrderInv'
<1>1. Onward
  BY GrowsOnward
<1>2. \A k \in Jobs : At(k, "session") => provider' = "none"
  BY DEF OrderInv, JobOK, JobTrue, At, Grows
<1> QED
  BY <1>1, <1>2, JobStep

\* What holds of an operation under way.
LEMMA JobFacts ==
  ASSUME OrderInv, NEW j \in Jobs
  PROVE  /\ job[j] \in JobState /\ order \in OrderRow /\ RestTyped
         /\ RowTrue(job[j].copy) /\ RowTrue(job[j].orig) /\ CopyFits(job[j]) /\ JobTrue(job[j])
         /\ RowTrue(order) /\ MoneyTrue
         /\ ~At(j, "idle") => order.status # "absent"
  BY TypeParts DEF OrderInv, JobOK, OneCheckout

LEMMA NoJobOK == NoJob \in JobState /\ NoJob.pc = "idle" /\ JobOK(NoJob)'
<1>1. NoJob \in JobState /\ NoJob.pc = "idle" /\ NoJob.copy = NoOrder /\ NoJob.orig = NoOrder
  BY DEF NoJob, NoOrder, JobState, Pcs, OrderRow, Statuses, AllNews
<1>2. NoOrder.status = "absent"
  BY DEF NoOrder
<1>3. PICK q : q = NoJob
  OBVIOUS
<1>4. JobOK(q)'
  BY <1>1, <1>2, <1>3 DEF JobOK, RowTrue, StatusTrue, CopyFits, JobTrue, PayPath, RefundPath, Unpaid
<1> QED
  BY <1>1, <1>3, <1>4, Zenon

\* An operation ends; it leaves the row it has written, if any.
LEMMA ReturnStep ==
  ASSUME OrderInv, Grows, RestTyped', NEW j \in Jobs, ~At(j, "idle"), Return(j),
         order' \in OrderRow, order'.status # "absent",
         job[j].pc \in Paying => Delivered' \/ dropped',
         Onward => RowTrue(order)' /\ MoneyTrue'
  PROVE  OrderInv'
<1>1. PICK q : q = NoJob
  OBVIOUS
<1>2. q \in JobState /\ q.pc = "idle" /\ JobOK(q)'
  BY <1>1, NoJobOK, Zenon
<1>3. job' = [job EXCEPT ![j] = q]
  BY <1>1 DEF Return
<1> QED
  BY <1>2, <1>3, GrowsStep

\* An operation goes on to its next step, with the same copy.
Carries(q, p) == q.copy = p.copy /\ q.orig = p.orig /\ q.news = p.news /\ q.amt = p.amt

LEMMA GotoStep ==
  ASSUME OrderInv, Grows, RestTyped', order' = order, NEW j \in Jobs, ~At(j, "idle"),
         NEW pc \in Pcs, pc # "session", Goto(j, pc),
         job[j].pc \in Paying => Delivered' \/ dropped' \/ pc \in Paying,
         Onward => MoneyTrue',
         ASSUME NEW q, q.pc = pc, Carries(q, job[j]), Onward PROVE CopyFits(q) /\ JobTrue(q)'
  PROVE  OrderInv'
<1>1. job[j] \in JobState /\ order \in OrderRow /\ order.status # "absent"
  BY JobFacts
<1>2. PICK q : q = [job[j] EXCEPT !.pc = pc]
  OBVIOUS
<1>3. q \in JobState /\ q.pc = pc /\ Carries(q, job[j])
  BY <1>1, <1>2 DEF JobState, Carries
<1>4. job' = [job EXCEPT ![j] = q]
  BY <1>2 DEF Goto
<1>5. ASSUME Onward PROVE JobOK(q)' /\ RowTrue(order)'
  <2>1. RowTrue(q.copy) /\ RowTrue(q.orig) /\ RowTrue(order)
    BY <1>3, JobFacts DEF Carries
  <2>2. RowTrue(q.copy)' /\ RowTrue(q.orig)'
    BY <1>5, <2>1, RowStaysTrue
  <2>3. RowTrue(order)'
    BY <1>5, <2>1 DEF RowTrue, StatusTrue, Onward
  <2>4. CopyFits(q) /\ JobTrue(q)'
    BY <1>3, <1>5
  <2>5. CopyFits(q)'
    BY <2>4 DEF CopyFits
  <2> QED
    BY <2>2, <2>3, <2>4, <2>5 DEF JobOK
<1> QED
  BY <1>1, <1>3, <1>4, <1>5, GrowsStep

\* An operation writes its copy with a new status and goes on, ...
LEMMA WriteStep ==
  ASSUME OrderInv, Grows, RestTyped', NEW j \in Jobs, ~At(j, "idle"),
         NEW status \in Statuses \ {"absent"}, NEW pc \in Pcs \ {"session", "idle"},
         UpdateOrder(j, status, pc),
         job[j].pc \in Paying => Delivered' \/ dropped' \/ pc \in Paying,
         Onward => MoneyTrue' /\ StatusTrue(status)',
         ASSUME NEW q, q.pc = pc, q.copy.status = status, q.copy.refund = job[j].copy.refund,
                q.orig = job[j].orig, q.news = job[j].news, q.amt = job[j].amt, Onward
         PROVE  CopyFits(q) /\ JobTrue(q)'
  PROVE  OrderInv'
<1>1. job[j] \in JobState
  BY JobFacts
<1>2. PICK row : row = [job[j].copy EXCEPT !.status = status]
  OBVIOUS
<1>3. row \in OrderRow /\ row.status = status /\ row.refund = job[j].copy.refund
  BY <1>1, <1>2 DEF JobState, OrderRow
<1>4. PICK q : q = [job[j] EXCEPT !.copy = row, !.pc = pc]
  OBVIOUS
<1>5. /\ q \in JobState /\ q.pc = pc /\ q.copy = row
      /\ q.orig = job[j].orig /\ q.news = job[j].news /\ q.amt = job[j].amt
  BY <1>1, <1>3, <1>4 DEF JobState
<1>6. order' = row /\ job' = [job EXCEPT ![j] = q]
  BY <1>2, <1>4 DEF UpdateOrder
<1>7. ASSUME Onward PROVE JobOK(q)' /\ RowTrue(order)'
  <2>1. RowTrue(q.orig)
    BY <1>5, JobFacts
  <2>2. RowTrue(q.orig)'
    BY <1>7, <2>1, RowStaysTrue
  <2>3. RowTrue(q.copy)' /\ RowTrue(order)'
    BY <1>3, <1>5, <1>6, <1>7 DEF RowTrue, StatusTrue
  <2>4. CopyFits(q) /\ JobTrue(q)'
    BY <1>3, <1>5, <1>7
  <2>5. CopyFits(q)'
    BY <2>4 DEF CopyFits
  <2> QED
    BY <2>2, <2>3, <2>4, <2>5 DEF JobOK
<1> QED
  BY <1>3, <1>5, <1>6, <1>7, GrowsStep

\* ... or writes it and ends.
LEMMA LastWriteStep ==
  ASSUME OrderInv, Grows, RestTyped', NEW j \in Jobs, ~At(j, "idle"),
         NEW status \in Statuses \ {"absent"}, UpdateOrder(j, status, "idle"),
         job[j].pc \in Paying => Delivered' \/ dropped',
         Onward => MoneyTrue' /\ StatusTrue(status)'
  PROVE  OrderInv'
<1>1. job[j] \in JobState
  BY JobFacts
<1>2. order' \in OrderRow /\ order'.status = status
  BY <1>1 DEF JobState, OrderRow, UpdateOrder
<1>3. Return(j)
  BY DEF UpdateOrder, Return
<1>4. Onward => RowTrue(order)'
  BY <1>2 DEF RowTrue, StatusTrue
<1> QED
  BY <1>2, <1>3, <1>4, ReturnStep

\* An operation starts from a read of the order.
LEMMA BeginStep ==
  ASSUME OrderInv, RestTyped', NEW j \in Jobs, NEW pc \in Pcs \ {"session"},
         NEW news \in AllNews, NEW amt \in {0} \cup RefundAmounts, Begin(j, pc, news, amt),
         order.status # "absent",
         UNCHANGED <<order, audit, product, provider, refundAt, credits, booked, subs, debited, dropped>>,
         ASSUME NEW q, q.pc = pc, q.copy = order, q.news = news, q.amt = amt PROVE CopyFits(q) /\ JobTrue(q)
  PROVE  OrderInv'
<1>1. order \in OrderRow /\ RestTyped /\ RowTrue(order) /\ MoneyTrue
  BY JobFacts
<1>2. PICK q : q = [NoJob EXCEPT !.pc = pc, !.copy = order, !.news = news, !.amt = amt]
  OBVIOUS
<1>3. NoJob \in JobState /\ NoJob.orig = NoOrder
  BY NoJobOK DEF NoJob
<1>4. /\ q \in JobState /\ q.pc = pc /\ q.copy = order /\ q.orig = NoOrder
      /\ q.news = news /\ q.amt = amt
  BY <1>1, <1>2, <1>3 DEF JobState
<1>5. job' = [job EXCEPT ![j] = q] /\ At(j, "idle")
  BY <1>2 DEF Begin
<1>6. Grows
  BY <1>1 DEF Grows, RestTyped, HasRefund
<1>7. ASSUME Onward PROVE JobOK(q)' /\ RowTrue(order)' /\ MoneyTrue'
  <2>1. RowTrue(order)'
    BY <1>1, <1>7 DEF RowTrue, StatusTrue, Onward
  <2>2. RowTrue(q.orig)'
    BY <1>4 DEF RowTrue, StatusTrue, NoOrder, Unpaid
  <2>3. RowTrue(q.copy)'
    BY <1>1, <1>4, <1>7, RowStaysTrue
  <2>4. CopyFits(q) /\ JobTrue(q)
    BY <1>4
  <2>5. CopyFits(q)'
    BY <2>4 DEF CopyFits
  <2>6. JobTrue(q)'
    BY <2>4, <1>4, <1>7 DEF JobTrue, Onward
  <2>7. MoneyTrue'
    BY <1>1, <1>7, MoneyStaysTrue
  <2> QED
    BY <2>1, <2>2, <2>3, <2>5, <2>6, <2>7 DEF JobOK
<1>8. job[j].pc \notin Paying
  BY <1>5 DEF At, Paying, PayPath
<1>9. order' \in OrderRow /\ order'.status # "absent" /\ q.pc # "session"
  BY <1>1, <1>4
<1> QED
  BY <1>4, <1>5, <1>6, <1>7, <1>8, <1>9, GrowsStep
-----------------------------------------------------------------------------
(* The actions. *)

\* A step that leaves product, payment, refunds and money alone.
Quiet == UNCHANGED <<audit, product, provider, refundAt, credits, booked, subs, debited>>

LEMMA QuietGrows ==
  ASSUME OrderInv, Quiet, dropped => dropped'
  PROVE  Grows /\ (Onward => MoneyTrue')
<1>1. RestTyped /\ MoneyTrue
  BY TypeParts DEF OrderInv
<1>2. Grows
  BY <1>1 DEF Grows, Quiet, HasRefund, RestTyped
<1> QED
  BY <1>1, <1>2, MoneyStaysTrue DEF Quiet

LEMMA ReadToCancelKeeps ==
  ASSUME OrderInv, NEW j \in Jobs, ReadToCancel(j)
  PROVE  OrderInv'
<1>1. /\ Begin(j, "cancel", "none", 0) /\ order.status # "absent"
      /\ validateTransition(order.status, "canceled")
      /\ UNCHANGED <<order, audit, product, provider, refundAt, credits, booked, subs, debited, dropped>>
  BY DEF ReadToCancel, outside, money
<1>2. RestTyped'
  BY JobFacts DEF ReadToCancel, RestTyped, Begin, outside, money, bounds
<1>3. order.status \in {"pending", "canceled"}
  BY <1>1, JobFacts DEF validateTransition, Successors, OrderRow, Statuses
<1>4. ASSUME NEW q, q.pc = "cancel", q.copy = order PROVE CopyFits(q) /\ JobTrue(q)
  BY <1>3, <1>4 DEF CopyFits, JobTrue, PayPath, RefundPath
<1>5. "cancel" \in Pcs \ {"session"} /\ "none" \in AllNews /\ 0 \in {0} \cup RefundAmounts
  BY DEF Pcs, AllNews
<1> QED
  BY <1>1, <1>2, <1>4, <1>5, BeginStep

LEMMA ListExpiredKeeps ==
  ASSUME OrderInv, NEW j \in Jobs, ListExpiredPendingOrders(j)
  PROVE  OrderInv'
<1>1. /\ Begin(j, "expire", "expiry", 0) /\ order.status # "absent"
      /\ UNCHANGED <<order, audit, product, provider, refundAt, credits, booked, subs, debited, dropped>>
  BY DEF ListExpiredPendingOrders, outside, money
<1>2. RestTyped'
  BY JobFacts DEF ListExpiredPendingOrders, RestTyped, Begin, outside, money, bounds
<1>3. ASSUME NEW q, q.pc = "expire" PROVE CopyFits(q) /\ JobTrue(q)
  BY <1>3 DEF CopyFits, JobTrue, PayPath, RefundPath
<1>4. "expire" \in Pcs \ {"session"} /\ "expiry" \in AllNews /\ 0 \in {0} \cup RefundAmounts
  BY DEF Pcs, AllNews
<1> QED
  BY <1>1, <1>2, <1>3, <1>4, BeginStep

LEMMA ListPendingKeeps ==
  ASSUME OrderInv, NEW j \in Jobs, ListPendingOrders(j)
  PROVE  OrderInv'
<1>1. /\ Begin(j, "query", "reconcile", 0) /\ order.status = "pending"
      /\ UNCHANGED <<order, audit, product, provider, refundAt, credits, booked, subs, debited, dropped>>
  BY DEF ListPendingOrders, outside, money
<1>2. RestTyped'
  BY JobFacts DEF ListPendingOrders, RestTyped, Begin, outside, money, bounds
<1>3. ASSUME NEW q, q.pc = "query", q.copy = order PROVE CopyFits(q) /\ JobTrue(q)
  BY <1>1, <1>3 DEF CopyFits, JobTrue, PayPath, RefundPath
<1>4. "query" \in Pcs \ {"session"} /\ "reconcile" \in AllNews /\ 0 \in {0} \cup RefundAmounts
  BY DEF Pcs, AllNews
<1> QED
  BY <1>1, <1>2, <1>3, <1>4, BeginStep

LEMMA WebhookKeeps ==
  ASSUME OrderInv, NEW j \in Jobs, NEW news \in News, Webhook(j, news)
  PROVE  OrderInv'
<1>1. /\ Begin(j, "audit", news[1], news[2]) /\ order.status # "absent"
      /\ UNCHANGED <<order, audit, product, provider, refundAt, credits, booked, subs, debited, dropped>>
  BY DEF Webhook, outside, money
<1>2. RestTyped'
  BY JobFacts DEF Webhook, RestTyped, Begin, outside, money, bounds
<1>3. \/ news[1] \in {"paid", "failed"} /\ provider = news[1] /\ news[2] = 0
      \/ news[1] \in {"refunded", "refund_failed"} /\ news[2] \in RefundAmounts /\ refundAt[news[2]] = news[1]
  BY DEF News
<1>4. ASSUME NEW q, q.pc = "audit", q.copy = order, q.news = news[1]
      PROVE  CopyFits(q) /\ JobTrue(q)
  BY <1>1, <1>3, <1>4 DEF CopyFits, JobTrue, PayPath, RefundPath, HasRefund
<1>5. "audit" \in Pcs \ {"session"} /\ news[1] \in AllNews /\ news[2] \in {0} \cup RefundAmounts
  BY <1>3 DEF Pcs, AllNews
<1> QED
  BY <1>1, <1>2, <1>4, <1>5, BeginStep

LEMMA RefundableStatus ==
  ASSUME NEW st \in Statuses, Refundable(st)
  PROVE  st \in {"paid", "fulfilled", "fulfillment_failed"}
  BY DEF Refundable, validateTransition, Successors, Statuses

LEMMA ReadToRefundKeeps ==
  ASSUME OrderInv, NEW j \in Jobs, NEW a \in RefundAmounts, ReadToRefund(j, a)
  PROVE  OrderInv'
<1>1. /\ Begin(j, "refunding", "none", a) /\ Refundable(order.status)
      /\ UNCHANGED <<order, audit, product, provider, refundAt, credits, booked, subs, debited, dropped>>
  BY DEF ReadToRefund, outside, money
<1>2. RestTyped'
  BY JobFacts DEF ReadToRefund, RestTyped, Begin, outside, money
<1>3. order.status \in {"paid", "fulfilled", "fulfillment_failed"}
  BY <1>1, JobFacts, RefundableStatus DEF OrderRow
<1>4. provider = "paid" /\ Settled
  BY <1>3, JobFacts DEF RowTrue, StatusTrue, Unpaid
<1>5. ASSUME NEW q, q.pc = "refunding", q.copy = order, q.amt = a
      PROVE  CopyFits(q) /\ JobTrue(q)
  BY <1>3, <1>4, <1>5 DEF CopyFits, JobTrue, PayPath, RefundPath
<1>6. "refunding" \in Pcs \ {"session"} /\ "none" \in AllNews /\ a \in {0} \cup RefundAmounts
  BY DEF Pcs, AllNews
<1> QED
  BY <1>1, <1>2, <1>3, <1>5, <1>6, BeginStep

LEMMA CreateOrderKeeps ==
  ASSUME OrderInv, NEW j \in Jobs, CreateOrder(j)
  PROVE  OrderInv'
<1>1. PICK row : row = [status |-> "pending", refund |-> 0]
  OBVIOUS
<1>2. PICK q : q = [NoJob EXCEPT !.pc = "session", !.copy = row]
  OBVIOUS
<1>3. /\ order.status = "absent" /\ order' = row /\ job' = [job EXCEPT ![j] = q]
      /\ Quiet /\ dropped' = dropped
  BY <1>1, <1>2 DEF CreateOrder, Quiet, outside, money, history
<1>4. row \in OrderRow /\ row.status = "pending"
  BY <1>1 DEF OrderRow, Statuses
<1>5. NoJob \in JobState /\ NoJob.orig = NoOrder
  BY NoJobOK DEF NoJob
<1>6. q \in JobState /\ q.pc = "session" /\ q.copy = row /\ q.orig = NoOrder
  BY <1>2, <1>4, <1>5 DEF JobState, Pcs
<1>7. provider = "none" /\ \A k \in Jobs : At(k, "idle")
  BY <1>3 DEF OrderInv, OneCheckout
<1>8. RestTyped'
  BY JobFacts DEF CreateOrder, RestTyped, outside, money, history, bounds
<1>9. Grows /\ (Onward => MoneyTrue')
  BY <1>3, QuietGrows
<1>10. Onward
  BY <1>3, <1>7, <1>8, <1>9, GrowsOnward DEF At, Paying, PayPath
<1>11. RowTrue(order)' /\ RowTrue(q.copy)' /\ RowTrue(q.orig)'
  BY <1>3, <1>4, <1>6 DEF RowTrue, StatusTrue, Unpaid, NoOrder
<1>12. CopyFits(q)'
  BY <1>4, <1>6 DEF CopyFits
<1>13. JobTrue(q)'
  BY <1>3, <1>6, <1>7 DEF JobTrue, PayPath, RefundPath, Quiet
<1> QED
  BY <1>3, <1>4, <1>6, <1>7, <1>8, <1>9, <1>10, <1>11, <1>12, <1>13, JobStep DEF JobOK, At

LEMMA CreateSessionKeeps ==
  ASSUME OrderInv, NEW j \in Jobs, CreateSession(j)
  PROVE  OrderInv'
<1>1. /\ job[j].pc = "session" /\ provider' = "open" /\ order' = order /\ dropped' = dropped
      /\ UNCHANGED <<audit, product, refundAt, credits, booked, subs, debited>>
  BY DEF CreateSession, At, money, history
<1>2. PICK q : q = [job[j] EXCEPT !.pc = "attach"]
  OBVIOUS
<1>3. job' = [job EXCEPT ![j] = q]
  BY <1>2 DEF CreateSession, Goto
<1>4. job[j] \in JobState /\ order \in OrderRow /\ order.status # "absent"
  BY <1>1, JobFacts DEF At
<1>5. /\ q \in JobState /\ q.pc = "attach" /\ q.copy = job[j].copy /\ q.orig = job[j].orig
  BY <1>2, <1>4 DEF JobState, Pcs
<1>6. provider = "none" /\ job[j].copy.status = "pending"
  BY <1>1, JobFacts DEF JobTrue, CopyFits
<1>7. RestTyped'
  BY JobFacts DEF CreateSession, RestTyped, money, history, bounds
<1>8. Delivered => Delivered'
  BY <1>1 DEF Delivered
<1>9. Settled => Settled'
  BY <1>1, <1>3, <1>8, SettledStays, TypeParts DEF OrderInv, Paying, PayPath
<1>10. Onward
  BY <1>1, <1>6, <1>8, <1>9 DEF Onward, HasRefund
<1>11. RowTrue(order)'
  BY <1>1, <1>10, JobFacts DEF RowTrue, StatusTrue, Onward
<1>12. RowTrue(q.copy)' /\ RowTrue(q.orig)'
  BY <1>5, <1>10, JobFacts, RowStaysTrue
<1>13. CopyFits(q)' /\ JobTrue(q)'
  BY <1>5, <1>6 DEF CopyFits, JobTrue, PayPath, RefundPath
<1>14. MoneyTrue'
  BY <1>1, <1>10, JobFacts, MoneyStaysTrue
<1>15. \A k \in Jobs \ {j} : ~At(k, "session")
  BY <1>1 DEF OrderInv, OneCheckout, At
<1> QED
  BY <1>1, <1>3, <1>4, <1>5, <1>7, <1>10, <1>11, <1>12, <1>13, <1>14, <1>15, JobStep DEF JobOK

LEMMA AttachCheckoutKeeps ==
  ASSUME OrderInv, NEW j \in Jobs, AttachCheckout(j)
  PROVE  OrderInv'
<1>1. job[j].pc = "attach" /\ UpdateOrder(j, job[j].copy.status, "idle") /\ Quiet /\ dropped' = dropped
  BY DEF AttachCheckout, At, Quiet, outside, money, history
<1>2. job[j].copy.status = "pending"
  BY <1>1, JobFacts DEF CopyFits
<1>3. RestTyped'
  BY JobFacts DEF AttachCheckout, RestTyped, outside, money, history, bounds
<1>4. Grows /\ (Onward => MoneyTrue')
  BY <1>1, QuietGrows
<1>5. StatusTrue("pending")'
  BY DEF StatusTrue, Unpaid
<1>6. "pending" \in Statuses \ {"absent"} /\ job[j].pc \notin Paying /\ ~At(j, "idle")
  BY <1>1 DEF Statuses, Paying, PayPath, At
<1>7. UpdateOrder(j, "pending", "idle")
  BY <1>1, <1>2
<1> QED
  BY <1>3, <1>4, <1>5, <1>6, <1>7, LastWriteStep

LEMMA CancelOrderKeeps ==
  ASSUME OrderInv, NEW j \in Jobs, CancelOrder(j)
  PROVE  OrderInv'
<1>1. job[j].pc = "cancel" /\ UpdateOrder(j, "canceled", "releasePromo") /\ Quiet /\ dropped' = dropped
  BY DEF CancelOrder, At, Quiet, outside, money, history
<1>2. RestTyped'
  BY JobFacts DEF CancelOrder, RestTyped, outside, money, history, bounds
<1>3. Grows /\ (Onward => MoneyTrue')
  BY <1>1, QuietGrows
<1>4. StatusTrue("canceled")'
  BY DEF StatusTrue, Unpaid
<1>5. /\ "canceled" \in Statuses \ {"absent"} /\ "releasePromo" \in Pcs \ {"session", "idle"}
      /\ job[j].pc \notin Paying /\ ~At(j, "idle")
  BY <1>1 DEF Statuses, Pcs, Paying, PayPath, At
<1>6. ASSUME NEW q, q.pc = "releasePromo" PROVE CopyFits(q) /\ JobTrue(q)'
  BY <1>6 DEF CopyFits, JobTrue, PayPath, RefundPath
<1> QED
  BY <1>1, <1>2, <1>3, <1>4, <1>5, <1>6, WriteStep

\* The steps that only end an operation.
LEMMA OrderStays ==
  ASSUME OrderInv, NEW j \in Jobs, ~At(j, "idle"), order' = order
  PROVE  order' \in OrderRow /\ order'.status # "absent" /\ (Onward => RowTrue(order)')
  BY JobFacts DEF RowTrue, StatusTrue, Onward

LEMMA ReleasePromoKeeps ==
  ASSUME OrderInv, NEW j \in Jobs, ReleasePromoCode(j)
  PROVE  OrderInv'
<1>1. /\ job[j].pc = "releasePromo" /\ Return(j) /\ Quiet /\ dropped' = dropped /\ order' = order
  BY DEF ReleasePromoCode, At, Quiet, outside, money, history
<1>2. RestTyped'
  BY JobFacts DEF ReleasePromoCode, RestTyped, outside, money, history, bounds
<1>3. Grows /\ (Onward => MoneyTrue')
  BY <1>1, QuietGrows
<1>4. job[j].pc \notin Paying /\ ~At(j, "idle")
  BY <1>1 DEF Paying, PayPath, At
<1> QED
  BY <1>1, <1>2, <1>3, <1>4, OrderStays, ReturnStep

LEMMA ExpireOrderKeeps ==
  ASSUME OrderInv, NEW j \in Jobs, ExpireOrder(j)
  PROVE  OrderInv'
<1>1. job[j].pc = "expire" /\ Quiet /\ dropped' = dropped
  BY DEF ExpireOrder, At, Quiet, outside, money, history
<1>2. RestTyped'
  BY JobFacts DEF ExpireOrder, RestTyped, outside, money, history, bounds
<1>3. Grows /\ (Onward => MoneyTrue')
  BY <1>1, QuietGrows
<1>4. job[j].pc \notin Paying /\ ~At(j, "idle")
  BY <1>1 DEF Paying, PayPath, At
<1>5. CASE order' = order /\ Return(j)
  BY <1>2, <1>3, <1>4, <1>5, OrderStays, ReturnStep
<1>6. CASE order' = [order EXCEPT !.status = "expired"] /\ Goto(j, "releasePromo")
  <2>1. PICK q : q = [job[j] EXCEPT !.pc = "releasePromo"]
    OBVIOUS
  <2>2. job[j] \in JobState /\ order \in OrderRow
    BY JobFacts
  <2>3. q \in JobState /\ q.pc = "releasePromo" /\ q.copy = job[j].copy /\ q.orig = job[j].orig
    BY <2>1, <2>2 DEF JobState, Pcs
  <2>4. job' = [job EXCEPT ![j] = q]
    BY <1>6, <2>1 DEF Goto
  <2>5. order' \in OrderRow /\ order'.status = "expired"
    BY <1>6, <2>2 DEF OrderRow, Statuses
  <2>6. RowTrue(order)'
    BY <2>5 DEF RowTrue, StatusTrue, Unpaid
  <2>7. Onward => RowTrue(q.copy)' /\ RowTrue(q.orig)'
    BY <2>3, JobFacts, RowStaysTrue
  <2>8. CopyFits(q)' /\ JobTrue(q)'
    BY <2>3 DEF CopyFits, JobTrue, PayPath, RefundPath
  <2> QED
    BY <1>2, <1>3, <1>4, <2>3, <2>4, <2>5, <2>6, <2>7, <2>8, GrowsStep DEF JobOK
<1> QED
  BY <1>5, <1>6 DEF ExpireOrder

\* The branch a webhook takes suits the copy it was taken on.
LEMMA WebhookBranch ==
  ASSUME OrderInv, NEW j \in Jobs, job[j].pc = "audit",
         NEW next, next = WebhookStep(job[j].copy, job[j].news)
  PROVE  /\ next \in {"idle", "revive", "pay", "markFailed", "refundFailed", "debit", "refunded"}
         /\ next = "revive" => provider = "paid" /\ job[j].copy.status \in {"expired", "canceled"}
         /\ next = "pay" => provider = "paid" /\ job[j].copy.status = "pending"
         /\ next = "markFailed" => provider = "failed" /\ job[j].copy.status = "pending"
         /\ next \in {"refundFailed", "debit", "refunded"} => job[j].copy.status = "refunding"
         /\ next = "debit" => HasRefund /\ product = "balance_credit"
         /\ job[j].news = "paid" => Settled \/ next \in {"revive", "pay"}
<1>1. PICK st : st = job[j].copy.status
  OBVIOUS
<1>2. st \in Statuses \ {"absent"} /\ job[j].news \in AllNews
  BY <1>1, JobFacts DEF JobState, OrderRow, CopyFits
<1>3. StatusTrue(st)
  BY <1>1, JobFacts DEF RowTrue
<1>4. CASE job[j].news = "paid"
  <2>1. provider = "paid"
    BY <1>4, JobFacts DEF JobTrue
  <2>2. st # "failed"
    BY <1>3, <2>1 DEF StatusTrue
  <2>3. CASE st = "pending"
    <3>1. next = "pay"
      BY <1>1, <1>4, <2>3 DEF WebhookStep, validateTransition, Successors
    <3> QED
      BY <1>1, <2>1, <2>3, <3>1
  <2>4. CASE st \in {"expired", "canceled"}
    <3>1. next = "revive"
      BY <1>1, <1>4, <2>4 DEF WebhookStep
    <3> QED
      BY <1>1, <2>1, <2>4, <3>1
  <2>5. CASE st \notin Unpaid
    <3>1. Settled
      BY <1>3, <2>5 DEF StatusTrue
    <3>2. "paid" \notin Successors(st) \/ st = "pending"
      BY <1>2 DEF Successors, Statuses
    <3>3. next = "idle"
      BY <1>1, <1>2, <1>4, <2>5, <3>2 DEF WebhookStep, validateTransition, Unpaid, Statuses
    <3> QED
      BY <3>1, <3>3
  <2> QED
    BY <1>2, <2>2, <2>3, <2>4, <2>5 DEF Unpaid
<1>5. CASE job[j].news = "failed"
  <2>1. provider = "failed"
    BY <1>5, JobFacts DEF JobTrue
  <2>2. next = IF st = "pending" THEN "markFailed" ELSE "idle"
    BY <1>1, <1>5 DEF WebhookStep
  <2> QED
    BY <1>1, <1>5, <2>1, <2>2
<1>6. CASE job[j].news \notin {"paid", "failed"}
  <2>1. next = RefundStep(job[j].copy, job[j].news = "refunded")
    BY <1>6 DEF WebhookStep
  <2>2. product \in {"balance_credit", "subscription_plan"}
    BY JobFacts, ProductsAssumption DEF RestTyped
  <2>3. job[j].news = "refunded" => HasRefund
    BY JobFacts DEF JobTrue
  <2> QED
    BY <1>6, <2>1, <2>2, <2>3 DEF RefundStep
<1> QED
  BY <1>4, <1>5, <1>6

LEMMA CreateAuditLogKeeps ==
  ASSUME OrderInv, NEW j \in Jobs, CreateAuditLog(j)
  PROVE  OrderInv'
<1>1. PICK key : key = <<job[j].news, job[j].amt>>
  OBVIOUS
<1>2. PICK next : next = WebhookStep(job[j].copy, job[j].news)
  OBVIOUS
<1>3. /\ job[j].pc = "audit" /\ audit' = audit \cup {key} /\ order' = order /\ dropped' = dropped
      /\ IF key \in audit \/ next = "idle" THEN Return(j) ELSE Goto(j, next)
      /\ UNCHANGED <<product, provider, refundAt, credits, booked, subs, debited>>
  BY <1>1, <1>2 DEF CreateAuditLog, At, outside, money, history
<1>4. job[j] \in JobState /\ RestTyped /\ MoneyTrue
  BY JobFacts
<1>5. RestTyped'
  <2>1. key \in AllNews \X ({0} \cup RefundAmounts)
    BY <1>1, <1>4 DEF JobState
  <2> QED
    BY <1>3, <1>4, <2>1 DEF CreateAuditLog, RestTyped, outside, money, history, bounds
<1>6. Grows
  BY <1>3, <1>4 DEF Grows, HasRefund, RestTyped
<1>7. /\ next \in {"idle", "revive", "pay", "markFailed", "refundFailed", "debit", "refunded"}
      /\ next = "revive" => provider = "paid" /\ job[j].copy.status \in {"expired", "canceled"}
      /\ next = "pay" => provider = "paid" /\ job[j].copy.status = "pending"
      /\ next = "markFailed" => provider = "failed" /\ job[j].copy.status = "pending"
      /\ next \in {"refundFailed", "debit", "refunded"} => job[j].copy.status = "refunding"
      /\ next = "debit" => HasRefund /\ product = "balance_credit"
      /\ job[j].news = "paid" => Settled \/ next \in {"revive", "pay"}
  BY <1>2, <1>3, WebhookBranch
<1>8. job[j].pc \notin Paying /\ ~At(j, "idle")
  BY <1>3 DEF Paying, PayPath, At
<1>10. Onward /\ (key = <<"paid", 0>> => Settled \/ Settled') => MoneyTrue'
  BY <1>3, <1>4 DEF MoneyTrue, Onward
<1>11. key = <<"paid", 0>> => job[j].news = "paid"
  BY <1>1
<1>12. CASE key \in audit \/ next = "idle"
  <2>1. key = <<"paid", 0>> => Settled
    BY <1>4, <1>7, <1>11, <1>12 DEF MoneyTrue
  <2> QED
    BY <1>3, <1>5, <1>6, <1>8, <1>10, <1>12, <2>1, OrderStays, ReturnStep
<1>13. CASE ~(key \in audit \/ next = "idle")
  <2>1. Goto(j, next)
    BY <1>3, <1>13
  <2>2. next \in Pcs \ {"session"}
    BY <1>7, <1>13 DEF Pcs, PayPath
  <2>3. job'[j].pc = next
    BY <2>1, TypeParts DEF Goto, OrderInv, JobState
  <2>4. Onward => MoneyTrue'
    <3>1. CASE job[j].news = "paid"
      <4>1. next \in {"revive", "pay"} \/ Settled
        BY <1>7, <3>1
      <4>2. next \in {"revive", "pay"} => Settled'
        BY <2>3 DEF Settled, PayPath
      <4> QED
        BY <1>10, <4>1, <4>2
    <3>2. CASE job[j].news # "paid"
      BY <1>10, <1>11, <3>2
    <3> QED
      BY <3>1, <3>2
  <2>5. ASSUME NEW q, q.pc = next, Carries(q, job[j]), Onward PROVE CopyFits(q) /\ JobTrue(q)'
    <3>1. q.copy = job[j].copy
      BY <2>5 DEF Carries
    <3>2. CopyFits(q)
      BY <1>7, <1>13, <2>5, <3>1 DEF CopyFits
    <3>3. q.pc \in {"refundFailed", "debit", "refunded"} => provider = "paid" /\ Settled
      BY <1>7, <2>5, JobFacts DEF RowTrue, StatusTrue, Unpaid
    <3>4. JobTrue(q)'
      BY <1>3, <1>7, <1>13, <2>5, <3>3 DEF JobTrue, PayPath, RefundPath, Onward
    <3> QED
      BY <3>2, <3>4
  <2> QED
    BY <1>3, <1>5, <1>6, <1>8, <2>1, <2>2, <2>4, <2>5, GotoStep
<1> QED
  BY <1>12, <1>13

LEMMA ReviveKeeps ==
  ASSUME OrderInv, NEW j \in Jobs, Revive(j)
  PROVE  OrderInv'
<1>1. job[j].pc = "revive" /\ UpdateOrder(j, "pending", "pay") /\ Quiet /\ dropped' = dropped
  BY DEF Revive, At, Quiet, outside, money, history
<1>2. RestTyped'
  BY JobFacts DEF Revive, RestTyped, outside, money, history, bounds
<1>3. Grows /\ (Onward => MoneyTrue')
  BY <1>1, QuietGrows
<1>4. StatusTrue("pending")'
  BY DEF StatusTrue, Unpaid
<1>5. /\ "pending" \in Statuses \ {"absent"} /\ "pay" \in Pcs \ {"session", "idle"}
      /\ "pay" \in Paying /\ ~At(j, "idle")
  BY <1>1 DEF Statuses, Pcs, Paying, PayPath, At
<1>6. provider' = "paid"
  BY <1>1, JobFacts DEF JobTrue, Quiet
<1>7. ASSUME NEW q, q.pc = "pay", q.copy.status = "pending" PROVE CopyFits(q) /\ JobTrue(q)'
  BY <1>6, <1>7 DEF CopyFits, JobTrue, PayPath, RefundPath
<1> QED
  BY <1>1, <1>2, <1>3, <1>4, <1>5, <1>7, WriteStep

LEMMA MarkFailedKeeps ==
  ASSUME OrderInv, NEW j \in Jobs, MarkFailed(j)
  PROVE  OrderInv'
<1>1. job[j].pc = "markFailed" /\ UpdateOrder(j, "failed", "releasePromo") /\ Quiet /\ dropped' = dropped
  BY DEF MarkFailed, At, Quiet, outside, money, history
<1>2. RestTyped'
  BY JobFacts DEF MarkFailed, RestTyped, outside, money, history, bounds
<1>3. Grows /\ (Onward => MoneyTrue')
  BY <1>1, QuietGrows
<1>4. StatusTrue("failed")'
  BY <1>1, JobFacts DEF JobTrue, Quiet, StatusTrue, Unpaid
<1>5. /\ "failed" \in Statuses \ {"absent"} /\ "releasePromo" \in Pcs \ {"session", "idle"}
      /\ job[j].pc \notin Paying /\ ~At(j, "idle")
  BY <1>1 DEF Statuses, Pcs, Paying, PayPath, At
<1>6. ASSUME NEW q, q.pc = "releasePromo" PROVE CopyFits(q) /\ JobTrue(q)'
  BY <1>6 DEF CopyFits, JobTrue, PayPath, RefundPath
<1> QED
  BY <1>1, <1>2, <1>3, <1>4, <1>5, <1>6, WriteStep

LEMMA QueryOrderKeeps ==
  ASSUME OrderInv, NEW j \in Jobs, QueryOrder(j)
  PROVE  OrderInv'
<1>1. job[j].pc = "query" /\ Quiet /\ dropped' = dropped /\ order' = order
  BY DEF QueryOrder, At, Quiet, outside, money, history
<1>2. RestTyped'
  BY JobFacts DEF QueryOrder, RestTyped, outside, money, history, bounds
<1>3. Grows /\ (Onward => MoneyTrue')
  BY <1>1, QuietGrows
<1>4. job[j].pc \notin Paying /\ ~At(j, "idle") /\ job[j].copy.status = "pending"
  BY <1>1, JobFacts DEF Paying, PayPath, At, CopyFits
<1>5. \/ provider = "paid" /\ Goto(j, "pay")
      \/ provider = "failed" /\ Goto(j, "markFailed")
      \/ Return(j)
  BY DEF QueryOrder
<1>6. CASE provider = "paid" /\ Goto(j, "pay")
  <2>1. ASSUME NEW q, q.pc = "pay", Carries(q, job[j]) PROVE CopyFits(q) /\ JobTrue(q)'
    BY <1>1, <1>4, <1>6, <2>1 DEF CopyFits, JobTrue, PayPath, RefundPath, Carries, Quiet
  <2>2. "pay" \in Pcs \ {"session"}
    BY DEF Pcs, PayPath
  <2> QED
    BY <1>1, <1>2, <1>3, <1>4, <1>6, <2>1, <2>2, GotoStep
<1>7. CASE provider = "failed" /\ Goto(j, "markFailed")
  <2>1. ASSUME NEW q, q.pc = "markFailed", Carries(q, job[j]) PROVE CopyFits(q) /\ JobTrue(q)'
    BY <1>1, <1>4, <1>7, <2>1 DEF CopyFits, JobTrue, PayPath, RefundPath, Carries, Quiet
  <2>2. "markFailed" \in Pcs \ {"session"}
    BY DEF Pcs, PayPath
  <2> QED
    BY <1>1, <1>2, <1>3, <1>4, <1>7, <2>1, <2>2, GotoStep
<1>8. CASE Return(j)
  BY <1>1, <1>2, <1>3, <1>4, <1>8, OrderStays, ReturnStep
<1> QED
  BY <1>5, <1>6, <1>7, <1>8

LEMMA WritePaidKeeps ==
  ASSUME OrderInv, NEW j \in Jobs, WritePaid(j)
  PROVE  OrderInv'
<1>1. PICK pc : pc = IF product = "balance_credit" THEN "credit" ELSE "book"
  OBVIOUS
<1>2. job[j].pc = "pay" /\ UpdateOrder(j, "paid", pc) /\ Quiet /\ dropped' = dropped
  BY <1>1 DEF WritePaid, At, Quiet, outside, money, history
<1>3. RestTyped'
  BY JobFacts DEF WritePaid, RestTyped, outside, money, history, bounds
<1>4. Grows /\ (Onward => MoneyTrue')
  BY <1>2, QuietGrows
<1>5. /\ "paid" \in Statuses \ {"absent"} /\ pc \in Pcs \ {"session", "idle"}
      /\ pc \in Paying /\ ~At(j, "idle")
  BY <1>1, <1>2 DEF Statuses, Pcs, Paying, PayPath, At
<1>6. provider = "paid" /\ provider' = "paid" /\ product' = product
  BY <1>2, JobFacts DEF JobTrue, Quiet, PayPath
<1>7. Settled
  <2>1. job[j].pc \in PayPath \cup {"revive"}
    BY <1>2 DEF PayPath
  <2> QED
    BY <2>1 DEF Settled
<1>8. Onward => StatusTrue("paid")'
  BY <1>6, <1>7 DEF StatusTrue, Onward
<1>9. ASSUME NEW q, q.pc = pc, q.copy.status = "paid" PROVE CopyFits(q) /\ JobTrue(q)'
  <2>1. CASE product = "balance_credit"
    BY <1>1, <1>6, <1>9, <2>1 DEF CopyFits, JobTrue, PayPath, RefundPath
  <2>2. CASE product # "balance_credit"
    BY <1>1, <1>6, <1>9, <2>2 DEF CopyFits, JobTrue, PayPath, RefundPath
  <2> QED
    BY <2>1, <2>2
<1> QED
  BY <1>2, <1>3, <1>4, <1>5, <1>8, <1>9, WriteStep

\* A step that adds to what the order was given, after its payment.
LEMMA GiveGrows ==
  ASSUME OrderInv, NEW j \in Jobs, job[j].pc \in PayPath, RestTyped',
         UNCHANGED <<audit, product, provider, refundAt, debited, dropped>>,
         credits' >= credits, booked' >= booked, subs' >= subs
  PROVE  Grows /\ (Onward => MoneyTrue') /\ provider' = "paid"
<1>1. RestTyped /\ MoneyTrue /\ provider = "paid"
  BY JobFacts DEF JobTrue
<1>2. Grows
  BY <1>1 DEF Grows, HasRefund, RestTyped
<1> QED
  BY <1>1, <1>2 DEF MoneyTrue, Onward

LEMMA CreditBalanceKeeps ==
  ASSUME OrderInv, NEW j \in Jobs, CreditBalance(j)
  PROVE  OrderInv'
<1>1. /\ job[j].pc = "credit" /\ Goto(j, "book") /\ order' = order /\ credits' = credits + 1
      /\ UNCHANGED <<audit, product, provider, refundAt, debited, dropped, booked, subs>>
  BY DEF CreditBalance, At, outside, history
<1>2. job[j].copy.status = "paid" /\ product = "balance_credit" /\ RestTyped
  BY <1>1, JobFacts DEF CopyFits, JobTrue
<1>3. RestTyped' /\ credits' > 0
  BY <1>1, <1>2 DEF CreditBalance, RestTyped, outside, history, bounds
<1>4. /\ "book" \in Pcs /\ "book" \in Paying /\ "book" # "session"
      /\ ~At(j, "idle") /\ job[j].pc \in PayPath
  BY <1>1 DEF Pcs, Paying, PayPath, At
<1>5. credits' >= credits /\ booked' >= booked /\ subs' >= subs
  BY <1>1, <1>2 DEF RestTyped
<1>6. Grows /\ (Onward => MoneyTrue') /\ provider' = "paid"
  BY <1>1, <1>3, <1>4, <1>5, GiveGrows
<1>7. ASSUME NEW q, q.pc = "book", Carries(q, job[j]) PROVE CopyFits(q) /\ JobTrue(q)'
  BY <1>2, <1>3, <1>6, <1>7 DEF CopyFits, JobTrue, PayPath, RefundPath, Carries
<1> QED
  BY <1>1, <1>3, <1>4, <1>6, <1>7, GotoStep

LEMMA RecordBillingKeeps ==
  ASSUME OrderInv, NEW j \in Jobs, RecordBilling(j)
  PROVE  OrderInv'
<1>1. PICK pc : pc = IF product = "subscription_plan" THEN "activate" ELSE "fulfill"
  OBVIOUS
<1>2. /\ job[j].pc = "book" /\ Goto(j, pc) /\ order' = order /\ booked' = booked + 1
      /\ UNCHANGED <<audit, product, provider, refundAt, debited, dropped, credits, subs>>
  BY <1>1 DEF RecordBilling, At, outside, history
<1>3. /\ job[j].copy.status = "paid" /\ RestTyped /\ (product = "balance_credit" => credits > 0)
      /\ product \in {"balance_credit", "subscription_plan"}
  BY <1>2, JobFacts, ProductsAssumption DEF CopyFits, JobTrue, RestTyped
<1>4. RestTyped' /\ booked' > 0
  BY <1>2, <1>3 DEF RecordBilling, RestTyped, outside, history, bounds
<1>5. /\ pc \in Pcs /\ pc \in Paying /\ pc # "session"
      /\ ~At(j, "idle") /\ job[j].pc \in PayPath
  BY <1>1, <1>2 DEF Pcs, Paying, PayPath, At
<1>6. credits' >= credits /\ booked' >= booked /\ subs' >= subs
  BY <1>2, <1>3 DEF RestTyped
<1>7. Grows /\ (Onward => MoneyTrue') /\ provider' = "paid"
  BY <1>2, <1>4, <1>5, <1>6, GiveGrows
<1>8. ASSUME NEW q, q.pc = pc, Carries(q, job[j]) PROVE CopyFits(q) /\ JobTrue(q)'
  <2>1. CASE product = "subscription_plan"
    BY <1>1, <1>2, <1>3, <1>4, <1>7, <1>8, <2>1 DEF CopyFits, JobTrue, PayPath, RefundPath, Carries
  <2>2. CASE product = "balance_credit"
    BY <1>1, <1>2, <1>3, <1>4, <1>7, <1>8, <2>2
       DEF CopyFits, JobTrue, PayPath, RefundPath, Carries, Delivered
  <2> QED
    BY <1>3, <2>1, <2>2
<1> QED
  BY <1>2, <1>4, <1>5, <1>7, <1>8, GotoStep

LEMMA FindSubscriptionKeeps ==
  ASSUME OrderInv, NEW j \in Jobs, FindSubscription(j)
  PROVE  OrderInv'
<1>1. PICK pc : pc = IF subs > 0 THEN "fulfill" ELSE "subscribe"
  OBVIOUS
<1>2. job[j].pc = "activate" /\ Goto(j, pc) /\ order' = order /\ Quiet /\ dropped' = dropped
  BY <1>1 DEF FindSubscription, At, Quiet, outside, money, history
<1>3. RestTyped'
  BY JobFacts DEF FindSubscription, RestTyped, outside, money, history, bounds
<1>4. Grows /\ (Onward => MoneyTrue')
  BY <1>2, QuietGrows
<1>5. /\ job[j].copy.status = "paid" /\ product = "subscription_plan" /\ booked > 0 /\ provider = "paid"
  BY <1>2, JobFacts DEF CopyFits, JobTrue, PayPath
<1>6. /\ pc \in Pcs /\ pc \in Paying /\ pc # "session" /\ ~At(j, "idle")
  BY <1>1, <1>2 DEF Pcs, Paying, PayPath, At
<1>7. ASSUME NEW q, q.pc = pc, Carries(q, job[j]) PROVE CopyFits(q) /\ JobTrue(q)'
  <2>1. CASE subs > 0
    BY <1>1, <1>2, <1>5, <1>7, <2>1 DEF CopyFits, JobTrue, PayPath, RefundPath, Carries, Delivered, Quiet
  <2>2. CASE ~(subs > 0)
    BY <1>1, <1>2, <1>5, <1>7, <2>2 DEF CopyFits, JobTrue, PayPath, RefundPath, Carries, Quiet
  <2> QED
    BY <2>1, <2>2
<1> QED
  BY <1>2, <1>3, <1>4, <1>6, <1>7, GotoStep

LEMMA CreateSubscriptionKeeps ==
  ASSUME OrderInv, NEW j \in Jobs, CreateSubscription(j)
  PROVE  OrderInv'
<1>1. /\ job[j].pc = "subscribe" /\ Goto(j, "fulfill") /\ order' = order /\ subs' = subs + 1
      /\ UNCHANGED <<audit, product, provider, refundAt, debited, dropped, booked, credits>>
  BY DEF CreateSubscription, At, outside, history
<1>2. job[j].copy.status = "paid" /\ product = "subscription_plan" /\ booked > 0 /\ RestTyped
  BY <1>1, JobFacts DEF CopyFits, JobTrue
<1>3. RestTyped' /\ subs' > 0
  BY <1>1, <1>2 DEF CreateSubscription, RestTyped, outside, history, bounds
<1>4. /\ "fulfill" \in Pcs /\ "fulfill" \in Paying /\ "fulfill" # "session"
      /\ ~At(j, "idle") /\ job[j].pc \in PayPath
  BY <1>1 DEF Pcs, Paying, PayPath, At
<1>5. credits' >= credits /\ booked' >= booked /\ subs' >= subs
  BY <1>1, <1>2 DEF RestTyped
<1>6. Grows /\ (Onward => MoneyTrue') /\ provider' = "paid"
  BY <1>1, <1>3, <1>4, <1>5, GiveGrows
<1>7. ASSUME NEW q, q.pc = "fulfill", Carries(q, job[j]) PROVE CopyFits(q) /\ JobTrue(q)'
  BY <1>1, <1>2, <1>3, <1>6, <1>7 DEF CopyFits, JobTrue, PayPath, RefundPath, Carries, Delivered
<1> QED
  BY <1>1, <1>3, <1>4, <1>6, <1>7, GotoStep

LEMMA FulfillFailsKeeps ==
  ASSUME OrderInv, NEW j \in Jobs, FulfillFails(j)
  PROVE  OrderInv'
<1>1. /\ job[j].pc \in {"credit", "book", "activate", "subscribe"} /\ Goto(j, "fulfillmentFailed")
      /\ order' = order /\ Quiet /\ dropped' = TRUE
  BY DEF FulfillFails, Quiet, outside, money
<1>2. RestTyped'
  BY JobFacts DEF FulfillFails, RestTyped, outside, money
<1>3. Grows /\ (Onward => MoneyTrue')
  BY <1>1, QuietGrows
<1>4. job[j].copy.status = "paid" /\ provider = "paid"
  BY <1>1, JobFacts DEF CopyFits, JobTrue, PayPath
<1>5. /\ "fulfillmentFailed" \in Pcs /\ "fulfillmentFailed" \in Paying
      /\ "fulfillmentFailed" # "session" /\ ~At(j, "idle")
  BY <1>1 DEF Pcs, Paying, PayPath, At
<1>6. ASSUME NEW q, q.pc = "fulfillmentFailed", Carries(q, job[j]) PROVE CopyFits(q) /\ JobTrue(q)'
  BY <1>1, <1>4, <1>6 DEF CopyFits, JobTrue, PayPath, RefundPath, Carries, Quiet
<1> QED
  BY <1>1, <1>2, <1>3, <1>5, <1>6, GotoStep

LEMMA WriteFulfillmentFailedKeeps ==
  ASSUME OrderInv, NEW j \in Jobs, WriteFulfillmentFailed(j)
  PROVE  OrderInv'
<1>1. /\ job[j].pc = "fulfillmentFailed" /\ UpdateOrder(j, "fulfillment_failed", "idle")
      /\ Quiet /\ dropped' = dropped
  BY DEF WriteFulfillmentFailed, At, Quiet, outside, money, history
<1>2. RestTyped'
  BY JobFacts DEF WriteFulfillmentFailed, RestTyped, outside, money, history, bounds
<1>3. Grows /\ (Onward => MoneyTrue')
  BY <1>1, QuietGrows
<1>4. dropped' /\ provider' = "paid"
  BY <1>1, JobFacts DEF JobTrue, PayPath, Quiet
<1>5. StatusTrue("fulfillment_failed")'
  BY <1>4 DEF StatusTrue, Settled
<1>6. "fulfillment_failed" \in Statuses \ {"absent"} /\ ~At(j, "idle")
  BY <1>1 DEF Statuses, At
<1> QED
  BY <1>1, <1>2, <1>3, <1>4, <1>5, <1>6, LastWriteStep

LEMMA WriteFulfilledKeeps ==
  ASSUME OrderInv, NEW j \in Jobs, WriteFulfilled(j)
  PROVE  OrderInv'
<1>1. job[j].pc = "fulfill" /\ UpdateOrder(j, "fulfilled", "announcePaid") /\ Quiet /\ dropped' = dropped
  BY DEF WriteFulfilled, At, Quiet, outside, money, history
<1>2. RestTyped'
  BY JobFacts DEF WriteFulfilled, RestTyped, outside, money, history, bounds
<1>3. Grows /\ (Onward => MoneyTrue')
  BY <1>1, QuietGrows
<1>4. provider' = "paid" /\ Delivered' /\ booked' > 0
  BY <1>1, JobFacts DEF JobTrue, PayPath, Quiet, Delivered
<1>5. StatusTrue("fulfilled")'
  BY <1>4 DEF StatusTrue, Settled
<1>6. /\ "fulfilled" \in Statuses \ {"absent"} /\ "announcePaid" \in Pcs \ {"session", "idle"}
      /\ ~At(j, "idle")
  BY <1>1 DEF Statuses, Pcs, PayPath, At
<1>7. ASSUME NEW q, q.pc = "announcePaid", q.copy.status = "fulfilled" PROVE CopyFits(q) /\ JobTrue(q)'
  BY <1>4, <1>7 DEF CopyFits, JobTrue, PayPath, RefundPath
<1> QED
  BY <1>1, <1>2, <1>3, <1>4, <1>5, <1>6, <1>7, WriteStep

LEMMA EnqueuePaidKeeps ==
  ASSUME OrderInv, NEW j \in Jobs, EnqueuePaid(j)
  PROVE  OrderInv'
<1>1. job[j].pc = "announcePaid" /\ Return(j) /\ Quiet /\ dropped' = dropped /\ order' = order
  BY DEF EnqueuePaid, At, Quiet, outside, history
<1>2. RestTyped'
  BY JobFacts DEF EnqueuePaid, RestTyped, outside, history, bounds
<1>3. Grows /\ (Onward => MoneyTrue')
  BY <1>1, QuietGrows
<1>4. Delivered' /\ ~At(j, "idle")
  BY <1>1, JobFacts DEF JobTrue, Quiet, Delivered, At
<1> QED
  BY <1>1, <1>2, <1>3, <1>4, OrderStays, ReturnStep

LEMMA WriteRefundingKeeps ==
  ASSUME OrderInv, NEW j \in Jobs, WriteRefunding(j)
  PROVE  OrderInv'
<1>1. PICK row : row = [status |-> "refunding", refund |-> job[j].amt]
  OBVIOUS
<1>2. PICK q : q = [job[j] EXCEPT !.orig = job[j].copy, !.copy = row, !.pc = "callRefund"]
  OBVIOUS
<1>3. /\ job[j].pc = "refunding" /\ order' = row /\ job' = [job EXCEPT ![j] = q]
      /\ Quiet /\ dropped' = dropped
  BY <1>1, <1>2 DEF WriteRefunding, At, Quiet, outside, money, history
<1>4. /\ job[j] \in JobState /\ job[j].amt \in RefundAmounts /\ provider = "paid" /\ Settled
      /\ job[j].copy.status \in {"paid", "fulfilled", "fulfillment_failed"} /\ RowTrue(job[j].copy)
  BY <1>3, JobFacts DEF JobTrue, CopyFits, RefundPath
<1>5. row \in OrderRow /\ row.status = "refunding"
  BY <1>1, <1>4 DEF OrderRow, Statuses
<1>6. /\ q \in JobState /\ q.pc = "callRefund" /\ q.copy = row /\ q.orig = job[j].copy
      /\ q.amt = job[j].amt
  BY <1>2, <1>4, <1>5 DEF JobState, Pcs
<1>7. RestTyped'
  BY JobFacts DEF WriteRefunding, RestTyped, outside, money, history, bounds
<1>8. Grows /\ (Onward => MoneyTrue')
  BY <1>3, QuietGrows
<1>9. ASSUME Onward PROVE JobOK(q)' /\ RowTrue(order)'
  <2>1. provider' = "paid" /\ Settled'
    BY <1>4, <1>9 DEF Onward
  <2>2. RowTrue(order)' /\ RowTrue(q.copy)'
    BY <1>3, <1>5, <1>6, <2>1 DEF RowTrue, StatusTrue
  <2>3. RowTrue(q.orig)'
    BY <1>4, <1>6, <1>9, RowStaysTrue
  <2>4. CopyFits(q)' /\ JobTrue(q)'
    BY <1>4, <1>5, <1>6, <2>1 DEF CopyFits, JobTrue, PayPath, RefundPath
  <2> QED
    BY <2>2, <2>3, <2>4 DEF JobOK
<1>10. job[j].pc \notin Paying /\ order' \in OrderRow /\ order'.status # "absent"
  BY <1>3, <1>5 DEF Paying, PayPath
<1> QED
  BY <1>3, <1>6, <1>7, <1>8, <1>9, <1>10, GrowsStep

\* A step that may start or settle a refund at the provider.
LEMMA RefundGrows ==
  ASSUME OrderInv, RestTyped', HasRefund => HasRefund',
         UNCHANGED <<audit, product, provider, credits, booked, subs, debited, dropped>>
  PROVE  Grows /\ (Onward => MoneyTrue')
<1>1. RestTyped /\ MoneyTrue
  BY TypeParts DEF OrderInv
<1>2. Grows
  BY <1>1 DEF Grows, RestTyped
<1> QED
  BY <1>1, <1>2, MoneyStaysTrue

LEMMA CallRefundKeeps ==
  ASSUME OrderInv, NEW j \in Jobs, CallRefund(j)
  PROVE  OrderInv'
<1>1. PICK a : a = job[j].amt
  OBVIOUS
<1>2. PICK answer \in IF refundAt[a] = "none" THEN {"processing", "refunded", "refund_failed"} ELSE {refundAt[a]} :
         /\ refundAt' = [refundAt EXCEPT ![a] = answer]
         /\ job' = [job EXCEPT ![j] = [job[j] EXCEPT !.news = answer, !.pc = "attachRefund"]]
  BY <1>1 DEF CallRefund
<1>3. PICK q : q = [job[j] EXCEPT !.news = answer, !.pc = "attachRefund"]
  OBVIOUS
<1>4. /\ job[j].pc = "callRefund" /\ order' = order /\ job' = [job EXCEPT ![j] = q]
      /\ UNCHANGED <<audit, product, provider, credits, booked, subs, debited, dropped>>
  BY <1>2, <1>3 DEF CallRefund, At, money, history
<1>5. /\ job[j] \in JobState /\ a \in RefundAmounts /\ provider = "paid" /\ Settled
      /\ job[j].copy.status = "refunding" /\ RowTrue(job[j].copy) /\ RowTrue(job[j].orig)
      /\ job[j].orig.status \in {"paid", "fulfilled", "fulfillment_failed"} /\ RowTrue(order) /\ RestTyped
  BY <1>1, <1>4, JobFacts DEF JobTrue, CopyFits, RefundPath
<1>6. answer \in {"processing", "refunded", "refund_failed"}
  BY <1>2, <1>5 DEF RestTyped
<1>7. RestTyped' /\ refundAt'[a] = answer /\ \A b \in RefundAmounts \ {a} : refundAt'[b] = refundAt[b]
  BY <1>2, <1>5, <1>6 DEF CallRefund, RestTyped, money, history, bounds
<1>8. (HasRefund => HasRefund') /\ (answer = "refunded" => HasRefund')
  BY <1>2, <1>5, <1>7 DEF HasRefund
<1>9. Grows /\ (Onward => MoneyTrue')
  BY <1>4, <1>7, <1>8, RefundGrows
<1>10. /\ q \in JobState /\ q.pc = "attachRefund" /\ q.copy = job[j].copy /\ q.orig = job[j].orig
       /\ q.news = answer
  BY <1>3, <1>5, <1>6 DEF JobState, Pcs, AllNews
<1>11. ASSUME Onward PROVE JobOK(q)' /\ RowTrue(order)'
  <2>1. provider' = "paid" /\ Settled'
    BY <1>5, <1>11 DEF Onward
  <2>2. RowTrue(order)'
    BY <1>4, <1>5, <1>11 DEF RowTrue, StatusTrue, Onward
  <2>3. RowTrue(q.copy)' /\ RowTrue(q.orig)'
    BY <1>5, <1>10, <1>11, RowStaysTrue
  <2>4. CopyFits(q)' /\ JobTrue(q)'
    BY <1>5, <1>8, <1>10, <2>1 DEF CopyFits, JobTrue, PayPath, RefundPath
  <2> QED
    BY <2>2, <2>3, <2>4 DEF JobOK
<1>12. job[j].pc \notin Paying /\ ~At(j, "idle") /\ q.pc # "session"
  BY <1>4, <1>10 DEF Paying, PayPath, At
<1> QED
  BY <1>4, <1>7, <1>9, <1>10, <1>11, <1>12, OrderStays, GrowsStep

LEMMA CallRefundFailsKeeps ==
  ASSUME OrderInv, NEW j \in Jobs, CallRefundFails(j)
  PROVE  OrderInv'
<1>1. PICK a : a = job[j].amt
  OBVIOUS
<1>2. /\ job[j].pc = "callRefund" /\ order' = order /\ Goto(j, "restore")
      /\ \/ refundAt' = refundAt
         \/ refundAt' = [refundAt EXCEPT ![a] = IF refundAt[a] = "none" THEN "processing" ELSE refundAt[a]]
      /\ UNCHANGED <<audit, product, provider, credits, booked, subs, debited, dropped>>
  BY <1>1 DEF CallRefundFails, At, money, history
<1>3. /\ RestTyped /\ a \in RefundAmounts /\ provider = "paid" /\ Settled
      /\ job[j].copy.status = "refunding"
      /\ job[j].orig.status \in {"paid", "fulfilled", "fulfillment_failed"}
  BY <1>1, <1>2, JobFacts DEF JobTrue, CopyFits, RefundPath
<1>4. \A b \in RefundAmounts : refundAt[b] = "refunded" => refundAt'[b] = "refunded"
  BY <1>2, <1>3 DEF RestTyped
<1>5. refundAt' \in [RefundAmounts -> {"none", "processing", "refunded", "refund_failed"}]
  BY <1>2, <1>3 DEF RestTyped
<1>6. RestTyped'
  BY <1>3, <1>5 DEF CallRefundFails, RestTyped, money, history
<1>7. HasRefund => HasRefund'
  BY <1>4 DEF HasRefund
<1>8. Grows /\ (Onward => MoneyTrue')
  BY <1>2, <1>6, <1>7, RefundGrows
<1>9. "restore" \in Pcs \ {"session"} /\ job[j].pc \notin Paying /\ ~At(j, "idle")
  BY <1>2 DEF Pcs, Paying, PayPath, At
<1>10. ASSUME NEW q, q.pc = "restore", Carries(q, job[j]), Onward PROVE CopyFits(q) /\ JobTrue(q)'
  BY <1>3, <1>10 DEF CopyFits, JobTrue, PayPath, RefundPath, Carries, Onward
<1> QED
  BY <1>2, <1>6, <1>8, <1>9, <1>10, GotoStep

LEMMA RestoreOrderKeeps ==
  ASSUME OrderInv, NEW j \in Jobs, RestoreOrder(j)
  PROVE  OrderInv'
<1>1. job[j].pc = "restore" /\ Return(j) /\ Quiet /\ dropped' = dropped /\ order' = job[j].orig
  BY DEF RestoreOrder, At, Quiet, outside, money, history
<1>2. RestTyped'
  BY JobFacts DEF RestoreOrder, RestTyped, outside, money, history, bounds
<1>3. Grows /\ (Onward => MoneyTrue')
  BY <1>1, QuietGrows
<1>4. job[j].pc \notin Paying /\ ~At(j, "idle")
  BY <1>1 DEF Paying, PayPath, At
<1>5. /\ job[j] \in JobState /\ RowTrue(job[j].orig)
      /\ job[j].orig.status \in {"paid", "fulfilled", "fulfillment_failed"}
  BY <1>1, JobFacts DEF CopyFits
<1>6. order' \in OrderRow /\ order'.status # "absent"
  BY <1>1, <1>5 DEF JobState
<1>7. Onward => RowTrue(order)'
  BY <1>1, <1>5 DEF RowTrue, StatusTrue, Onward
<1> QED
  BY <1>1, <1>2, <1>3, <1>4, <1>6, <1>7, ReturnStep

LEMMA AttachRefundKeeps ==
  ASSUME OrderInv, NEW j \in Jobs, AttachRefund(j)
  PROVE  OrderInv'
<1>1. PICK pc : pc = IF job[j].news = "processing" THEN "idle"
                     ELSE RefundStep(job[j].copy, job[j].news = "refunded")
  OBVIOUS
<1>2. job[j].pc = "attachRefund" /\ UpdateOrder(j, "refunding", pc) /\ Quiet /\ dropped' = dropped
  BY <1>1 DEF AttachRefund, At, Quiet, outside, money, history
<1>3. RestTyped'
  BY JobFacts DEF AttachRefund, RestTyped, outside, money, history, bounds
<1>4. Grows /\ (Onward => MoneyTrue')
  BY <1>2, QuietGrows
<1>5. /\ job[j].pc \notin Paying /\ ~At(j, "idle") /\ "refunding" \in Statuses \ {"absent"}
  BY <1>2 DEF Paying, PayPath, At, Statuses
<1>6. /\ provider = "paid" /\ Settled /\ (job[j].news = "refunded" => HasRefund)
      /\ product \in {"balance_credit", "subscription_plan"}
  BY <1>2, JobFacts, ProductsAssumption DEF JobTrue, RefundPath, RestTyped
<1>7. Onward => StatusTrue("refunding")'
  BY <1>6 DEF StatusTrue, Onward
<1>8. pc \in {"idle", "refundFailed", "debit", "refunded"} /\ (pc = "debit" => HasRefund /\ product = "balance_credit")
  BY <1>1, <1>6 DEF RefundStep
<1>9. CASE pc = "idle"
  BY <1>2, <1>3, <1>4, <1>5, <1>7, <1>9, LastWriteStep
<1>10. CASE pc # "idle"
  <2>1. pc \in Pcs \ {"session", "idle"}
    BY <1>8, <1>10 DEF Pcs
  <2>2. ASSUME NEW q, q.pc = pc, q.copy.status = "refunding", Onward PROVE CopyFits(q) /\ JobTrue(q)'
    BY <1>6, <1>8, <1>10, <2>2 DEF CopyFits, JobTrue, PayPath, RefundPath, Onward
  <2> QED
    BY <1>2, <1>3, <1>4, <1>5, <1>7, <2>1, <2>2, WriteStep
<1> QED
  BY <1>9, <1>10

LEMMA WriteRefundFailedKeeps ==
  ASSUME OrderInv, NEW j \in Jobs, WriteRefundFailed(j)
  PROVE  OrderInv'
<1>1. job[j].pc = "refundFailed" /\ UpdateOrder(j, "refund_failed", "idle") /\ Quiet /\ dropped' = dropped
  BY DEF WriteRefundFailed, At, Quiet, outside, money, history
<1>2. RestTyped'
  BY JobFacts DEF WriteRefundFailed, RestTyped, outside, money, history, bounds
<1>3. Grows /\ (Onward => MoneyTrue')
  BY <1>1, QuietGrows
<1>4. provider = "paid" /\ Settled
  BY <1>1, JobFacts DEF JobTrue, RefundPath
<1>5. Onward => StatusTrue("refund_failed")'
  BY <1>4 DEF StatusTrue, Onward
<1>6. "refund_failed" \in Statuses \ {"absent"} /\ ~At(j, "idle") /\ job[j].pc \notin Paying
  BY <1>1 DEF Statuses, At, Paying, PayPath
<1> QED
  BY <1>1, <1>2, <1>3, <1>5, <1>6, LastWriteStep

LEMMA DebitBalanceKeeps ==
  ASSUME OrderInv, NEW j \in Jobs, DebitBalance(j)
  PROVE  OrderInv'
<1>1. /\ job[j].pc = "debit" /\ Goto(j, "refunded") /\ order' = order
      /\ debited' = debited + job[j].copy.refund
      /\ UNCHANGED <<audit, product, provider, refundAt, dropped, credits, booked, subs>>
  BY DEF DebitBalance, At, outside, history
<1>2. /\ job[j] \in JobState /\ job[j].copy.status = "refunding" /\ provider = "paid" /\ Settled
      /\ HasRefund /\ product = "balance_credit" /\ RestTyped /\ MoneyTrue
  BY <1>1, JobFacts DEF CopyFits, JobTrue, RefundPath
<1>3. job[j].copy.refund \in Nat
  <2>1. job[j].copy.refund \in {0} \cup RefundAmounts
    BY <1>2 DEF JobState, OrderRow
  <2> QED
    BY <2>1, RefundsNat
<1>4. RestTyped'
  BY <1>1, <1>2, <1>3 DEF DebitBalance, RestTyped, outside, history, bounds
<1>5. Grows
  BY <1>1, <1>2 DEF Grows, HasRefund, RestTyped
<1>6. Onward => MoneyTrue'
  BY <1>1, <1>2 DEF MoneyTrue, Onward
<1>7. "refunded" \in Pcs \ {"session"} /\ ~At(j, "idle") /\ job[j].pc \notin Paying
  BY <1>1 DEF Pcs, At, Paying, PayPath
<1>8. ASSUME NEW q, q.pc = "refunded", Carries(q, job[j]), Onward PROVE CopyFits(q) /\ JobTrue(q)'
  BY <1>2, <1>8 DEF CopyFits, JobTrue, PayPath, RefundPath, Carries, Onward
<1> QED
  BY <1>1, <1>4, <1>5, <1>6, <1>7, <1>8, GotoStep

LEMMA DebitRejectedKeeps ==
  ASSUME OrderInv, NEW j \in Jobs, DebitRejected(j)
  PROVE  OrderInv'
<1>1. job[j].pc = "debit" /\ Return(j) /\ Quiet /\ dropped' = dropped /\ order' = order
  BY DEF DebitRejected, At, Quiet, outside, money, history
<1>2. RestTyped'
  BY JobFacts DEF DebitRejected, RestTyped, outside, money, history, bounds
<1>3. Grows /\ (Onward => MoneyTrue')
  BY <1>1, QuietGrows
<1>4. job[j].pc \notin Paying /\ ~At(j, "idle")
  BY <1>1 DEF Paying, PayPath, At
<1> QED
  BY <1>1, <1>2, <1>3, <1>4, OrderStays, ReturnStep

LEMMA WriteRefundedKeeps ==
  ASSUME OrderInv, NEW j \in Jobs, WriteRefunded(j)
  PROVE  OrderInv'
<1>1. PICK st : st = IF job[j].copy.refund < Amount THEN "partially_refunded" ELSE "refunded"
  OBVIOUS
<1>2. job[j].pc = "refunded" /\ UpdateOrder(j, st, "announceRefund") /\ Quiet /\ dropped' = dropped
  BY <1>1 DEF WriteRefunded, At, Quiet, outside, money, history
<1>3. RestTyped'
  BY JobFacts DEF WriteRefunded, RestTyped, outside, money, history, bounds
<1>4. Grows /\ (Onward => MoneyTrue')
  BY <1>2, QuietGrows
<1>5. provider = "paid" /\ Settled
  BY <1>2, JobFacts DEF JobTrue, RefundPath
<1>6. st \in Closed /\ st \in Statuses \ {"absent"} /\ st # "fulfilled" /\ st # "failed"
  BY <1>1 DEF Closed, Statuses
<1>7. Onward => StatusTrue(st)'
  BY <1>5, <1>6 DEF StatusTrue, Onward
<1>8. "announceRefund" \in Pcs \ {"session", "idle"} /\ ~At(j, "idle") /\ job[j].pc \notin Paying
  BY <1>2 DEF Pcs, At, Paying, PayPath
<1>9. ASSUME NEW q, q.pc = "announceRefund", q.copy.status = st, Onward PROVE CopyFits(q) /\ JobTrue(q)'
  BY <1>5, <1>6, <1>9 DEF CopyFits, JobTrue, PayPath, RefundPath, Onward
<1> QED
  BY <1>2, <1>3, <1>4, <1>6, <1>7, <1>8, <1>9, WriteStep

LEMMA EnqueueRefundedKeeps ==
  ASSUME OrderInv, NEW j \in Jobs, EnqueueRefunded(j)
  PROVE  OrderInv'
<1>1. job[j].pc = "announceRefund" /\ Return(j) /\ Quiet /\ dropped' = dropped /\ order' = order
  BY DEF EnqueueRefunded, At, Quiet, outside, history
<1>2. RestTyped'
  BY JobFacts DEF EnqueueRefunded, RestTyped, outside, history, bounds
<1>3. Grows /\ (Onward => MoneyTrue')
  BY <1>1, QuietGrows
<1>4. job[j].pc \notin Paying /\ ~At(j, "idle")
  BY <1>1 DEF Paying, PayPath, At
<1> QED
  BY <1>1, <1>2, <1>3, <1>4, OrderStays, ReturnStep

LEMMA AbortKeeps ==
  ASSUME OrderInv, NEW j \in Jobs, Abort(j)
  PROVE  OrderInv'
<1>1. /\ ~At(j, "idle") /\ Return(j) /\ Quiet /\ order' = order
      /\ dropped' = (dropped \/ job[j].pc \in Paying)
      /\ interrupted' = (interrupted \/ (At(j, "refunded") /\ product = "balance_credit"))
  BY DEF Abort, Quiet, Paying, outside, money
<1>2. dropped' \in BOOLEAN /\ interrupted' \in BOOLEAN
  BY <1>1, Zenon
<1>3. RestTyped'
  BY <1>2, JobFacts DEF Abort, RestTyped, outside, money
<1>4. (dropped => dropped') /\ (job[j].pc \in Paying => dropped')
  BY <1>1
<1>5. Grows /\ (Onward => MoneyTrue')
  BY <1>1, <1>4, QuietGrows
<1> QED
  BY <1>1, <1>3, <1>4, <1>5, OrderStays, ReturnStep

-----------------------------------------------------------------------------
(* The provider and the clock. *)

\* No operation moves.
LEMMA OutsideStep ==
  ASSUME OrderInv, RestTyped', UNCHANGED <<order, job, audit, credits, booked, subs, debited>>, Onward,
         order.status = "absent" => provider' = "none",
         \A j \in Jobs : At(j, "session") => provider' = "none"
  PROVE  OrderInv'
<1>1. TypeOK'
  BY TypeParts DEF OrderInv
<1>2. RowTrue(order)'
  BY DEF OrderInv, RowTrue, StatusTrue, Onward
<1>3. ASSUME NEW j \in Jobs PROVE JobOK(job[j])'
  <2>1. PICK q : q = job[j]
    OBVIOUS
  <2>2. JobOK(q) /\ job'[j] = q /\ (q.pc = "session" => provider' = "none")
    BY <2>1 DEF OrderInv, At
  <2> QED
    BY <2>2, JobStaysTrue, JobOKNow
<1>4. MoneyTrue'
  BY MoneyStaysTrue DEF OrderInv
<1>5. OneCheckout'
  BY DEF OneCheckout, OrderInv, At
<1> QED
  BY <1>1, <1>2, <1>3, <1>4, <1>5 DEF OrderInv

LEMMA OutsideOnward ==
  ASSUME UNCHANGED <<job, product, credits, booked, subs, dropped>>,
         provider = "paid" => provider' = "paid", provider = "failed" => provider' = "failed",
         HasRefund => HasRefund'
  PROVE  Onward
<1>1. Delivered' = Delivered
  BY DEF Delivered
<1>2. Settled => Settled'
  BY <1>1 DEF Settled
<1> QED
  BY <1>1, <1>2 DEF Onward

LEMMA PaysKeeps ==
  ASSUME OrderInv, Pays
  PROVE  OrderInv'
<1>1. /\ provider = "open" /\ UNCHANGED <<order, job, audit, product, refundAt, credits, booked, subs, debited, dropped>>
  BY DEF Pays, money, history
<1>2. RestTyped /\ RestTyped'
  BY TypeParts DEF OrderInv, Pays, RestTyped, money, history, bounds
<1>3. order.status # "absent" /\ \A j \in Jobs : ~At(j, "session")
  BY <1>1 DEF OrderInv, OneCheckout, JobOK, JobTrue, At
<1>4. HasRefund => HasRefund'
  BY <1>1 DEF HasRefund
<1>5. Onward
  BY <1>1, <1>4, OutsideOnward
<1> QED
  BY <1>1, <1>2, <1>3, <1>5, OutsideStep

LEMMA SettlesRefundKeeps ==
  ASSUME OrderInv, NEW a \in RefundAmounts, SettlesRefund(a)
  PROVE  OrderInv'
<1>1. UNCHANGED <<order, job, audit, product, provider, credits, booked, subs, debited, dropped>>
  BY DEF SettlesRefund, money, history
<1>2. PICK outcome \in {"refunded", "refund_failed"} : refundAt' = [refundAt EXCEPT ![a] = outcome]
  BY DEF SettlesRefund
<1>3. RestTyped /\ refundAt[a] = "processing"
  BY TypeParts DEF OrderInv, SettlesRefund
<1>4. RestTyped' /\ \A b \in RefundAmounts : refundAt[b] = "refunded" => refundAt'[b] = "refunded"
  BY <1>2, <1>3 DEF SettlesRefund, RestTyped, money, history, bounds
<1>5. HasRefund => HasRefund'
  BY <1>4 DEF HasRefund
<1>6. Onward
  BY <1>1, <1>5, OutsideOnward
<1>7. /\ order.status = "absent" => provider' = "none"
      /\ \A j \in Jobs : At(j, "session") => provider' = "none"
  BY <1>1 DEF OrderInv, OneCheckout, JobOK, JobTrue, At
<1> QED
  BY <1>1, <1>4, <1>6, <1>7, OutsideStep

LEMMA QuietOutsideKeeps ==
  ASSUME OrderInv, RestTyped',
         UNCHANGED <<order, job, audit, product, provider, refundAt, credits, booked, subs, debited, dropped>>
  PROVE  OrderInv'
<1>1. HasRefund => HasRefund'
  BY DEF HasRefund
<1>2. Onward
  BY <1>1, OutsideOnward
<1>3. /\ order.status = "absent" => provider' = "none"
      /\ \A j \in Jobs : At(j, "session") => provider' = "none"
  BY DEF OrderInv, OneCheckout, JobOK, JobTrue, At
<1> QED
  BY <1>2, <1>3, OutsideStep

LEMMA PassDeadlineKeeps ==
  ASSUME OrderInv, PassDeadline
  PROVE  OrderInv'
<1>1. UNCHANGED <<order, job, audit, product, provider, refundAt, credits, booked, subs, debited, dropped>>
  BY DEF PassDeadline, money, history
<1>2. RestTyped'
  BY TypeParts DEF OrderInv, PassDeadline, RestTyped, money, history, bounds
<1> QED
  BY <1>1, <1>2, QuietOutsideKeeps

LEMMA StutterKeeps ==
  ASSUME OrderInv, UNCHANGED vars
  PROVE  OrderInv'
<1>1. UNCHANGED <<order, job, audit, product, provider, refundAt, credits, booked, subs, debited, dropped>>
  BY DEF vars, outside, money, history
<1>2. RestTyped'
  BY TypeParts DEF OrderInv, vars, RestTyped, outside, money, history, bounds
<1> QED
  BY <1>1, <1>2, QuietOutsideKeeps

-----------------------------------------------------------------------------
(* The theorems for any overlap of operations. *)

LEMMA OrderInvInit == Init => OrderInv
<1> SUFFICES ASSUME Init PROVE OrderInv
  OBVIOUS
<1>1. NoOrder \in OrderRow /\ NoOrder.status = "absent" /\ NoJob \in JobState /\ NoJob.pc = "idle"
      /\ NoJob.copy = NoOrder /\ NoJob.orig = NoOrder
  BY NoJobOK DEF NoOrder, NoJob, OrderRow, Statuses
<1>2. \A j \in Jobs : job[j] = NoJob
  BY DEF Init
<1>3. RestTyped
  BY DEF Init, RestTyped
<1>4. TypeOK
  BY <1>1, <1>3, TypeParts DEF Init
<1>5. RowTrue(order)
  BY <1>1 DEF Init, RowTrue, StatusTrue, Unpaid
<1>6. ASSUME NEW j \in Jobs PROVE JobOK(job[j])
  BY <1>1, <1>2 DEF JobOK, RowTrue, StatusTrue, CopyFits, JobTrue, PayPath, RefundPath, Unpaid
<1>7. MoneyTrue /\ OneCheckout
  BY <1>1, <1>2 DEF Init, MoneyTrue, OneCheckout, At
<1> QED
  BY <1>4, <1>5, <1>6, <1>7 DEF OrderInv

LEMMA OrderInvNext == OrderInv /\ [Next]_vars => OrderInv'
<1> SUFFICES ASSUME OrderInv, [Next]_vars PROVE OrderInv'
  OBVIOUS
<1>1. CASE UNCHANGED vars
  BY <1>1, StutterKeeps
<1>2. CASE Pays
  BY <1>2, PaysKeeps
<1>3. CASE PassDeadline
  BY <1>3, PassDeadlineKeeps
<1>4. ASSUME NEW a \in RefundAmounts, SettlesRefund(a) PROVE OrderInv'
  BY <1>4, SettlesRefundKeeps
<1>5. ASSUME NEW j \in Jobs,
             \/ CreateOrder(j) \/ ReadToCancel(j) \/ ListExpiredPendingOrders(j) \/ ListPendingOrders(j)
             \/ \E news \in News : Webhook(j, news)
             \/ \E a \in RefundAmounts : ReadToRefund(j, a)
      PROVE OrderInv'
  BY <1>5, CreateOrderKeeps, ReadToCancelKeeps, ListExpiredKeeps, ListPendingKeeps, WebhookKeeps,
     ReadToRefundKeeps
<1>6. ASSUME NEW j \in Jobs, Step(j) PROVE OrderInv'
  <2>1. CASE \/ CreateSession(j) \/ AttachCheckout(j) \/ CancelOrder(j) \/ ExpireOrder(j)
             \/ ReleasePromoCode(j) \/ CreateAuditLog(j) \/ Revive(j) \/ MarkFailed(j) \/ QueryOrder(j)
    BY <2>1, CreateSessionKeeps, AttachCheckoutKeeps, CancelOrderKeeps, ExpireOrderKeeps,
       ReleasePromoKeeps, CreateAuditLogKeeps, ReviveKeeps, MarkFailedKeeps, QueryOrderKeeps
  <2>2. CASE \/ WritePaid(j) \/ CreditBalance(j) \/ RecordBilling(j) \/ FindSubscription(j)
             \/ CreateSubscription(j) \/ WriteFulfillmentFailed(j) \/ WriteFulfilled(j) \/ EnqueuePaid(j)
    BY <2>2, WritePaidKeeps, CreditBalanceKeeps, RecordBillingKeeps, FindSubscriptionKeeps,
       CreateSubscriptionKeeps, WriteFulfillmentFailedKeeps, WriteFulfilledKeeps, EnqueuePaidKeeps
  <2>3. CASE \/ WriteRefunding(j) \/ CallRefund(j) \/ RestoreOrder(j) \/ AttachRefund(j)
             \/ WriteRefundFailed(j) \/ DebitBalance(j) \/ DebitRejected(j) \/ WriteRefunded(j)
             \/ EnqueueRefunded(j)
    BY <2>3, WriteRefundingKeeps, CallRefundKeeps, RestoreOrderKeeps, AttachRefundKeeps,
       WriteRefundFailedKeeps, DebitBalanceKeeps, DebitRejectedKeeps, WriteRefundedKeeps,
       EnqueueRefundedKeeps
  <2> QED
    BY <1>6, <2>1, <2>2, <2>3 DEF Step
<1>7. ASSUME NEW j \in Jobs, FulfillFails(j) \/ CallRefundFails(j) \/ Abort(j) PROVE OrderInv'
  BY <1>7, FulfillFailsKeeps, CallRefundFailsKeeps, AbortKeeps
<1> QED
  BY <1>1, <1>2, <1>3, <1>4, <1>5, <1>6, <1>7 DEF Next

LEMMA OrderInvariant == Spec => []OrderInv
  BY OrderInvInit, OrderInvNext, PTL DEF Spec

\* However operations overlap, fail and are redelivered, the order is given
\* nothing unless the provider was paid, and nothing is taken back unless the
\* provider refunded: every write of paid follows a webhook or a query that
\* found the payment made.
THEOREM MoneyOnlyWhenPaid == Spec => []MoneyMoved
<1>1. OrderInv => MoneyMoved
  BY DEF OrderInv, MoneyTrue, MoneyMoved, RowTrue, StatusTrue, Unpaid, HasRefund
<1> QED
  BY <1>1, OrderInvariant, PTL

\* A row that says fulfilled was delivered and booked, although operations
\* write whole rows from old copies: no copy says fulfilled before that.
THEOREM FulfilledWasDelivered == Spec => []FulfilledDelivered
<1>1. OrderInv => FulfilledDelivered
  BY DEF OrderInv, FulfilledDelivered, RowTrue, StatusTrue
<1> QED
  BY <1>1, OrderInvariant, PTL

\* A paid webhook once recorded in the audit log, which ends every redelivery
\* of it, has led to the delivery, is about to, or was cut short.
THEOREM PaymentNotLost == Spec => []PaidNotLost
<1>1. OrderInv => PaidNotLost
  BY DEF OrderInv, MoneyTrue, PaidNotLost, Settled
<1> QED
  BY <1>1, OrderInvariant, PTL

-----------------------------------------------------------------------------
(* Operations that do not overlap.  The one under way holds the row as it  *)
(* is stored, so its checks are not stale.                                 *)

Busy(j) == ~At(j, "idle")
Own(j) == At(j, "releasePromo") \/ job[j].copy = order

Alone ==
    /\ \A j, k \in Jobs : Busy(j) /\ Busy(k) => j = k
    /\ \A j \in Jobs : Busy(j) => Own(j)

\* What was given, when the row says st and the operation is at pc.
Given(st, pc) ==
    /\ st \in Unpaid => credits = 0 /\ subs = 0
    /\ pc = "credit" => credits = 0
    /\ pc = "subscribe" => subs = 0
    /\ credits <= 1 /\ subs <= 1

\* What was taken back: a refund's amount, by one that has not written its end.
Taken(st, pc) ==
    /\ debited <= Amount
    /\ debited > 0 => st \in Closed \/ pc = "refunded"

GivenOnce == Given(order.status, "idle") /\ \A j \in Jobs : Given(order.status, job[j].pc)
TakenOnce ==
    /\ debited <= Amount
    /\ (\A j \in Jobs : ~Busy(j)) => Taken(order.status, "idle")
    /\ \A j \in Jobs : Busy(j) => Taken(order.status, job[j].pc)

AloneInv == ~contested => Alone /\ GivenOnce /\ (~interrupted => TakenOnce)

\* The operation under way moves from one state to the next.
LEMMA AloneStep ==
  ASSUME OrderInv, AloneInv, NEW j \in Jobs, NEW q \in JobState, job' = [job EXCEPT ![j] = q],
         ~contested' => ~contested, interrupted => interrupted',
         ~contested' => Busy(j) \/ \A k \in Jobs : ~Busy(k),
         ~contested /\ (Busy(j) => Own(j)) /\ Given(order.status, job[j].pc) =>
             /\ q.pc \in {"idle", "releasePromo"} \/ q.copy = order'
             /\ Given(order.status, q.pc)',
         ~contested /\ (Busy(j) => Own(j)) /\ ~interrupted' /\ Taken(order.status, job[j].pc) =>
             Taken(order.status, q.pc)'
  PROVE  AloneInv'
<1> SUFFICES ASSUME ~contested' PROVE Alone' /\ GivenOnce' /\ (~interrupted' => TakenOnce')
  BY DEF AloneInv
<1>1. ~contested /\ Alone /\ GivenOnce /\ (~interrupted => TakenOnce)
  BY DEF AloneInv
<1>2. job \in [Jobs -> JobState] /\ \A k \in Jobs : job'[k] = IF k = j THEN q ELSE job[k]
  BY TypeParts DEF OrderInv
<1>3. \A k \in Jobs \ {j} : job[k].pc = "idle" /\ job'[k].pc = "idle"
  BY <1>1, <1>2 DEF Alone, Busy, At
<1>4. job'[j] = q
  BY <1>2
<1>5. /\ q.pc \in {"idle", "releasePromo"} \/ q.copy = order'
      /\ Given(order.status, q.pc)'
  BY <1>1 DEF Alone, GivenOnce
<1>6. Alone'
  BY <1>3, <1>4, <1>5 DEF Alone, Busy, Own, At
<1>7. GivenOnce'
  <2>1. Given(order.status, "idle")'
    BY <1>5 DEF Given
  <2>2. ASSUME NEW k \in Jobs PROVE Given(order.status, job[k].pc)'
    <3>1. CASE k = j
      BY <1>4, <1>5, <3>1 DEF Given
    <3>2. CASE k # j
      BY <1>3, <2>1, <3>2 DEF Given
    <3> QED
      BY <3>1, <3>2
  <2> QED
    BY <2>1, <2>2 DEF GivenOnce
<1>8. ASSUME ~interrupted' PROVE TakenOnce'
  <2>1. TakenOnce
    BY <1>1, <1>8
  <2>2. Taken(order.status, job[j].pc)
    <3>1. CASE Busy(j)
      BY <2>1, <3>1 DEF TakenOnce
    <3>2. CASE ~Busy(j)
      BY <2>1, <3>2 DEF TakenOnce, Taken, Busy, At
    <3> QED
      BY <3>1, <3>2
  <2>3. Taken(order.status, q.pc)'
    BY <1>1, <1>8, <2>2 DEF Alone
  <2>4. (\A k \in Jobs : ~Busy(k))' => Taken(order.status, "idle")'
    BY <1>4, <2>3 DEF Taken, Busy, At
  <2>5. ASSUME NEW k \in Jobs, Busy(k)' PROVE Taken(order.status, job[k].pc)'
    <3>1. k = j
      BY <1>3, <2>5 DEF Busy, At
    <3> QED
      BY <1>4, <2>3, <3>1 DEF Taken
  <2> QED
    BY <2>3, <2>4, <2>5 DEF TakenOnce, Taken
<1> QED
  BY <1>6, <1>7, <1>8

LEMMA AloneReturn ==
  ASSUME OrderInv, AloneInv, NEW j \in Jobs, Busy(j), Return(j), contested' = contested,
         interrupted => interrupted', UNCHANGED <<credits, subs, debited>>,
         Own(j) /\ order'.status \in Unpaid => order.status \in Unpaid,
         Own(j) /\ order.status \in Closed => order'.status \in Closed,
         At(j, "refunded") => interrupted' \/ ~(debited > 0)
  PROVE  AloneInv'
<1>1. PICK q : q = NoJob
  OBVIOUS
<1>2. q \in JobState /\ q.pc = "idle"
  BY <1>1, NoJobOK
<1>3. job' = [job EXCEPT ![j] = q]
  BY <1>1 DEF Return
<1>4. Own(j) /\ Given(order.status, job[j].pc) => Given(order.status, q.pc)'
  BY <1>2 DEF Given
<1>5. Own(j) /\ ~interrupted' /\ Taken(order.status, job[j].pc) => Taken(order.status, q.pc)'
  BY <1>2 DEF Taken, At
<1> QED
  BY <1>2, <1>3, <1>4, <1>5, AloneStep

LEMMA AloneGoto ==
  ASSUME OrderInv, AloneInv, NEW j \in Jobs, Busy(j), ~At(j, "releasePromo"),
         NEW pc \in Pcs, Goto(j, pc), UNCHANGED <<order, contested, interrupted>>,
         Own(j) /\ Given(order.status, job[j].pc) => Given(order.status, pc)',
         Own(j) /\ Taken(order.status, job[j].pc) => Taken(order.status, pc)'
  PROVE  AloneInv'
<1>1. PICK q : q = [job[j] EXCEPT !.pc = pc]
  OBVIOUS
<1>2. job[j] \in JobState
  BY JobFacts
<1>3. q \in JobState /\ q.pc = pc /\ q.copy = job[j].copy
  BY <1>1, <1>2 DEF JobState
<1>4. job' = [job EXCEPT ![j] = q]
  BY <1>1 DEF Goto
<1>5. Own(j) => q.copy = order'
  BY <1>3 DEF Own
<1>6. Own(j) /\ Given(order.status, job[j].pc) => Given(order.status, q.pc)'
  BY <1>3
<1>7. Own(j) /\ Taken(order.status, job[j].pc) => Taken(order.status, q.pc)'
  BY <1>3
<1> QED
  BY <1>3, <1>4, <1>5, <1>6, <1>7, AloneStep

LEMMA AloneWrite ==
  ASSUME OrderInv, AloneInv, NEW j \in Jobs, Busy(j), ~At(j, "releasePromo"),
         NEW status \in Statuses, NEW pc \in Pcs, UpdateOrder(j, status, pc),
         UNCHANGED <<contested, interrupted, credits, subs, debited>>,
         status \in Unpaid \/ pc = "credit" => job[j].copy.status \in Unpaid,
         pc # "subscribe",
         At(j, "refunded") \/ job[j].copy.status \in Closed => status \in Closed
  PROVE  AloneInv'
<1>1. job[j] \in JobState
  BY JobFacts
<1>2. PICK row : row = [job[j].copy EXCEPT !.status = status]
  OBVIOUS
<1>3. row \in OrderRow /\ row.status = status
  BY <1>1, <1>2 DEF JobState, OrderRow
<1>4. PICK q : q = IF pc = "idle" THEN NoJob ELSE [job[j] EXCEPT !.copy = row, !.pc = pc]
  OBVIOUS
<1>5. q \in JobState /\ q.pc = pc /\ (pc = "idle" \/ q.copy = row)
  BY <1>1, <1>3, <1>4, NoJobOK DEF JobState
<1>6. order' = row /\ job' = [job EXCEPT ![j] = q]
  BY <1>2, <1>4 DEF UpdateOrder
<1>7. q.pc \in {"idle", "releasePromo"} \/ q.copy = order'
  BY <1>5, <1>6
<1>8. Own(j) => job[j].copy.status = order.status
  BY DEF Own
<1>9. Own(j) /\ Given(order.status, job[j].pc) => Given(order.status, q.pc)'
  BY <1>3, <1>5, <1>6, <1>8 DEF Given
<1>10. Own(j) /\ Taken(order.status, job[j].pc) => Taken(order.status, q.pc)'
  BY <1>3, <1>5, <1>6, <1>8 DEF Taken, At
<1> QED
  BY <1>5, <1>6, <1>7, <1>9, <1>10, AloneStep

LEMMA AloneBegin ==
  ASSUME OrderInv, AloneInv, NEW j \in Jobs, NEW pc \in Pcs \ {"credit", "subscribe"},
         NEW news \in AllNews, NEW amt \in {0} \cup RefundAmounts, Begin(j, pc, news, amt),
         UNCHANGED <<order, interrupted, credits, subs, debited>>
  PROVE  AloneInv'
<1>1. PICK q : q = [NoJob EXCEPT !.pc = pc, !.copy = order, !.news = news, !.amt = amt]
  OBVIOUS
<1>2. order \in OrderRow /\ NoJob \in JobState /\ job[j].pc = "idle"
  BY JobFacts, NoJobOK DEF Begin, At
<1>3. q \in JobState /\ q.pc = pc /\ q.copy = order
  BY <1>1, <1>2 DEF JobState
<1>4. job' = [job EXCEPT ![j] = q]
  BY <1>1 DEF Begin
<1>5. ~contested' => ~contested /\ \A k \in Jobs : ~Busy(k)
  BY DEF Begin, Busy
<1>6. Given(order.status, job[j].pc) => Given(order.status, q.pc)'
  BY <1>3 DEF Given
<1>7. Taken(order.status, job[j].pc) => Taken(order.status, q.pc)'
  BY <1>2, <1>3 DEF Taken
<1> QED
  BY <1>3, <1>4, <1>5, <1>6, <1>7, AloneStep

\* Which actions are of which shape.
LEMMA AloneReads ==
  ASSUME OrderInv, AloneInv, NEW j \in Jobs,
         \/ ReadToCancel(j) \/ ListExpiredPendingOrders(j) \/ ListPendingOrders(j)
         \/ \E news \in News : Webhook(j, news)
         \/ \E a \in RefundAmounts : ReadToRefund(j, a)
  PROVE  AloneInv'
<1>1. CASE ReadToCancel(j)
  <2>1. Begin(j, "cancel", "none", 0) /\ UNCHANGED <<order, interrupted, credits, subs, debited>>
    BY <1>1 DEF ReadToCancel, money
  <2>2. "cancel" \in Pcs \ {"credit", "subscribe"} /\ "none" \in AllNews /\ 0 \in {0} \cup RefundAmounts
    BY DEF Pcs, AllNews
  <2> QED
    BY <2>1, <2>2, AloneBegin
<1>2. CASE ListExpiredPendingOrders(j)
  <2>1. Begin(j, "expire", "expiry", 0) /\ UNCHANGED <<order, interrupted, credits, subs, debited>>
    BY <1>2 DEF ListExpiredPendingOrders, money
  <2>2. "expire" \in Pcs \ {"credit", "subscribe"} /\ "expiry" \in AllNews /\ 0 \in {0} \cup RefundAmounts
    BY DEF Pcs, AllNews
  <2> QED
    BY <2>1, <2>2, AloneBegin
<1>3. CASE ListPendingOrders(j)
  <2>1. Begin(j, "query", "reconcile", 0) /\ UNCHANGED <<order, interrupted, credits, subs, debited>>
    BY <1>3 DEF ListPendingOrders, money
  <2>2. "query" \in Pcs \ {"credit", "subscribe"} /\ "reconcile" \in AllNews /\ 0 \in {0} \cup RefundAmounts
    BY DEF Pcs, AllNews
  <2> QED
    BY <2>1, <2>2, AloneBegin
<1>4. ASSUME NEW news \in News, Webhook(j, news) PROVE AloneInv'
  <2>1. Begin(j, "audit", news[1], news[2]) /\ UNCHANGED <<order, interrupted, credits, subs, debited>>
    BY <1>4 DEF Webhook, money
  <2>2. news[1] \in AllNews /\ news[2] \in {0} \cup RefundAmounts
    BY DEF News, AllNews
  <2>3. "audit" \in Pcs \ {"credit", "subscribe"}
    BY DEF Pcs
  <2> QED
    BY <2>1, <2>2, <2>3, AloneBegin
<1>5. ASSUME NEW a \in RefundAmounts, ReadToRefund(j, a) PROVE AloneInv'
  <2>1. Begin(j, "refunding", "none", a) /\ UNCHANGED <<order, interrupted, credits, subs, debited>>
    BY <1>5 DEF ReadToRefund, money
  <2>2. "refunding" \in Pcs \ {"credit", "subscribe"} /\ "none" \in AllNews /\ a \in {0} \cup RefundAmounts
    BY DEF Pcs, AllNews
  <2> QED
    BY <2>1, <2>2, AloneBegin
<1> QED
  BY <1>1, <1>2, <1>3, <1>4, <1>5

LEMMA AloneCreates ==
  ASSUME OrderInv, AloneInv, NEW j \in Jobs, CreateOrder(j)
  PROVE  AloneInv'
<1>1. PICK row : row = [status |-> "pending", refund |-> 0]
  OBVIOUS
<1>2. PICK q : q = [NoJob EXCEPT !.pc = "session", !.copy = row]
  OBVIOUS
<1>3. /\ order.status = "absent" /\ order' = row /\ job' = [job EXCEPT ![j] = q]
      /\ UNCHANGED <<contested, interrupted, credits, subs, debited>>
  BY <1>1, <1>2 DEF CreateOrder, money, history
<1>4. row \in OrderRow /\ row.status = "pending" /\ NoJob \in JobState
  BY <1>1, NoJobOK DEF OrderRow, Statuses
<1>5. q \in JobState /\ q.pc = "session" /\ q.copy = row
  BY <1>2, <1>4 DEF JobState, Pcs
<1>6. \A k \in Jobs : At(k, "idle")
  BY <1>3 DEF OrderInv, OneCheckout
<1>7. Given(order.status, job[j].pc) => Given(order.status, q.pc)'
  BY <1>3, <1>4, <1>5 DEF Given, Unpaid
<1>8. Taken(order.status, job[j].pc) => Taken(order.status, q.pc)'
  BY <1>3, <1>5, <1>6 DEF Taken, Closed, At
<1> QED
  BY <1>3, <1>5, <1>6, <1>7, <1>8, AloneStep DEF Busy

\* The actions that end an operation and leave the order alone, ...
LEMMA AloneEnds ==
  ASSUME OrderInv, AloneInv, NEW j \in Jobs,
         ReleasePromoCode(j) \/ EnqueuePaid(j) \/ EnqueueRefunded(j) \/ DebitRejected(j) \/ Abort(j)
  PROVE  AloneInv'
<1>1. Busy(j) /\ Return(j) /\ UNCHANGED <<order, contested, credits, subs, debited>>
  BY DEF ReleasePromoCode, EnqueuePaid, EnqueueRefunded, DebitRejected, Abort, At, Busy, money, history
<1>2. /\ interrupted => interrupted'
      /\ At(j, "refunded") => interrupted' \/ product # "balance_credit"
  <2>1. CASE Abort(j)
    <3>1. interrupted' = (interrupted \/ (At(j, "refunded") /\ product = "balance_credit"))
      BY <2>1 DEF Abort
    <3> QED
      BY <3>1, Zenon
  <2>2. CASE ReleasePromoCode(j) \/ EnqueuePaid(j) \/ EnqueueRefunded(j) \/ DebitRejected(j)
    <3>1. interrupted' = interrupted /\ ~At(j, "refunded")
      BY <2>2 DEF ReleasePromoCode, EnqueuePaid, EnqueueRefunded, DebitRejected, At, history
    <3> QED
      BY <3>1, Zenon
  <2> QED
    BY <2>1, <2>2
<1>3. debited > 0 => product = "balance_credit"
  BY DEF OrderInv, MoneyTrue
<1> QED
  BY <1>1, <1>2, <1>3, AloneReturn

\* ... and that put the order back as it was before the refund.
LEMMA AloneRestores ==
  ASSUME OrderInv, AloneInv, NEW j \in Jobs, RestoreOrder(j)
  PROVE  AloneInv'
<1>1. /\ job[j].pc = "restore" /\ Return(j) /\ order' = job[j].orig
      /\ UNCHANGED <<contested, interrupted, credits, subs, debited>>
  BY DEF RestoreOrder, At, money, history
<1>2. /\ job[j].copy.status = "refunding"
      /\ job[j].orig.status \in {"paid", "fulfilled", "fulfillment_failed"}
  BY <1>1, JobFacts DEF CopyFits
<1>3. Own(j) => order.status = "refunding"
  BY <1>1, <1>2 DEF Own, At
<1>4. order'.status \notin Unpaid /\ (Own(j) => order.status \notin Closed)
  BY <1>1, <1>2, <1>3 DEF Unpaid, Closed
<1>5. Busy(j) /\ ~At(j, "refunded")
  BY <1>1 DEF Busy, At
<1> QED
  BY <1>1, <1>4, <1>5, AloneReturn

\* The writes of an operation's copy.
LEMMA AloneWrites ==
  ASSUME OrderInv, AloneInv, NEW j \in Jobs,
         \/ AttachCheckout(j) \/ CancelOrder(j) \/ Revive(j) \/ MarkFailed(j) \/ WritePaid(j)
         \/ WriteFulfillmentFailed(j) \/ WriteFulfilled(j) \/ AttachRefund(j) \/ WriteRefundFailed(j)
         \/ WriteRefunded(j)
  PROVE  AloneInv'
<1>1. UNCHANGED <<contested, interrupted, credits, subs, debited>>
  BY DEF AttachCheckout, CancelOrder, Revive, MarkFailed, WritePaid, WriteFulfillmentFailed,
         WriteFulfilled, AttachRefund, WriteRefundFailed, WriteRefunded, money, history
<1>2. CopyFits(job[j])
  BY JobFacts
<1>3. CASE AttachCheckout(j)
  <2>1. job[j].pc = "attach" /\ UpdateOrder(j, "pending", "idle") /\ job[j].copy.status = "pending"
    BY <1>2, <1>3 DEF AttachCheckout, At, CopyFits
  <2> QED
    BY <1>1, <2>1, AloneWrite DEF Busy, At, Statuses, Pcs, Unpaid, Closed
<1>4. CASE CancelOrder(j)
  <2>1. /\ job[j].pc = "cancel" /\ UpdateOrder(j, "canceled", "releasePromo")
        /\ job[j].copy.status \in {"pending", "canceled"}
    BY <1>2, <1>4 DEF CancelOrder, At, CopyFits
  <2> QED
    BY <1>1, <2>1, AloneWrite DEF Busy, At, Statuses, Pcs, Unpaid, Closed
<1>5. CASE Revive(j)
  <2>1. /\ job[j].pc = "revive" /\ UpdateOrder(j, "pending", "pay")
        /\ job[j].copy.status \in {"expired", "canceled"}
    BY <1>2, <1>5 DEF Revive, At, CopyFits
  <2> QED
    BY <1>1, <2>1, AloneWrite DEF Busy, At, Statuses, Pcs, PayPath, Unpaid, Closed
<1>6. CASE MarkFailed(j)
  <2>1. /\ job[j].pc = "markFailed" /\ UpdateOrder(j, "failed", "releasePromo")
        /\ job[j].copy.status = "pending"
    BY <1>2, <1>6 DEF MarkFailed, At, CopyFits
  <2> QED
    BY <1>1, <2>1, AloneWrite DEF Busy, At, Statuses, Pcs, Unpaid, Closed
<1>7. CASE WritePaid(j)
  <2>1. PICK pc \in {"credit", "book"} : UpdateOrder(j, "paid", pc)
    BY <1>7 DEF WritePaid
  <2>2. job[j].pc = "pay" /\ job[j].copy.status = "pending"
    BY <1>2, <1>7 DEF WritePaid, At, CopyFits
  <2> QED
    BY <1>1, <2>1, <2>2, AloneWrite DEF Busy, At, Statuses, Pcs, PayPath, Unpaid, Closed
<1>8. CASE WriteFulfillmentFailed(j)
  <2>1. /\ job[j].pc = "fulfillmentFailed" /\ UpdateOrder(j, "fulfillment_failed", "idle")
        /\ job[j].copy.status = "paid"
    BY <1>2, <1>8 DEF WriteFulfillmentFailed, At, CopyFits
  <2> QED
    BY <1>1, <2>1, AloneWrite DEF Busy, At, Statuses, Pcs, Unpaid, Closed
<1>9. CASE WriteFulfilled(j)
  <2>1. /\ job[j].pc = "fulfill" /\ UpdateOrder(j, "fulfilled", "announcePaid")
        /\ job[j].copy.status = "paid"
    BY <1>2, <1>9 DEF WriteFulfilled, At, CopyFits
  <2> QED
    BY <1>1, <2>1, AloneWrite DEF Busy, At, Statuses, Pcs, PayPath, Unpaid, Closed
<1>10. CASE AttachRefund(j)
  <2>1. PICK pc \in {"idle", "refundFailed", "debit", "refunded"} : UpdateOrder(j, "refunding", pc)
    BY <1>10 DEF AttachRefund, RefundStep
  <2>2. job[j].pc = "attachRefund" /\ job[j].copy.status = "refunding"
    BY <1>2, <1>10 DEF AttachRefund, At, CopyFits
  <2> QED
    BY <1>1, <2>1, <2>2, AloneWrite DEF Busy, At, Statuses, Pcs, Unpaid, Closed
<1>11. CASE WriteRefundFailed(j)
  <2>1. /\ job[j].pc = "refundFailed" /\ UpdateOrder(j, "refund_failed", "idle")
        /\ job[j].copy.status = "refunding"
    BY <1>2, <1>11 DEF WriteRefundFailed, At, CopyFits
  <2> QED
    BY <1>1, <2>1, AloneWrite DEF Busy, At, Statuses, Pcs, Unpaid, Closed
<1>12. CASE WriteRefunded(j)
  <2>1. PICK st \in Closed : UpdateOrder(j, st, "announceRefund")
    BY <1>12 DEF WriteRefunded, Closed
  <2>2. job[j].pc = "refunded"
    BY <1>12 DEF WriteRefunded, At
  <2> QED
    BY <1>1, <2>1, <2>2, AloneWrite DEF Busy, At, Statuses, Pcs, Unpaid, Closed
<1> QED
  BY <1>3, <1>4, <1>5, <1>6, <1>7, <1>8, <1>9, <1>10, <1>11, <1>12

\* The steps that go on with the same copy and give and take nothing.
LEMMA AloneQuietGoto ==
  ASSUME OrderInv, AloneInv, NEW j \in Jobs, Busy(j), ~At(j, "releasePromo"), ~At(j, "refunded"),
         NEW pc \in Pcs \ {"credit", "subscribe"}, Goto(j, pc),
         UNCHANGED <<order, contested, interrupted, credits, subs, debited>>
  PROVE  AloneInv'
<1>1. Given(order.status, job[j].pc) => Given(order.status, pc)'
  BY DEF Given
<1>2. Taken(order.status, job[j].pc) => Taken(order.status, pc)'
  BY DEF Taken, At
<1> QED
  BY <1>1, <1>2, AloneGoto

LEMMA AloneQuiets ==
  ASSUME OrderInv, AloneInv, NEW j \in Jobs,
         \/ CreateSession(j) \/ CreateAuditLog(j) \/ QueryOrder(j)
         \/ RecordBilling(j) \/ FulfillFails(j) \/ CallRefundFails(j)
  PROVE  AloneInv'
<1>1. UNCHANGED <<order, contested, interrupted, credits, subs, debited>>
  BY DEF CreateSession, CreateAuditLog, QueryOrder, RecordBilling, FulfillFails, CallRefundFails,
         money, history
<1>2. /\ Busy(j) /\ ~At(j, "releasePromo") /\ ~At(j, "refunded")
  BY DEF CreateSession, CreateAuditLog, QueryOrder, RecordBilling, FulfillFails, CallRefundFails, At, Busy
<1>3. Return(j) \/ \E pc \in Pcs \ {"credit", "subscribe"} : Goto(j, pc)
  <2>1. CASE CreateSession(j)
    BY <2>1 DEF CreateSession, Pcs
  <2>2. CASE CreateAuditLog(j)
    <3>1. PICK next : next = WebhookStep(job[j].copy, job[j].news)
      OBVIOUS
    <3>2. job[j].pc = "audit" /\ (Return(j) \/ Goto(j, next))
      BY <2>2, <3>1 DEF CreateAuditLog, At
    <3>3. next \in {"idle", "revive", "pay", "markFailed", "refundFailed", "debit", "refunded"}
      BY <3>1, <3>2, WebhookBranch
    <3> QED
      BY <3>2, <3>3 DEF Pcs, PayPath
  <2>3. CASE QueryOrder(j)
    BY <2>3 DEF QueryOrder, Pcs, PayPath
  <2>4. CASE RecordBilling(j)
    BY <2>4 DEF RecordBilling, Pcs, PayPath
  <2>5. CASE FulfillFails(j)
    BY <2>5 DEF FulfillFails, Pcs, PayPath
  <2>6. CASE CallRefundFails(j)
    BY <2>6 DEF CallRefundFails, Pcs
  <2> QED
    BY <2>1, <2>2, <2>3, <2>4, <2>5, <2>6
<1>4. CASE Return(j)
  BY <1>1, <1>2, <1>4, AloneReturn
<1>5. ASSUME NEW pc \in Pcs \ {"credit", "subscribe"}, Goto(j, pc) PROVE AloneInv'
  BY <1>1, <1>2, <1>5, AloneQuietGoto
<1> QED
  BY <1>3, <1>4, <1>5

\* The steps that give.
LEMMA AloneGives ==
  ASSUME OrderInv, AloneInv, NEW j \in Jobs,
         CreditBalance(j) \/ FindSubscription(j) \/ CreateSubscription(j)
  PROVE  AloneInv'
<1>1. UNCHANGED <<order, contested, interrupted, debited>>
  BY DEF CreditBalance, FindSubscription, CreateSubscription, money, history
<1>2. job[j].pc \in {"credit", "activate", "subscribe"}
  BY DEF CreditBalance, FindSubscription, CreateSubscription, At
<1>3. Busy(j) /\ ~At(j, "releasePromo") /\ job[j].copy.status = "paid"
  BY <1>2, JobFacts DEF Busy, At, CopyFits
<1>4. Own(j) => order.status \notin Unpaid
  BY <1>3 DEF Own, Unpaid
<1>5. credits \in Nat /\ subs \in Nat
  BY JobFacts DEF RestTyped
<1>6. ASSUME NEW pc PROVE Taken(order.status, job[j].pc) => Taken(order.status, pc)'
  BY <1>1, <1>2 DEF Taken
<1>7. CASE CreditBalance(j)
  <2>1. Goto(j, "book") /\ credits' = credits + 1 /\ subs' = subs /\ job[j].pc = "credit"
    BY <1>7 DEF CreditBalance, At
  <2>2. Own(j) /\ Given(order.status, job[j].pc) => Given(order.status, "book")'
    BY <1>1, <1>4, <1>5, <2>1 DEF Given
  <2>3. "book" \in Pcs
    BY DEF Pcs, PayPath
  <2> QED
    BY <1>1, <1>3, <1>6, <2>1, <2>2, <2>3, AloneGoto
<1>8. CASE FindSubscription(j)
  <2>1. PICK pc : pc = IF subs > 0 THEN "fulfill" ELSE "subscribe"
    OBVIOUS
  <2>2. Goto(j, pc) /\ credits' = credits /\ subs' = subs
    BY <1>8, <2>1 DEF FindSubscription, money
  <2>3. Own(j) /\ Given(order.status, job[j].pc) => Given(order.status, pc)'
    BY <1>1, <1>4, <1>5, <2>1, <2>2 DEF Given
  <2>4. pc \in Pcs
    BY <2>1 DEF Pcs, PayPath
  <2> QED
    BY <1>1, <1>3, <1>6, <2>2, <2>3, <2>4, AloneGoto
<1>9. CASE CreateSubscription(j)
  <2>1. Goto(j, "fulfill") /\ subs' = subs + 1 /\ credits' = credits /\ job[j].pc = "subscribe"
    BY <1>9 DEF CreateSubscription, At
  <2>2. Own(j) /\ Given(order.status, job[j].pc) => Given(order.status, "fulfill")'
    BY <1>1, <1>4, <1>5, <2>1 DEF Given
  <2>3. "fulfill" \in Pcs
    BY DEF Pcs, PayPath
  <2> QED
    BY <1>1, <1>3, <1>6, <2>1, <2>2, <2>3, AloneGoto
<1> QED
  BY <1>7, <1>8, <1>9

\* The step that takes back: nothing was taken before, since the row says
\* refunding.
LEMMA AloneDebits ==
  ASSUME OrderInv, AloneInv, NEW j \in Jobs, DebitBalance(j)
  PROVE  AloneInv'
<1>1. /\ job[j].pc = "debit" /\ Goto(j, "refunded") /\ debited' = debited + job[j].copy.refund
      /\ UNCHANGED <<order, contested, interrupted, credits, subs>>
  BY DEF DebitBalance, At, history
<1>2. job[j] \in JobState /\ job[j].copy.status = "refunding" /\ debited \in Nat
  BY <1>1, JobFacts DEF CopyFits, RestTyped
<1>3. job[j].copy.refund \in Nat /\ job[j].copy.refund <= Amount
  <2>1. job[j].copy.refund \in {0} \cup RefundAmounts /\ Amount \in Nat
    BY <1>2, AmountAssumption DEF JobState, OrderRow
  <2> QED
    BY <2>1, RefundsNat
<1>4. Own(j) => order.status \notin Closed
  BY <1>1, <1>2 DEF Own, At, Closed
<1>5. Own(j) /\ Given(order.status, job[j].pc) => Given(order.status, "refunded")'
  BY <1>1 DEF Given
<1>6. Own(j) /\ Taken(order.status, job[j].pc) => Taken(order.status, "refunded")'
  <2> SUFFICES ASSUME Own(j), Taken(order.status, job[j].pc) PROVE Taken(order.status, "refunded")'
    OBVIOUS
  <2>1. debited = 0
    BY <1>1, <1>2, <1>4 DEF Taken
  <2> QED
    BY <1>1, <1>3, <2>1 DEF Taken
<1>7. Busy(j) /\ ~At(j, "releasePromo") /\ "refunded" \in Pcs
  BY <1>1 DEF Busy, At, Pcs
<1> QED
  BY <1>1, <1>5, <1>6, <1>7, AloneGoto

\* The three that write more than a status.
LEMMA AloneExpires ==
  ASSUME OrderInv, AloneInv, NEW j \in Jobs, ExpireOrder(j)
  PROVE  AloneInv'
<1>1. job[j].pc = "expire" /\ UNCHANGED <<contested, interrupted, credits, subs, debited>>
  BY DEF ExpireOrder, At, money, history
<1>2. Busy(j) /\ ~At(j, "refunded")
  BY <1>1 DEF Busy, At
<1>3. CASE order' = order /\ Return(j)
  BY <1>1, <1>2, <1>3, AloneReturn
<1>4. CASE order.status = "pending" /\ order' = [order EXCEPT !.status = "expired"] /\ Goto(j, "releasePromo")
  <2>1. PICK q : q = [job[j] EXCEPT !.pc = "releasePromo"]
    OBVIOUS
  <2>2. job[j] \in JobState /\ order \in OrderRow
    BY JobFacts
  <2>3. q \in JobState /\ q.pc = "releasePromo" /\ order'.status = "expired"
    BY <1>4, <2>1, <2>2 DEF JobState, Pcs, OrderRow
  <2>4. job' = [job EXCEPT ![j] = q]
    BY <1>4, <2>1 DEF Goto
  <2>5. Given(order.status, job[j].pc) => Given(order.status, q.pc)'
    BY <1>1, <1>4, <2>3 DEF Given, Unpaid
  <2>6. Taken(order.status, job[j].pc) => Taken(order.status, q.pc)'
    BY <1>1, <1>4, <2>3 DEF Taken, Closed
  <2> QED
    BY <1>1, <1>2, <2>3, <2>4, <2>5, <2>6, AloneStep
<1> QED
  BY <1>3, <1>4 DEF ExpireOrder

LEMMA AloneRefunding ==
  ASSUME OrderInv, AloneInv, NEW j \in Jobs, WriteRefunding(j)
  PROVE  AloneInv'
<1>1. PICK row : row = [status |-> "refunding", refund |-> job[j].amt]
  OBVIOUS
<1>2. PICK q : q = [job[j] EXCEPT !.orig = job[j].copy, !.copy = row, !.pc = "callRefund"]
  OBVIOUS
<1>3. /\ job[j].pc = "refunding" /\ order' = row /\ job' = [job EXCEPT ![j] = q]
      /\ UNCHANGED <<contested, interrupted, credits, subs, debited>>
  BY <1>1, <1>2 DEF WriteRefunding, At, money, history
<1>4. /\ job[j] \in JobState /\ job[j].amt \in RefundAmounts
      /\ job[j].copy.status \in {"paid", "fulfilled", "fulfillment_failed"}
  BY <1>3, JobFacts DEF JobTrue, CopyFits
<1>5. row \in OrderRow /\ row.status = "refunding"
  BY <1>1, <1>4 DEF OrderRow, Statuses
<1>6. q \in JobState /\ q.pc = "callRefund" /\ q.copy = row
  BY <1>2, <1>4, <1>5 DEF JobState, Pcs
<1>7. Busy(j) /\ (Own(j) => order.status \notin Closed)
  BY <1>3, <1>4 DEF Busy, At, Own, Closed
<1>8. Own(j) /\ Given(order.status, job[j].pc) => Given(order.status, q.pc)'
  BY <1>3, <1>5, <1>6 DEF Given, Unpaid
<1>9. Own(j) /\ Taken(order.status, job[j].pc) => Taken(order.status, q.pc)'
  BY <1>3, <1>6, <1>7 DEF Taken
<1> QED
  BY <1>3, <1>6, <1>7, <1>8, <1>9, AloneStep

LEMMA AloneCallsRefund ==
  ASSUME OrderInv, AloneInv, NEW j \in Jobs, CallRefund(j)
  PROVE  AloneInv'
<1>1. PICK a : a = job[j].amt
  OBVIOUS
<1>2. PICK answer \in IF refundAt[a] = "none" THEN {"processing", "refunded", "refund_failed"} ELSE {refundAt[a]} :
         job' = [job EXCEPT ![j] = [job[j] EXCEPT !.news = answer, !.pc = "attachRefund"]]
  BY <1>1 DEF CallRefund
<1>3. PICK q : q = [job[j] EXCEPT !.news = answer, !.pc = "attachRefund"]
  OBVIOUS
<1>4. /\ job[j].pc = "callRefund" /\ job' = [job EXCEPT ![j] = q]
      /\ UNCHANGED <<order, contested, interrupted, credits, subs, debited>>
  BY <1>2, <1>3 DEF CallRefund, At, money, history
<1>5. job[j] \in JobState /\ a \in RefundAmounts /\ RestTyped
  BY <1>1, <1>4, JobFacts DEF JobTrue
<1>6. answer \in AllNews
  BY <1>2, <1>5 DEF RestTyped, AllNews
<1>7. q \in JobState /\ q.pc = "attachRefund" /\ q.copy = job[j].copy
  BY <1>3, <1>5, <1>6 DEF JobState, Pcs
<1>8. Busy(j) /\ (Own(j) => q.copy = order')
  BY <1>4, <1>7 DEF Busy, Own, At
<1>9. Given(order.status, job[j].pc) => Given(order.status, q.pc)'
  BY <1>4, <1>7 DEF Given
<1>10. Taken(order.status, job[j].pc) => Taken(order.status, q.pc)'
  BY <1>4, <1>7 DEF Taken
<1> QED
  BY <1>4, <1>7, <1>8, <1>9, <1>10, AloneStep

LEMMA AloneOutside ==
  ASSUME AloneInv, UNCHANGED <<order, job, contested, interrupted, credits, subs, debited>>
  PROVE  AloneInv'
<1>1. (\A j \in Jobs : Busy(j)' = Busy(j) /\ Own(j)' = Own(j)) /\ Alone' = Alone
  BY DEF Busy, Own, Alone, At
<1>2. ASSUME NEW pc PROVE /\ Given(order.status, pc)' = Given(order.status, pc)
                          /\ Taken(order.status, pc)' = Taken(order.status, pc)
  BY DEF Given, Taken
<1>3. GivenOnce => GivenOnce'
  BY <1>2 DEF GivenOnce
<1>4. TakenOnce => TakenOnce'
  BY <1>1, <1>2 DEF TakenOnce
<1> QED
  BY <1>1, <1>3, <1>4 DEF AloneInv

LEMMA AloneInvInit == Init => AloneInv
<1> SUFFICES ASSUME Init PROVE AloneInv
  OBVIOUS
<1>1. order.status = "absent" /\ \A j \in Jobs : job[j].pc = "idle"
  BY NoJobOK DEF Init, NoOrder
<1>2. credits = 0 /\ subs = 0 /\ debited = 0 /\ debited <= Amount
  BY AmountAssumption DEF Init
<1>3. Alone
  BY <1>1 DEF Alone, Busy, At
<1>4. GivenOnce
  BY <1>1, <1>2 DEF GivenOnce, Given
<1>5. TakenOnce
  BY <1>1, <1>2 DEF TakenOnce, Taken, Busy, At
<1> QED
  BY <1>3, <1>4, <1>5 DEF AloneInv

LEMMA AloneInvNext == OrderInv /\ AloneInv /\ [Next]_vars => AloneInv'
<1> SUFFICES ASSUME OrderInv, AloneInv, [Next]_vars PROVE AloneInv'
  OBVIOUS
<1>1. CASE UNCHANGED vars \/ Pays \/ PassDeadline \/ \E a \in RefundAmounts : SettlesRefund(a)
  <2>1. UNCHANGED <<order, job, contested, interrupted, credits, subs, debited>>
    BY <1>1 DEF vars, Pays, PassDeadline, SettlesRefund, money, history
  <2> QED
    BY <2>1, AloneOutside
<1>2. ASSUME NEW j \in Jobs,
             \/ CreateOrder(j) \/ ReadToCancel(j) \/ ListExpiredPendingOrders(j) \/ ListPendingOrders(j)
             \/ \E news \in News : Webhook(j, news)
             \/ \E a \in RefundAmounts : ReadToRefund(j, a)
      PROVE AloneInv'
  BY <1>2, AloneReads, AloneCreates
<1>3. ASSUME NEW j \in Jobs, Step(j) PROVE AloneInv'
  BY <1>3, AloneEnds, AloneRestores, AloneWrites, AloneQuiets, AloneGives, AloneDebits, AloneExpires,
     AloneRefunding, AloneCallsRefund DEF Step
<1>4. ASSUME NEW j \in Jobs, FulfillFails(j) \/ CallRefundFails(j) \/ Abort(j) PROVE AloneInv'
  BY <1>4, AloneQuiets, AloneEnds
<1> QED
  BY <1>1, <1>2, <1>3, <1>4 DEF Next

LEMMA AloneInvariant == Spec => []AloneInv
  BY OrderInvariant, OrderInvInit, AloneInvInit, AloneInvNext, PTL DEF Spec

\* As long as no two operations on the order overlap, redeliveries, retries,
\* revived orders, crashes and failed fulfilments never credit it twice or
\* activate a second subscription.
THEOREM CreditedAtMostOnce == Spec => []CreditedOnce
<1>1. AloneInv => CreditedOnce
  BY DEF AloneInv, GivenOnce, Given, CreditedOnce
<1> QED
  BY <1>1, AloneInvariant, PTL

\* Nor do any number of refund requests, answers and webhooks take back more
\* than the order's amount, unless a refund is cut short after its debit.
THEOREM ClawbackWithinAmount == Spec => []ClawbackBounded
<1>1. AloneInv => ClawbackBounded
  BY DEF AloneInv, TakenOnce, ClawbackBounded
<1> QED
  BY <1>1, AloneInvariant, PTL
=============================================================================
