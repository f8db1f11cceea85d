--------------------------- MODULE EventDelivery ---------------------------
(***************************************************************************)
(* Domain events: the transactional outbox, the inbox that deduplicates    *)
(* deliveries to the consumer, the outbox workers of several processes     *)
(* behind the leader gate, and the affiliate handlers they call.           *)
(*                                                                         *)
(* The gate is a PostgreSQL session lock on a connection of its own: a     *)
(* pass whose lock connection is lost goes on, next to the one of the new  *)
(* leader.  Every statement of a pass is therefore a step of its own.      *)
(* next_retry_at is kept as whether it has passed.                         *)
(***************************************************************************)
EXTENDS Integers, FiniteSets, FiniteSetsExt

CONSTANTS
    Events,       \* outbox ids, in the order the events are written
    Kind,         \* "paid", "refunded" or "notice" of each event
    Order,        \* the payment order an event is about
    Dispatchers,  \* processes running the outbox worker
    Limit,        \* events one pass lists
    MaxFailures,  \* bound: handler failures
    MaxFaults     \* bound: failed statements, crashes and lost lock connections

Kinds == {"paid", "refunded", "notice"}
Orders == {Order[e] : e \in Events}
Nobody == "nobody"

ASSUME EventsAssumption == Events \subseteq Nat
ASSUME KindAssumption == Kind \in [Events -> Kinds] /\ DOMAIN Order = Events
ASSUME DispatchersAssumption == IsFiniteSet(Dispatchers) /\ Nobody \notin Dispatchers
ASSUME LimitAssumption == Limit \in Nat \ {0}
ASSUME BoundsAssumption == MaxFailures \in Nat /\ MaxFaults \in Nat

VARIABLES
    outbox,       \* domain_events_outbox.status, "absent" before the event
    due,          \* a failed event's next_retry_at has passed
    inbox,        \* domain_events_inbox.status, "absent" without a record
    leader,       \* session holding the advisory lock
    pass,         \* the DispatchPending call of each process
    accrued,      \* orders with a rebate in affiliate_ledgers
    compensated,  \* orders whose rebate has a compensation there
    handled,      \* history: times the handler of an event succeeded
    unclaimed,    \* history: handlers started on a record nobody claimed
    everFailed,   \* history: events MarkOutboxFailed was applied to
    lost,         \* history: a lock connection was lost under a pass
    failures, faults

tables == <<outbox, due, inbox>>
effects == <<accrued, compensated, handled>>
history == <<unclaimed, everFailed, lost>>
bounds == <<failures, faults>>
vars == <<tables, leader, pass, effects, history, bounds>>

\* listed: the rest of the pass's listing, its head is the event at hand.
NoPass == [pc |-> "idle", listed |-> {}]

Init ==
    /\ outbox = [e \in Events |-> "absent"]
    /\ due = [e \in Events |-> FALSE]
    /\ inbox = [e \in Events |-> "absent"]
    /\ leader = Nobody
    /\ pass = [d \in Dispatchers |-> NoPass]
    /\ accrued = {} /\ compensated = {}
    /\ handled = [e \in Events |-> 0]
    /\ unclaimed = [e \in Events |-> 0]
    /\ everFailed = {}
    /\ lost = FALSE
    /\ failures = 0 /\ faults = 0

Fault == faults < MaxFaults /\ faults' = faults + 1

-----------------------------------------------------------------------------
(* Producers and the passing of time. *)

\* Enqueue.  CreateOutbox returns the existing row for a repeated idempotency
\* key, so an event is written once; ids grow in the order of the writes.  The
\* payments service admits a refund as soon as the order is paid, before it
\* writes the payment's own event: either of the two may have the smaller id.
Enqueue(e) ==
    /\ outbox[e] = "absent"
    /\ \A f \in Events : f < e => outbox[f] # "absent"
    /\ outbox' = [outbox EXCEPT ![e] = "pending"]
    /\ UNCHANGED <<due, inbox, leader, pass, effects, history, bounds>>

\* retryDelay is capped, so next_retry_at always passes.
RetryDue(e) ==
    /\ outbox[e] = "failed" /\ ~due[e]
    /\ due' = [due EXCEPT ![e] = TRUE]
    /\ UNCHANGED <<outbox, inbox, leader, pass, effects, history, bounds>>

-----------------------------------------------------------------------------
(* One pass of the worker in process d. *)

\* Mutant: a failed event is never selected again.
DispatchablePending == {e \in Events : outbox[e] = "pending"}

Dispatchable == {e \in Events : outbox[e] = "pending" \/ (outbox[e] = "failed" /\ due[e])}

\* Mutant: the listing is not ordered by id.
ListDispatchableUnordered ==
    {S \in SUBSET Dispatchable : Cardinality(S) = Limit
        \/ (Cardinality(S) < Limit /\ S = Dispatchable)}

\* The possible results of ListDispatchableOutbox: the first Limit by id.
ListDispatchableOutbox ==
    {S \in SUBSET Dispatchable :
        /\ \A e \in S, f \in Dispatchable \ S : e < f
        /\ Cardinality(S) = Limit \/ (Cardinality(S) < Limit /\ S = Dispatchable)}

At(d, pc) == pass[d].pc = pc
Ev(d) == CHOOSE e \in pass[d].listed : \A f \in pass[d].listed : e <= f

Goto(d, pc) == pass' = [pass EXCEPT ![d].pc = pc]

NextEvent(d) == pass' = [pass EXCEPT ![d] = [pc |-> "next", listed |-> @.listed \ {Ev(d)}]]

\* Mutant: the worker runs without the gate.
StartUngated(d) ==
    /\ At(d, "idle")
    /\ leader' = d
    /\ \E S \in ListDispatchableOutbox :
         pass' = [pass EXCEPT ![d] = [pc |-> "next", listed |-> S]]
    /\ UNCHANGED <<tables, effects, history, bounds>>

\* RunOnce behind the gate: only the session that gets the lock runs a pass.
Start(d) ==
    /\ At(d, "idle") /\ leader = Nobody
    /\ leader' = d
    /\ \E S \in ListDispatchableOutbox :
         pass' = [pass EXCEPT ![d] = [pc |-> "next", listed |-> S]]
    /\ UNCHANGED <<tables, effects, history, bounds>>

EndPass(d) ==
    /\ pass' = [pass EXCEPT ![d] = NoPass]
    /\ leader' = IF leader = d THEN Nobody ELSE leader

Finish(d) ==
    /\ At(d, "next") /\ pass[d].listed = {}
    /\ EndPass(d)
    /\ UNCHANGED <<tables, effects, history, bounds>>

\* Mutant: a record claimed elsewhere counts as delivered.
ExistingCounts(d, status) ==
    IF status = "failed" THEN Goto(d, "handle") ELSE Goto(d, "publish")

\* What inboxHandler makes of a record it did not create.
Existing(d, status) ==
    CASE status = "processed" -> Goto(d, "publish")
      [] status = "failed" -> Goto(d, "handle")
      [] OTHER -> NextEvent(d)

\* CreateInbox: the INSERT claims the event, or the record is read.
RecordInbox(d) ==
    LET e == Ev(d) IN
    /\ At(d, "next") /\ pass[d].listed # {}
    /\ \/ /\ inbox[e] = "absent"
          /\ inbox' = [inbox EXCEPT ![e] = "pending"]
          /\ Goto(d, "handle")
       \/ /\ inbox[e] # "absent"
          /\ IF inbox[e] = "failed" THEN Goto(d, "reclaim") ELSE Existing(d, inbox[e])
          /\ UNCHANGED inbox
    /\ UNCHANGED <<outbox, due, leader, effects, history, bounds>>

\* The conditional UPDATE of a failed record, and the answer when another
\* process was faster.
Reclaim(d) ==
    LET e == Ev(d) IN
    /\ At(d, "reclaim")
    /\ inbox' = IF inbox[e] = "failed" THEN [inbox EXCEPT ![e] = "pending"] ELSE inbox
    /\ Goto(d, IF inbox[e] = "failed" THEN "handle" ELSE "refind")
    /\ UNCHANGED <<outbox, due, leader, effects, history, bounds>>

\* Mutant: the record read after a lost claim counts as the consumer's own.
RefindClaims(d) ==
    LET e == Ev(d) IN
    /\ At(d, "refind")
    /\ IF inbox[e] = "pending" THEN Goto(d, "handle") ELSE Existing(d, inbox[e])
    /\ unclaimed' = IF inbox[e] = "failed" THEN [unclaimed EXCEPT ![e] = @ + 1] ELSE unclaimed
    /\ UNCHANGED <<tables, leader, effects, everFailed, lost, bounds>>

\* The record after a lost claim: one that failed again meanwhile is handled
\* without being claimed.
Refind(d) ==
    LET e == Ev(d) IN
    /\ At(d, "refind")
    /\ Existing(d, inbox[e])
    /\ unclaimed' = IF inbox[e] = "failed" THEN [unclaimed EXCEPT ![e] = @ + 1] ELSE unclaimed
    /\ UNCHANGED <<tables, leader, effects, everFailed, lost, bounds>>

Succeeds(d) ==
    /\ handled' = [handled EXCEPT ![Ev(d)] = @ + 1]
    /\ Goto(d, "processed")

\* PaymentOrderPaid: the subscription was created by the payment already;
\* AccrueRebate appends under a unique reference, unless rebates are disabled
\* or there is no inviter or rule.
AccrueRebate(d) ==
    LET e == Ev(d) IN
    /\ At(d, "handle") /\ Kind[e] = "paid"
    /\ accrued' \in {accrued, accrued \cup {Order[e]}}
    /\ Succeeds(d)
    /\ UNCHANGED <<tables, leader, compensated, history, bounds>>

\* PaymentOrderRefunded: CompensateRefund reads the order's ledgers; without a
\* rebate there is nothing to compensate ...
ListLedgers(d) ==
    LET e == Ev(d) IN
    /\ At(d, "handle") /\ Kind[e] = "refunded"
    /\ IF Order[e] \in accrued THEN Goto(d, "compensate") /\ UNCHANGED handled ELSE Succeeds(d)
    /\ UNCHANGED <<tables, leader, accrued, compensated, history, bounds>>

\* ... and otherwise it appends the compensation, under a unique reference; an
\* amount of zero, with nothing left to take, appends nothing.
CompensateRefund(d) ==
    /\ At(d, "compensate")
    /\ compensated' = compensated \cup {Order[Ev(d)]}
    /\ Succeeds(d)
    /\ UNCHANGED <<tables, leader, accrued, history, bounds>>

\* A notification is sent; nothing in the database stops a second one.
Notify(d) ==
    /\ At(d, "handle") /\ Kind[Ev(d)] = "notice"
    /\ Succeeds(d)
    /\ UNCHANGED <<tables, leader, accrued, compensated, history, bounds>>

\* The handler returns an error, before its entry in the ledger was written or
\* after (the reply of the INSERT was lost).
HandlerFails(d) ==
    LET written == {{}, {Order[Ev(d)]}} IN
    /\ failures < MaxFailures /\ failures' = failures + 1
    /\ \/ /\ At(d, "handle")
          /\ \E o \in IF Kind[Ev(d)] = "paid" THEN written ELSE {{}} : accrued' = accrued \cup o
          /\ UNCHANGED compensated
       \/ /\ At(d, "compensate")
          /\ \E o \in written : compensated' = compensated \cup o
          /\ UNCHANGED accrued
    /\ Goto(d, "failed")
    /\ UNCHANGED <<tables, leader, handled, history, faults>>

MarkInboxProcessed(d) ==
    /\ At(d, "processed")
    /\ inbox' = [inbox EXCEPT ![Ev(d)] = "processed"]
    /\ Goto(d, "publish")
    /\ UNCHANGED <<outbox, due, leader, effects, history, bounds>>

MarkInboxFailed(d) ==
    /\ At(d, "failed")
    /\ inbox' = [inbox EXCEPT ![Ev(d)] = "failed"]
    /\ Goto(d, "retry")
    /\ UNCHANGED <<outbox, due, leader, effects, history, bounds>>

\* Conditional on pending or failed; a published event is left alone.
MarkOutboxPublished(d) ==
    LET e == Ev(d) IN
    /\ At(d, "publish")
    /\ outbox' = IF outbox[e] \in {"pending", "failed"} THEN [outbox EXCEPT ![e] = "published"] ELSE outbox
    /\ due' = [due EXCEPT ![e] = FALSE]
    /\ NextEvent(d)
    /\ UNCHANGED <<inbox, leader, effects, history, bounds>>

\* Unconditional.
MarkOutboxFailed(d) ==
    LET e == Ev(d) IN
    /\ At(d, "retry")
    /\ outbox' = [outbox EXCEPT ![e] = "failed"]
    /\ due' = [due EXCEPT ![e] = FALSE]
    /\ everFailed' = everFailed \cup {e}
    /\ NextEvent(d)
    /\ UNCHANGED <<inbox, leader, effects, unclaimed, lost, bounds>>

-----------------------------------------------------------------------------
(* Faults. *)

\* The status the inbox statement at hand writes.
InboxWrite(d) ==
    LET was == inbox[Ev(d)] IN
    CASE At(d, "processed") -> "processed"
      [] At(d, "failed") -> "failed"
      [] (At(d, "next") /\ was = "absent") \/ (At(d, "reclaim") /\ was = "failed") -> "pending"
      [] OTHER -> was

\* A statement on the inbox fails, or only its reply is lost: the handler
\* returns the error and the outbox event is marked for a retry.
InboxError(d) ==
    /\ pass[d].pc \in {"next", "reclaim", "refind", "processed", "failed"}
    /\ pass[d].listed # {}
    /\ Fault
    /\ inbox' \in {inbox, [inbox EXCEPT ![Ev(d)] = InboxWrite(d)]}
    /\ Goto(d, "retry")
    /\ UNCHANGED <<outbox, due, leader, effects, history, failures>>

\* A statement on the outbox fails: DispatchPending returns.
OutboxError(d) ==
    /\ pass[d].pc \in {"publish", "retry"}
    /\ Fault
    /\ EndPass(d)
    /\ UNCHANGED <<tables, effects, history, failures>>

\* The process dies, and its sessions with it.
Crash(d) ==
    /\ ~At(d, "idle")
    /\ Fault
    /\ EndPass(d)
    /\ UNCHANGED <<tables, effects, history, failures>>

\* The gate's connection breaks: PostgreSQL frees the lock, the pass goes on.
LockLost(d) ==
    /\ leader = d
    /\ Fault
    /\ leader' = Nobody
    /\ lost' = TRUE
    /\ UNCHANGED <<tables, pass, effects, unclaimed, everFailed, failures>>

-----------------------------------------------------------------------------
Handle(d) == AccrueRebate(d) \/ ListLedgers(d) \/ CompensateRefund(d) \/ Notify(d)

Step(d) ==
    \/ RecordInbox(d) \/ Reclaim(d) \/ Refind(d) \/ Handle(d)
    \/ MarkInboxProcessed(d) \/ MarkInboxFailed(d)
    \/ MarkOutboxPublished(d) \/ MarkOutboxFailed(d) \/ Finish(d)

Next ==
    \/ \E e \in Events : Enqueue(e) \/ RetryDue(e)
    \/ \E d \in Dispatchers : Start(d) \/ Step(d) \/ HandlerFails(d)
    \/ \E d \in Dispatchers : InboxError(d) \/ OutboxError(d) \/ Crash(d) \/ LockLost(d)

Spec == Init /\ [][Next]_vars

\* The workers' tickers fire for ever, a pass runs on unless its process dies,
\* and time passes.
FairSpec ==
    /\ Spec
    /\ WF_vars(\E d \in Dispatchers : Start(d))
    /\ \A d \in Dispatchers : WF_vars(Step(d))
    /\ \A e \in Events : WF_vars(RetryDue(e))

-----------------------------------------------------------------------------
(* Properties. *)

Running == {"next", "reclaim", "refind", "handle", "compensate", "processed",
            "failed", "publish", "retry"}

\* Statuses stay in their sets; a pass that is at an event has one listed.
TypeOK ==
    /\ outbox \in [Events -> {"absent", "pending", "failed", "published"}]
    /\ due \in [Events -> BOOLEAN]
    /\ inbox \in [Events -> {"absent", "pending", "processed", "failed"}]
    /\ leader \in Dispatchers \cup {Nobody}
    /\ pass \in [Dispatchers -> [pc : Running \cup {"idle"}, listed : SUBSET Events]]
    /\ \A d \in Dispatchers : pass[d].pc \notin {"idle", "next"} => pass[d].listed # {}
    /\ accrued \subseteq Orders /\ compensated \subseteq Orders
    /\ handled \in [Events -> Nat] /\ unclaimed \in [Events -> Nat]
    /\ everFailed \subseteq Events
    /\ lost \in BOOLEAN
    /\ failures \in Nat /\ faults \in Nat

\* An event whose delivery ended - published, or recorded as processed - was
\* really handled, whoever else claimed, failed or crashed on it: nobody
\* publishes on the strength of another pass's unfinished claim.
PublishedHandled ==
    \A e \in Events : outbox[e] = "published" \/ inbox[e] = "processed" => handled[e] > 0

\* The inbox makes delivery effectively once: a handler succeeds again only if
\* some pass started it on a failed record it had not claimed.
HandledBound == \A e \in Events : handled[e] <= 1 + unclaimed[e]

\* As long as no pass loses its lock connection, the handler of an event
\* succeeds at most once, whatever statements fail and processes crash.
OnceUnderLock == ~lost => \A e \in Events : handled[e] <= 1

\* The payment events of an order.
Payments(o) == {p \in Events : Kind[p] = "paid" /\ Order[p] = o}

\* Under the same condition a refunded order does not keep its rebate once the
\* refund is handled, unless the refund could overtake the payment: the payment's
\* event was written after the refund's, or its delivery failed once.
RebateCompensated ==
    \A r \in Events :
        /\ Kind[r] = "refunded" /\ handled[r] > 0 /\ Order[r] \in accrued
        /\ ~lost /\ \A p \in Payments(Order[r]) : p < r /\ p \notin everFailed
        => Order[r] \in compensated

\* A claimed event nobody works on: its process died, or failed to mark it.
Orphaned(e) ==
    /\ inbox[e] = "pending" /\ outbox[e] # "published"
    /\ \A d \in Dispatchers :
         pass[d].pc \in {"handle", "compensate", "processed", "failed"} => Ev(d) # e

\* Orphaned events are listed for ever; Limit of them hide all the others.
Clogged == Cardinality({e \in Events : Orphaned(e)}) >= Limit

\* Every event written is published in the end and stays so, through retries,
\* crashes and changes of leader, unless a claim on it was orphaned or orphaned
\* events fill the listing.
EventuallyPublished ==
    \A e \in Events :
        (outbox[e] # "absent") ~> [](outbox[e] = "published" \/ Orphaned(e) \/ Clogged)
=============================================================================
