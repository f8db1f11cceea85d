# SRapi in TLA+

A verification project for SRapi, a gateway that resells access to AI providers:
users call it with an API key, it admits the call against limits and balance,
schedules it on a provider account, fails over between accounts, records usage
and charges it. This directory models the parts in which concurrent requests,
background workers and partial failures meet, checks them with TLC on small
instances and proves the central invariants with TLAPS for every instance.

All paths below are relative to `src/apps/api/internal/`.

## 1. Inventory

The API server (`httpserver`) and its workers (`workers`) run in one Go process,
of which there may be several replicas. They share PostgreSQL (through
`persistence/entstore`) and Redis (`persistence/redisstore`,
`platform/ratelimit`); inside a process they share caches, breakers and slots.

| Part | State | Operations | What is hard | What makes it correct |
|---|---|---|---|---|
| Usage charging: `workers/balance_charger`, `modules/billing`, `entstore/billing` | `usage_logs.charged_at`, `users.balance`, `billing_ledgers`, outbox | select pending rows, charge one user's group per transaction, suspend, notify | several replicas with overlapping selections, failing groups, crashes between statements, other writers of the balance | a row is charged once; marker, ledger and balance agree; every row is charged at last |
| Usage aggregation: `entstore/usagebilling`, `entstore/subscriptions`, `entstore/apikeys`, `workers/usage_aggregation_reconciler` | `usage_logs.aggregated_at`, materialised usage windows | eager apply by the request, sweep by the reconciler, entitlement check | two appliers of one row, unlocked read before absolute write, rows replayed after their period | a row is applied exactly once; counters are complete; windows only move forward |
| Balance gate: `redisstore/balancereservation`, `runtime_gateway_entitlement.go`, `runtime_gateway_admission.go` | one Redis hash per user | reserve at admission, release at the usage record | requests reading one balance together, TTL, release on failed attempts, missed releases | reserved estimates never exceed the balance; the reservation is there while it is needed and gone afterwards |
| Circuit breaker: `platform/circuitbreaker` | state, counters, timer under one mutex | `Allow`, `done`, `Reset` | callbacks that arrive in a later state than they were handed out in, panics | the probe counter is the probes less stale returns, backoff bounded, recovers |
| Failover: `runtime_gateway_failover.go`, `runtime_gateway_model_fallback.go` | attempt loop, leases, slots | pick a candidate, acquire breaker, slot, quota and lease, invoke, release | every exit has to give back what was acquired | nothing leaks, nothing is given back twice |
| Rate limiter: `platform/ratelimit` | window counters and lease sets in Redis | allow, refund, acquire, release | refunds after their window, leases that expire under a running request | a counter is the sum of what its window granted; at most the limit of unexpired leases at once; refused and failed attempts leave nothing |
| Scheduler: `modules/scheduler`, `redisstore/scheduler` | leases with a TTL, one sorted set and one cached concurrency marker per account | select, acquire, release, feedback, metrics scrape | lease expiry under a running request, feedback that runs after the next attempt began, a marker nobody writes any more | at most the account's concurrency; leases end; a full account becomes selectable again |
| Idempotency: `modules/idempotency`, `runtime_gateway_idempotency.go`, `workers/idempotency_cleanup` | one row per key, with a lock time and an expiry | begin (insert, find, take over), complete, delete expired | takeover of a lapsed claim whose holder still runs, late completion, clients that leave | one holder within its lock; only the same body's response is replayed; the key is given back |
| Events: `modules/events`, `workers/outbox`, `platform/leadergate`, `modules/affiliate` | outbox and inbox rows, the advisory lock, rebate ledger | enqueue, list, claim, handle, mark, retry | lost lock connection, crash between handling and marking, retries overtaken by later events | published only if handled, handled effectively once, nothing forgotten |
| Payments: `modules/payments`, `workers/order_expirer`, `workers/payment_reconcile`, `modules/subscriptions` | orders, webhook audit, balance, ledger, subscriptions | checkout, webhook, reconcile, expire, cancel, refund | each reads the order, decides on its copy and writes the whole row back later; several calls without a transaction | money moves only with the provider's, a paid order is delivered, once |
| Sessions, affinity, realtime slots, token refresh, config watch, task queue | TTL'd keys, locks, caches | see `PROJECT.json` | expiry, stale caches, shutdown | see the plan |

How they interact: a request is admitted (balance gate, limits), scheduled, sent
through the breaker of its account, and recorded by `recordGatewayUsage`. That
record appends the usage row, which is the input of both the aggregation (eagerly
by the request's own goroutine, otherwise by the reconciler) and the charger, and
releases the balance reservation and, through `RecordFeedback`, the scheduling
lease. Charger, redeem codes, payments and administrators all write
`users.balance`. Payments and the charger write domain events to the outbox;
its worker, one per cluster through the leader gate, hands them to the affiliate
and notification handlers. Requests with an `Idempotency-Key` pass the
idempotency wrapper first.

`PROJECT.json` lists every component, modelled or not, and every hazard with the
line where it bites.

## 2. Plan

Modelled, in the order of what a mistake costs:

1. `UsageCharging` with the abstract `UsageSettlement` it implements,
2. `UsageAggregation`,
3. `BalanceGate`,
4. `CircuitBreaker`,
5. `RateLimiter`,
6. `PaymentOrder`,
7. `EventDelivery`: outbox, inbox, leader gate and the affiliate handlers,
8. `AccountLeases`: the scheduler's leases under the failover loop and the model
   fallback,
9. `Idempotency`.

Next: `SessionAffinity`, `RealtimeSlots`, `TokenRefresh`, `TaskQueue`,
`ConfigWatch`, each small and of one kind (a key with an expiry, a bounded queue,
a cache against its loads). Every safety property of the runs has its theorem
(section 5); a new module starts with its inductive invariant.

## 3. Modules

### UsageCharging, UsageSettlement

`usageLog` is the append-only `usage_logs` table (the id is the index, which is
also the `created_at, id` order), `balance`, `status` and `deleted` are columns
of `users`, `ledger` is `billing_ledgers` per user, `outbox` the balance-low
events by their idempotency key, `worker[c]` the local state of one run of the
worker. `ChargeUsage` is one SERIALIZABLE transaction and so one step:
`ChargeUsage` commits, `ChargeFindsNothing`, `ChargeRejected` and `ChargeFails`
are its other outcomes. Everything the code does outside a transaction is a step
of its own: `RunOnce`, `ListPendingUsageCharges`, the groups in the order of
user ids, `EndBatch` (the loop of `runCharges`, which drops a failed batch's
results), `handleDisabledUsers`, `enqueueBalanceLowNotifications`. An
administrator's PATCH is `AdminStart`, `AdminRead`, `AdminWrite`, `AdminRecord`:
two reads, an absolute write and a ledger record. The mutex of `UpdateBalance` is per process and the
model's administrators are requests to different replicas.

Abstracted: amounts are integers of one currency, and a group is one user's rows
(the code groups by user and currency; the groups of two currencies of a user
behave like two users' groups except that they share the balance row).

`UsageSettlement` is what charging promises: usage is incurred, settled at most
once at its exact cost from its own user's balance, and balances otherwise move
only by credits and adjustments. `UsageCharging` gives the mapping
(`IncurredView`, `ImplementsSettlement`): incurred are the successful rows,
settled the charged ones. Its `Adjust` is any non-negative absolute write: an
administrator's edit computed from a balance that a charge has lowered since
refines it, although it undoes the charge. So `ImplementsSettlement` says that
usage is settled exactly and that no edit leaves a negative balance, and not that
an edit keeps what charging took; `UsageChargingAdminLedger` shows that loss.

### UsageAggregation

The transaction of `ApplyAggregation` runs at READ COMMITTED, so each statement
is a step: `GetRow`, `Claim` (the conditional UPDATE of `aggregated_at`, which
waits for a concurrent claim), `ReadSubscription`/`WriteSubscription`,
`ReadKey`/`WriteKey`, `Commit` or `Rollback`. `rowLock` and `tableLock` are the
row locks an UPDATE takes until its transaction ends; a SELECT takes none, and
nothing keeps two transactions of one user apart. Process `r` is the live
path of row `r`, process 0 the reconciler.

When the insert of the usage row fails, or only its reply is lost (`RecordFails`),
`recordGatewayMaterializedCosts` increments the subscription and the key directly,
in two transactions of their own and without a marker (`CommitUsage`,
`CommitCost`). A row that was written all the same is then aggregated by the
reconciler as well and counts twice; the properties count it twice too.
`ReadUsage`/`WriteBackUsage` is `MaterializedUsageForUser`,
`EditRead`/`EditWrite` an edit of the API key, which writes all columns back,
`ResetUsage` and `DeleteKey` the statements of those names.

History variables say what the counters should show: `applied`, `directSub` and
`directKey` the committed increments, `waived` what the key's last reset wrote
off, and `lostSub`, `lostKey` where an update was lost, that is, where a
transaction, an entitlement check or an edit wrote over a row that was no longer
the one it had read. Reads without a lock make that possible. `CostExact`,
`UsageCoversPeriod` and `WindowForwardOnly` therefore have two parts: what no
interleaving breaks (a key never shows more than was committed; the day after a
loss is counted in full again; a window moves back only in the step of a loss),
and that the counters are exact where nothing was lost. `ResetUsage` is one UPDATE
"so it can't lose a race against ApplyCostUsage" (`entstore/apikeys/store.go:151`);
it does lose when the transaction read the key before the reset and writes after
it, and `lostKey` covers that case.

A clock tick is a day, which makes the daily window
the general case: the weekly and monthly ones run the same code over another
start. The API key has one rolling window and the lifetime cost. Both paths
ignore unsuccessful rows, so those are left out.

### BalanceGate

One pay-as-you-go user (users have separate hashes). `hash` holds the fields,
`expires` the expiry of the whole hash. `FetchUser` reads the balance, the gate
decides on it later. `GateAdmits`, `GateDenies`, `GateFailsOpen` are the outcomes
of `gatewayBalanceGate`; `LaterCheckDenies` stands for every admission check
after it; `AttemptFails`, `ModelFallback`, `GiveUp`, `Succeed` are the dispatcher
as far as the reservation is concerned: each records usage and so releases.
`ReleaseMissed` is a panic or a failing release. The cost of a request is its
estimate, and nothing tops the balance up: `NoOverReservation` is relative to the
balance the user had at first (with top-ups, to the highest balance read).
Request ids are taken to be unique. `requestIDMiddleware` (`httpserver/server.go:1204`)
uses the client's `X-Request-ID` when there is one, so a client that sends one id
in two live requests makes them share a field of the hash (and, in
`AccountLeases`, their leases); nothing is claimed for that case.

### CircuitBreaker

`Allow`, `done` and `Reset` hold the mutex, so each is one step. Between a
caller's `Allow` and `done` anything may happen. The consecutive counters are
kept up to their thresholds, since they are only compared with them, and the
time since `openedAt` as the time left. `outstanding` and `abandoned` say who was
admitted and who will never call back; `probes` and `staleReturns` are history:
the callers admitted in the present half-open period that are not back, and the
other callers that came back during it. `InflightAccounted` is exact in them: the
counter is short by one place for every stale return, so as many probes too many
can be out, and a lost probe keeps its place.

### RateLimiter

The quota and the concurrency leases of one provider account, as the failover
loop uses them. `counter` holds the window counters (account and group, requests
and tokens) that one `Allow` script reserves together; `zset` and `zexpires` are
the lease sets and the expiry of their keys; `attempt[a]` is one candidate's turn
in the loop: `Allow`, then for each dispatch the leases in their order
(`TakeClock`, `AcquireConcurrency`), the upstream call (`InvokeEnds`), the
releases one by one, and then success, a retry on the same candidate with the
same reservation, or the `Refund`. A script is atomic but runs after the client
took the clock it sends, so leases are granted and pruned with an old clock while
Redis expires keys with its own. `AllowUnanswered`, `AcquireUnanswered`,
`ReleaseUnanswered` and `RefundLost` are lost replies, in which the script may or
may not have run; the client then fails open or returns an error (`SetFailureMode`
is never called outside tests, so fail-open is the mode). `SlotUnavailable` refunds and
`ThrottleCancelled` does not, as in the loop. `grantedIn`, `disturbed`,
`orphans` and `unrefunded` are history: which windows count an attempt, which
were hit by a refund of an earlier one, and who ended without release or refund.

Abstracted: a rollback and the end of a dispatch release in different orders, so
the model releases in any order; streaming is part of `running`; the counters of
an API key use the same scripts and are never refunded. Clients whose clocks run
ahead of Redis are not modelled.

### PaymentOrder

One order of one user; orders share nothing but the user. `order` is the row
(status and pending refund), `audit` the webhook keys, `provider` and `refundAt`
what the payment provider did, `credits`, `booked`, `subs`, `debited` and
`events` the effects outside the row. `job[j]` is an operation under way: the
next call it makes, its copy of the order, what it heard from the provider. Each
operation begins with a read (`Begin`) and decides on that copy; every later
call is a step of its own, because no transaction spans them, and `UpdateOrder`
replaces the row by the copy without a condition. Only `ExpireOrder` is
conditional on the stored status. `WebhookStep`, `RefundStep` and
`validateTransition` are the branches of `HandleWebhook`, of
`completePendingRefund` and the transition table. `Abort` is an error return or
the death of the process between any two calls; `FulfillFails` and
`CallRefundFails` are the failures the code handles, the second also when the
provider accepted the refund and only the answer was lost. The workers are behind
the leader gate, so at most one pass of each is under way (`Running`).
`contested`, `dropped` and `interrupted` are history: two operations overlapped,
a payment's processing was cut short or its fulfilment failed, a refund was cut
short between its debit and its last write. The properties name these as the
only exceptions.

The scope of `PaidNotLost`: every webhook of the model is signed by the provider
and matches the order. One with an invalid signature or another amount gets its
audit row before it is refused (`service.go:903`-`934`) and, if it carries the
idempotency key of a genuine event, blocks it; that is outside the model. The
audit key tells statuses apart, as the key made by `HandleWebhook` does
(`service.go:879`); EPay's (`epay_webhook.go:54`) names order and trade only. The
provider's answer is final (`Pays`), so an order marked failed is not paid later;
the code would refuse such a payment in `validateTransition` after its audit row.
`ErrDuplicateSubscription`, when the user has the plan from another order, is one
of the failures of `FulfillFails`.

### EventDelivery

`outbox` and `inbox` hold the status of an event in the two tables, `due` whether
its `next_retry_at` has passed, `leader` the session with the advisory lock,
`pass[d]` the `DispatchPending` call of process `d`: where it is and what is left
of its listing, taken in the order of ids. `CreateInbox` is up to three
statements, `RecordInbox`, `Reclaim` and `Refind`; `Existing` is what the worker
does with a record it did not create. `AccrueRebate`, `ListLedgers` with
`CompensateRefund`, and `Notify` are the domain handlers by kind of event; the
affiliate ledger has a unique reference per order, a notification has nothing.
`LockLost` breaks the connection that holds the lock while the pass, which uses
other connections, goes on. `InboxError` also covers a statement that ran and
whose reply was lost. A claim (`pending`) whose process died is never reclaimed:
the event is `Orphaned`, is listed in every pass, and `Limit` of them hide the
others (`Clogged`); `EventuallyPublished` says that this is the only way for an
event not to arrive. `HandlerFails` is a handler that returns an error before or
after its ledger entry was written. A refund of zero compensation appends nothing
(`modules/affiliate/service/service.go:465`); amounts are not modelled, so every
refund takes the whole rebate.

The events of a payment and of its refunds may be written in either order:
`RequestRefund` admits an order as soon as it is paid, and `enqueuePaid` comes
only after the fulfilment (`modules/payments/service/service.go:1131`, `1321`).
`RebateCompensated` speaks of each refund whose payment event has the smaller id
and whose delivery did not fail; otherwise the rebate accrued later stays.
Ids are taken to become visible in their order: an insert is a single statement,
and the moment between drawing an id and committing it is not modelled.

### AccountLeases

`lease`, `leaseOf`, `active` and `marker` are the keys of `lease_store.go`: the
lease hashes, the request and attempt keys, the accounts' sorted sets and the
cached concurrency markers. A Lua script is one step: `LeaseExists`, `LeaseFull`
and `LeaseGranted` are the results of `acquireLeaseScript`, `UpdateLeaseStatus`
is `updateLeaseScript`. `req[r]` is the failover loop: `Schedule` reads the
markers and selects, `AcquireLease` comes later; the exits of the loop are
`SkipOpen` (breaker), `SkipFull` (slot), `CandidateFails`, `CandidateSucceeds`,
`ThrottleCanceled`, `DecisionFails`, `NoneAvailable`, and `LoopEnds` restarts it
from attempt one for a fallback model, as `invokeProviderConversationWithModelFallback`
does. A release may fail (`GiveBack`): it uses the request's context, which is
canceled when the client leaves in the slot wait, and an error is only logged.
`AcquireFails` is a script, or the read of its lease, without a reply: `Schedule`
answers as for a full account and nobody knows of the lease it may have left. Such
a request is `orphaned`, as after a crash, a canceled throttle sleep or a lost
report, and its lease is left to lapse; `LeaseSettled` says that there is no other
way. A report dispatched by an attempt is in `feedback` and runs at any later
time or is lost. `ScanLease` and `MarkExpired` are the metrics endpoint, which
sets the marker to zero whatever other leases are live. Times are kept as what is
left of them, so the model needs no bound on the clock.

### Idempotency

One key of one caller on one route. `record` is its row; `pc` says which
statement of `Begin` a request is at (`insert`, `find`, `reacquire`, `reread`),
whether its handler runs under a claim (`run`) or because `Begin` failed (`open`),
and whether it is about to `complete`. `Begin` reads the clock once; `Claim` is
the row it would write. `Complete` selects by key only, whoever holds the claim,
and runs in the request's context, so it fails when the client has left.
`DeleteExpired` is the cleanup worker. `Life` is the longest a request runs,
assumed below the 24 hours a row is kept (`GATEWAY_REQUEST_TIMEOUT_SECONDS` is
600 s by default, the lock lasts 5 minutes). `BeginTime` is the longest the
statements of `Begin` take, assumed not above the lock. `Begin` computes the row
it would write from the clock read at its start, and the take-over's UPDATE
compares the lock and not the hash: an insert that came later than its own lock
writes a claim that has lapsed already, and a request of another body, on its way
to take over the row that was there before, takes this one; TLC finds
`ReplaySameBody` violated then.

## 4. Runs

Passing:

| Run | Question | Bounds |
|---|---|---|
| `UsageCharging` | do two chargers, a redeem code, a deletable user, one fault keep marker, ledger, balance and code in step, and implement the settlement? | 3 rows, 2 users, 2 chargers, selections of 2: overlapping and partly overlapping selections, a group of two rows, groups of two users |
| `UsageChargingAdmin` | with an administrator's edit in between, is usage still settled at its cost; and is every row charged at last behind rows of a deleted user? | 3 rows, 2 users, 1 charger, 1 edit, 1 fault; selections of 2, so that one row of a deleted user is passed by and two of them clog the listing |
| `UsageAggregation` | are the counters complete and the windows monotone, losses apart, with everything running at once on one user? | 2 rows with costs 1 and 2 (so every lost or doubled row shows), one applied live and one whose insert may fail, the reconciler, an entitlement check, 3 days |
| `UsageAggregationRace` | with live paths, reconciler, and edit, reset and deletion of the key, is each row applied exactly once, and at last, and is the key's cost exact? | 2 rows, 1 user, 3 days, 1 fault |
| `BalanceGate` | do three requests never reserve more than the balance, stay covered in their first attempt and leave nothing? | estimates 1, 2 and 2 against a balance of 3 (two of the three pairs fit together), 2 attempts, 1 fallback, TTL of 2 ticks, 1 fault |
| `CircuitBreaker` | do late callbacks, `Reset` and one panic keep the counter, the backoff and recovery right? | 3 callers, 2 places, failure threshold 2, success threshold 3 (more than the places), timeouts 1 to 3 |
| `RateLimiter` | do refused, failed, retried and late attempts keep the counters equal to what they should count, the leases within their limits, and leave no lease? | 3 interchangeable attempts, limits 3 requests and 4 tokens at 2 each (one counter refuses while the other has room), 2 lease sets with limits 2 and 1, window and lifetime of 2 ticks, 1 retry, 1 fault |
| `PaymentOrder` | with any two operations overlapping on one order and one failed call or crash, does money move only with the provider's, is fulfilled delivered, is a recorded payment never lost, and are non-overlapping operations exact? | 2 operations at once, both products, a partial and a full refund, 1 refund request, 1 fault; redeliveries unbounded |
| `EventDelivery` | do two workers, failing handlers and a fault at any statement keep publishing, handling and rebates right, and does every event arrive? | 4 events (a refund written before its payment, the payment, a refund after it, a notice), 2 processes, listings of 1 so that one orphan clogs, 2 handler failures, 1 fault |
| `AccountLeases` | do late or lost feedback, failed releases and acquisitions, expiry, fallback, scrapes and a crash keep the capacity, the settlement of leases and the marker, and does a full account become selectable? | 2 requests (2 candidates and 1; one fallback model), 2 accounts of concurrency 1, TTL and retention of 1 tick, 1 fault |
| `Idempotency` | do takeovers, late completions, disconnects, crashes and store errors keep holders exclusive and replays right, and is the key given back? | 3 requests, two of one body and one of another, lock and `Begin` 1 tick, record 3, life 2, 8 ticks: a lock lapses under a holder and a row is deleted and claimed again |

`PaymentOrderTwice` is expected to fail: it checks what the comment in
`modules/payments/service/service.go:1426` says of crediting ("Idempotent per
order: fulfill only runs on the Paid->Fulfilled transition, which
validateTransition gates"). A webhook and the reconciler each read the order
pending, each passes the check on its own copy, and the balance is credited
twice. `CreditedOnce` in `PaymentOrder` says what is true instead.

Seven more configurations are kept to reproduce other statements of the
repository that the code does not keep. They are not part of the project's runs;
each ends with a counterexample to the property named.

| Configuration (module) | Property | The statement, and what happens |
|---|---|---|
| `UsageChargingSuspensionLost` (`MCUsageCharging`) | `OverdrawnSuspended` | `specs/plans/archive/COMMERCIALIZATION_PLAN.md:260` has a user with a negative balance suspended; a failing group hides the other users of its batch from `handleDisabledUsers`, for ever (`workers/balance_charger/worker.go:217`) |
| `UsageChargingAdminLedger` (`MCUsageCharging`) | `LedgerChainAtRest` | `docs/requirements/DATA_MODEL.md:1392` wants balance and ledger in one transaction; an administrator's edit and a charge interleave so that the ledger no longer leads to the balance |
| `UsageAggregationZeroed` (`MCUsageAggregation`) | `NoUpdateLost` | `httpserver/runtime_gateway_usage.go:32` calls the aggregations row-locked; the read takes no lock, and two applies of one subscriber lose an increment |
| `BalanceGateFailover` (`MCBalanceGate`) | `SpansRequest` | `httpserver/runtime_gateway_admission.go:143` wants the reservation to span the request; the first failed attempt releases it |
| `CircuitBreakerProbes` (`MCCircuitBreaker`) | `HalfOpenLimit` | `platform/circuitbreaker/breaker_test.go:271` expects the probe over the limit to be rejected; a stale callback gives back a place it never took and one more is admitted |
| `PaymentOrderRefund` (`MCPaymentOrder`) | `DebitedOnlyIfCredited` | `modules/payments/service/service.go:1245`: "balance_credit orders ever credited balance, so only those are debited"; an order whose fulfilment failed before the credit is refunded and debited all the same |
| `IdempotencyRetry` (`MCIdempotency`) | `NeverReexecutes` | `specs/plans/WORK_PACKAGES.md:4349` has a duplicate never re-execute; `Complete` runs in the context of a client that left, the claim lapses, and the retry executes again |

The bounds are small because the hazards are: each needs two actors, two or
three rows or callers and one fault. Every `Max...` constant is such a bound and
appears in a guard; the other constants are parameters of the code. `BalanceGate`
and `RateLimiter` stop at a state in which every request is answered, and say so
with a stuttering step. Deadlock is not checked where the system really may stop:
an order on which nothing is left to do (`PaymentOrder`), a key whose requests
are all answered at the clock's horizon (`Idempotency`), and requests that are
all answered with every key expired (`AccountLeases`).

Type invariants are proved, as theorems of their own or as parts of an inductive
invariant (`OrderInv`, `GateInv`, and `StoreTypes` and `ReqTypes` of `LeaseInv`);
for `UsageCharging` only the part that its invariants use is. The runs spend their
time on the other properties.

Fairness. `UsageCharging!FairSpec`: weak fairness of a charger's normal steps,
because the worker's ticker fires for as long as the process lives and a crashed
one is restarted; faults are bounded and have no fairness. `UsageAggregation!FairSpec`:
the same for the reconciler and for a started transaction, and the clock.
`CircuitBreaker!BreakerFairSpec`: requests keep coming (strong fairness of `Allow`,
since the breaker turns them away in between), admitted ones finish, time
passes; nobody has to call `Reset`. `EventDelivery!FairSpec`: some process's ticker
starts a pass whenever the lock is free, a pass goes on unless its process dies,
and `retryDelay` is capped, so a retry becomes due. (A panic in the outbox worker
ends its goroutine for good, `workers/outbox/worker.go:148`, while the process
lives on; the assumption is that some process has a living one.) `Idempotency!FairSpec`: requests
are served, time passes, the cleanup worker's ticker fires; `EventuallyForgotten`
needs no client to come back. `AccountLeases!FairSpec`: only time passes and a
scrape ends; the requests owe nothing, so `EventuallySelectable` holds although
every holder crashed.

`EventuallyCharged` excepts the rows of a deleted user, which stay pending for
ever (`Undeliverable`), and the rows behind `Limit` of those (`Clogged`): the
oldest-first query then returns only the undeliverable ones, and everything
younger starves. `EventuallyAggregated` is checked within the
reconciler's `maxAge`. `Recovers` assumes fewer panics than half-open places; the
gateway configures one place (`httpserver/runtime_state.go:1227`), so there one
panic of a probe keeps the breaker half-open until an administrator resets it.

## 5. Proofs

`tlapm` checks every proof; nothing is assumed beyond the named ASSUMEs of the
modules (users and rows are sets of numbers, costs and bounds are naturals,
thresholds, limits, lifetimes and timeouts are positive, callers and dispatchers
are finitely many, event ids are numbers, the amounts an administrator enters are
naturals, a request lives shorter than its idempotency row and `Begin` ends within
the lock). Some theorems have a hypothesis of their own, named below and in their
ASSUME; each is one that a run's instance satisfies.

* `UsageChargingProofs`. `ChargedAtMostOnce` and `MarkedExactlyWhenBilled` rest
  on `BillingInv`: the typed part of the state a charge touches, that a charger
  only holds existing rows, and that marker and ledger agree; a new entry's rows
  were pending, hence in no entry. `LedgerExplainsBalance` (for `Admins = {}`)
  rests on `ChainInv`: every ledger is a chain ending in the balance, which the
  charge and the redemption extend by an entry starting at the present balance.
  `MoneyConserved` (`BalanceExplained`, for `Admins = {}`, since an administrator
  writes an absolute balance) rests on `MoneyInv`: the balance is the initial one
  plus the code's value for each redemption less the cost of the charged rows;
  a charge moves a set of pending rows, disjoint from the charged ones, and their
  cost at once. `ChargingImplementsSettlement` is the refinement of
  `UsageSettlement`, with any administrators: every charge maps to the settlement
  of its group, an administrator's write to an adjustment of one balance (which
  needs `RequestInv`: the amount is checked against going below zero before it is
  written), a redemption to a credit, and every other step to a stutter.
* `FiniteSums`. Laws of the sum of a function over a finite set: what an element
  adds, what one changed value changes, disjoint sets, monotonicity. The library's
  induction theorems take an operator, which the provers cannot instantiate; here
  induction is over a set of subsets (`SetInduction`), a first-order statement
  that follows from the well-foundedness of strict inclusion. The models write
  their totals as `SumFunctionOnSet` for this reason.
* `UsageAggregationProofs`. `AggregatedExactlyOnce` rests on `ClaimInv`: a
  transaction past its claim holds the lock of its row, the row is not yet
  aggregated, and two transactions cannot hold one lock. `AggregationTypes`
  needs in addition that queued and swept rows are recorded. `KeyCostExact`
  (`CostExact`), `PeriodCovered` (`UsageCoversPeriod`) and `WindowNeverMovesBack`
  (`WindowForwardOnly`) have no hypothesis: any number of transactions, entitlement
  checks, edits and resets may overlap. They rest on `CounterInv`. A copy a
  transaction or an edit holds may be stale, so the invariant does not say that it
  is current; it says that it never shows more than is counted by now (`TxInv`,
  `KeyInv`), since counted cost only grows. A commit that finds its copy current
  adds exactly its own row, which is not counted yet (`ClaimInv` for an
  aggregated row, `RowInv` for a direct one), and one that does not is a loss.
  `AggregationInv`, `UsageInv` and `CostInv` say what a transaction has written by
  the statement it is at, so that a commit without the key's increment met a
  deleted key. `SubInv` says that no counted row is younger than both the stored
  window and the last loss, without which a younger row would open its period
  with too little.
* `AccountProofs`: what guards a provider account. `AccountCapacityHeld`
  (`CapacityHeld`) and `AnsweredRequestsSettled` (`LeaseSettled`) rest on
  `LeaseInv`. A lease is filed in keys that live for different times, so the
  invariant first says how they hang together: a lease that Redis keeps is the one
  filed under its request and attempt, and the other way round (`FilingInv`); an
  account's set holds leases of that account only, pending ones as long as they are
  kept, and is within the limit (`ActiveInv`). `HeldInv` says that a running attempt
  within its time has its lease in the set. It is inductive only with `FeedbackInv`,
  which says that a request before its first fallback has reports under way for
  earlier attempts only (otherwise a late report could end the lease), and
  with `ScanInv`, that what a metrics scrape is about to expire has lapsed.
  Requests within their leases map injectively into the account's set, which gives
  the bound. As in `CapacityHeld`, this is about requests before their first
  fallback model: a fallback reuses the attempt numbers, and so runs without a
  fresh lease. `AnsweredInv` says that somebody answers for every live lease, its
  running attempt, its report under way, or an orphaned request.
  `MarkerHidesNoLease` (`MarkerCovers`) adds `MarkerInv`: a marker outlives every
  live lease of its account and counts them all, unless a scrape reset it. Its
  hypothesis `TTL <= Retention` is what the code configures (leases of 30 seconds,
  markers kept for 5 minutes); a marker that expired earlier would read as zero.
  The breaker's three theorems (`BreakerTypes`, `ProbesAccounted`,
  `BreakerBackoff`) rest on `BreakerInv`: `InflightAccounted` itself, and that a
  probe that is not back is outstanding or lost (`ProbesOut`), so that a caller
  who asks is not one of them and admission adds exactly one.
* `RateLimiterProofs`. `LeasesNeverExceeded`, `LeasesReturned` and `LimiterTypes`
  rest on `LimiterInv`. That a set has at most `LeaseLimit` members says nothing
  of holders: the invariant adds that an unexpired lease is a member
  (`HeldIsMember`), which survives pruning because a client's clock is never
  ahead of `now`, and survives the key's expiry because the key outlives its
  members (`KeyOutlivesMembers`); holders then map injectively into the set.
  `MemberIsHeld` is the converse, for attempts that lost no reply.
  `CountersNeverOvercount` and `CountersMissNoGrant` rest on `CountInv`, which
  compares each live window with the sum of what the attempts counted in it
  reserved: a grant adds the attempt, a refund takes it out, a window that ends
  drops both sides, and a refund into a later window is in `disturbed`.
* `AdmissionProofs`: what a request passes before it is dispatched.
  `OneHolderWithinLock`, `ReplaysAnswerTheBody` and
  `IdempotencyTypes` rest on `KeyInv`. The row and its holder are written by
  different statements at different times, so the invariant ties them: a holder
  keeps a row with its hash for as long as it runs, since the row outlives the
  request (`HolderKeepsRow`), and within its lock the row's times are its own
  (`LockIsOurs`); a take-over that will succeed finds its own body in the row
  (`TakeOverSameBody`); a claim holds no response (`NoEarlySnapshot`); both times
  of a row come from one claim (`RowTimes`), and nobody acts on a clock older
  than it may be (`Punctual`).
  `GateNeverOverReserves` (`NoOverReservation`), `GateCoversFirstAttempt`
  (`FirstAttemptCovered`) and `GateLeavesNothing` (`NothingLeftBehind`) are about the
  balance gate and rest on `GateInv`. The gate decides on a
  balance it read earlier; the balance only falls, so what was read is at most what
  the user had at first (`SeenBounded`), and the script adds a field only if the
  sum with it stays within that. The hash expires as a whole, at the TTL of its
  last writer, so it outlives every field in it (`FieldsOutlive`).
  `ReleasedWhenOver` says that a request which failed has released too, since a
  fallback admission starts from there.
* `EventDeliveryProofs`. `PublishedEventsWereHandled`, `InboxBoundsHandlers`,
  `GateDeliversOnce` and `DeliveryTypes` rest on `DeliveryInv`. `HandledBound`
  counts successes and is not inductive; `ClaimsBounded` counts for each event
  the successes so far, the passes whose handler may still succeed and the claim
  its record still admits, and every statement trades one of these for another.
  `PassHandled` covers a pass between its success and its mark, and
  `AloneUnderLock` says that without a lost lock one pass runs and nobody changes
  a record between its read and its claim, so that no handler starts unclaimed.
  The lemmas `RecordKeeps`, `SucceedsKeeps`, `NextEventKeeps` and `EndKeeps` are
  the four shapes of a pass's step; each action is an instance of one.
  `RefundTakesRebate` (`RebateCompensated`) has no hypothesis on the order of
  events and rests on `RebateInv`. The listing hands a payment with a smaller id to
  a pass before the refund; a payment the pass leaves behind without a failure is
  `Settled`, handled or claimed by a pass that died, and stays so, so no rebate
  can follow the refund that looked for it (`RefundSettled`).
* `PaymentOrderProofs`. `MoneyOnlyWhenPaid` (`MoneyMoved`), `FulfilledWasDelivered`
  (`FulfilledDelivered`) and `PaymentNotLost` (`PaidNotLost`) hold for any number
  of overlapping operations. Each operation decides on a copy it read earlier, so
  the invariant `OrderInv` cannot say that a copy is current; it says that a copy,
  stored row or not, only ever claims facts that stay true: a status past payment
  means that the provider has the money and it is delivered, its delivery failed or
  was cut short, or it is under way (`StatusTrue`), and every step of an operation implies
  what it found out or did before (`JobTrue`). Since those facts only grow,
  writing an old copy back keeps the invariant. `CreditedAtMostOnce` (`CreditedOnce`)
  and `ClawbackWithinAmount` (`ClawbackBounded`) are about orders on which no two
  operations overlapped and rest on `AloneInv`, which adds that the one operation's
  copy is the stored row and counts what its step has still to give or take.

Only model-checked: liveness (`EventuallyCharged`, `EventuallyAggregated`,
`Recovers`, `EventuallyPublished`, `EventuallySelectable`, `EventuallyForgotten`),
which the prover's temporal backend does not handle with fairness. Every invariant
and every action property of the passing runs is also proved.

## 6. Not modelled

Protocol translation and HTTP (`provider_adapters`, `reverse_proxy`), scoring
over floating point, text classification, reports, generated code and the web
front end keep no shared state a model checker could say something about. The
other components without a module are in the plan above and listed with their
reason in `PROJECT.json`.

The implementation is large mostly by its generated code (the `ent` client and
mutations, `openapi.gen.go`) and by request handlers that decode, call a service
and encode; what keeps shared state is a small part of it, and the map covers a
small share of the lines for that reason. The duplicate check for streamed
responses in `runtime_gateway_usage.go` (an in-process cache of request ids,
looked up and then set, before the row is recorded) is listed as a hazard and has
no module.
