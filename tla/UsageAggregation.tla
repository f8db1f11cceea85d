-------------------------- MODULE UsageAggregation --------------------------
(***************************************************************************)
(* usagebilling.Store.ApplyAggregation: the materialized usage of the      *)
(* user's subscription and of the API key, incremented from a usage_log    *)
(* row behind the row's aggregated_at marker.  The gateway's live path     *)
(* applies it eagerly once per row; the reconciler sweeps the rows whose   *)
(* eager apply was dropped (crash, timeout, open circuit breaker).         *)
(*                                                                         *)
(* The transaction runs at PostgreSQL's default isolation, READ COMMITTED: *)
(* every statement sees what is committed when it starts, an UPDATE waits  *)
(* for the row lock of a concurrent writer and then writes the values      *)
(* computed from its earlier SELECT.  Statements are therefore steps, and  *)
(* nothing keeps two transactions of one user apart: an update is lost     *)
(* when a copy is written over a row that changed since it was read.       *)
(* Both paths only ever apply successful rows, so the others are left out. *)
(***************************************************************************)
EXTENDS Integers, FiniteSets, Functions

CONSTANTS
    Rows,        \* usage_log ids, positive; row r's live writer is process r
    Users,
    Owner,       \* user (and, one to one, API key) of each row
    Cost,        \* billable cost of each row
    Live,        \* rows whose live path is not turned away by the breaker
    Unrecorded,  \* rows whose insert may fail
    Readers,     \* users whose entitlement is checked meanwhile
    Edited,      \* users whose API key is edited meanwhile
    Resettable,  \* users whose API key usage may be reset
    Subscribed,  \* users with an active subscription
    Deletable,   \* users whose API key may be deleted
    RollLen,     \* length of the API key's rolling window, in clock ticks
    Settle,      \* the reconciler's settle margin
    MaxAge,      \* age beyond which the reconciler leaves a row alone
    Limit,       \* rows one SweepPending call selects
    MaxTime,     \* bound: the clock stops here
    MaxFaults    \* bound: rollbacks, crashes and dropped writes

ASSUME RowsAssumption == Rows \subseteq Nat \ {0}
ASSUME OwnerAssumption == Owner \in [Rows -> Users]
ASSUME CostAssumption == Cost \in [Rows -> Nat]
ASSUME ClockAssumption == Settle \in Nat /\ MaxAge \in Nat /\ MaxTime \in Nat /\ RollLen \in Nat \ {0}

Reconciler == 0
Procs == Rows \cup {Reconciler}
NoProc == -1
Tables == {"sub", "key"}

VARIABLES
    now,         \* the clock
    created,     \* usage_logs.created_at, or Never while there is no row
    live,        \* the live path: "none", "queued", "direct" (no row) or "over"
    aggregated,  \* usage_logs.aggregated_at IS NOT NULL, committed
    applied,     \* history: committed aggregations of each row
    directSub,   \* history: time of a row's direct usage increment, or Never
    directKey,   \* history: rows whose direct cost increment is committed
    waived,      \* history: cost counted on a key before its last reset
    lostSub,     \* history: time of the last update lost on a subscription
    lostKey,     \* history: keys with an update lost since their last reset
    sub,         \* user_subscriptions: daily usage and window start
    key,         \* api_keys: lifetime cost, rolling usage and window start
    keyLive,     \* api_keys.deleted_at IS NULL
    rowLock,     \* holder of the uncommitted claim on a usage_log row
    tableLock,   \* holder of the row lock on a user's subscription or key
    tx,          \* the transaction each process runs
    sweep,       \* ids the reconciler's SweepPending has left to apply
    reader,      \* MaterializedUsageForUser in progress for a user
    editor,      \* an edit of the user's API key in progress
    faults

history == <<directSub, directKey, waived, lostSub, lostKey>>
counters == <<sub, key, history>>
locks == <<rowLock, tableLock>>
others == <<reader, editor>>
env == <<now, created, keyLive>>
vars == <<env, live, aggregated, applied, counters, locks, tx, sweep, others, faults>>

Never == -1
NoWindow == -1
NoLoss == -2
EmptySub == [used |-> 0, start |-> NoWindow]
EmptyKey == [total |-> 0, used |-> 0, start |-> NoWindow]

\* A transaction: the statement it is at, the function that runs it ("aggregation"
\* for ApplyAggregation, "usage" for IncrementMaterializedUsage, "cost" for
\* ApplyCostUsage), its row, OccurredAt, the rows it read and what it wrote.
NoTx == [pc |-> "idle", way |-> "aggregation", row |-> 0, at |-> 0,
         sub |-> EmptySub, key |-> EmptyKey, wrote |-> {}]

NoRead == [open |-> FALSE, at |-> 0, sub |-> EmptySub]
NoEdit == [open |-> FALSE, key |-> EmptyKey]

Recorded == {r \in Rows : created[r] # Never}

Init ==
    /\ now = 0
    /\ created = [r \in Rows |-> Never]
    /\ live = [r \in Rows |-> "none"]
    /\ aggregated = [r \in Rows |-> FALSE]
    /\ applied = [r \in Rows |-> 0]
    /\ directSub = [r \in Rows |-> Never]
    /\ directKey = {}
    /\ waived = [u \in Users |-> 0]
    /\ lostSub = [u \in Users |-> NoLoss]
    /\ lostKey = {}
    /\ sub = [u \in Users |-> EmptySub]
    /\ key = [u \in Users |-> EmptyKey]
    /\ keyLive = [u \in Users |-> TRUE]
    /\ rowLock = [r \in Rows |-> NoProc]
    /\ tableLock = [t \in Tables |-> [u \in Users |-> NoProc]]
    /\ tx = [p \in Procs |-> NoTx]
    /\ sweep = {}
    /\ reader = [u \in Users |-> NoRead]
    /\ editor = [u \in Users |-> NoEdit]
    /\ faults = 0

Fault == faults < MaxFaults /\ faults' = faults + 1

-----------------------------------------------------------------------------
(* The window arithmetic of the two stores.  One tick is one calendar day. *)

startOfDayUTC(at) == at

\* Mutant: any other period than the stored one resets the window.
windowRolledEither(storedStart, expectedStart) == expectedStart # storedStart

windowRolledForward(storedStart, expectedStart) == expectedStart > storedStart

resetExpiredUsage(s, at) ==
    IF s.start = NoWindow \/ windowRolledForward(s.start, startOfDayUTC(at))
    THEN [used |-> 0, start |-> startOfDayUTC(at)] ELSE s

applyUsageDelta(s, at, cost) == [resetExpiredUsage(s, at) EXCEPT !.used = @ + cost]

rollingCounterExpired(start, at) == start + RollLen <= at

resetAPIKeyExpiredCostWindows(k, at) ==
    IF k.start = NoWindow \/ rollingCounterExpired(k.start, at)
    THEN [k EXCEPT !.used = 0, !.start = at] ELSE k

\* Mutant: the lifetime cost is reset with the window.
applyAPIKeyCostUsageWindowed(k, at, cost) ==
    LET w == resetAPIKeyExpiredCostWindows(k, at)
    IN  [w EXCEPT !.total = w.used + cost, !.used = @ + cost]

applyAPIKeyCostUsage(k, at, cost) ==
    [resetAPIKeyExpiredCostWindows(k, at) EXCEPT !.total = @ + cost, !.used = @ + cost]

-----------------------------------------------------------------------------
(* The gateway and the clock. *)

RowsOf(u) == {r \in Rows : Owner[r] = u}
TotalCost(S) == SumFunctionOnSet(Cost, S)

\* The cost of u's committed increments of the API key: of aggregated rows and
\* of direct increments.  A row can be counted by both (see RecordFails).
CountedCost(u) ==
    TotalCost({r \in RowsOf(u) : aggregated[r]}) + TotalCost(RowsOf(u) \cap directKey)

\* recordGatewayUsage writes the successful row synchronously and queues the
\* follow-on writes; an open billing breaker turns the aggregation away.
RecordUsage(r) ==
    /\ live[r] = "none" /\ now + Settle < MaxTime
    /\ created' = [created EXCEPT ![r] = now]
    /\ live' = [live EXCEPT ![r] = IF r \in Live THEN "queued" ELSE "over"]
    /\ UNCHANGED <<now, keyLive, aggregated, applied, counters, locks, tx, sweep, others, faults>>

\* The insert fails, or its answer is lost after the row was written: without
\* the id of a row the follow-on writes increment the counters directly.
RecordFails(r) ==
    /\ r \in Unrecorded /\ live[r] = "none" /\ now + Settle < MaxTime
    /\ created' = created \/ created' = [created EXCEPT ![r] = now]
    /\ live' = [live EXCEPT ![r] = "direct"]
    /\ UNCHANGED <<now, keyLive, aggregated, applied, counters, locks, tx, sweep, others, faults>>

\* The process dies, or the write times out, before the live apply starts.
LiveDropped(r) ==
    /\ live[r] \in {"queued", "direct"}
    /\ Fault
    /\ live' = [live EXCEPT ![r] = "over"]
    /\ UNCHANGED <<env, aggregated, applied, counters, locks, tx, sweep, others>>

Tick ==
    /\ now < MaxTime
    /\ now' = now + 1
    /\ UNCHANGED <<created, keyLive, live, aggregated, applied, counters, locks, tx, sweep, others, faults>>

-----------------------------------------------------------------------------
(* Statements on an API key outside of a transaction of this module: each  *)
(* UPDATE waits for the row lock and asks for deleted_at IS NULL.          *)

DeleteKey(u) ==
    /\ u \in Deletable /\ keyLive[u] /\ tableLock["key"][u] = NoProc
    /\ keyLive' = [keyLive EXCEPT ![u] = FALSE]
    /\ UNCHANGED <<now, created, live, aggregated, applied, counters, locks, tx, sweep, others, faults>>

\* ResetUsage zeroes the counters in a single UPDATE.
ResetUsage(u) ==
    /\ u \in Resettable /\ keyLive[u] /\ tableLock["key"][u] = NoProc
    /\ key' = [key EXCEPT ![u] = EmptyKey]
    /\ waived' = [waived EXCEPT ![u] = CountedCost(u)]
    /\ lostKey' = lostKey \ {u}
    /\ UNCHANGED <<env, live, aggregated, applied, sub, directSub, directKey, lostSub, locks, tx, sweep, others, faults>>

\* Service.Update reads the whole key, changes what the request names ...
EditRead(u) ==
    /\ u \in Edited /\ keyLive[u] /\ ~editor[u].open
    /\ editor' = [editor EXCEPT ![u] = [open |-> TRUE, key |-> key[u]]]
    /\ UNCHANGED <<env, live, aggregated, applied, counters, locks, tx, sweep, reader, faults>>

\* ... and Store.Update writes every column back, the cost counters too; a
\* NULL window start is not written.
EditWrite(u) ==
    LET k == editor[u].key IN
    /\ editor[u].open /\ tableLock["key"][u] = NoProc
    /\ editor' = [editor EXCEPT ![u] = NoEdit]
    /\ key' = IF keyLive[u]
              THEN [key EXCEPT ![u] = [k EXCEPT !.start = IF @ = NoWindow THEN key[u].start ELSE @]]
              ELSE key
    /\ lostKey' = IF keyLive[u] /\ k # key[u] THEN lostKey \cup {u} ELSE lostKey
    /\ UNCHANGED <<env, live, aggregated, applied, sub, directSub, directKey, waived, lostSub,
                   locks, tx, sweep, reader, faults>>

-----------------------------------------------------------------------------
(* ApplyAggregation by process p, statement by statement. *)

\* The SELECT of the row: already aggregated rows end the call.
GetRow(p, r) ==
    /\ tx[p].pc = "idle"
    /\ tx' = [tx EXCEPT ![p] = IF aggregated[r] THEN NoTx
                               ELSE [NoTx EXCEPT !.pc = "claim", !.row = r, !.at = created[r]]]

\* The live path of a recorded row r applies it once.
LiveApply(r) ==
    /\ live[r] = "queued"
    /\ GetRow(r, r)
    /\ live' = [live EXCEPT ![r] = "over"]
    /\ UNCHANGED <<env, aggregated, applied, counters, locks, sweep, others, faults>>

\* Without the id of a row the subscription and the key are incremented
\* directly, each in a transaction of its own, with no marker to claim.
recordGatewayMaterializedCosts(r) ==
    /\ live[r] = "direct" /\ tx[r].pc = "idle"
    /\ live' = [live EXCEPT ![r] = "over"]
    /\ tx' = [tx EXCEPT ![r] = [NoTx EXCEPT !.pc = "sub", !.way = "usage", !.row = r, !.at = now]]
    /\ UNCHANGED <<env, aggregated, applied, counters, locks, sweep, others, faults>>

\* Rows SweepPending selects: not aggregated, recorded before now - Settle and
\* not longer ago than MaxAge.
Sweepable == {r \in Recorded : ~aggregated[r] /\ created[r] \in (now - MaxAge)..(now - Settle - 1)}

\* SweepPending selects up to Limit of them, oldest first, ...
SweepPending ==
    /\ sweep = {} /\ tx[Reconciler].pc = "idle"
    /\ \E S \in SUBSET Sweepable :
         /\ Cardinality(S) = IF Cardinality(Sweepable) < Limit THEN Cardinality(Sweepable) ELSE Limit
         /\ \A r \in S, q \in Sweepable \ S : created[r] <= created[q]
         /\ sweep' = S
    /\ UNCHANGED <<env, live, aggregated, applied, counters, locks, tx, others, faults>>

\* ... and applies them in that order, one transaction after another.
SweepApply(r) ==
    /\ r \in sweep /\ \A q \in sweep : created[r] <= created[q]
    /\ GetRow(Reconciler, r)
    /\ sweep' = sweep \ {r}
    /\ UNCHANGED <<env, live, aggregated, applied, counters, locks, others, faults>>

\* Mutant: the claim trusts the SELECT instead of aggregated_at IS NULL.
ClaimUnconditionally(p) ==
    LET r == tx[p].row IN
    /\ tx[p].pc = "claim" /\ rowLock[r] = NoProc
    /\ tx' = [tx EXCEPT ![p].pc = "sub"]
    /\ rowLock' = [rowLock EXCEPT ![r] = p]
    /\ UNCHANGED <<env, live, aggregated, applied, counters, tableLock, sweep, others, faults>>

\* UPDATE ... SET aggregated_at WHERE aggregated_at IS NULL: waits for a
\* concurrent claim, then re-reads the row; no row matched ends the call.
Claim(p) ==
    LET r == tx[p].row IN
    /\ tx[p].pc = "claim" /\ rowLock[r] = NoProc
    /\ tx' = [tx EXCEPT ![p] = IF aggregated[r] THEN NoTx ELSE [@ EXCEPT !.pc = "sub"]]
    /\ rowLock' = IF aggregated[r] THEN rowLock ELSE [rowLock EXCEPT ![r] = p]
    /\ UNCHANGED <<env, live, aggregated, applied, counters, tableLock, sweep, others, faults>>

\* ApplyUsageDeltaTx and IncrementMaterializedUsage read the subscription;
\* without one they do nothing, and the cost comes next.
ReadSubscription(p) ==
    LET u == Owner[tx[p].row] IN
    /\ tx[p].pc = "sub"
    /\ tx' = IF u \in Subscribed
             THEN [tx EXCEPT ![p].pc = "writesub", ![p].sub = sub[u]]
             ELSE [tx EXCEPT ![p].pc = "key",
                             ![p].way = IF @ = "usage" THEN "cost" ELSE @]
    /\ UNCHANGED <<env, live, aggregated, applied, counters, locks, sweep, others, faults>>

\* updateSubscriptionUsage writes absolute values, computed from what was read.
WriteSubscription(p) ==
    LET u == Owner[tx[p].row] IN
    /\ tx[p].pc = "writesub" /\ tableLock["sub"][u] = NoProc
    /\ tableLock' = [tableLock EXCEPT !["sub"][u] = p]
    /\ tx' = [tx EXCEPT ![p].pc = IF tx[p].way = "usage" THEN "commit" ELSE "key",
                        ![p].wrote = {"sub"}]
    /\ UNCHANGED <<env, live, aggregated, applied, counters, rowLock, sweep, others, faults>>

\* A deleted key ends ApplyCostUsage and does not stop ApplyAggregation.
KeyNotFound(p) ==
    tx' = IF tx[p].way = "cost" THEN [tx EXCEPT ![p] = NoTx] ELSE [tx EXCEPT ![p].pc = "commit"]

\* ApplyCostUsageTx reads the key, ...
ReadKey(p) ==
    LET u == Owner[tx[p].row] IN
    /\ tx[p].pc = "key"
    /\ IF keyLive[u] THEN tx' = [tx EXCEPT ![p].pc = "writekey", ![p].key = key[u]]
                     ELSE KeyNotFound(p)
    /\ UNCHANGED <<env, live, aggregated, applied, counters, locks, sweep, others, faults>>

\* ... and its UPDATE asks again for deleted_at IS NULL.
WriteKey(p) ==
    LET u == Owner[tx[p].row] IN
    /\ tx[p].pc = "writekey" /\ tableLock["key"][u] = NoProc
    /\ IF keyLive[u]
       THEN /\ tableLock' = [tableLock EXCEPT !["key"][u] = p]
            /\ tx' = [tx EXCEPT ![p].pc = "commit", ![p].wrote = @ \cup {"key"}]
       ELSE KeyNotFound(p) /\ UNCHANGED tableLock
    /\ UNCHANGED <<env, live, aggregated, applied, counters, rowLock, sweep, others, faults>>

\* Every lock the transaction of p holds is released.
ReleaseLocks(p) ==
    /\ rowLock' = [r \in Rows |-> IF rowLock[r] = p THEN NoProc ELSE rowLock[r]]
    /\ tableLock' = [t \in Tables |-> [u \in Users |->
          IF tableLock[t][u] = p THEN NoProc ELSE tableLock[t][u]]]

\* The rows p wrote become visible; an update is lost when the row that is
\* overwritten is no longer the one p read.
Publish(p) ==
    LET t == tx[p]
        u == Owner[t.row]
        cost == Cost[t.row]
    IN
    /\ sub' = IF "sub" \in t.wrote THEN [sub EXCEPT ![u] = applyUsageDelta(t.sub, t.at, cost)] ELSE sub
    /\ key' = IF "key" \in t.wrote THEN [key EXCEPT ![u] = applyAPIKeyCostUsage(t.key, t.at, cost)] ELSE key
    /\ lostSub' = IF "sub" \in t.wrote /\ t.sub # sub[u] THEN [lostSub EXCEPT ![u] = now] ELSE lostSub
    /\ lostKey' = IF "key" \in t.wrote /\ t.key # key[u] THEN lostKey \cup {u} ELSE lostKey
    /\ ReleaseLocks(p)

\* ApplyAggregation: the marker and both increments at once.
Commit(p) ==
    LET r == tx[p].row IN
    /\ tx[p].pc = "commit" /\ tx[p].way = "aggregation"
    /\ aggregated' = [aggregated EXCEPT ![r] = TRUE]
    /\ applied' = [applied EXCEPT ![r] = @ + 1]
    /\ Publish(p)
    /\ tx' = [tx EXCEPT ![p] = NoTx]
    /\ UNCHANGED <<env, live, directSub, directKey, waived, sweep, others, faults>>

\* A direct increment: the cost of the key follows the subscription's usage.
CommitUsage(p) ==
    /\ tx[p].pc = "commit" /\ tx[p].way = "usage"
    /\ Publish(p)
    /\ directSub' = [directSub EXCEPT ![tx[p].row] = tx[p].at]
    /\ tx' = [tx EXCEPT ![p].pc = "key", ![p].way = "cost", ![p].wrote = {}]
    /\ UNCHANGED <<env, live, aggregated, applied, directKey, waived, sweep, others, faults>>

CommitCost(p) ==
    /\ tx[p].pc = "commit" /\ tx[p].way = "cost"
    /\ Publish(p)
    /\ directKey' = directKey \cup {tx[p].row}
    /\ tx' = [tx EXCEPT ![p] = NoTx]
    /\ UNCHANGED <<env, live, aggregated, applied, directSub, waived, sweep, others, faults>>

\* Mutant: the error path returns without rolling the transaction back.
RollbackForgotten(p) ==
    /\ tx[p].pc # "idle"
    /\ Fault
    /\ sweep' = IF p = Reconciler THEN {} ELSE sweep
    /\ tx' = [tx EXCEPT ![p] = NoTx]
    /\ UNCHANGED <<env, live, aggregated, applied, counters, locks, others>>

\* A statement or the commit fails, or the process dies: nothing remains, and
\* SweepPending returns at the first error.  A failed direct usage increment
\* is logged and the cost increment still tried, unless the process died.
Rollback(p) ==
    /\ tx[p].pc # "idle"
    /\ Fault
    /\ ReleaseLocks(p)
    /\ sweep' = IF p = Reconciler THEN {} ELSE sweep
    /\ \/ tx' = [tx EXCEPT ![p] = NoTx]
       \/ /\ tx[p].way = "usage"
          /\ tx' = [tx EXCEPT ![p].pc = "key", ![p].way = "cost", ![p].wrote = {}]
    /\ UNCHANGED <<env, live, aggregated, applied, counters, others>>

-----------------------------------------------------------------------------
(* MaterializedUsageForUser, run by an entitlement check of the user: it   *)
(* reads the subscription, resets expired windows and writes it back.      *)

ReadUsage(u) ==
    /\ u \in Readers \cap Subscribed /\ ~reader[u].open
    /\ reader' = [reader EXCEPT ![u] = [open |-> TRUE, at |-> now, sub |-> sub[u]]]
    /\ UNCHANGED <<env, live, aggregated, applied, counters, locks, tx, sweep, editor, faults>>

WriteBackUsage(u) ==
    /\ reader[u].open /\ tableLock["sub"][u] = NoProc
    /\ sub' = [sub EXCEPT ![u] = resetExpiredUsage(reader[u].sub, reader[u].at)]
    /\ lostSub' = IF reader[u].sub # sub[u] THEN [lostSub EXCEPT ![u] = now] ELSE lostSub
    /\ reader' = [reader EXCEPT ![u] = NoRead]
    /\ UNCHANGED <<env, live, aggregated, applied, key, directSub, directKey, waived, lostKey,
                   locks, tx, sweep, editor, faults>>

-----------------------------------------------------------------------------
TxStep(p) ==
    \/ Claim(p) \/ ReadSubscription(p) \/ WriteSubscription(p)
    \/ ReadKey(p) \/ WriteKey(p)
    \/ Commit(p) \/ CommitUsage(p) \/ CommitCost(p)

ReconcilerStep == SweepPending \/ TxStep(Reconciler) \/ \E r \in Rows : SweepApply(r)

Next ==
    \/ \E r \in Rows : RecordUsage(r) \/ RecordFails(r) \/ LiveDropped(r)
                       \/ LiveApply(r) \/ recordGatewayMaterializedCosts(r)
    \/ SweepPending \/ \E r \in Rows : SweepApply(r)
    \/ \E p \in Procs : TxStep(p) \/ Rollback(p)
    \/ \E u \in Users : DeleteKey(u) \/ ResetUsage(u) \/ EditRead(u) \/ EditWrite(u)
                        \/ ReadUsage(u) \/ WriteBackUsage(u)
    \/ Tick

Spec == Init /\ [][Next]_vars

\* The reconciler's ticker fires for ever, a started transaction of the live
\* path runs to its end unless it fails, and time passes.
FairSpec ==
    /\ Spec
    /\ WF_vars(ReconcilerStep)
    /\ \A p \in Rows : WF_vars(TxStep(p))
    /\ WF_vars(Tick)

-----------------------------------------------------------------------------
(* Properties. *)

SubRow == [used : Nat, start : Nat \cup {NoWindow}]
KeyRow == [total : Nat, used : Nat, start : Nat \cup {NoWindow}]
TxState == [pc : {"idle", "claim", "sub", "writesub", "key", "writekey", "commit"},
            way : {"aggregation", "usage", "cost"}, row : Rows \cup {0}, at : Nat,
            sub : SubRow, key : KeyRow, wrote : SUBSET Tables]

\* The tables, locks and transactions keep their shape; a counter never goes
\* below zero, and a sweep only ever works on rows that were recorded.
TypeOK ==
    /\ now \in Nat
    /\ created \in [Rows -> Nat \cup {Never}]
    /\ live \in [Rows -> {"none", "queued", "direct", "over"}]
    /\ aggregated \in [Rows -> BOOLEAN]
    /\ applied \in [Rows -> Nat]
    /\ directSub \in [Rows -> Nat \cup {Never}] /\ directKey \subseteq Rows
    /\ waived \in [Users -> Nat]
    /\ lostSub \in [Users -> Nat \cup {NoLoss}] /\ lostKey \subseteq Users
    /\ sub \in [Users -> SubRow]
    /\ key \in [Users -> KeyRow]
    /\ keyLive \in [Users -> BOOLEAN]
    /\ rowLock \in [Rows -> Procs \cup {NoProc}]
    /\ tableLock \in [Tables -> [Users -> Procs \cup {NoProc}]]
    /\ tx \in [Procs -> TxState]
    /\ \A p \in Procs : tx[p].pc # "idle" => tx[p].row \in Rows
    /\ sweep \subseteq Recorded
    /\ reader \in [Users -> [open : BOOLEAN, at : Nat, sub : SubRow]]
    /\ editor \in [Users -> [open : BOOLEAN, key : KeyRow]]
    /\ faults \in Nat

\* A row is aggregated exactly once: the live path and the reconciler may both
\* run ApplyAggregation on it, fail, crash and retry, yet its increments are
\* committed together with its marker by one transaction at most.
AppliedOnce == \A r \in Rows : applied[r] = IF aggregated[r] THEN 1 ELSE 0

\* The API key's lifetime cost never exceeds the cost of the increments that
\* were committed, whatever transactions, edits and resets overlap; and it is
\* exactly the cost of those committed since the key's last reset, no more and
\* no less, unless an update was lost on the key since then: a transaction or
\* an edit wrote back a copy of the row that was no longer current.
CostExact ==
    \A u \in Users : keyLive[u] =>
        /\ key[u].total <= CountedCost(u)
        /\ u \notin lostKey => key[u].total = CountedCost(u) - waived[u]

\* The cost of u's committed increments that belong to the period that starts
\* at the given time or to a later one.
CountedSince(u, start) ==
    TotalCost({r \in RowsOf(u) : aggregated[r] /\ created[r] >= start})
    + TotalCost({r \in RowsOf(u) : directSub[r] # Never /\ directSub[r] >= start})

\* The subscription's daily usage covers every committed increment of the
\* stored period and of any later one: a replayed row of an older period adds
\* to the usage and neither zeroes it nor takes the window back.  Only the
\* periods up to the day of a lost update are excepted: the next period is
\* counted in full again.
UsageCoversPeriod ==
    \A u \in Users \cap Subscribed :
        sub[u].start > lostSub[u] => sub[u].used >= CountedSince(u, sub[u].start)

\* The step ends an entitlement check or a transaction that writes u's
\* subscription from a copy that is no longer the stored row.
WritesOldCopy(u) ==
    \/ reader[u].open /\ ~reader'[u].open /\ reader[u].sub # sub[u]
    \/ \E p \in Procs :
          /\ tx[p].pc = "commit" /\ tx'[p].pc # "commit"
          /\ Owner[tx[p].row] = u /\ "sub" \in tx[p].wrote /\ tx[p].sub # sub[u]

\* The stored window start of a subscription moves back in no other step:
\* neither a replayed row of an older period nor a slow entitlement check takes
\* it back as long as the row it read is current.
WindowForwardOnly ==
    [][\A u \in Users : sub'[u].start >= sub[u].start \/ WritesOldCopy(u)]_vars

\* Every recorded row is aggregated at last, whatever became of its live
\* apply: the reconciler recovers dropped and rolled-back ones (as long as it
\* gets to them before they are older than MaxAge).
EventuallyAggregated == \A r \in Rows : (r \in Recorded) ~> aggregated[r]

\* No update is ever lost.  Not a property of this code.
NoUpdateLost == lostKey = {} /\ \A u \in Users : lostSub[u] = NoLoss
=============================================================================
