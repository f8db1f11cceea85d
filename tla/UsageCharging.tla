--------------------------- MODULE UsageCharging ---------------------------
(***************************************************************************)
(* The money path behind the gateway: the append-only usage_logs table,    *)
(* the balance_charger workers that turn successful, uncharged rows into   *)
(* usage_charge ledger entries, and the other writers of users.balance     *)
(* (redeem codes, administrator adjustments, user deletion).               *)
(*                                                                         *)
(* A SERIALIZABLE transaction of the code is one atomic step here, with a  *)
(* separate step for the transaction that fails and rolls back.  Whatever  *)
(* the code does in several statements outside one transaction (listing,   *)
(* charging group after group, suspending, notifying, the administrator's  *)
(* read, write and ledger record) is several steps, open to interleaving   *)
(* and to crashes.  Amounts are integers in one currency.                  *)
(***************************************************************************)
EXTENDS Integers, Sequences, FiniteSets, FiniteSetsExt, Functions

CONSTANTS
    Users,           \* user ids (numbers: ChargePendingUsage sorts by them)
    Costs,           \* billable costs a usage row may carry
    InitialBalance,  \* balance of every user at the start
    Chargers,        \* processes running the balance_charger worker
    Limit,           \* rows one ListPendingUsageCharges call selects
    MaxBatch,        \* batches in one run of the worker
    LowThreshold,    \* balance-low notification threshold
    Codes,           \* balance redeem codes
    CodeValue,       \* amount a redeem code credits
    MaxRedemptions,  \* redemptions a code admits
    Admins,          \* administrator sessions adjusting balances
    AdminAmounts,    \* amounts they enter
    Deletable,       \* users an administrator may delete
    MaxRows,         \* bound: usage rows recorded
    MaxAdjusts,      \* bound: administrator adjustments started
    MaxFaults        \* bound: failed statements, rolled-back transactions, crashes

ASSUME UsersAssumption == Users \subseteq Nat
ASSUME CostsAssumption == Costs \subseteq Nat
ASSUME BalanceAssumption == InitialBalance \in Int
ASSUME LimitAssumption == Limit \in Nat \ {0} /\ MaxBatch \in Nat \ {0}
ASSUME CodeAssumption == CodeValue \in Nat \ {0} /\ MaxRedemptions \in Nat
ASSUME AmountsAssumption == AdminAmounts \subseteq Nat  \* UpdateBalance refuses others
ASSUME DeletableAssumption == Deletable \subseteq Users

VARIABLES
    usageLog,  \* usage_logs rows; the id of a row is its index
    balance,   \* users.balance
    status,    \* users.status
    deleted,   \* users.deleted_at IS NOT NULL
    ledger,    \* billing_ledgers, per user in id order
    redeemed,  \* <<user, code>> redemptions
    outbox,    \* balance-low events, by idempotency key <<user, charged rows>>
    worker,    \* state of the run each charger is in
    admin,     \* state of the request each administrator is in
    adjusts,   \* adjustments started so far
    faults     \* faults so far

vars == <<usageLog, balance, status, deleted, ledger, redeemed, outbox,
          worker, admin, adjusts, faults>>

\* The tables of the billing stores, and everything else.
userVars == <<status, deleted>>
boundVars == <<adjusts, faults>>

Rows == DOMAIN usageLog

\* Mutant: the success filter of the pending query is dropped.
PendingAnyOutcome == {r \in Rows : ~usageLog[r].charged}

\* Rows ListPendingUsageCharges matches: successful and not yet charged.
Pending == {r \in Rows : usageLog[r].success /\ ~usageLog[r].charged}

Charged == {r \in Rows : usageLog[r].charged}

\* ORDER BY created_at, id LIMIT n over a set of row ids.
OldestFirst(S, n) == {r \in S : Cardinality({q \in S : q < r}) < n}

\* sumUsageCosts over a set of rows.
sumUsageCosts(S) == SumFunction([r \in S |-> usageLog[r].cost])

Idle == [pc |-> "idle", batch |-> 0, sel |-> {}, selected |-> 0,
         err |-> FALSE, res |-> <<>>, agg |-> <<>>]

NoRequest == [pc |-> "idle", user |-> 0, before |-> 0, after |-> 0]

\* Mutant: balance_before and balance_after are swapped.
EntrySwapped(type, rows, ref, before, after) ==
    [type |-> type, rows |-> rows, ref |-> ref, before |-> after, after |-> before]

Entry(type, rows, ref, before, after) ==
    [type |-> type, rows |-> rows, ref |-> ref, before |-> before, after |-> after]

Init ==
    /\ usageLog = <<>>
    /\ balance = [u \in Users |-> InitialBalance]
    /\ status = [u \in Users |-> "active"]
    /\ deleted = [u \in Users |-> FALSE]
    /\ ledger = [u \in Users |-> <<>>]
    /\ redeemed = {}
    /\ outbox = {}
    /\ worker = [c \in Chargers |-> Idle]
    /\ admin = [a \in Admins |-> NoRequest]
    /\ adjusts = 0
    /\ faults = 0

Fault == faults < MaxFaults /\ faults' = faults + 1

-----------------------------------------------------------------------------
\* The gateway appends one row per recorded attempt.  Requests already in
\* flight still record after their user was suspended or deleted.
RecordUsage(u, cost, success) ==
    /\ Len(usageLog) < MaxRows
    /\ usageLog' = Append(usageLog,
          [user |-> u, cost |-> cost, success |-> success, charged |-> FALSE])
    /\ UNCHANGED <<balance, userVars, ledger, redeemed, outbox, worker, admin, boundVars>>

-----------------------------------------------------------------------------
(* The balance_charger worker. *)

\* A tick of the worker: runCharges starts its first batch.
RunOnce(c) ==
    /\ worker[c].pc = "idle"
    /\ worker' = [worker EXCEPT ![c] = [Idle EXCEPT !.pc = "list"]]
    /\ UNCHANGED <<usageLog, balance, userVars, ledger, redeemed, outbox, admin, boundVars>>

ListPendingUsageCharges(c) ==
    /\ worker[c].pc = "list"
    /\ LET sel == OldestFirst(Pending, Limit) IN
         worker' = [worker EXCEPT ![c].pc = "charge", ![c].sel = sel,
                       ![c].selected = Cardinality(sel), ![c].err = FALSE, ![c].res = <<>>]
    /\ UNCHANGED <<usageLog, balance, userVars, ledger, redeemed, outbox, admin, boundVars>>

\* The query fails: ChargePendingUsage returns the error with nothing selected.
ListFails(c) ==
    /\ worker[c].pc = "list"
    /\ Fault
    /\ worker' = [worker EXCEPT ![c].pc = "charge", ![c].sel = {},
                     ![c].selected = 0, ![c].err = TRUE, ![c].res = <<>>]
    /\ UNCHANGED <<usageLog, balance, userVars, ledger, redeemed, outbox, admin, adjusts>>

\* The next group of the sorted selection: the rows of the lowest user id.
GroupUser(sel) == Min({usageLog[r].user : r \in sel})
GroupRows(sel) == {r \in sel : usageLog[r].user = GroupUser(sel)}

\* Mutant: the transaction does not ask again for charged_at IS NULL.
StillPendingUnchecked(ids) == ids

\* The group's rows ChargeUsage still finds uncharged in its transaction.
StillPending(ids) == ids \cap Pending

\* Every row of the group was charged by somebody else: an empty result.
ChargeFindsNothing(c) ==
    LET ids == GroupRows(worker[c].sel) IN
    /\ worker[c].pc = "charge" /\ worker[c].sel # {}
    /\ StillPending(ids) = {}
    /\ worker' = [worker EXCEPT ![c].sel = @ \ ids]
    /\ UNCHANGED <<usageLog, balance, userVars, ledger, redeemed, outbox, admin, boundVars>>

\* Mutant: the first failing group ends the whole batch.
ChargeRejectedStops(c) ==
    LET ids == GroupRows(worker[c].sel) IN
    /\ worker[c].pc = "charge" /\ worker[c].sel # {}
    /\ StillPending(ids) # {}
    /\ StillPending(ids) # ids \/ deleted[GroupUser(worker[c].sel)]
    /\ worker' = [worker EXCEPT ![c].sel = {}, ![c].err = TRUE]
    /\ UNCHANGED <<usageLog, balance, userVars, ledger, redeemed, outbox, admin, boundVars>>

\* Only part of the group is left, or the user is deleted: rollback and error.
ChargeRejected(c) ==
    LET ids == GroupRows(worker[c].sel) IN
    /\ worker[c].pc = "charge" /\ worker[c].sel # {}
    /\ StillPending(ids) # {}
    /\ StillPending(ids) # ids \/ deleted[GroupUser(worker[c].sel)]
    /\ worker' = [worker EXCEPT ![c].sel = @ \ ids, ![c].err = TRUE]
    /\ UNCHANGED <<usageLog, balance, userVars, ledger, redeemed, outbox, admin, boundVars>>

\* A serialization failure or a lost connection: rollback and error.
ChargeFails(c) ==
    /\ worker[c].pc = "charge" /\ worker[c].sel # {}
    /\ Fault
    /\ worker' = [worker EXCEPT ![c].sel = @ \ GroupRows(@), ![c].err = TRUE]
    /\ UNCHANGED <<usageLog, balance, userVars, ledger, redeemed, outbox, admin, adjusts>>

\* The transaction commits: balance, ledger entry and charged_at together.
ChargeUsage(c) ==
    LET u == GroupUser(worker[c].sel)
        ids == GroupRows(worker[c].sel)
        after == balance[u] - sumUsageCosts(ids)
    IN
    /\ worker[c].pc = "charge" /\ worker[c].sel # {}
    /\ StillPending(ids) = ids /\ ~deleted[u]
    /\ balance' = [balance EXCEPT ![u] = after]
    /\ ledger' = [ledger EXCEPT ![u] =
          Append(@, Entry("usage_charge", ids, 0, balance[u], after))]
    /\ usageLog' = [r \in Rows |->
          IF r \in ids THEN [usageLog[r] EXCEPT !.charged = TRUE] ELSE usageLog[r]]
    /\ worker' = [worker EXCEPT ![c].sel = @ \ ids,
          ![c].res = Append(@, [user |-> u, rows |-> ids, before |-> balance[u], after |-> after])]
    /\ UNCHANGED <<userVars, redeemed, outbox, admin, boundVars>>

\* ChargePendingUsage returns and runCharges decides: with an error it drops
\* the batch's results and goes on; without one it keeps them and stops when
\* the selection was short or nothing was charged.
EndBatch(c) ==
    LET w == worker[c]
        more == w.batch + 1 < MaxBatch
        stop == w.selected < Limit \/ w.res = <<>>
    IN
    /\ w.pc = "charge" /\ w.sel = {}
    /\ worker' = [worker EXCEPT ![c] =
          [w EXCEPT !.batch = @ + 1,
                    !.agg = IF w.err THEN @ ELSE @ \o w.res,
                    !.res = <<>>, !.err = FALSE, !.selected = 0,
                    !.pc = IF more /\ (w.err \/ ~stop) THEN "list" ELSE "suspend"]]
    /\ UNCHANGED <<usageLog, balance, userVars, ledger, redeemed, outbox, admin, boundVars>>

\* handleDisabledUsers: SetStatus(disabled) for every kept result that went
\* below zero; SetStatus may fail (logged and skipped) for the users in skip.
handleDisabledUsers(c, skip) ==
    /\ worker[c].pc = "suspend"
    /\ IF skip = {} THEN UNCHANGED faults ELSE Fault
    /\ status' = [u \in Users |->
          IF /\ \E i \in DOMAIN worker[c].agg :
                   worker[c].agg[i].user = u /\ worker[c].agg[i].after < 0
             /\ ~deleted[u] /\ u \notin skip
          THEN "disabled" ELSE status[u]]
    /\ worker' = [worker EXCEPT ![c].pc = "notify"]
    /\ UNCHANGED <<usageLog, balance, deleted, ledger, redeemed, outbox, admin, adjusts>>

crossedBalanceThreshold(res) == res.before >= LowThreshold /\ res.after < LowThreshold

\* enqueueBalanceLowNotifications over the kept results in order; the first
\* failing Enqueue (after n results) ends the loop.
enqueueBalanceLowNotifications(c, n) ==
    LET agg == worker[c].agg IN
    /\ worker[c].pc = "notify"
    /\ n \in 0..Len(agg)
    /\ IF n = Len(agg) THEN UNCHANGED faults ELSE Fault
    /\ outbox' = outbox \cup
          {<<agg[i].user, agg[i].rows>> : i \in {j \in 1..n :
              /\ crossedBalanceThreshold(agg[j])
              /\ ~deleted[agg[j].user] /\ status[agg[j].user] = "active"}}
    /\ worker' = [worker EXCEPT ![c] = Idle]
    /\ UNCHANGED <<usageLog, balance, userVars, ledger, redeemed, admin, adjusts>>

\* The process dies between two statements; committed transactions stay.
Crash(c) ==
    /\ worker[c].pc # "idle"
    /\ Fault
    /\ worker' = [worker EXCEPT ![c] = Idle]
    /\ UNCHANGED <<usageLog, balance, userVars, ledger, redeemed, outbox, admin, adjusts>>

-----------------------------------------------------------------------------
(* The other writers of users.balance. *)

Redemptions(k) == {p \in redeemed : p[2] = k}

\* RedeemCode with a balance code, one SERIALIZABLE transaction; a second
\* redemption by the same user returns the first and changes nothing.
RedeemCode(u, k) ==
    /\ <<u, k>> \notin redeemed
    /\ Cardinality(Redemptions(k)) < MaxRedemptions
    /\ ~deleted[u] /\ status[u] = "active"
    /\ balance' = [balance EXCEPT ![u] = @ + CodeValue]
    /\ ledger' = [ledger EXCEPT ![u] = Append(@,
          Entry("redeem_code_credit", {}, k, balance[u], balance[u] + CodeValue))]
    /\ redeemed' = redeemed \cup {<<u, k>>}
    /\ UNCHANGED <<usageLog, userVars, outbox, worker, admin, boundVars>>

\* An administrator's PATCH of a balance: the handler first reads the user
\* for the ledger entry's balance_before ...
AdminStart(a, u) ==
    /\ admin[a].pc = "idle" /\ adjusts < MaxAdjusts /\ ~deleted[u]
    /\ adjusts' = adjusts + 1
    /\ admin' = [admin EXCEPT ![a] = [pc |-> "read", user |-> u,
                                      before |-> balance[u], after |-> 0]]
    /\ UNCHANGED <<usageLog, balance, userVars, ledger, redeemed, outbox, worker, faults>>

\* Mutant: a negative result is not refused.
AdminReadUnchecked(a) ==
    LET u == admin[a].user IN
    /\ admin[a].pc = "read"
    /\ \E amount \in AdminAmounts :
         \E new \in {amount, balance[u] + amount, balance[u] - amount} :
           admin' = [admin EXCEPT ![a] =
              IF deleted[u] THEN NoRequest ELSE [admin[a] EXCEPT !.pc = "write", !.after = new]]
    /\ UNCHANGED <<usageLog, balance, userVars, ledger, redeemed, outbox, worker, boundVars>>

\* ... then UpdateBalance reads it again and computes the new balance (set,
\* increment or decrement), refusing a negative one; sessions are requests to
\* different replicas, so the in-process per-user mutex does not order them ...
AdminRead(a) ==
    LET u == admin[a].user IN
    /\ admin[a].pc = "read"
    /\ \E amount \in AdminAmounts :
         \E new \in {amount, balance[u] + amount, balance[u] - amount} :
           admin' = [admin EXCEPT ![a] =
              IF deleted[u] \/ new < 0 THEN NoRequest
              ELSE [admin[a] EXCEPT !.pc = "write", !.after = new]]
    /\ UNCHANGED <<usageLog, balance, userVars, ledger, redeemed, outbox, worker, boundVars>>

\* ... writes it as an absolute value ...
AdminWrite(a) ==
    LET u == admin[a].user IN
    /\ admin[a].pc = "write"
    /\ balance' = IF deleted[u] THEN balance ELSE [balance EXCEPT ![u] = admin[a].after]
    /\ admin' = [admin EXCEPT ![a] =
          IF deleted[u] THEN NoRequest ELSE [admin[a] EXCEPT !.pc = "ledger"]]
    /\ UNCHANGED <<usageLog, userVars, ledger, redeemed, outbox, worker, boundVars>>

\* ... and records the ledger entry in a statement of its own ...
AdminRecord(a) ==
    LET u == admin[a].user IN
    /\ admin[a].pc = "ledger"
    /\ ledger' = [ledger EXCEPT ![u] = Append(@,
          Entry("adjustment", {}, 0, admin[a].before, admin[a].after))]
    /\ admin' = [admin EXCEPT ![a] = NoRequest]
    /\ UNCHANGED <<usageLog, balance, userVars, redeemed, outbox, worker, boundVars>>

\* ... which may fail: the handler answers with a warning.
AdminRecordFails(a) ==
    /\ admin[a].pc = "ledger"
    /\ Fault
    /\ admin' = [admin EXCEPT ![a] = NoRequest]
    /\ UNCHANGED <<usageLog, balance, userVars, ledger, redeemed, outbox, worker, adjusts>>

\* users.Delete disables and soft-deletes the user; its usage rows stay.
DeleteUser(u) ==
    /\ u \in Deletable /\ ~deleted[u]
    /\ deleted' = [deleted EXCEPT ![u] = TRUE]
    /\ status' = [status EXCEPT ![u] = "disabled"]
    /\ UNCHANGED <<usageLog, balance, ledger, redeemed, outbox, worker, admin, boundVars>>

-----------------------------------------------------------------------------
\* The steps of a charger that nothing has to go wrong for.
ChargerStep(c) ==
    \/ RunOnce(c) \/ ListPendingUsageCharges(c)
    \/ ChargeFindsNothing(c) \/ ChargeRejected(c) \/ ChargeUsage(c)
    \/ EndBatch(c) \/ handleDisabledUsers(c, {})
    \/ enqueueBalanceLowNotifications(c, Len(worker[c].agg))

ChargerFault(c) ==
    \/ ListFails(c) \/ ChargeFails(c) \/ Crash(c)
    \/ \E u \in Users : handleDisabledUsers(c, {u})
    \/ \E n \in 0..(Len(worker[c].agg) - 1) : enqueueBalanceLowNotifications(c, n)

AdminStep(a) ==
    \/ \E u \in Users : AdminStart(a, u)
    \/ AdminRead(a) \/ AdminWrite(a) \/ AdminRecord(a) \/ AdminRecordFails(a)

Next ==
    \/ \E u \in Users, cost \in Costs, success \in BOOLEAN : RecordUsage(u, cost, success)
    \/ \E c \in Chargers : ChargerStep(c) \/ ChargerFault(c)
    \/ \E u \in Users, k \in Codes : RedeemCode(u, k)
    \/ \E a \in Admins : AdminStep(a)
    \/ \E u \in Users : DeleteUser(u)

Spec == Init /\ [][Next]_vars

\* The ticker of the worker fires for ever and a step that can run does run.
FairSpec == Spec /\ \A c \in Chargers : WF_vars(ChargerStep(c))

-----------------------------------------------------------------------------
(* Properties. *)

UsageRow == [user : Users, cost : Costs, success : BOOLEAN, charged : BOOLEAN]
LedgerEntry == [type : {"usage_charge", "redeem_code_credit", "adjustment"},
                rows : SUBSET Nat, ref : Codes \cup {0}, before : Int, after : Int]
Result == [user : Users, rows : SUBSET Nat, before : Int, after : Int]
WorkerState == [pc : {"idle", "list", "charge", "suspend", "notify"}, batch : Nat,
                sel : SUBSET Nat, selected : Nat, err : BOOLEAN,
                res : Seq(Result), agg : Seq(Result)]
AdminState == [pc : {"idle", "read", "write", "ledger"}, user : Users \cup {0},
               before : Int, after : Int]

\* Every table and every process keeps the shape the stores give it, and a
\* charger only ever works on rows that exist.
TypeOK ==
    /\ usageLog \in Seq(UsageRow)
    /\ balance \in [Users -> Int]
    /\ status \in [Users -> {"active", "disabled"}]
    /\ deleted \in [Users -> BOOLEAN]
    /\ ledger \in [Users -> Seq(LedgerEntry)]
    /\ redeemed \subseteq Users \X Codes
    /\ outbox \subseteq Users \X SUBSET Nat
    /\ worker \in [Chargers -> WorkerState]
    /\ \A c \in Chargers : worker[c].sel \subseteq Rows
    /\ admin \in [Admins -> AdminState]
    /\ adjusts \in Nat /\ faults \in Nat

\* No usage row is charged twice: whatever the chargers' overlapping
\* selections, retries and crashes, the row sets of two different ledger
\* entries, of the same user or of two users, are disjoint (ChargeUsage).
NoDoubleCharge ==
    \A u, v \in Users : \A i \in DOMAIN ledger[u], j \in DOMAIN ledger[v] :
        ledger[u][i].rows \cap ledger[v][j].rows # {} => u = v /\ i = j

\* charged_at and the ledger agree: a row is marked charged exactly when a
\* ledger entry of its own user names it, and only successful rows ever are.
ChargedIffBilled ==
    /\ \A r \in Rows : usageLog[r].charged =>
          /\ usageLog[r].success
          /\ \E i \in DOMAIN ledger[usageLog[r].user] : r \in ledger[usageLog[r].user][i].rows
    /\ \A u \in Users : \A i \in DOMAIN ledger[u] : \A r \in ledger[u][i].rows :
          r \in Rows /\ usageLog[r].charged /\ usageLog[r].user = u

\* The ledger of a user is a chain that ends in the balance: every entry
\* starts from the balance the previous one left, the first from the initial
\* balance, and users.balance is what the last one left.
LedgerChain ==
    \A u \in Users : LET l == ledger[u] IN
        /\ l = <<>> => balance[u] = InitialBalance
        /\ l # <<>> => l[1].before = InitialBalance /\ balance[u] = l[Len(l)].after
        /\ \A i \in 1..(Len(l) - 1) : l[i + 1].before = l[i].after

\* The ledger of every user is such a chain again once no administrator's
\* request is under way: a balance update and its ledger entry belong together.
LedgerChainAtRest == (\A a \in Admins : admin[a].pc = "idle") => LedgerChain

\* Money is conserved: a balance is the initial one, plus the redeemed codes,
\* minus the cost of exactly the user's charged rows; and no code is redeemed
\* more often than it admits.
BalanceExplained ==
    /\ \A u \in Users : balance[u] =
          InitialBalance + CodeValue * Cardinality({p \in redeemed : p[1] = u})
                         - sumUsageCosts({r \in Charged : usageLog[r].user = u})
    /\ \A k \in Codes : Cardinality({p \in redeemed : p[2] = k}) <= MaxRedemptions

\* Usage a user owes for: the successful rows.
IncurredView ==
    [r \in {q \in Rows : usageLog[q].success} |->
        [user |-> usageLog[r].user, cost |-> usageLog[r].cost]]

Settlement == INSTANCE UsageSettlement WITH
    incurred <- IncurredView, settled <- Charged, Adjustable <- (Admins # {})

\* Charging implements the abstract settlement of usage: every step of the
\* chargers, of the redeem codes and of the administrators is a settlement of
\* unsettled usage at its exact cost, a credit, an adjustment, or invisible.
ImplementsSettlement == Settlement!Spec

\* Pending rows of deleted users stay so for ever; Limit of them, older than r,
\* fill every selection before r is reached.
Undeliverable == {q \in Pending : deleted[usageLog[q].user]}
Clogged(r) == Cardinality({q \in Undeliverable : q < r}) >= Limit

\* Every successful row is charged at last, however the chargers' selections,
\* errors and crashes interleave, unless its user is deleted first or the rows
\* of deleted users clog the listing: fewer than Limit of them, which fail in
\* every batch (ChargeRejected), hold nobody up.
EventuallyCharged ==
    \A r \in 1..MaxRows :
        r \in Pending ~> (r \in Charged \/ r \in Undeliverable \/ Clogged(r))

\* A user whose balance went below zero ends up suspended, unless the balance
\* recovers or the user is deleted (handleDisabledUsers).
OverdrawnSuspended ==
    \A u \in Users : (balance[u] < 0 /\ ~deleted[u])
        ~> (status[u] = "disabled" \/ balance[u] >= 0 \/ deleted[u])
=============================================================================
