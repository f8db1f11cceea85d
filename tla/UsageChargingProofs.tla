------------------------ MODULE UsageChargingProofs ------------------------
(***************************************************************************)
(* Proofs about UsageCharging, for any users, costs, batch limits and      *)
(* numbers of chargers, rows, codes, faults and crashes.                   *)
(***************************************************************************)
EXTENDS UsageCharging, FiniteSums

\* The tables the argument is about have their shape.
TableShape ==
    /\ usageLog \in Seq(UsageRow)
    /\ ledger = [u \in Users |-> ledger[u]]
    /\ \A u \in Users : \E S : ledger[u] \in Seq(S)

BillingInv == TableShape /\ ChargedIffBilled /\ NoDoubleCharge

\* What marking the rows R as charged does to usage_logs.
Marks(R) ==
    /\ usageLog' \in Seq(UsageRow)
    /\ Rows' = Rows
    /\ \A r \in Rows : /\ usageLog'[r].user = usageLog[r].user
                       /\ usageLog'[r].cost = usageLog[r].cost
                       /\ usageLog'[r].success = usageLog[r].success
                       /\ usageLog'[r].charged <=> (usageLog[r].charged \/ r \in R)

LEMMA RowTypes ==
  ASSUME TableShape
  PROVE  /\ Rows = 1..Len(usageLog) /\ Len(usageLog) \in Nat
         /\ \A r \in Rows : usageLog[r] \in UsageRow /\ usageLog[r].user \in Users
<1>1. Rows = 1..Len(usageLog) /\ Len(usageLog) \in Nat /\ \A r \in Rows : usageLog[r] \in UsageRow
  BY DEF TableShape, Rows
<1> QED
  BY <1>1 DEF UsageRow

LEMMA AppendFacts ==
  ASSUME NEW S, NEW s \in Seq(S), NEW e
  PROVE  /\ Append(s, e) \in Seq(S \cup {e})
         /\ Len(s) \in Nat /\ DOMAIN s = 1..Len(s)
         /\ Len(Append(s, e)) = Len(s) + 1
         /\ DOMAIN Append(s, e) = 1..(Len(s) + 1)
         /\ \A i \in 1..Len(s) : Append(s, e)[i] = s[i]
         /\ Append(s, e)[Len(s) + 1] = e
<1>1. s \in Seq(S \cup {e}) /\ e \in S \cup {e}
  OBVIOUS
<1> QED
  BY <1>1

\* One entry more in the ledger of one user.
LEMMA LedgerAppend ==
  ASSUME TableShape, NEW u \in Users, NEW e,
         ledger' = [ledger EXCEPT ![u] = Append(@, e)], usageLog' \in Seq(UsageRow)
  PROVE  /\ TableShape'
         /\ \A v \in Users \ {u} : ledger'[v] = ledger[v]
         /\ Len(ledger[u]) \in Nat /\ Len(ledger'[u]) = Len(ledger[u]) + 1
         /\ DOMAIN ledger[u] = 1..Len(ledger[u])
         /\ DOMAIN ledger'[u] = 1..(Len(ledger[u]) + 1)
         /\ \A i \in 1..Len(ledger[u]) : ledger'[u][i] = ledger[u][i]
         /\ ledger'[u][Len(ledger[u]) + 1] = e
<1>1. PICK S : ledger[u] \in Seq(S)
  BY DEF TableShape
<1>2. ledger'[u] = Append(ledger[u], e) /\ \A v \in Users \ {u} : ledger'[v] = ledger[v]
  BY DEF TableShape
<1>3. ledger' = [v \in Users |-> ledger'[v]]
  BY DEF TableShape
<1>4. \A v \in Users : \E T : ledger'[v] \in Seq(T)
  <2> TAKE v \in Users
  <2>1. CASE v = u
    <3>1. ledger'[v] \in Seq(S \cup {e})
      BY <2>1, <1>1, <1>2, AppendFacts
    <3> QED
      BY <3>1
  <2>2. CASE v # u
    BY <2>2, <1>2 DEF TableShape
  <2> QED
    BY <2>1, <2>2
<1>5. TableShape'
  BY <1>3, <1>4 DEF TableShape
<1> QED
  BY <1>1, <1>2, <1>5, AppendFacts

\* Billing rows that were pending, and marking exactly them, keeps ledger and
\* usage_logs in step; R is empty for the entries that bill no usage.
LEMMA BillingKeeps ==
  ASSUME BillingInv, NEW u \in Users, NEW e, NEW R,
         e.rows = R, R \subseteq Pending, \A r \in R : usageLog[r].user = u,
         ledger' = [ledger EXCEPT ![u] = Append(@, e)], Marks(R)
  PROVE  BillingInv'
<1> DEFINE n == Len(ledger[u]) + 1
<1>1. /\ TableShape'
      /\ \A v \in Users \ {u} : ledger'[v] = ledger[v]
      /\ Len(ledger[u]) \in Nat
      /\ DOMAIN ledger[u] = 1..Len(ledger[u])
      /\ DOMAIN ledger'[u] = 1..n
      /\ \A i \in 1..Len(ledger[u]) : ledger'[u][i] = ledger[u][i]
      /\ ledger'[u][n] = e
  BY LedgerAppend DEF BillingInv, Marks
<1>2. \A v \in Users : \A i \in DOMAIN ledger'[v] :
         \/ i \in DOMAIN ledger[v] /\ ledger'[v][i] = ledger[v][i]
         \/ v = u /\ i = n /\ ledger'[v][i] = e
  BY <1>1
<1>3. \A v \in Users : \A i \in DOMAIN ledger[v] :
         i \in DOMAIN ledger'[v] /\ ledger'[v][i] = ledger[v][i]
  BY <1>1
<1>4. n \in DOMAIN ledger'[u] /\ ledger'[u][n] = e
  BY <1>1
<1> HIDE DEF n
<1>5. \A v \in Users : \A i \in DOMAIN ledger[v] : ledger[v][i].rows \cap R = {}
  BY DEF BillingInv, ChargedIffBilled, Pending
<1>6. ChargedIffBilled'
  <2>1. ASSUME NEW r \in Rows', usageLog'[r].charged
        PROVE  /\ usageLog'[r].success
               /\ \E i \in DOMAIN ledger'[usageLog'[r].user] : r \in ledger'[usageLog'[r].user][i].rows
    <3>1. r \in Rows /\ usageLog[r].user \in Users /\ usageLog'[r].user = usageLog[r].user
          /\ usageLog'[r].success = usageLog[r].success
      BY <2>1, RowTypes DEF Marks, BillingInv
    <3>2. CASE usageLog[r].charged
      BY <3>1, <3>2, <1>3 DEF BillingInv, ChargedIffBilled
    <3>3. CASE r \in R
      BY <3>1, <3>3, <1>4 DEF Pending
    <3> QED
      BY <2>1, <3>1, <3>2, <3>3 DEF Marks
  <2>2. ASSUME NEW v \in Users, NEW i \in DOMAIN ledger'[v], NEW r \in ledger'[v][i].rows
        PROVE  r \in Rows' /\ usageLog'[r].charged /\ usageLog'[r].user = v
    <3>1. CASE i \in DOMAIN ledger[v] /\ ledger'[v][i] = ledger[v][i]
      BY <2>2, <3>1 DEF BillingInv, ChargedIffBilled, Marks
    <3>2. CASE v = u /\ ledger'[v][i] = e
      BY <2>2, <3>2 DEF Pending, Marks
    <3> QED
      BY <1>2, <3>1, <3>2
  <2> QED
    BY <2>1, <2>2 DEF ChargedIffBilled
<1>7. NoDoubleCharge'
  <2> SUFFICES ASSUME NEW v \in Users, NEW w \in Users,
                      NEW i \in DOMAIN ledger'[v], NEW j \in DOMAIN ledger'[w],
                      ledger'[v][i].rows \cap ledger'[w][j].rows # {}
               PROVE  v = w /\ i = j
    BY DEF NoDoubleCharge
  <2>1. CASE /\ i \in DOMAIN ledger[v] /\ ledger'[v][i] = ledger[v][i]
             /\ j \in DOMAIN ledger[w] /\ ledger'[w][j] = ledger[w][j]
    BY <2>1 DEF BillingInv, NoDoubleCharge
  <2>2. CASE /\ i \in DOMAIN ledger[v] /\ ledger'[v][i] = ledger[v][i]
             /\ ledger'[w][j] = e
    BY <2>2, <1>5
  <2>3. CASE /\ j \in DOMAIN ledger[w] /\ ledger'[w][j] = ledger[w][j]
             /\ ledger'[v][i] = e
    BY <2>3, <1>5
  <2>4. CASE v = u /\ i = n /\ w = u /\ j = n
    BY <2>4
  <2> QED
    BY <1>2, <2>1, <2>2, <2>3, <2>4
<1> QED
  BY <1>1, <1>6, <1>7 DEF BillingInv

\* Nothing billed and nothing marked.
LEMMA UnbilledKeeps ==
  ASSUME BillingInv, ledger' = ledger, Marks({})
  PROVE  BillingInv'
<1>1. TableShape'
  BY DEF BillingInv, TableShape, Marks
<1>2. NoDoubleCharge'
  BY DEF BillingInv, NoDoubleCharge
<1>3. \A r \in Rows : usageLog'[r].charged <=> usageLog[r].charged
  BY DEF Marks
<1>4. ChargedIffBilled'
  BY <1>3 DEF BillingInv, ChargedIffBilled, Marks
<1> QED
  BY <1>1, <1>2, <1>4 DEF BillingInv

LEMMA UnchangedMarks ==
  ASSUME TableShape, usageLog' = usageLog
  PROVE  Marks({})
  BY DEF Marks, TableShape, Rows

LEMMA BillingInvInit == Init => BillingInv
<1> SUFFICES ASSUME Init PROVE BillingInv
  OBVIOUS
<1>1. usageLog = <<>> /\ ledger = [u \in Users |-> <<>>]
  BY DEF Init
<1>2. \A u \in Users : ledger[u] = <<>> /\ ledger[u] \in Seq({})
  BY <1>1
<1> QED
  BY <1>1, <1>2 DEF BillingInv, TableShape, ChargedIffBilled, NoDoubleCharge, Rows

\* The gateway's new row is uncharged, and the other rows stay as they are.
LEMMA RowRecorded ==
  ASSUME BillingInv, NEW u \in Users, NEW cost \in Costs, NEW success \in BOOLEAN,
         RecordUsage(u, cost, success)
  PROVE  /\ usageLog' \in Seq(UsageRow)
         /\ Rows \subseteq Rows' /\ \A r \in Rows : usageLog'[r] = usageLog[r]
         /\ \A r \in Rows' \ Rows : usageLog'[r].charged = FALSE
<1> DEFINE row == [user |-> u, cost |-> cost, success |-> success, charged |-> FALSE]
<1>1. usageLog' = Append(usageLog, row)
  BY DEF RecordUsage
<1>2. row \in UsageRow /\ row.charged = FALSE
  BY DEF UsageRow
<1> HIDE DEF row
<1>3. /\ usageLog' \in Seq(UsageRow)
      /\ Rows = 1..Len(usageLog) /\ Rows' = 1..(Len(usageLog) + 1)
      /\ Len(usageLog) \in Nat
      /\ \A r \in Rows : usageLog'[r] = usageLog[r]
      /\ usageLog'[Len(usageLog) + 1] = row
  BY <1>1, <1>2 DEF BillingInv, TableShape, Rows
<1>4. \A r \in Rows' \ Rows : r = Len(usageLog) + 1
  BY <1>3
<1> QED
  BY <1>2, <1>3, <1>4

LEMMA RecordKeeps ==
  ASSUME BillingInv, NEW u \in Users, NEW cost \in Costs, NEW success \in BOOLEAN,
         RecordUsage(u, cost, success)
  PROVE  BillingInv'
<1>1. ledger' = ledger
  BY DEF RecordUsage
<1>3. /\ usageLog' \in Seq(UsageRow)
      /\ Rows \subseteq Rows' /\ \A r \in Rows : usageLog'[r] = usageLog[r]
      /\ \A r \in Rows' \ Rows : usageLog'[r].charged = FALSE
  BY RowRecorded
<1>4. \A r \in Rows' : usageLog'[r].charged => r \in Rows /\ usageLog'[r] = usageLog[r]
  BY <1>3
<1>5. ChargedIffBilled'
  <2>1. ASSUME NEW r \in Rows', usageLog'[r].charged
        PROVE  /\ usageLog'[r].success
               /\ \E i \in DOMAIN ledger'[usageLog'[r].user] : r \in ledger'[usageLog'[r].user][i].rows
    <3>1. r \in Rows /\ usageLog'[r] = usageLog[r]
      BY <2>1, <1>4
    <3> QED
      BY <2>1, <3>1, <1>1, Zenon DEF BillingInv, ChargedIffBilled
  <2>2. ASSUME NEW v \in Users, NEW i \in DOMAIN ledger'[v], NEW r \in ledger'[v][i].rows
        PROVE  r \in Rows' /\ usageLog'[r].charged /\ usageLog'[r].user = v
    <3>1. r \in Rows /\ usageLog[r].charged /\ usageLog[r].user = v
      BY <2>2, <1>1, Zenon DEF BillingInv, ChargedIffBilled
    <3> QED
      BY <3>1, <1>3
  <2> QED
    BY <2>1, <2>2 DEF ChargedIffBilled
<1>6. TableShape' /\ NoDoubleCharge'
  BY <1>1, <1>3 DEF BillingInv, TableShape, NoDoubleCharge
<1> QED
  BY <1>5, <1>6 DEF BillingInv

\* ChargeUsage marks rows its own transaction found pending, of one user.
LEMMA ChargeMarks ==
  ASSUME BillingInv, NEW c \in Chargers, ChargeUsage(c),
         NEW u, u = GroupUser(worker[c].sel), NEW ids, ids = GroupRows(worker[c].sel)
  PROVE  ids \subseteq Pending /\ (\A r \in ids : usageLog[r].user = u) /\ Marks(ids)
<1>1. /\ StillPending(ids) = ids
      /\ usageLog' = [r \in Rows |->
            IF r \in ids THEN [usageLog[r] EXCEPT !.charged = TRUE] ELSE usageLog[r]]
  BY DEF ChargeUsage
<1>2. \A r \in ids : usageLog[r].user = u
  BY DEF GroupRows
<1>3. ids \subseteq Pending
  BY <1>1 DEF StillPending, Pending
<1>4. Rows = 1..Len(usageLog) /\ Len(usageLog) \in Nat /\ \A r \in Rows : usageLog[r] \in UsageRow
  BY RowTypes DEF BillingInv
<1>5. Rows' = Rows
  BY <1>1 DEF Rows
<1>6. \A r \in Rows : usageLog'[r] =
          IF r \in ids THEN [usageLog[r] EXCEPT !.charged = TRUE] ELSE usageLog[r]
  BY <1>1
<1>7. \A r \in Rows : usageLog'[r] \in UsageRow
  BY <1>4, <1>6 DEF UsageRow
<1>8. usageLog' \in Seq(UsageRow)
  BY <1>1, <1>4, <1>6, <1>7
<1>9. \A r \in Rows : /\ usageLog'[r].user = usageLog[r].user
                      /\ usageLog'[r].cost = usageLog[r].cost
                      /\ usageLog'[r].success = usageLog[r].success
                      /\ usageLog'[r].charged <=> (usageLog[r].charged \/ r \in ids)
  BY <1>4, <1>6, Zenon DEF UsageRow
<1> QED
  BY <1>2, <1>3, <1>5, <1>8, <1>9 DEF Marks

LEMMA ChargesNothing ==
  ASSUME BillingInv, NEW c \in Chargers, ChargeUsage(c), GroupRows(worker[c].sel) = {}
  PROVE  usageLog' = usageLog
<1>1. usageLog' = [r \in Rows |-> usageLog[r]]
  BY DEF ChargeUsage
<1> QED
  BY <1>1 DEF BillingInv, TableShape, Rows

LEMMA ChargeKeeps ==
  ASSUME BillingInv, NEW c \in Chargers, ChargeUsage(c)
  PROVE  BillingInv'
<1> DEFINE u == GroupUser(worker[c].sel)
           ids == GroupRows(worker[c].sel)
           after == balance[u] - sumUsageCosts(ids)
           e == Entry("usage_charge", ids, 0, balance[u], after)
<1>1. ledger' = [ledger EXCEPT ![u] = Append(@, e)]
  BY DEF ChargeUsage
<1>2. ids \subseteq Pending /\ (\A r \in ids : usageLog[r].user = u) /\ Marks(ids)
  BY ChargeMarks
<1>3. e.rows = ids
  BY DEF Entry
<1> HIDE DEF u, ids, after, e
<1>4. CASE u \in Users
  BY <1>1, <1>2, <1>3, <1>4, BillingKeeps
<1>5. CASE u \notin Users
  <2>1. ids = {}
    BY <1>2, <1>5, RowTypes DEF BillingInv, Pending
  <2>2. ledger' = ledger
    BY <1>1, <1>5 DEF BillingInv, TableShape
  <2> QED
    BY <2>1, <2>2, <1>2, UnbilledKeeps
<1> QED
  BY <1>4, <1>5

LEMMA RedeemKeeps ==
  ASSUME BillingInv, NEW u \in Users, NEW k \in Codes, RedeemCode(u, k)
  PROVE  BillingInv'
<1> DEFINE e == Entry("redeem_code_credit", {}, k, balance[u], balance[u] + CodeValue)
<1>1. ledger' = [ledger EXCEPT ![u] = Append(@, e)] /\ usageLog' = usageLog
  BY DEF RedeemCode
<1>2. e.rows = {}
  BY DEF Entry
<1> HIDE DEF e
<1>3. Marks({})
  BY <1>1, UnchangedMarks DEF BillingInv
<1> QED
  BY <1>1, <1>2, <1>3, BillingKeeps

LEMMA AdminRecordKeeps ==
  ASSUME BillingInv, NEW a \in Admins, AdminRecord(a)
  PROVE  BillingInv'
<1> DEFINE u == admin[a].user
           e == Entry("adjustment", {}, 0, admin[a].before, admin[a].after)
<1>1. ledger' = [ledger EXCEPT ![u] = Append(@, e)] /\ usageLog' = usageLog
  BY DEF AdminRecord
<1>2. e.rows = {}
  BY DEF Entry
<1> HIDE DEF e, u
<1>3. Marks({})
  BY <1>1, UnchangedMarks DEF BillingInv
<1>4. CASE u \in Users
  BY <1>1, <1>2, <1>3, <1>4, BillingKeeps
<1>5. CASE u \notin Users
  <2>1. ledger' = ledger
    BY <1>1, <1>5 DEF BillingInv, TableShape
  <2> QED
    BY <2>1, <1>3, UnbilledKeeps
<1> QED
  BY <1>4, <1>5

\* Every step of the specification preserves the invariant.
LEMMA BillingInvNext == BillingInv /\ [Next]_vars => BillingInv'
<1> SUFFICES ASSUME BillingInv, [Next]_vars PROVE BillingInv'
  OBVIOUS
<1>1. ASSUME UNCHANGED <<usageLog, ledger>> PROVE BillingInv'
  BY <1>1, UnchangedMarks, UnbilledKeeps DEF BillingInv
<1>2. ASSUME NEW c \in Chargers, ChargerStep(c) PROVE BillingInv'
  BY <1>1, <1>2, ChargeKeeps
  DEF ChargerStep, RunOnce, ListPendingUsageCharges, ChargeFindsNothing, ChargeRejected,
      EndBatch, handleDisabledUsers, enqueueBalanceLowNotifications
<1>3. ASSUME NEW c \in Chargers, ChargerFault(c) PROVE BillingInv'
  BY <1>1, <1>3
  DEF ChargerFault, ListFails, ChargeFails, Crash, handleDisabledUsers, enqueueBalanceLowNotifications
<1>4. ASSUME NEW a \in Admins, AdminStep(a) PROVE BillingInv'
  BY <1>1, <1>4, AdminRecordKeeps
  DEF AdminStep, AdminStart, AdminRead, AdminWrite, AdminRecordFails
<1>5. ASSUME NEW u \in Users, DeleteUser(u) PROVE BillingInv'
  BY <1>1, <1>5 DEF DeleteUser
<1>6. CASE UNCHANGED vars
  BY <1>1, <1>6 DEF vars
<1> QED
  BY <1>2, <1>3, <1>4, <1>5, <1>6, RecordKeeps, RedeemKeeps DEF Next

\* A usage row is charged at most once: whatever overlapping selections,
\* retries, rollbacks and crashes the balance_charger workers go through, no
\* two ledger entries ever share a row.
THEOREM ChargedAtMostOnce == Spec => []NoDoubleCharge
<1>1. BillingInv => NoDoubleCharge
  BY DEF BillingInv
<1> QED
  BY BillingInvInit, BillingInvNext, <1>1, PTL DEF Spec

\* usage_logs.charged_at and the ledger never disagree: a row is marked
\* exactly when an entry of its own user bills it, and only when it succeeded.
THEOREM MarkedExactlyWhenBilled == Spec => []ChargedIffBilled
<1>1. BillingInv => ChargedIffBilled
  BY DEF BillingInv
<1> QED
  BY BillingInvInit, BillingInvNext, <1>1, PTL DEF Spec

-----------------------------------------------------------------------------
(* The ledger is a chain that ends in the balance. *)

ChainInv == TableShape /\ balance = [u \in Users |-> balance[u]] /\ LedgerChain

\* An entry from the current balance to the new one prolongs the chain.
LEMMA ChainKeeps ==
  ASSUME ChainInv, NEW u \in Users, NEW e, NEW b,
         e.before = balance[u], e.after = b,
         ledger' = [ledger EXCEPT ![u] = Append(@, e)],
         balance' = [balance EXCEPT ![u] = b], usageLog' \in Seq(UsageRow)
  PROVE  ChainInv'
<1> DEFINE n == Len(ledger[u]) + 1
<1>1. /\ TableShape'
      /\ \A v \in Users \ {u} : ledger'[v] = ledger[v]
      /\ Len(ledger[u]) \in Nat /\ Len(ledger'[u]) = n
      /\ \A i \in 1..Len(ledger[u]) : ledger'[u][i] = ledger[u][i]
      /\ ledger'[u][n] = e
  BY LedgerAppend DEF ChainInv
<1>2. /\ balance' = [v \in Users |-> balance'[v]] /\ balance'[u] = b
      /\ \A v \in Users \ {u} : balance'[v] = balance[v]
  BY DEF ChainInv
<1>3. PICK S : ledger[u] \in Seq(S)
  BY DEF ChainInv, TableShape
<1>4. ledger[u] = <<>> <=> Len(ledger[u]) = 0
  BY <1>3
<1>5. ledger'[u] # <<>>
  <2>1. Len(ledger'[u]) # 0
    BY <1>1
  <2>2. Len(<<>>) = 0
    OBVIOUS
  <2> QED
    BY <2>1, <2>2, Zenon
<1>6. ledger'[u][1].before = InitialBalance
  <2>1. CASE Len(ledger[u]) = 0
    BY <2>1, <1>1, <1>4 DEF ChainInv, LedgerChain
  <2>2. CASE Len(ledger[u]) # 0
    <3>1. 1 \in 1..Len(ledger[u]) /\ ledger[u] # <<>>
      BY <2>2, <1>1, <1>4
    <3> QED
      BY <3>1, <1>1 DEF ChainInv, LedgerChain
  <2> QED
    BY <2>1, <2>2
<1>7. \A i \in 1..(n - 1) : ledger'[u][i + 1].before = ledger'[u][i].after
  <2> TAKE i \in 1..(n - 1)
  <2>1. CASE i < Len(ledger[u])
    <3>1. i \in 1..(Len(ledger[u]) - 1) /\ i \in 1..Len(ledger[u]) /\ i + 1 \in 1..Len(ledger[u])
      BY <2>1, <1>1
    <3> QED
      BY <3>1, <1>1 DEF ChainInv, LedgerChain
  <2>2. CASE i = Len(ledger[u])
    <3>1. i \in 1..Len(ledger[u]) /\ i + 1 = n /\ ledger[u] # <<>>
      BY <2>2, <1>1, <1>4
    <3>2. balance[u] = ledger[u][i].after
      BY <3>1, <2>2 DEF ChainInv, LedgerChain
    <3> QED
      BY <3>1, <3>2, <1>1
  <2> QED
    BY <2>1, <2>2, <1>1
<1>8. LedgerChain'
  <2> SUFFICES ASSUME NEW v \in Users
               PROVE  /\ ledger'[v] = <<>> => balance'[v] = InitialBalance
                      /\ ledger'[v] # <<>> => /\ ledger'[v][1].before = InitialBalance
                                              /\ balance'[v] = ledger'[v][Len(ledger'[v])].after
                      /\ \A i \in 1..(Len(ledger'[v]) - 1) :
                            ledger'[v][i + 1].before = ledger'[v][i].after
    BY DEF LedgerChain
  <2>1. CASE v = u
    BY <2>1, <1>1, <1>2, <1>5, <1>6, <1>7
  <2>2. CASE v # u
    BY <2>2, <1>1, <1>2 DEF ChainInv, LedgerChain
  <2> QED
    BY <2>1, <2>2
<1> QED
  BY <1>1, <1>2, <1>8 DEF ChainInv

LEMMA ChainStays ==
  ASSUME ChainInv, ledger' = ledger, balance' = balance, usageLog' \in Seq(UsageRow)
  PROVE  ChainInv'
<1>1. LedgerChain'
  BY DEF ChainInv, LedgerChain
<1> QED
  BY <1>1 DEF ChainInv, TableShape

LEMMA ChainInit == Init => ChainInv
<1> SUFFICES ASSUME Init PROVE ChainInv
  OBVIOUS
<1>1. /\ usageLog = <<>> /\ ledger = [u \in Users |-> <<>>]
      /\ balance = [u \in Users |-> InitialBalance]
  BY DEF Init
<1>2. \A u \in Users : ledger[u] = <<>> /\ ledger[u] \in Seq({}) /\ Len(ledger[u]) = 0
  BY <1>1
<1>3. LedgerChain
  BY <1>1, <1>2 DEF LedgerChain
<1> QED
  BY <1>1, <1>2, <1>3 DEF ChainInv, TableShape

\* Every step but an administrator's preserves the chain.
LEMMA ChainNext == Admins = {} /\ BillingInv /\ ChainInv /\ [Next]_vars => ChainInv'
<1> SUFFICES ASSUME Admins = {}, BillingInv, ChainInv, [Next]_vars PROVE ChainInv'
  OBVIOUS
<1>1. usageLog' \in Seq(UsageRow)
  BY BillingInvNext DEF BillingInv, TableShape
<1>2. ASSUME UNCHANGED <<ledger, balance>> PROVE ChainInv'
  BY <1>1, <1>2, ChainStays
<1>3. ASSUME NEW c \in Chargers, ChargeUsage(c) PROVE ChainInv'
  <2> DEFINE u == GroupUser(worker[c].sel)
             ids == GroupRows(worker[c].sel)
             after == balance[u] - sumUsageCosts(ids)
             e == Entry("usage_charge", ids, 0, balance[u], after)
  <2>1. /\ ledger' = [ledger EXCEPT ![u] = Append(@, e)]
        /\ balance' = [balance EXCEPT ![u] = after]
    BY <1>3 DEF ChargeUsage
  <2>2. e.before = balance[u] /\ e.after = after
    BY DEF Entry
  <2> HIDE DEF u, ids, after, e
  <2>3. CASE u \in Users
    BY <2>1, <2>2, <2>3, <1>1, ChainKeeps
  <2>4. CASE u \notin Users
    <3>1. ledger' = ledger /\ balance' = balance
      BY <2>1, <2>4 DEF ChainInv, TableShape
    <3> QED
      BY <3>1, <1>2
  <2> QED
    BY <2>3, <2>4
<1>4. ASSUME NEW u \in Users, NEW k \in Codes, RedeemCode(u, k) PROVE ChainInv'
  <2> DEFINE b == balance[u] + CodeValue
             e == Entry("redeem_code_credit", {}, k, balance[u], b)
  <2>1. /\ ledger' = [ledger EXCEPT ![u] = Append(@, e)]
        /\ balance' = [balance EXCEPT ![u] = b]
    BY <1>4 DEF RedeemCode
  <2>2. e.before = balance[u] /\ e.after = b
    BY DEF Entry
  <2> HIDE DEF b, e
  <2> QED
    BY <2>1, <2>2, <1>1, ChainKeeps
<1>5. ASSUME NEW c \in Chargers, ChargerStep(c) PROVE ChainInv'
  BY <1>2, <1>3, <1>5
  DEF ChargerStep, RunOnce, ListPendingUsageCharges, ChargeFindsNothing, ChargeRejected,
      EndBatch, handleDisabledUsers, enqueueBalanceLowNotifications
<1>6. ASSUME NEW c \in Chargers, ChargerFault(c) PROVE ChainInv'
  BY <1>2, <1>6
  DEF ChargerFault, ListFails, ChargeFails, Crash, handleDisabledUsers, enqueueBalanceLowNotifications
<1>7. ASSUME NEW u \in Users, NEW cost \in Costs, NEW success \in BOOLEAN,
             RecordUsage(u, cost, success)
      PROVE  ChainInv'
  BY <1>2, <1>7 DEF RecordUsage
<1>8. ASSUME NEW u \in Users, DeleteUser(u) PROVE ChainInv'
  BY <1>2, <1>8 DEF DeleteUser
<1>9. CASE UNCHANGED vars
  BY <1>2, <1>9 DEF vars
<1> QED
  BY <1>4, <1>5, <1>6, <1>7, <1>8, <1>9 DEF Next

\* With no administrator editing balances by hand, every user's ledger is an
\* unbroken chain from the initial balance to users.balance, however chargers
\* and redeem codes interleave: ChargeUsage and RedeemCode take the
\* balance_before of an entry from the transaction that writes the balance.
THEOREM LedgerExplainsBalance ==
  ASSUME Admins = {}
  PROVE  Spec => []LedgerChain
<1>1. ChainInv => LedgerChain
  BY DEF ChainInv
<1>2. BillingInv /\ ChainInv /\ [Next]_vars => ChainInv'
  BY ChainNext
<1> QED
  BY BillingInvInit, BillingInvNext, ChainInit, <1>1, <1>2, PTL DEF Spec
-----------------------------------------------------------------------------
(* Money: what balances, redeemed codes and charged rows add up to. *)

\* The cost of a set of rows, as a sum of its own.
LEMMA CostSum ==
  ASSUME TableShape, NEW S \in SUBSET Rows
  PROVE  /\ IsFiniteSet(S)
         /\ sumUsageCosts(S) = SumFunctionOnSet([r \in S |-> usageLog[r].cost], S)
         /\ \A r \in S : usageLog[r].cost \in Int
         /\ sumUsageCosts(S) \in Int
<1>1. Rows = 1..Len(usageLog) /\ Len(usageLog) \in Nat /\ \A r \in Rows : usageLog[r] \in UsageRow
  BY RowTypes
<1>2. IsFiniteSet(Rows)
  BY <1>1, FS_Interval
<1>3. IsFiniteSet(S)
  BY <1>2, FS_Subset
<1>4. \A r \in S : usageLog[r].cost \in Int
  <2>1. \A r \in S : usageLog[r].cost \in Costs
    BY <1>1, Zenon DEF UsageRow
  <2>2. Costs \subseteq Int
    BY CostsAssumption
  <2> QED
    BY <2>1, <2>2, Zenon
<1>5. PICK f : f = [r \in S |-> usageLog[r].cost]
  OBVIOUS
<1>6. DOMAIN f = S /\ \A r \in S : f[r] \in Int
  BY <1>4, <1>5
<1>7. sumUsageCosts(S) = SumFunctionOnSet(f, S)
  BY <1>5, <1>6, Zenon DEF sumUsageCosts, SumFunction
<1>8. SumFunctionOnSet(f, S) \in Int
  BY <1>3, <1>6, SumInt
<1> QED
  BY <1>3, <1>4, <1>5, <1>7, <1>8

\* Costs of disjoint sets of rows add up.
LEMMA CostUnion ==
  ASSUME TableShape, NEW S \in SUBSET Rows, NEW T \in SUBSET Rows, S \cap T = {}
  PROVE  sumUsageCosts(S \cup T) = sumUsageCosts(S) + sumUsageCosts(T)
<1>1. PICK U : U = S \cup T
  OBVIOUS
<1>2. PICK f : f = [r \in U |-> usageLog[r].cost]
  OBVIOUS
<1>3. PICK g : g = [r \in S |-> usageLog[r].cost]
  OBVIOUS
<1>4. PICK h : h = [r \in T |-> usageLog[r].cost]
  OBVIOUS
<1>5. IsFiniteSet(S) /\ IsFiniteSet(T) /\ IsFiniteSet(U)
  BY <1>1, CostSum
<1>6. /\ sumUsageCosts(S) = SumFunctionOnSet(g, S)
      /\ sumUsageCosts(T) = SumFunctionOnSet(h, T)
      /\ sumUsageCosts(U) = SumFunctionOnSet(f, U)
  BY <1>1, <1>2, <1>3, <1>4, CostSum
<1>7. (\A r \in S : f[r] = g[r]) /\ (\A r \in T : f[r] = h[r])
  BY <1>1, <1>2, <1>3, <1>4
<1>8. SumFunctionOnSet(f, S) = SumFunctionOnSet(g, S)
  BY <1>5, <1>7, SumCongruence
<1>9. SumFunctionOnSet(f, T) = SumFunctionOnSet(h, T)
  BY <1>5, <1>7, SumCongruence
<1>10. \A r \in S \cup T : f[r] \in Int
  BY <1>1, <1>2, CostSum
<1>11. SumFunctionOnSet(f, S \cup T) = SumFunctionOnSet(f, S) + SumFunctionOnSet(f, T)
  BY <1>5, <1>10, SumDisjoint
<1> QED
  BY <1>1, <1>6, <1>8, <1>9, <1>11
\* The charged rows of a user, and the codes it redeemed.
ChargedOf(u) == {r \in Charged : usageLog[r].user = u}
RedeemedBy(u) == {p \in redeemed : p[1] = u}

MoneyInv ==
    /\ balance \in [Users -> Int]
    /\ IsFiniteSet(redeemed)
    /\ \A u \in Users : balance[u] = InitialBalance
          + CodeValue * Cardinality(RedeemedBy(u)) - sumUsageCosts(ChargedOf(u))
    /\ \A k \in Codes : Cardinality(Redemptions(k)) <= MaxRedemptions

\* At first nothing is charged or redeemed.
LEMMA MoneyInit == Init => MoneyInv
<1> SUFFICES ASSUME Init PROVE MoneyInv
  OBVIOUS
<1>1. /\ usageLog = <<>> /\ redeemed = {}
      /\ balance = [u \in Users |-> InitialBalance]
  BY DEF Init
<1>2. Rows = {} /\ Charged = {}
  BY <1>1 DEF Rows, Charged
<1>3. \A u \in Users : ChargedOf(u) = {} /\ RedeemedBy(u) = {}
  BY <1>1, <1>2 DEF ChargedOf, RedeemedBy
<1>4. \A k \in Codes : Redemptions(k) = {}
  BY <1>1 DEF Redemptions
<1>5. TableShape
  BY BillingInvInit DEF BillingInv
<1>6. sumUsageCosts({}) = 0
  <2>1. sumUsageCosts({}) = SumFunctionOnSet([r \in {} |-> usageLog[r].cost], {})
    BY <1>5, CostSum
  <2> QED
    BY <2>1, SumEmpty
<1>7. Cardinality({}) = 0 /\ IsFiniteSet({})
  BY FS_EmptySet
<1>8. ASSUME NEW u \in Users
      PROVE  balance[u] = InitialBalance
               + CodeValue * Cardinality(RedeemedBy(u)) - sumUsageCosts(ChargedOf(u))
  <2>1. CodeValue * 0 = 0 /\ InitialBalance + 0 - 0 = InitialBalance
    BY BalanceAssumption, CodeAssumption
  <2>2. Cardinality(RedeemedBy(u)) = 0 /\ sumUsageCosts(ChargedOf(u)) = 0
    BY <1>3, <1>6, <1>7, Zenon
  <2>3. balance[u] = InitialBalance
    BY <1>1
  <2> QED
    BY <2>1, <2>2, <2>3, Zenon
<1>9. \A k \in Codes : Cardinality(Redemptions(k)) <= MaxRedemptions
  BY <1>4, <1>7, CodeAssumption
<1>10. balance \in [Users -> Int] /\ IsFiniteSet(redeemed)
  BY <1>1, <1>7, BalanceAssumption
<1> QED
  BY <1>8, <1>9, <1>10 DEF MoneyInv

\* Neither balances nor redemptions nor marks change.
LEMMA MoneyStays ==
  ASSUME MoneyInv, balance' = balance, redeemed' = redeemed, Charged' = Charged,
         \A r \in Charged : usageLog'[r] = usageLog[r]
  PROVE  MoneyInv'
<1>1. ASSUME NEW u \in Users
      PROVE  /\ RedeemedBy(u)' = RedeemedBy(u)
             /\ sumUsageCosts(ChargedOf(u))' = sumUsageCosts(ChargedOf(u))
  <2>1. RedeemedBy(u)' = RedeemedBy(u)
    BY DEF RedeemedBy
  <2>2. PICK S : S = ChargedOf(u)
    OBVIOUS
  <2>3. ChargedOf(u)' = S
    BY <2>2 DEF ChargedOf
  <2>4. [r \in S |-> usageLog'[r].cost] = [r \in S |-> usageLog[r].cost]
    BY <2>2 DEF ChargedOf
  <2> QED
    BY <2>1, <2>2, <2>3, <2>4, Zenon DEF sumUsageCosts
<1>2. \A k \in Codes : Redemptions(k)' = Redemptions(k)
  BY DEF Redemptions
<1> QED
  BY <1>1, <1>2, Zenon DEF MoneyInv

\* A charge takes the cost of pending rows from their user's balance.
LEMMA MoneyCharged ==
  ASSUME BillingInv, MoneyInv, NEW u \in Users, NEW ids, ids \subseteq Pending,
         \A r \in ids : usageLog[r].user = u, Marks(ids), redeemed' = redeemed,
         balance' = [balance EXCEPT ![u] = balance[u] - sumUsageCosts(ids)]
  PROVE  MoneyInv'
<1>1. Pending \subseteq Rows /\ Charged \subseteq Rows /\ Pending \cap Charged = {}
  BY DEF Pending, Charged
<1>2. Charged' = Charged \cup ids
  BY <1>1 DEF Marks, Charged, Rows
<1>3. \A v \in Users : RedeemedBy(v)' = RedeemedBy(v)
  BY DEF RedeemedBy
<1>4. \A v \in Users : ChargedOf(v)' = IF v = u THEN ChargedOf(v) \cup ids ELSE ChargedOf(v)
  BY <1>1, <1>2 DEF ChargedOf, Marks
<1>5. TableShape
  BY DEF BillingInv
<1>6. ASSUME NEW S \in SUBSET Rows
      PROVE  sumUsageCosts(S) = SumFunction([r \in S |-> usageLog'[r].cost])
  <2>1. [r \in S |-> usageLog'[r].cost] = [r \in S |-> usageLog[r].cost]
    BY <1>6 DEF Marks
  <2> QED
    BY <2>1, Zenon DEF sumUsageCosts
<1>7. ASSUME NEW v \in Users
      PROVE  sumUsageCosts(ChargedOf(v))' =
               sumUsageCosts(ChargedOf(v)) + (IF v = u THEN sumUsageCosts(ids) ELSE 0)
  <2>1. ChargedOf(v) \in SUBSET Rows /\ ids \in SUBSET Rows /\ ids \cap ChargedOf(v) = {}
    BY <1>1 DEF ChargedOf
  <2>2. sumUsageCosts(ChargedOf(v)) \in Int
    BY <1>5, <2>1, CostSum
  <2>3. CASE v # u
    <3>1. sumUsageCosts(ChargedOf(v))' = sumUsageCosts(ChargedOf(v))
      <4>1. PICK S : S = ChargedOf(v)
        OBVIOUS
      <4>2. S \in SUBSET Rows /\ ChargedOf(v)' = S
        BY <4>1, <2>1, <1>4, <2>3
      <4> QED
        BY <4>1, <4>2, <1>6, Zenon DEF sumUsageCosts
    <3> QED
      BY <3>1, <2>2, <2>3
  <2>4. CASE v = u
    <3>1. PICK S : S = ChargedOf(v)
      OBVIOUS
    <3>2. PICK T : T = S \cup ids
      OBVIOUS
    <3>3. S \in SUBSET Rows /\ T \in SUBSET Rows /\ ChargedOf(v)' = T /\ S \cap ids = {}
      BY <3>1, <3>2, <2>1, <1>4, <2>4
    <3>4. sumUsageCosts(ChargedOf(v))' = sumUsageCosts(T)
      BY <3>3, <1>6, Zenon DEF sumUsageCosts
    <3>5. sumUsageCosts(T) = sumUsageCosts(S) + sumUsageCosts(ids)
      BY <1>5, <2>1, <3>2, <3>3, CostUnion
    <3> QED
      BY <3>1, <3>4, <3>5, <2>4, Zenon
  <2> QED
    BY <2>3, <2>4
<1>8. \A v \in Users : balance'[v] =
         balance[v] - (IF v = u THEN sumUsageCosts(ids) ELSE 0)
  BY DEF MoneyInv
<1>9. sumUsageCosts(ids) \in Int
  BY <1>1, <1>5, CostSum
<1>10. balance' \in [Users -> Int]
  BY <1>9 DEF MoneyInv
<1>11. ASSUME NEW v \in Users
       PROVE  balance'[v] = InitialBalance
                + CodeValue * Cardinality(RedeemedBy(v)') - sumUsageCosts(ChargedOf(v))'
  <2>1. PICK n : n = CodeValue * Cardinality(RedeemedBy(v))
    OBVIOUS
  <2>2. n \in Int
    <3>1. IsFiniteSet(RedeemedBy(v))
      BY FS_Subset DEF MoneyInv, RedeemedBy
    <3> QED
      BY <2>1, <3>1, FS_CardinalityType, CodeAssumption
  <2>3. PICK c : c = sumUsageCosts(ChargedOf(v))
    OBVIOUS
  <2>4. c \in Int
    <3>1. ChargedOf(v) \in SUBSET Rows
      BY <1>1 DEF ChargedOf
    <3> QED
      BY <1>5, <2>3, <3>1, CostSum
  <2>5. balance[v] = InitialBalance + n - c
    BY <2>1, <2>3 DEF MoneyInv
  <2>6. CodeValue * Cardinality(RedeemedBy(v)') = n
    BY <1>3, <2>1
  <2>7. PICK d : d = sumUsageCosts(ChargedOf(v))'
    OBVIOUS
  <2>8. PICK w : w = IF v = u THEN sumUsageCosts(ids) ELSE 0
    OBVIOUS
  <2>9. d = c + w /\ w \in Int /\ balance'[v] = balance[v] - w
    BY <1>7, <1>8, <1>9, <2>3, <2>7, <2>8
  <2>10. balance'[v] = InitialBalance + n - d
    BY <2>2, <2>4, <2>5, <2>9, BalanceAssumption
  <2> QED
    BY <2>6, <2>7, <2>10, Zenon
<1>12. \A k \in Codes : Redemptions(k)' = Redemptions(k)
  BY DEF Redemptions
<1> QED
  BY <1>10, <1>11, <1>12, Zenon DEF MoneyInv
\* A redeemed code is credited once, to the user who redeemed it.
LEMMA MoneyRedeemed ==
  ASSUME BillingInv, MoneyInv, NEW u \in Users, NEW k \in Codes, RedeemCode(u, k)
  PROVE  MoneyInv'
<1>1. /\ <<u, k>> \notin redeemed /\ redeemed' = redeemed \cup {<<u, k>>}
      /\ Cardinality(Redemptions(k)) < MaxRedemptions
      /\ balance' = [balance EXCEPT ![u] = balance[u] + CodeValue]
      /\ usageLog' = usageLog
  BY DEF RedeemCode
<1>2. IsFiniteSet(redeemed) /\ IsFiniteSet(redeemed')
  BY <1>1, FS_AddElement DEF MoneyInv
<1>3. /\ RedeemedBy(u)' = RedeemedBy(u) \cup {<<u, k>>}
      /\ <<u, k>> \notin RedeemedBy(u)
      /\ \A v \in Users \ {u} : RedeemedBy(v)' = RedeemedBy(v)
  BY <1>1 DEF RedeemedBy
<1>4. /\ Redemptions(k)' = Redemptions(k) \cup {<<u, k>>}
      /\ <<u, k>> \notin Redemptions(k)
      /\ \A j \in Codes \ {k} : Redemptions(j)' = Redemptions(j)
  BY <1>1 DEF Redemptions
<1>5. /\ IsFiniteSet(Redemptions(k)) /\ \A v \in Users : IsFiniteSet(RedeemedBy(v))
  BY <1>2, FS_Subset DEF Redemptions, RedeemedBy
<1>6. /\ Cardinality(Redemptions(k)) \in Nat
      /\ \A v \in Users : Cardinality(RedeemedBy(v)) \in Nat
  BY <1>5, FS_CardinalityType
<1>7. Cardinality(Redemptions(k)') = Cardinality(Redemptions(k)) + 1
  BY <1>4, <1>5, FS_AddElement
<1>8. Cardinality(RedeemedBy(u)') = Cardinality(RedeemedBy(u)) + 1
  BY <1>3, <1>5, FS_AddElement
<1>9. \A j \in Codes : Cardinality(Redemptions(j)') <= MaxRedemptions
  <2> TAKE j \in Codes
  <2>1. CASE j = k
    BY <2>1, <1>1, <1>6, <1>7, CodeAssumption
  <2>2. CASE j # k
    BY <2>2, <1>4 DEF MoneyInv
  <2> QED
    BY <2>1, <2>2
<1>10. balance' \in [Users -> Int]
  BY <1>1, CodeAssumption DEF MoneyInv
<1>11. ASSUME NEW v \in Users
       PROVE  balance'[v] = InitialBalance
                + CodeValue * Cardinality(RedeemedBy(v)') - sumUsageCosts(ChargedOf(v))'
  <2>1. sumUsageCosts(ChargedOf(v))' = sumUsageCosts(ChargedOf(v))
    BY <1>1, Zenon DEF sumUsageCosts, ChargedOf, Charged, Rows
  <2>2. balance[v] = InitialBalance
          + CodeValue * Cardinality(RedeemedBy(v)) - sumUsageCosts(ChargedOf(v))
    BY DEF MoneyInv
  <2>3. CASE v # u
    <3>1. balance'[v] = balance[v] /\ RedeemedBy(v)' = RedeemedBy(v)
      BY <2>3, <1>1, <1>3 DEF MoneyInv
    <3> QED
      BY <3>1, <2>1, <2>2, Zenon
  <2>4. CASE v = u
    <3>1. PICK n : n = Cardinality(RedeemedBy(v))
      OBVIOUS
    <3>2. PICK c : c = sumUsageCosts(ChargedOf(v))
      OBVIOUS
    <3>3. n \in Nat /\ c \in Int
      <4>1. ChargedOf(v) \in SUBSET Rows
        BY DEF ChargedOf, Charged
      <4> QED
        BY <3>1, <3>2, <1>6, <4>1, CostSum DEF BillingInv
    <3>4. balance'[v] = balance[v] + CodeValue
      BY <2>4, <1>1 DEF MoneyInv
    <3>5. balance[v] = InitialBalance + CodeValue * n - c
      BY <2>2, <3>1, <3>2, Zenon
    <3>6. balance'[v] = InitialBalance + CodeValue * (n + 1) - c
      BY <3>3, <3>4, <3>5, CodeAssumption, BalanceAssumption
    <3>7. Cardinality(RedeemedBy(v)') = n + 1
      BY <1>8, <2>4, <3>1
    <3> QED
      BY <3>2, <3>6, <3>7, <2>1, Zenon
  <2> QED
    BY <2>3, <2>4
<1> QED
  BY <1>2, <1>9, <1>10, <1>11, Zenon DEF MoneyInv

\* Every step keeps the balance explained by what was charged and redeemed.
LEMMA MoneyNext == Admins = {} /\ BillingInv /\ MoneyInv /\ [Next]_vars => MoneyInv'
<1> SUFFICES ASSUME Admins = {}, BillingInv, MoneyInv, [Next]_vars PROVE MoneyInv'
  OBVIOUS
<1>1. ASSUME UNCHANGED <<balance, redeemed, usageLog>> PROVE MoneyInv'
  BY <1>1, MoneyStays, Zenon DEF Charged, Rows
<1>2. ASSUME NEW c \in Chargers, ChargeUsage(c) PROVE MoneyInv'
  <2>1. PICK u : u = GroupUser(worker[c].sel)
    OBVIOUS
  <2>2. PICK ids : ids = GroupRows(worker[c].sel)
    OBVIOUS
  <2>3. /\ StillPending(ids) = ids /\ redeemed' = redeemed
        /\ balance' = [balance EXCEPT ![u] = balance[u] - sumUsageCosts(ids)]
    BY <1>2, <2>1, <2>2 DEF ChargeUsage
  <2>4. ids \subseteq Pending /\ (\A r \in ids : usageLog[r].user = u) /\ Marks(ids)
    BY <1>2, <2>1, <2>2, ChargeMarks
  <2>5. CASE u \in Users
    BY <2>3, <2>4, <2>5, MoneyCharged
  <2>6. CASE u \notin Users
    <3>1. balance' = balance
      BY <2>3, <2>6 DEF MoneyInv
    <3>2. ids = {}
      BY <2>4, <2>6, RowTypes DEF BillingInv, Pending
    <3>3. usageLog' = usageLog
      BY <1>2, <2>2, <3>2, ChargesNothing
    <3> QED
      BY <3>1, <3>3, <2>3, <1>1
  <2> QED
    BY <2>5, <2>6
<1>3. ASSUME NEW c \in Chargers, ChargerStep(c) PROVE MoneyInv'
  BY <1>1, <1>2, <1>3
  DEF ChargerStep, RunOnce, ListPendingUsageCharges, ChargeFindsNothing, ChargeRejected,
      EndBatch, handleDisabledUsers, enqueueBalanceLowNotifications
<1>4. ASSUME NEW c \in Chargers, ChargerFault(c) PROVE MoneyInv'
  BY <1>1, <1>4
  DEF ChargerFault, ListFails, ChargeFails, Crash, handleDisabledUsers, enqueueBalanceLowNotifications
<1>5. ASSUME NEW u \in Users, NEW cost \in Costs, NEW success \in BOOLEAN,
             RecordUsage(u, cost, success)
      PROVE  MoneyInv'
  <2>1. balance' = balance /\ redeemed' = redeemed
    BY <1>5 DEF RecordUsage
  <2>2. Charged' = Charged /\ \A r \in Charged : usageLog'[r] = usageLog[r]
    BY <1>5, RowRecorded DEF Charged
  <2> QED
    BY <2>1, <2>2, MoneyStays
<1>6. ASSUME NEW u \in Users, DeleteUser(u) PROVE MoneyInv'
  BY <1>1, <1>6 DEF DeleteUser
<1>7. CASE UNCHANGED vars
  BY <1>1, <1>7 DEF vars
<1> QED
  BY <1>3, <1>4, <1>5, <1>6, <1>7, MoneyRedeemed DEF Next

\* Money is conserved in every reachable state: with no administrator editing
\* balances by hand, a balance is the initial one plus CodeValue for every
\* code the user redeemed minus the cost of exactly its charged rows, and no
\* code is redeemed more often than it admits, for any number of chargers,
\* faults and crashes.
THEOREM MoneyConserved ==
  ASSUME Admins = {}
  PROVE  Spec => []BalanceExplained
<1>1. MoneyInv => BalanceExplained
  BY Zenon DEF MoneyInv, BalanceExplained, RedeemedBy, ChargedOf, Redemptions
<1>2. BillingInv /\ MoneyInv /\ [Next]_vars => MoneyInv'
  BY MoneyNext
<1> QED
  BY BillingInvInit, BillingInvNext, MoneyInit, <1>1, <1>2, PTL DEF Spec
-----------------------------------------------------------------------------
(* Charging implements UsageSettlement. *)

\* Balances are amounts, and an administrator's request on its way to the
\* UPDATE carries an amount UpdateBalance has let pass.
RequestInv ==
    /\ balance \in [Users -> Int]
    /\ admin \in [Admins -> AdminState]
    /\ \A a \in Admins : /\ admin[a].pc # "idle" => admin[a].user \in Users
                         /\ admin[a].pc = "write" => admin[a].after >= 0

\* No admin request is under way at first.
LEMMA RequestInit == Init => RequestInv
<1> SUFFICES ASSUME Init PROVE RequestInv
  OBVIOUS
<1>1. balance = [u \in Users |-> InitialBalance] /\ admin = [a \in Admins |-> NoRequest]
  BY DEF Init
<1>2. NoRequest \in AdminState /\ NoRequest.pc = "idle"
  BY DEF NoRequest, AdminState
<1> QED
  BY <1>1, <1>2, BalanceAssumption DEF RequestInv

\* One request moves to the state q, and every balance stays an amount.
LEMMA RequestKeeps ==
  ASSUME RequestInv, NEW a \in Admins, NEW q \in AdminState,
         q.pc # "idle" => q.user \in Users, q.pc = "write" => q.after >= 0,
         admin' = [admin EXCEPT ![a] = q], balance' \in [Users -> Int]
  PROVE  RequestInv'
<1>1. admin' \in [Admins -> AdminState]
  BY DEF RequestInv
<1>2. \A b \in Admins : admin'[b] = IF b = a THEN q ELSE admin[b]
  BY DEF RequestInv
<1> QED
  BY <1>1, <1>2 DEF RequestInv

\* A step that leaves the admin requests alone keeps the request invariant.
LEMMA RequestStays ==
  ASSUME RequestInv, admin' = admin, balance' \in [Users -> Int]
  PROVE  RequestInv'
  BY DEF RequestInv

\* Every step preserves the request invariant.
LEMMA RequestNext == BillingInv /\ RequestInv /\ [Next]_vars => RequestInv'
<1> SUFFICES ASSUME BillingInv, RequestInv, [Next]_vars PROVE RequestInv'
  OBVIOUS
<1>0. balance \in [Users -> Int]
  BY DEF RequestInv
<1>1. ASSUME UNCHANGED <<balance, admin>> PROVE RequestInv'
  BY <1>0, <1>1, RequestStays
<1>2. ASSUME NEW c \in Chargers, ChargeUsage(c) PROVE RequestInv'
  <2>1. PICK u : u = GroupUser(worker[c].sel)
    OBVIOUS
  <2>2. PICK ids : ids = GroupRows(worker[c].sel)
    OBVIOUS
  <2>3. admin' = admin /\ balance' = [balance EXCEPT ![u] = balance[u] - sumUsageCosts(ids)]
    BY <1>2, <2>1, <2>2 DEF ChargeUsage
  <2>4. ids \in SUBSET Rows
    BY <1>2, <2>1, <2>2, ChargeMarks DEF Pending
  <2>5. sumUsageCosts(ids) \in Int
    BY <2>4, CostSum DEF BillingInv
  <2>6. balance' \in [Users -> Int]
    <3>1. CASE u \in Users
      BY <1>0, <2>3, <2>5, <3>1
    <3>2. CASE u \notin Users
      <4>1. balance' = balance
        BY <1>0, <2>3, <3>2
      <4> QED
        BY <4>1, <1>0
    <3> QED
      BY <3>1, <3>2
  <2> QED
    BY <2>3, <2>6, RequestStays
<1>3. ASSUME NEW c \in Chargers, ChargerStep(c) PROVE RequestInv'
  BY <1>1, <1>2, <1>3
  DEF ChargerStep, RunOnce, ListPendingUsageCharges, ChargeFindsNothing, ChargeRejected,
      EndBatch, handleDisabledUsers, enqueueBalanceLowNotifications
<1>4. ASSUME NEW c \in Chargers, ChargerFault(c) PROVE RequestInv'
  BY <1>1, <1>4
  DEF ChargerFault, ListFails, ChargeFails, Crash, handleDisabledUsers, enqueueBalanceLowNotifications
<1>5. ASSUME NEW u \in Users, NEW cost \in Costs, NEW success \in BOOLEAN,
             RecordUsage(u, cost, success)
      PROVE  RequestInv'
  BY <1>1, <1>5 DEF RecordUsage
<1>6. ASSUME NEW u \in Users, DeleteUser(u) PROVE RequestInv'
  BY <1>1, <1>6 DEF DeleteUser
<1>7. ASSUME NEW u \in Users, NEW k \in Codes, RedeemCode(u, k) PROVE RequestInv'
  <2>1. admin' = admin /\ balance' = [balance EXCEPT ![u] = balance[u] + CodeValue]
    BY <1>7 DEF RedeemCode
  <2>2. balance' \in [Users -> Int]
    BY <1>0, <2>1, CodeAssumption
  <2> QED
    BY <2>1, <2>2, RequestStays
<1>8. ASSUME NEW a \in Admins, AdminStep(a) PROVE RequestInv'
  <2>1. NoRequest \in AdminState /\ NoRequest.pc = "idle"
    BY DEF NoRequest, AdminState
  <2>2. admin[a] \in AdminState /\ (admin[a].pc # "idle" => admin[a].user \in Users)
    BY DEF RequestInv
  <2>3. ASSUME NEW u \in Users, AdminStart(a, u) PROVE RequestInv'
    <3> DEFINE q == [pc |-> "read", user |-> u, before |-> balance[u], after |-> 0]
    <3>1. balance' = balance /\ admin' = [admin EXCEPT ![a] = q]
      BY <2>3 DEF AdminStart
    <3>2. q \in AdminState /\ q.pc = "read" /\ q.user = u
      BY <1>0 DEF AdminState
    <3> HIDE DEF q
    <3> QED
      BY <3>1, <3>2, <1>0, RequestKeeps
  <2>4. ASSUME AdminRead(a) PROVE RequestInv'
    <3>1. PICK u : u = admin[a].user
      OBVIOUS
    <3>2. admin[a].pc = "read" /\ u \in Users /\ balance' = balance
      BY <2>2, <2>4, <3>1 DEF AdminRead
    <3>3a. PICK amount \in AdminAmounts : \E new \in {amount, balance[u] + amount, balance[u] - amount} :
             admin' = [admin EXCEPT ![a] =
                IF deleted[u] \/ new < 0 THEN NoRequest
                ELSE [admin[a] EXCEPT !.pc = "write", !.after = new]]
      BY <2>4, <3>1 DEF AdminRead
    <3>3. PICK new \in {amount, balance[u] + amount, balance[u] - amount} :
             admin' = [admin EXCEPT ![a] =
                IF deleted[u] \/ new < 0 THEN NoRequest
                ELSE [admin[a] EXCEPT !.pc = "write", !.after = new]]
      BY <3>3a
    <3>4. new \in Int
      BY <1>0, <3>2, <3>3, AmountsAssumption
    <3>5. PICK q : q = IF deleted[u] \/ new < 0 THEN NoRequest
                       ELSE [admin[a] EXCEPT !.pc = "write", !.after = new]
      OBVIOUS
    <3>6. admin' = [admin EXCEPT ![a] = q]
      BY <3>3, <3>5, Zenon
    <3>7. CASE deleted[u] \/ new < 0
      BY <3>2, <3>5, <3>6, <3>7, <2>1, <1>0, RequestKeeps
    <3>8. CASE ~(deleted[u] \/ new < 0)
      <4>1. q = [admin[a] EXCEPT !.pc = "write", !.after = new]
        BY <3>5, <3>8
      <4>2. q \in AdminState /\ q.user = u /\ q.after = new /\ q.pc = "write"
        BY <4>1, <2>2, <3>1, <3>4 DEF AdminState
      <4>3. new >= 0
        BY <3>4, <3>8
      <4> QED
        BY <4>2, <4>3, <3>2, <3>6, <1>0, RequestKeeps
    <3> QED
      BY <3>7, <3>8
  <2>5. ASSUME AdminWrite(a) PROVE RequestInv'
    <3>1. PICK u : u = admin[a].user
      OBVIOUS
    <3>2. /\ admin[a].pc = "write" /\ u \in Users
          /\ balance' = IF deleted[u] THEN balance ELSE [balance EXCEPT ![u] = admin[a].after]
          /\ admin' = [admin EXCEPT ![a] =
                IF deleted[u] THEN NoRequest ELSE [admin[a] EXCEPT !.pc = "ledger"]]
      BY <2>2, <2>5, <3>1 DEF AdminWrite
    <3>3. admin[a].after \in Int
      BY <2>2 DEF AdminState
    <3>4. balance' \in [Users -> Int]
      BY <1>0, <3>2, <3>3
    <3>5. CASE deleted[u]
      <4>1. admin' = [admin EXCEPT ![a] = NoRequest]
        BY <3>2, <3>5
      <4> QED
        BY <4>1, <2>1, <3>4, RequestKeeps
    <3>6. CASE ~deleted[u]
      <4>1. PICK q : q = [admin[a] EXCEPT !.pc = "ledger"]
        OBVIOUS
      <4>2. admin' = [admin EXCEPT ![a] = q]
        BY <3>2, <3>6, <4>1
      <4>3. q \in AdminState /\ q.user = u /\ q.pc = "ledger"
        BY <4>1, <2>2, <3>1 DEF AdminState
      <4> QED
        BY <4>2, <4>3, <3>2, <3>4, RequestKeeps
    <3> QED
      BY <3>5, <3>6
  <2>6. ASSUME AdminRecord(a) \/ AdminRecordFails(a) PROVE RequestInv'
    <3>1. balance' = balance /\ admin' = [admin EXCEPT ![a] = NoRequest]
      BY <2>6 DEF AdminRecord, AdminRecordFails
    <3> QED
      BY <3>1, <2>1, <1>0, RequestKeeps
  <2> QED
    BY <1>8, <2>3, <2>4, <2>5, <2>6 DEF AdminStep
<1>9. CASE UNCHANGED vars
  BY <1>1, <1>9 DEF vars
<1> QED
  BY <1>3, <1>4, <1>5, <1>6, <1>7, <1>8, <1>9 DEF Next

\* The initial states map to initial states of the settlement.
LEMMA SettlementInit == Init => Settlement!Init
<1> SUFFICES ASSUME Init PROVE Settlement!Init
  OBVIOUS
<1>1. usageLog = <<>> /\ balance = [u \in Users |-> InitialBalance]
  BY DEF Init
<1>2. Rows = {} /\ Charged = {}
  BY <1>1 DEF Rows, Charged
<1>3. IncurredView = <<>>
  BY <1>2 DEF IncurredView
<1>4. balance \in [Users -> Int]
  BY <1>1, BalanceAssumption
<1> QED
  BY <1>2, <1>3, <1>4 DEF Settlement!Init

\* A charge is a settlement of the rows it bills, at their exact cost.
LEMMA ChargeSettles ==
  ASSUME BillingInv, RequestInv, NEW c \in Chargers, ChargeUsage(c)
  PROVE  [Settlement!Next]_(Settlement!vars)
<1>1. PICK u : u = GroupUser(worker[c].sel)
  OBVIOUS
<1>2. PICK ids : ids = GroupRows(worker[c].sel)
  OBVIOUS
<1>3. balance' = [balance EXCEPT ![u] = balance[u] - sumUsageCosts(ids)]
  BY <1>1, <1>2 DEF ChargeUsage
<1>4. ids \subseteq Pending /\ (\A r \in ids : usageLog[r].user = u) /\ Marks(ids)
  BY <1>1, <1>2, ChargeMarks
<1>5. Pending \subseteq Rows /\ Charged \subseteq Rows /\ Pending \cap Charged = {}
  BY DEF Pending, Charged
<1>6. Charged' = Charged \cup ids
  BY <1>4, <1>5 DEF Marks, Charged
<1>7. IncurredView' = IncurredView
  BY <1>4 DEF Marks, IncurredView
<1>8. CASE ids = {}
  <2>1. sumUsageCosts(ids) = 0
    <3>1. sumUsageCosts(ids) = SumFunctionOnSet([r \in ids |-> usageLog[r].cost], ids)
      BY <1>4, <1>5, CostSum DEF BillingInv
    <3> QED
      BY <3>1, <1>8, SumEmpty
  <2>2. balance' = balance
    BY <1>3, <2>1 DEF RequestInv
  <2>3. Charged' = Charged
    BY <1>6, <1>8
  <2> QED
    BY <1>7, <2>2, <2>3 DEF Settlement!vars
<1>9. CASE ids # {}
  <2>1. u \in Users
    BY <1>4, <1>5, <1>9, RowTypes DEF BillingInv
  <2>2. /\ DOMAIN IncurredView = {q \in Rows : usageLog[q].success}
        /\ \A r \in DOMAIN IncurredView : /\ IncurredView[r].user = usageLog[r].user
                                          /\ IncurredView[r].cost = usageLog[r].cost
    BY DEF IncurredView
  <2>3. ids \in SUBSET (DOMAIN IncurredView \ Charged)
    BY <1>4, <1>5, <2>2 DEF Pending
  <2>4. \A r \in ids : IncurredView[r].user = u
    BY <1>4, <2>2, <2>3
  <2>5. [r \in ids |-> IncurredView[r].cost] = [r \in ids |-> usageLog[r].cost]
    BY <2>2, <2>3
  <2>6. Settlement!Cost(ids) = sumUsageCosts(ids)
    <3>1. \A f : Settlement!SumFunction(f) = SumFunction(f)
      BY Zenon DEF SumFunction, SumFunctionOnSet, FoldFunctionOnSet, MapThenFoldSet,
        Settlement!SumFunction, Settlement!SumFunctionOnSet,
        Settlement!FoldFunctionOnSet, Settlement!MapThenFoldSet
    <3> QED
      BY <2>5, <3>1, Zenon DEF Settlement!Cost, sumUsageCosts
  <2>7. balance' = [balance EXCEPT ![u] = balance[u] - Settlement!Cost(ids)]
    BY <1>3, <2>6, Zenon
  <2>8. Settlement!Settle(u, ids)
    BY <1>6, <1>7, <1>9, <2>3, <2>4, <2>7 DEF Settlement!Settle
  <2> QED
    BY <2>1, <2>3, <2>8 DEF Settlement!Next
<1> QED
  BY <1>8, <1>9

\* Every step is a step of the abstract specification or invisible to it.
LEMMA SettlementNext ==
  BillingInv /\ RequestInv /\ [Next]_vars => [Settlement!Next]_(Settlement!vars)
<1> SUFFICES ASSUME BillingInv, RequestInv, [Next]_vars
             PROVE  [Settlement!Next]_(Settlement!vars)
  OBVIOUS
<1>1. ASSUME UNCHANGED <<usageLog, balance>> PROVE [Settlement!Next]_(Settlement!vars)
  <2>1. IncurredView' = IncurredView /\ Charged' = Charged
    BY <1>1 DEF IncurredView, Charged, Rows
  <2> QED
    BY <1>1, <2>1 DEF Settlement!vars
<1>2. ASSUME NEW c \in Chargers, ChargerStep(c) PROVE [Settlement!Next]_(Settlement!vars)
  BY <1>1, <1>2, ChargeSettles
  DEF ChargerStep, RunOnce, ListPendingUsageCharges, ChargeFindsNothing, ChargeRejected,
      EndBatch, handleDisabledUsers, enqueueBalanceLowNotifications
<1>3. ASSUME NEW c \in Chargers, ChargerFault(c) PROVE [Settlement!Next]_(Settlement!vars)
  BY <1>1, <1>3
  DEF ChargerFault, ListFails, ChargeFails, Crash, handleDisabledUsers, enqueueBalanceLowNotifications
<1>4. ASSUME NEW u \in Users, NEW cost \in Costs, NEW success \in BOOLEAN,
             RecordUsage(u, cost, success)
      PROVE  Settlement!Next
  <2>1. /\ Rows \subseteq Rows' /\ \A r \in Rows : usageLog'[r] = usageLog[r]
        /\ \A r \in Rows' \ Rows : usageLog'[r].charged = FALSE
    BY <1>4, RowRecorded
  <2>2. Charged' = Charged
    BY <2>1 DEF Charged
  <2>3. /\ DOMAIN IncurredView = {q \in Rows : usageLog[q].success}
        /\ DOMAIN IncurredView' = {q \in Rows' : usageLog'[q].success}
        /\ \A r \in DOMAIN IncurredView : IncurredView[r] =
              [user |-> usageLog[r].user, cost |-> usageLog[r].cost]
        /\ \A r \in DOMAIN IncurredView' : IncurredView'[r] =
              [user |-> usageLog'[r].user, cost |-> usageLog'[r].cost]
    BY DEF IncurredView
  <2>4. \A r \in DOMAIN IncurredView :
           r \in DOMAIN IncurredView' /\ IncurredView'[r] = IncurredView[r]
    BY <2>1, <2>3
  <2>5. balance' = balance
    BY <1>4 DEF RecordUsage
  <2>6. Settlement!Incur
    BY <2>2, <2>4, <2>5 DEF Settlement!Incur
  <2> QED
    BY <2>6 DEF Settlement!Next
<1>5. ASSUME NEW u \in Users, NEW k \in Codes, RedeemCode(u, k) PROVE Settlement!Next
  <2>1. usageLog' = usageLog /\ balance' = [balance EXCEPT ![u] = balance[u] + CodeValue]
    BY <1>5 DEF RedeemCode
  <2>2. balance'[u] = balance[u] + CodeValue /\ balance[u] \in Int
    BY <2>1 DEF RequestInv
  <2>3. balance'[u] > balance[u]
    BY <2>2, CodeAssumption
  <2>4. IncurredView' = IncurredView /\ Charged' = Charged
    BY <2>1 DEF IncurredView, Charged, Rows
  <2>5. balance' = [balance EXCEPT ![u] = balance'[u]]
    BY <2>1, <2>2, Zenon
  <2>6. Settlement!Credit(u)
    BY <2>3, <2>4, <2>5 DEF Settlement!Credit
  <2> QED
    BY <2>6 DEF Settlement!Next
<1>6. ASSUME NEW a \in Admins, AdminStep(a) PROVE [Settlement!Next]_(Settlement!vars)
  <2>1. CASE AdminWrite(a)
    <3>1. PICK u : u = admin[a].user
      OBVIOUS
    <3>2. /\ admin[a].pc = "write" /\ usageLog' = usageLog
          /\ balance' = IF deleted[u] THEN balance ELSE [balance EXCEPT ![u] = admin[a].after]
      BY <2>1, <3>1 DEF AdminWrite
    <3>3. u \in Users /\ admin[a].after >= 0
      BY <3>1, <3>2 DEF RequestInv
    <3>4. CASE deleted[u]
      BY <3>2, <3>4, <1>1
    <3>5. CASE ~deleted[u]
      <4>1. balance' = [balance EXCEPT ![u] = admin[a].after] /\ balance'[u] = admin[a].after
        BY <3>2, <3>3, <3>5 DEF RequestInv
      <4>2. balance' = [balance EXCEPT ![u] = balance'[u]] /\ balance'[u] >= 0
        BY <4>1, <3>3, Zenon
      <4>3. IncurredView' = IncurredView /\ Charged' = Charged
        BY <3>2 DEF IncurredView, Charged, Rows
      <4>4. Settlement!Adjust(u)
        BY <4>2, <4>3 DEF Settlement!Adjust
      <4> QED
        BY <4>4, <3>3 DEF Settlement!Next
    <3> QED
      BY <3>4, <3>5
  <2> QED
    BY <1>1, <1>6, <2>1 DEF AdminStep, AdminStart, AdminRead, AdminRecord, AdminRecordFails
<1>7. ASSUME NEW u \in Users, DeleteUser(u) PROVE [Settlement!Next]_(Settlement!vars)
  BY <1>1, <1>7 DEF DeleteUser
<1>8. CASE UNCHANGED vars
  BY <1>1, <1>8 DEF vars
<1> QED
  BY <1>2, <1>3, <1>4, <1>5, <1>6, <1>7, <1>8 DEF Next

\* The charging pipeline implements the abstract settlement of usage, for any
\* users, chargers, codes, administrators, faults and crashes: usage is
\* settled at most once, at exactly its cost, against the balance of the user
\* who incurred it, and a balance moves otherwise only by a redeemed code or
\* by an administrator's adjustment to an amount that is not negative.
THEOREM ChargingImplementsSettlement == Spec => ImplementsSettlement
  BY BillingInvInit, BillingInvNext, RequestInit, RequestNext,
     SettlementInit, SettlementNext, PTL DEF Spec, ImplementsSettlement, Settlement!Spec
=============================================================================
