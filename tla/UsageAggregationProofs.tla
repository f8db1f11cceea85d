----------------------- MODULE UsageAggregationProofs -----------------------
(***************************************************************************)
(* Proofs about UsageAggregation, for any number of rows, users, live      *)
(* writers, direct increments, resets, edits, entitlement checks, faults   *)
(* and clock ticks: exactly-once aggregation, types, and what the counters *)
(* of the API key and of the subscription hold.                            *)
(***************************************************************************)
EXTENDS UsageAggregation, FiniteSums

\* Statements a transaction only reaches with its claim on the row held.
AfterClaim == {"sub", "writesub", "key", "writekey", "commit"}

\* The part of the state exactly-once rests on has its shape.
ClaimTypes ==
    /\ aggregated \in [Rows -> BOOLEAN]
    /\ applied \in [Rows -> Nat]
    /\ rowLock \in [Rows -> Procs \cup {NoProc}]
    /\ DOMAIN tx = Procs
    /\ \A p \in Procs : tx[p].pc \in {"idle", "claim"} \cup AfterClaim
    /\ \A p \in Procs : tx[p].pc # "idle" => tx[p].row \in Rows
    /\ sweep \subseteq Rows

\* ApplyAggregation past its claim: direct increments claim nothing.
Claimed(p) == tx[p].pc \in AfterClaim /\ tx[p].way = "aggregation"

\* A transaction past its claim holds the row's lock and the row's marker is
\* still NULL in the committed state: nobody else can be past the claim of the
\* same row, and its commit is the first.
ClaimHeld ==
    \A p \in Procs : Claimed(p) => rowLock[tx[p].row] = p /\ ~aggregated[tx[p].row]

ClaimInv == ClaimTypes /\ ClaimHeld /\ AppliedOnce

\* No process is the absent lock holder.
LEMMA ProcsFacts == NoProc \notin Procs /\ Rows \subseteq Procs /\ Reconciler \in Procs
  BY RowsAssumption DEF NoProc, Procs, Reconciler

LEMMA ClaimInvInit == Init => ClaimInv
  BY ProcsFacts DEF Init, ClaimInv, ClaimTypes, ClaimHeld, Claimed, AppliedOnce, NoTx, AfterClaim

\* The SELECT that opens a transaction gets no further than before its claim.
LEMMA GetRowKeeps ==
  ASSUME ClaimInv, NEW p \in Procs, NEW r \in Rows, GetRow(p, r),
         UNCHANGED <<aggregated, applied, rowLock>>, sweep' \subseteq Rows
  PROVE  ClaimInv'
<1> DEFINE opened == [NoTx EXCEPT !.pc = "claim", !.row = r, !.at = created[r]]
<1>1. tx' = [tx EXCEPT ![p] = NoTx] \/ tx' = [tx EXCEPT ![p] = opened]
  BY DEF GetRow
<1>0. NoTx.pc = "idle" /\ opened.pc = "claim" /\ opened.row = r
  BY DEF NoTx
<1> HIDE DEF opened
<1>2. /\ DOMAIN tx' = Procs
      /\ \A q \in Procs \ {p} : tx'[q] = tx[q]
      /\ tx'[p].pc \in {"idle", "claim"}
      /\ tx'[p].pc # "idle" => tx'[p].row = r
  <2>1. tx'[p] = NoTx \/ tx'[p] = opened
    BY <1>1 DEF ClaimInv, ClaimTypes
  <2>2. DOMAIN tx' = Procs /\ \A q \in Procs \ {p} : tx'[q] = tx[q]
    BY <1>1 DEF ClaimInv, ClaimTypes
  <2> QED
    BY <2>1, <2>2, <1>0
<1>3. ClaimTypes'
  BY <1>2 DEF ClaimInv, ClaimTypes, AfterClaim
<1>4. ClaimHeld'
  BY <1>2 DEF ClaimInv, ClaimHeld, Claimed, AfterClaim
<1> QED
  BY <1>3, <1>4 DEF ClaimInv, AppliedOnce

\* A statement after which p holds its claim if it counts as claimed
\* preserves the invariant when the marker and the locks stay.
LEMMA StatementKeeps ==
  ASSUME ClaimInv, NEW p \in Procs,
         DOMAIN tx' = Procs,
         \A q \in Procs \ {p} : tx'[q] = tx[q],
         tx'[p].pc \in {"idle"} \cup AfterClaim,
         tx'[p].pc # "idle" => tx'[p].row \in Rows,
         Claimed(p)' => Claimed(p) /\ tx'[p].row = tx[p].row,
         UNCHANGED <<aggregated, applied, rowLock, sweep>>
  PROVE  ClaimInv'
<1>1. ClaimTypes'
  BY DEF ClaimInv, ClaimTypes, AfterClaim
<1>2. ClaimHeld'
  BY DEF ClaimInv, ClaimHeld, Claimed
<1> QED
  BY <1>1, <1>2 DEF ClaimInv, AppliedOnce

LEMMA ClaimKeeps ==
  ASSUME ClaimInv, NEW p \in Procs, Claim(p)
  PROVE  ClaimInv'
<1> DEFINE r == tx[p].row
<1>1. r \in Rows /\ tx[p].pc = "claim" /\ rowLock[r] = NoProc
  BY DEF Claim, ClaimInv, ClaimTypes
<1>2. CASE aggregated[r]
  <2>1. tx' = [tx EXCEPT ![p] = NoTx] /\ UNCHANGED <<aggregated, applied, rowLock, sweep>>
    BY <1>2 DEF Claim
  <2>2. DOMAIN tx' = Procs /\ tx'[p].pc = "idle" /\ \A q \in Procs \ {p} : tx'[q] = tx[q]
    BY <2>1 DEF ClaimInv, ClaimTypes, NoTx
  <2> QED
    BY <2>1, <2>2 DEF ClaimInv, ClaimTypes, ClaimHeld, Claimed, AfterClaim, AppliedOnce
<1>3. CASE ~aggregated[r]
  <2>1. /\ tx' = [tx EXCEPT ![p] = [@ EXCEPT !.pc = "sub"]]
        /\ rowLock' = [rowLock EXCEPT ![r] = p]
        /\ UNCHANGED <<aggregated, applied, sweep>>
    BY <1>3 DEF Claim
  <2>2. /\ DOMAIN tx' = Procs
        /\ \A q \in Procs \ {p} : tx'[q] = tx[q]
    BY <2>1 DEF ClaimInv, ClaimTypes
  <2>3. tx'[p].pc = "sub" /\ tx'[p].row = r
    BY <2>1 DEF ClaimInv, ClaimTypes
  <2>4. rowLock'[r] = p /\ \A s \in Rows \ {r} : rowLock'[s] = rowLock[s]
    BY <2>1, <1>1 DEF ClaimInv, ClaimTypes
  <2>5. ClaimTypes'
    BY <2>1, <2>2, <2>3, <1>1 DEF ClaimInv, ClaimTypes, AfterClaim
  <2>6. ClaimHeld'
    <3> SUFFICES ASSUME NEW q \in Procs, Claimed(q)'
                 PROVE  rowLock'[tx'[q].row] = q /\ ~aggregated'[tx'[q].row]
      BY DEF ClaimHeld
    <3>1. CASE q = p
      BY <3>1, <2>1, <2>3, <2>4, <1>3
    <3>2. CASE q # p
      <4>1. rowLock[tx[q].row] = q /\ tx[q].row \in Rows /\ ~aggregated[tx[q].row]
        BY <3>2, <2>2 DEF ClaimInv, ClaimHeld, Claimed, ClaimTypes, AfterClaim
      <4>2. tx[q].row # r
        BY <4>1, <1>1, ProcsFacts
      <4> QED
        BY <4>1, <4>2, <3>2, <2>1, <2>2, <2>4
    <3> QED
      BY <3>1, <3>2
  <2> QED
    BY <2>1, <2>5, <2>6 DEF ClaimInv, AppliedOnce
<1> QED
  BY <1>2, <1>3

\* Releasing p's locks takes no lock from another process.
LEMMA ReleaseFacts ==
  ASSUME ClaimInv, NEW p \in Procs, ReleaseLocks(p)
  PROVE  /\ rowLock' \in [Rows -> Procs \cup {NoProc}]
         /\ \A s \in Rows : rowLock[s] # p => rowLock'[s] = rowLock[s]
  BY DEF ClaimInv, ClaimTypes, ReleaseLocks

\* p's transaction ends; the rows of the others are not p's.
LEMMA OthersKept ==
  ASSUME ClaimInv, NEW p \in Procs, NEW q \in Procs, q # p, Claimed(q), ReleaseLocks(p)
  PROVE  rowLock'[tx[q].row] = q /\ ~aggregated[tx[q].row] /\ rowLock[tx[q].row] # p
<1>1. tx[q].row \in Rows /\ rowLock[tx[q].row] = q /\ ~aggregated[tx[q].row]
  BY DEF ClaimInv, ClaimHeld, Claimed, ClaimTypes, AfterClaim
<1> QED
  BY <1>1, ReleaseFacts

LEMMA CommitKeeps ==
  ASSUME ClaimInv, NEW p \in Procs, Commit(p)
  PROVE  ClaimInv'
<1> DEFINE r == tx[p].row
<1>1. /\ r \in Rows /\ rowLock[r] = p /\ ~aggregated[r] /\ applied[r] = 0
  BY DEF Commit, ClaimInv, ClaimTypes, ClaimHeld, Claimed, AfterClaim, AppliedOnce
<1>2. /\ aggregated' = [aggregated EXCEPT ![r] = TRUE]
      /\ applied' = [applied EXCEPT ![r] = @ + 1]
      /\ ReleaseLocks(p)
      /\ tx' = [tx EXCEPT ![p] = NoTx]
      /\ sweep' = sweep
  BY DEF Commit, Publish
<1>3. DOMAIN tx' = Procs /\ tx'[p].pc = "idle" /\ \A q \in Procs \ {p} : tx'[q] = tx[q]
  BY <1>2 DEF ClaimInv, ClaimTypes, NoTx
<1>4. ClaimTypes'
  <2>1. aggregated' \in [Rows -> BOOLEAN] /\ applied' \in [Rows -> Nat]
    BY <1>1, <1>2 DEF ClaimInv, ClaimTypes
  <2> QED
    BY <2>1, <1>2, <1>3, ReleaseFacts DEF ClaimInv, ClaimTypes
<1>5. ClaimHeld'
  <2> SUFFICES ASSUME NEW q \in Procs, Claimed(q)'
               PROVE  rowLock'[tx'[q].row] = q /\ ~aggregated'[tx'[q].row]
    BY DEF ClaimHeld
  <2>1. q # p /\ tx'[q] = tx[q] /\ Claimed(q)
    BY <1>3 DEF Claimed, AfterClaim
  <2>2. rowLock'[tx[q].row] = q /\ ~aggregated[tx[q].row] /\ tx[q].row # r
    BY <2>1, <1>1, <1>2, OthersKept
  <2> QED
    BY <2>1, <2>2, <1>1, <1>2 DEF ClaimInv, ClaimTypes
<1>6. AppliedOnce'
  BY <1>1, <1>2 DEF ClaimInv, ClaimTypes, AppliedOnce
<1> QED
  BY <1>4, <1>5, <1>6 DEF ClaimInv

\* A transaction that ends, or goes on to increment the key directly, without
\* touching a marker.
LEMMA ReleasedKeeps ==
  ASSUME ClaimInv, NEW p \in Procs, ReleaseLocks(p),
         \/ tx' = [tx EXCEPT ![p] = NoTx]
         \/ /\ tx[p].pc # "idle"
            /\ tx' = [tx EXCEPT ![p].pc = "key", ![p].way = "cost", ![p].wrote = {}],
         UNCHANGED <<aggregated, applied>>, sweep' \subseteq Rows
  PROVE  ClaimInv'
<1>1. /\ DOMAIN tx' = Procs /\ \A q \in Procs \ {p} : tx'[q] = tx[q]
      /\ tx'[p].pc = "idle" \/ (tx'[p].pc = "key" /\ tx'[p].way = "cost" /\ tx'[p].row \in Rows)
  <2>1. CASE tx' = [tx EXCEPT ![p] = NoTx]
    BY <2>1 DEF ClaimInv, ClaimTypes, NoTx
  <2>2. CASE tx' = [tx EXCEPT ![p].pc = "key", ![p].way = "cost", ![p].wrote = {}] /\ tx[p].pc # "idle"
    BY <2>2 DEF ClaimInv, ClaimTypes
  <2> QED
    BY <2>1, <2>2
<1>2. ClaimTypes'
  BY <1>1, ReleaseFacts DEF ClaimInv, ClaimTypes, AfterClaim
<1>3. ClaimHeld'
  <2> SUFFICES ASSUME NEW q \in Procs, Claimed(q)'
               PROVE  rowLock'[tx'[q].row] = q /\ ~aggregated'[tx'[q].row]
    BY DEF ClaimHeld
  <2>1. q # p /\ tx'[q] = tx[q] /\ Claimed(q)
    BY <1>1 DEF Claimed, AfterClaim
  <2> QED
    BY <2>1, OthersKept
<1> QED
  BY <1>2, <1>3 DEF ClaimInv, AppliedOnce

\* A statement of the transaction between its claim and its commit.
LEMMA TableStatementKeeps ==
  ASSUME ClaimInv, NEW p \in Procs,
         ReadSubscription(p) \/ WriteSubscription(p) \/ ReadKey(p) \/ WriteKey(p)
  PROVE  ClaimInv'
<1>1. tx[p].pc \in AfterClaim /\ tx[p].row \in Rows /\ UNCHANGED <<aggregated, applied, rowLock, sweep>>
  BY DEF ReadSubscription, WriteSubscription, ReadKey, WriteKey, AfterClaim, ClaimInv, ClaimTypes, locks
<1>2. DOMAIN tx' = Procs /\ \A q \in Procs \ {p} : tx'[q] = tx[q]
  BY DEF ReadSubscription, WriteSubscription, ReadKey, WriteKey, KeyNotFound, ClaimInv, ClaimTypes
<1>3. \/ tx'[p].pc = "idle"
      \/ tx'[p].pc \in AfterClaim /\ tx'[p].row = tx[p].row /\ tx'[p].way \in {tx[p].way, "cost"}
  <2>0. DOMAIN tx = Procs
    BY DEF ClaimInv, ClaimTypes
  <2>1. CASE ReadSubscription(p)
    BY <2>1, <2>0 DEF ReadSubscription, AfterClaim
  <2>2. CASE WriteSubscription(p)
    BY <2>2, <2>0 DEF WriteSubscription, AfterClaim
  <2>3. CASE KeyNotFound(p)
    BY <2>3, <2>0 DEF KeyNotFound, NoTx, AfterClaim
  <2>4. CASE tx' = [tx EXCEPT ![p].pc = "writekey", ![p].key = key[Owner[tx[p].row]]]
    BY <2>4, <2>0 DEF AfterClaim
  <2>5. CASE tx' = [tx EXCEPT ![p].pc = "commit", ![p].wrote = @ \cup {"key"}]
    BY <2>5, <2>0 DEF AfterClaim
  <2> QED
    BY <2>1, <2>2, <2>3, <2>4, <2>5 DEF ReadKey, WriteKey
<1>4. Claimed(p)' => Claimed(p) /\ tx'[p].row = tx[p].row
  BY <1>1, <1>3 DEF Claimed, AfterClaim
<1>5. tx'[p].pc \in {"idle"} \cup AfterClaim /\ (tx'[p].pc # "idle" => tx'[p].row \in Rows)
  BY <1>1, <1>3
<1> QED
  BY <1>1, <1>2, <1>4, <1>5, StatementKeeps

\* Every step of the specification preserves the invariant.
LEMMA ClaimInvNext == ClaimInv /\ [Next]_vars => ClaimInv'
<1> SUFFICES ASSUME ClaimInv, [Next]_vars PROVE ClaimInv'
  OBVIOUS
<1>1. ASSUME UNCHANGED <<aggregated, applied, rowLock, tx, sweep>> PROVE ClaimInv'
  BY <1>1 DEF ClaimInv, ClaimTypes, ClaimHeld, Claimed, AppliedOnce
<1>2. ASSUME NEW r \in Rows, RecordUsage(r) \/ RecordFails(r) \/ LiveDropped(r) PROVE ClaimInv'
  BY <1>1, <1>2 DEF RecordUsage, RecordFails, LiveDropped, locks
<1>3. ASSUME NEW r \in Rows, LiveApply(r) PROVE ClaimInv'
  <2>1. GetRow(r, r) /\ UNCHANGED <<aggregated, applied, rowLock, sweep>> /\ r \in Procs
    BY <1>3, ProcsFacts DEF LiveApply, locks
  <2>2. sweep' \subseteq Rows
    BY <2>1 DEF ClaimInv, ClaimTypes
  <2> QED
    BY <2>1, <2>2, GetRowKeeps
<1>4. ASSUME NEW r \in Rows, recordGatewayMaterializedCosts(r) PROVE ClaimInv'
  <2>1. DOMAIN tx = Procs /\ r \in Procs
    BY ProcsFacts DEF ClaimInv, ClaimTypes
  <2>2. DOMAIN tx' = Procs /\ \A q \in Procs \ {r} : tx'[q] = tx[q]
    BY <1>4, <2>1 DEF recordGatewayMaterializedCosts
  <2>3. ~Claimed(r)' /\ tx'[r].pc \in AfterClaim /\ tx'[r].row = r
    BY <1>4, <2>1 DEF recordGatewayMaterializedCosts, NoTx, Claimed, AfterClaim
  <2>4. r \in Procs /\ UNCHANGED <<aggregated, applied, rowLock, sweep>>
    BY <1>4, ProcsFacts DEF recordGatewayMaterializedCosts, locks
  <2> QED
    BY <2>2, <2>3, <2>4, StatementKeeps
<1>5. ASSUME NEW r \in Rows, SweepApply(r) PROVE ClaimInv'
  <2>1. GetRow(Reconciler, r) /\ UNCHANGED <<aggregated, applied, rowLock>>
    BY <1>5 DEF SweepApply, locks
  <2>2. sweep' \subseteq Rows
    BY <1>5 DEF SweepApply, ClaimInv, ClaimTypes
  <2> QED
    BY <2>1, <2>2, GetRowKeeps, ProcsFacts
<1>6. CASE SweepPending
  <2>1. UNCHANGED <<aggregated, applied, rowLock, tx>> /\ sweep' \subseteq Rows
    BY <1>6 DEF SweepPending, locks, Sweepable, Recorded
  <2> QED
    BY <2>1 DEF ClaimInv, ClaimTypes, ClaimHeld, Claimed, AppliedOnce
<1>7. ASSUME NEW p \in Procs, CommitUsage(p) \/ CommitCost(p) \/ Rollback(p) PROVE ClaimInv'
  <2>1. /\ ReleaseLocks(p) /\ UNCHANGED <<aggregated, applied>> /\ sweep' \subseteq Rows
        /\ tx[p].pc # "idle"
    BY <1>7 DEF CommitUsage, CommitCost, Rollback, Publish, ClaimInv, ClaimTypes
  <2>2. \/ tx' = [tx EXCEPT ![p] = NoTx]
        \/ tx' = [tx EXCEPT ![p].pc = "key", ![p].way = "cost", ![p].wrote = {}]
    BY <1>7 DEF CommitUsage, CommitCost, Rollback
  <2> QED
    BY <2>1, <2>2, ReleasedKeeps
<1>8. ASSUME NEW p \in Procs, TxStep(p) \/ Rollback(p) PROVE ClaimInv'
  BY <1>7, <1>8, ClaimKeeps, CommitKeeps, TableStatementKeeps DEF TxStep
<1>9. ASSUME NEW u \in Users,
             DeleteKey(u) \/ ResetUsage(u) \/ EditRead(u) \/ EditWrite(u) \/ ReadUsage(u) \/ WriteBackUsage(u)
      PROVE  ClaimInv'
  BY <1>1, <1>9 DEF DeleteKey, ResetUsage, EditRead, EditWrite, ReadUsage, WriteBackUsage, locks
<1>10. CASE Tick
  BY <1>1, <1>10 DEF Tick, locks
<1>11. CASE UNCHANGED vars
  BY <1>1, <1>11 DEF vars, locks
<1> QED
  BY <1>2, <1>3, <1>4, <1>5, <1>6, <1>8, <1>9, <1>10, <1>11 DEF Next

\* Exactly-once aggregation: however many rows, live writers, reconciler
\* sweeps, rollbacks and crashes there are, ApplyAggregation commits the
\* increments of a usage row exactly as often as its aggregated_at marker says.
THEOREM AggregatedExactlyOnce == Spec => []AppliedOnce
<1>1. ClaimInv => AppliedOnce
  BY DEF ClaimInv
<1> QED
  BY ClaimInvInit, ClaimInvNext, <1>1, PTL DEF Spec

-----------------------------------------------------------------------------
(* Type correctness. *)

\* A queued live apply is one of a row that was recorded.
QueuedRecorded == \A r \in Rows : live[r] = "queued" => created[r] # Never

\* Only finitely many increments are committed at any time.
CountedFinite ==
    /\ IsFiniteSet({r \in Rows : aggregated[r]})
    /\ IsFiniteSet(directKey)
    /\ IsFiniteSet({r \in Rows : directSub[r] # Never})

TypeInv == TypeOK /\ QueuedRecorded /\ CountedFinite

LEMMA NoTxType == NoTx \in TxState /\ NoTx.pc = "idle" /\ EmptySub \in SubRow /\ EmptyKey \in KeyRow
  BY DEF NoTx, EmptySub, EmptyKey, TxState, SubRow, KeyRow, NoWindow, Tables

\* The window arithmetic of the two stores keeps counters at zero or above
\* and window starts on the calendar.
LEMMA ResetUsageType ==
  ASSUME NEW s \in SubRow, NEW at \in Nat
  PROVE  resetExpiredUsage(s, at) \in SubRow
  BY DEF resetExpiredUsage, windowRolledForward, startOfDayUTC, SubRow

LEMMA UsageDeltaType ==
  ASSUME NEW s \in SubRow, NEW at \in Nat, NEW cost \in Nat
  PROVE  applyUsageDelta(s, at, cost) \in SubRow
  BY ResetUsageType DEF applyUsageDelta, SubRow

LEMMA KeyUsageType ==
  ASSUME NEW k \in KeyRow, NEW at \in Nat, NEW cost \in Nat
  PROVE  applyAPIKeyCostUsage(k, at, cost) \in KeyRow
<1> DEFINE w == resetAPIKeyExpiredCostWindows(k, at)
<1>1. w \in KeyRow
  BY DEF resetAPIKeyExpiredCostWindows, rollingCounterExpired, KeyRow
<1>2. applyAPIKeyCostUsage(k, at, cost) = [w EXCEPT !.total = @ + cost, !.used = @ + cost]
  BY DEF applyAPIKeyCostUsage
<1> HIDE DEF w
<1>3. w.total + cost \in Nat /\ w.used + cost \in Nat
  BY <1>1 DEF KeyRow
<1>4. \A a, b \in Nat : [w EXCEPT !.total = a, !.used = b] \in KeyRow
  BY <1>1, Zenon DEF KeyRow
<1> QED
  BY <1>2, <1>3, <1>4, Zenon

\* A function changed at one point at most keeps its type.
LEMMA UpdateType ==
  ASSUME NEW X, NEW Y, NEW f \in [X -> Y], NEW x \in X, NEW y \in Y, NEW g,
         g = f \/ g = [f EXCEPT ![x] = y]
  PROVE  g \in [X -> Y]
  OBVIOUS

\* A step of p that leaves the other transactions alone.
LEMMA TxType ==
  ASSUME TypeOK, NEW p \in Procs, NEW t \in TxState, tx' = [tx EXCEPT ![p] = t],
         t.pc # "idle" => t.row \in Rows
  PROVE  /\ tx' \in [Procs -> TxState]
         /\ \A q \in Procs : tx'[q].pc # "idle" => tx'[q].row \in Rows
  BY DEF TypeOK

\* A transaction opens on a recorded row.
LEMMA GetRowType ==
  ASSUME TypeOK, NEW p \in Procs, NEW r \in Rows, GetRow(p, r), created[r] # Never
  PROVE  /\ tx' \in [Procs -> TxState]
         /\ \A q \in Procs : tx'[q].pc # "idle" => tx'[q].row \in Rows
<1> DEFINE opened == [NoTx EXCEPT !.pc = "claim", !.row = r, !.at = created[r]]
<1>1. opened \in TxState /\ opened.row = r
  <2>1. created[r] \in Nat
    BY DEF TypeOK
  <2> QED
    BY <2>1, NoTxType DEF TxState, NoTx
<1>2. tx' = [tx EXCEPT ![p] = NoTx] \/ tx' = [tx EXCEPT ![p] = opened]
  BY DEF GetRow
<1> HIDE DEF opened
<1> QED
  BY <1>1, <1>2, NoTxType, TxType

LEMMA ReleaseType ==
  ASSUME TypeOK, NEW p \in Procs, ReleaseLocks(p)
  PROVE  /\ rowLock' \in [Rows -> Procs \cup {NoProc}]
         /\ tableLock' \in [Tables -> [Users -> Procs \cup {NoProc}]]
<1>1. rowLock' \in [Rows -> Procs \cup {NoProc}]
  BY DEF TypeOK, ReleaseLocks
<1>2. \A t \in Tables, u \in Users : tableLock[t][u] \in Procs \cup {NoProc}
  BY DEF TypeOK
<1>3. tableLock' \in [Tables -> [Users -> Procs \cup {NoProc}]]
  BY <1>2 DEF ReleaseLocks
<1> QED
  BY <1>1, <1>3

\* What an open transaction works on.
LEMMA OpenTx ==
  ASSUME TypeOK, NEW p \in Procs, tx[p].pc # "idle"
  PROVE  /\ tx[p] \in TxState /\ tx[p].row \in Rows /\ tx[p].at \in Nat
         /\ tx[p].sub \in SubRow /\ tx[p].key \in KeyRow
         /\ Owner[tx[p].row] \in Users /\ Cost[tx[p].row] \in Nat
  BY OwnerAssumption, CostAssumption DEF TypeOK, TxState

\* Publishing what was written keeps the tables' shape.
LEMMA PublishType ==
  ASSUME TypeOK, NEW p \in Procs, tx[p].pc # "idle", Publish(p)
  PROVE  /\ sub' \in [Users -> SubRow] /\ key' \in [Users -> KeyRow]
         /\ lostSub' \in [Users -> Nat \cup {NoLoss}] /\ lostKey' \subseteq Users
<1> DEFINE t == tx[p]
           u == Owner[t.row]
           s == applyUsageDelta(t.sub, t.at, Cost[t.row])
           k == applyAPIKeyCostUsage(t.key, t.at, Cost[t.row])
<1>1. s \in SubRow /\ k \in KeyRow /\ u \in Users /\ now \in Nat
  BY OpenTx, UsageDeltaType, KeyUsageType DEF TypeOK
<1>2. sub' = sub \/ sub' = [sub EXCEPT ![u] = s]
  BY Zenon DEF Publish
<1>3. key' = key \/ key' = [key EXCEPT ![u] = k]
  BY Zenon DEF Publish
<1>4. lostSub' = lostSub \/ lostSub' = [lostSub EXCEPT ![u] = now]
  BY Zenon DEF Publish
<1>5. lostKey' = lostKey \/ lostKey' = lostKey \cup {u}
  BY Zenon DEF Publish
<1> HIDE DEF t, u, s, k
<1>0. /\ sub \in [Users -> SubRow] /\ key \in [Users -> KeyRow]
      /\ lostSub \in [Users -> Nat \cup {NoLoss}] /\ lostKey \subseteq Users
  BY DEF TypeOK
<1>6. sub' \in [Users -> SubRow]
  BY <1>0, <1>1, <1>2, UpdateType
<1>8. key' \in [Users -> KeyRow]
  BY <1>0, <1>1, <1>3, UpdateType
<1>7. lostSub' \in [Users -> Nat \cup {NoLoss}] /\ lostKey' \subseteq Users
  BY <1>0, <1>1, <1>4, <1>5
<1> QED
  BY <1>6, <1>7, <1>8

LEMMA TypeInvInit == Init => TypeInv
<1> SUFFICES ASSUME Init PROVE TypeInv
  OBVIOUS
<1>1. TypeOK /\ QueuedRecorded
  BY NoTxType, ProcsFacts
  DEF Init, TypeOK, QueuedRecorded, Recorded, NoRead, NoEdit, NoProc, Never, NoLoss
<1>2. /\ {r \in Rows : aggregated[r]} = {} /\ directKey = {}
      /\ {r \in Rows : directSub[r] # Never} = {}
  BY DEF Init
<1> QED
  BY <1>1, <1>2, FS_EmptySet DEF TypeInv, CountedFinite

\* The costs that are summed up are natural numbers, and so are their sums.
LEMMA CountedTypes ==
  ASSUME TypeInv, NEW u \in Users
  PROVE  /\ IsFiniteSet({r \in RowsOf(u) : aggregated[r]})
         /\ IsFiniteSet(RowsOf(u) \cap directKey)
         /\ IsFiniteSet({r \in RowsOf(u) : directSub[r] # Never})
         /\ CountedCost(u) \in Nat
<1>1. /\ {r \in RowsOf(u) : aggregated[r]} \subseteq {r \in Rows : aggregated[r]}
      /\ RowsOf(u) \cap directKey \subseteq directKey
      /\ {r \in RowsOf(u) : directSub[r] # Never} \subseteq {r \in Rows : directSub[r] # Never}
      /\ RowsOf(u) \subseteq Rows
  BY DEF RowsOf
<1>2. /\ IsFiniteSet({r \in RowsOf(u) : aggregated[r]})
      /\ IsFiniteSet(RowsOf(u) \cap directKey)
      /\ IsFiniteSet({r \in RowsOf(u) : directSub[r] # Never})
  BY <1>1, FS_Subset DEF TypeInv, CountedFinite
<1>3. TotalCost({r \in RowsOf(u) : aggregated[r]}) \in Nat
  BY <1>1, <1>2, CostAssumption, SumNat DEF TotalCost
<1>4. TotalCost(RowsOf(u) \cap directKey) \in Nat
  BY <1>1, <1>2, CostAssumption, SumNat DEF TotalCost
<1> QED
  BY <1>2, <1>3, <1>4 DEF CountedCost

\* What none of the table statements touches.
LEMMA StatementType ==
  ASSUME TypeInv, NEW p \in Procs, NEW t \in TxState, tx' = [tx EXCEPT ![p] = t],
         t.pc # "idle" => t.row \in Rows,
         rowLock' \in [Rows -> Procs \cup {NoProc}],
         tableLock' \in [Tables -> [Users -> Procs \cup {NoProc}]],
         UNCHANGED <<env, live, aggregated, applied, counters, sweep, others, faults>>
  PROVE  TypeInv'
<1>1. /\ tx' \in [Procs -> TxState]
      /\ \A q \in Procs : tx'[q].pc # "idle" => tx'[q].row \in Rows
  BY TxType DEF TypeInv
<1>2. CountedFinite'
  BY DEF TypeInv, CountedFinite, counters, history
<1> QED
  BY <1>1, <1>2 DEF TypeInv, TypeOK, QueuedRecorded, Recorded, env, counters, history, others

\* The two outcomes of a key that is no longer there.
LEMMA KeyNotFoundType ==
  ASSUME TypeOK, NEW p \in Procs, tx[p].pc # "idle", KeyNotFound(p)
  PROVE  \E t \in TxState : tx' = [tx EXCEPT ![p] = t] /\ (t.pc # "idle" => t.row \in Rows)
<1>1. tx[p] \in TxState /\ tx[p].row \in Rows
  BY OpenTx
<1>2. tx' = [tx EXCEPT ![p] = NoTx] \/ tx' = [tx EXCEPT ![p] = [tx[p] EXCEPT !.pc = "commit"]]
  BY DEF KeyNotFound, TypeOK
<1>3. [tx[p] EXCEPT !.pc = "commit"] \in TxState /\ [tx[p] EXCEPT !.pc = "commit"].row \in Rows
  BY <1>1 DEF TxState
<1> QED
  BY <1>2, <1>3, NoTxType

LEMMA ReadStatementType ==
  ASSUME TypeInv, NEW p \in Procs, Claim(p) \/ ReadSubscription(p) \/ ReadKey(p)
  PROVE  TypeInv'
<1> USE DEF TypeInv
<1>1. tx[p].pc # "idle"
  BY DEF Claim, ReadSubscription, ReadKey
<1>2. /\ tx[p] \in TxState /\ tx[p].row \in Rows
      /\ sub[Owner[tx[p].row]] \in SubRow /\ key[Owner[tx[p].row]] \in KeyRow
  BY <1>1, OpenTx DEF TypeOK
<1>3. CASE Claim(p)
  <2>1. PICK t \in TxState : tx' = [tx EXCEPT ![p] = t] /\ (t.pc # "idle" => t.row \in Rows)
    <3>1. [tx[p] EXCEPT !.pc = "sub"] \in TxState /\ [tx[p] EXCEPT !.pc = "sub"].row \in Rows
      BY <1>2 DEF TxState
    <3>2. tx' = [tx EXCEPT ![p] = NoTx] \/ tx' = [tx EXCEPT ![p] = [tx[p] EXCEPT !.pc = "sub"]]
      BY <1>3 DEF Claim
    <3> QED
      BY <3>1, <3>2, NoTxType
  <2>2. rowLock' \in [Rows -> Procs \cup {NoProc}]
    BY <1>3, <1>2 DEF Claim, TypeOK
  <2>3. /\ tableLock' \in [Tables -> [Users -> Procs \cup {NoProc}]]
        /\ UNCHANGED <<env, live, aggregated, applied, counters, sweep, others, faults>>
    BY <1>3 DEF Claim, TypeOK
  <2> QED
    BY <2>1, <2>2, <2>3, StatementType
<1>4. CASE ReadSubscription(p)
  <2> DEFINE a == [tx[p] EXCEPT !.pc = "writesub", !.sub = sub[Owner[tx[p].row]]]
             b == [tx[p] EXCEPT !.pc = "key", !.way = IF @ = "usage" THEN "cost" ELSE @]
  <2>1. tx' = [tx EXCEPT ![p] = a] \/ tx' = [tx EXCEPT ![p] = b]
    BY <1>4, Zenon DEF ReadSubscription, TypeOK
  <2>2. a \in TxState /\ a.row \in Rows
    BY <1>2 DEF TxState
  <2>3. b \in TxState /\ b.row \in Rows
    BY <1>2 DEF TxState
  <2>4. /\ rowLock' \in [Rows -> Procs \cup {NoProc}]
        /\ tableLock' \in [Tables -> [Users -> Procs \cup {NoProc}]]
        /\ UNCHANGED <<env, live, aggregated, applied, counters, sweep, others, faults>>
    BY <1>4 DEF ReadSubscription, locks, TypeOK
  <2> HIDE DEF a, b
  <2> QED
    BY <2>1, <2>2, <2>3, <2>4, StatementType
<1>5. CASE ReadKey(p)
  <2> DEFINE a == [tx[p] EXCEPT !.pc = "writekey", !.key = key[Owner[tx[p].row]]]
  <2>1. tx' = [tx EXCEPT ![p] = a] \/ KeyNotFound(p)
    BY <1>5, Zenon DEF ReadKey, TypeOK
  <2>2. a \in TxState /\ a.row \in Rows
    BY <1>2 DEF TxState
  <2>4. /\ rowLock' \in [Rows -> Procs \cup {NoProc}]
        /\ tableLock' \in [Tables -> [Users -> Procs \cup {NoProc}]]
        /\ UNCHANGED <<env, live, aggregated, applied, counters, sweep, others, faults>>
    BY <1>5 DEF ReadKey, locks, TypeOK
  <2> HIDE DEF a
  <2>5. PICK t \in TxState : tx' = [tx EXCEPT ![p] = t] /\ (t.pc # "idle" => t.row \in Rows)
    BY <2>1, <2>2, <1>1, KeyNotFoundType
  <2> QED
    BY <2>4, <2>5, StatementType
<1> QED
  BY <1>3, <1>4, <1>5

LEMMA WriteStatementType ==
  ASSUME TypeInv, NEW p \in Procs, WriteSubscription(p) \/ WriteKey(p)
  PROVE  TypeInv'
<1> USE DEF TypeInv
<1>1. tx[p].pc # "idle"
  BY DEF WriteSubscription, WriteKey
<1>2. tx[p] \in TxState /\ tx[p].row \in Rows /\ Owner[tx[p].row] \in Users
  BY <1>1, OpenTx
<1>3. CASE WriteSubscription(p)
  <2> DEFINE a == [tx[p] EXCEPT !.pc = IF tx[p].way = "usage" THEN "commit" ELSE "key", !.wrote = {"sub"}]
  <2>1. tx' = [tx EXCEPT ![p] = a]
    BY <1>3, Zenon DEF WriteSubscription, TypeOK
  <2>2. a \in TxState /\ a.row \in Rows
    BY <1>2 DEF TxState, Tables
  <2>3. tableLock' \in [Tables -> [Users -> Procs \cup {NoProc}]]
    BY <1>3, <1>2 DEF WriteSubscription, TypeOK, Tables
  <2>4. /\ rowLock' \in [Rows -> Procs \cup {NoProc}]
        /\ UNCHANGED <<env, live, aggregated, applied, counters, sweep, others, faults>>
    BY <1>3 DEF WriteSubscription, TypeOK
  <2> HIDE DEF a
  <2> QED
    BY <2>1, <2>2, <2>3, <2>4, StatementType
<1>4. CASE WriteKey(p)
  <2> DEFINE a == [tx[p] EXCEPT !.pc = "commit", !.wrote = @ \cup {"key"}]
  <2>1. tx' = [tx EXCEPT ![p] = a] \/ KeyNotFound(p)
    BY <1>4, Zenon DEF WriteKey, TypeOK
  <2>2. a \in TxState /\ a.row \in Rows
    BY <1>2, Zenon DEF TxState, Tables
  <2>3. tableLock' \in [Tables -> [Users -> Procs \cup {NoProc}]]
    <3>1. tableLock' = tableLock \/ tableLock' = [tableLock EXCEPT !["key"][Owner[tx[p].row]] = p]
      BY <1>4, Zenon DEF WriteKey
    <3>2. tableLock \in [Tables -> [Users -> Procs \cup {NoProc}]] /\ "key" \in Tables
      BY DEF TypeOK, Tables
    <3> QED
      BY <3>1, <3>2, <1>2
  <2>4. /\ rowLock' \in [Rows -> Procs \cup {NoProc}]
        /\ UNCHANGED <<env, live, aggregated, applied, counters, sweep, others, faults>>
    BY <1>4 DEF WriteKey, TypeOK
  <2> HIDE DEF a
  <2>5. PICK t \in TxState : tx' = [tx EXCEPT ![p] = t] /\ (t.pc # "idle" => t.row \in Rows)
    BY <2>1, <2>2, <1>1, KeyNotFoundType
  <2> QED
    BY <2>3, <2>4, <2>5, StatementType
<1> QED
  BY <1>3, <1>4

\* Commits and rollbacks: the transaction ends or goes on with the key.
LEMMA EndType ==
  ASSUME TypeInv, NEW p \in Procs, Commit(p) \/ CommitUsage(p) \/ CommitCost(p) \/ Rollback(p)
  PROVE  TypeInv'
<1> USE DEF TypeInv
<1>1. tx[p].pc # "idle" /\ ReleaseLocks(p)
  BY DEF Commit, CommitUsage, CommitCost, Rollback, Publish
<1>2. tx[p] \in TxState /\ tx[p].row \in Rows /\ tx[p].at \in Nat
  BY <1>1, OpenTx
<1>3. /\ tx' \in [Procs -> TxState]
      /\ \A q \in Procs : tx'[q].pc # "idle" => tx'[q].row \in Rows
  <2> DEFINE a == [tx[p] EXCEPT !.pc = "key", !.way = "cost", !.wrote = {}]
  <2>1. tx' = [tx EXCEPT ![p] = NoTx] \/ tx' = [tx EXCEPT ![p] = a]
    BY Zenon DEF Commit, CommitUsage, CommitCost, Rollback, TypeOK
  <2>2. a \in TxState /\ a.row \in Rows
    BY <1>2 DEF TxState
  <2> HIDE DEF a
  <2> QED
    BY <2>1, <2>2, NoTxType, TxType
<1>4. /\ UNCHANGED <<now, created, keyLive, live, reader, editor, waived>>
      /\ sweep' \subseteq Recorded' /\ faults' \in Nat
  BY DEF Commit, CommitUsage, CommitCost, Rollback, Fault, TypeOK, Recorded, env, others, counters, history
<1>5. /\ sub' \in [Users -> SubRow] /\ key' \in [Users -> KeyRow]
      /\ lostSub' \in [Users -> Nat \cup {NoLoss}] /\ lostKey' \subseteq Users
  <2>1. CASE Publish(p)
    BY <2>1, <1>1, PublishType
  <2>2. CASE UNCHANGED counters
    BY <2>2 DEF counters, history, TypeOK
  <2> QED
    BY <2>1, <2>2 DEF Commit, CommitUsage, CommitCost, Rollback
<1>6. aggregated' \in [Rows -> BOOLEAN] /\ applied' \in [Rows -> Nat]
  <2>1. \/ UNCHANGED <<aggregated, applied>>
        \/ /\ aggregated' = [aggregated EXCEPT ![tx[p].row] = TRUE]
           /\ applied' = [applied EXCEPT ![tx[p].row] = applied[tx[p].row] + 1]
    BY DEF Commit, CommitUsage, CommitCost, Rollback
  <2>2. aggregated \in [Rows -> BOOLEAN] /\ applied \in [Rows -> Nat]
    BY DEF TypeOK
  <2>3. aggregated' \in [Rows -> BOOLEAN]
    BY <2>1, <2>2, <1>2, UpdateType
  <2>4. applied[tx[p].row] + 1 \in Nat
    BY <2>2, <1>2
  <2>5. applied' \in [Rows -> Nat]
    BY <2>1, <2>2, <2>4, <1>2, UpdateType
  <2> QED
    BY <2>3, <2>5
<1>7. directSub' \in [Rows -> Nat \cup {Never}] /\ directKey' \subseteq Rows
  BY <1>2 DEF Commit, CommitUsage, CommitCost, Rollback, TypeOK, counters, history
<1>8. CountedFinite'
  <2> DEFINE A == {r \in Rows : aggregated[r]}
             S == {r \in Rows : directSub[r] # Never}
  <2>1. A' \subseteq A \cup {tx[p].row}
    BY DEF Commit, CommitUsage, CommitCost, Rollback, TypeOK
  <2>2. S' \subseteq S \cup {tx[p].row}
    BY DEF Commit, CommitUsage, CommitCost, Rollback, TypeOK, counters, history
  <2>3. directKey' \subseteq directKey \cup {tx[p].row}
    BY DEF Commit, CommitUsage, CommitCost, Rollback, counters, history
  <2>4. IsFiniteSet(A) /\ IsFiniteSet(S) /\ IsFiniteSet(directKey)
    BY DEF CountedFinite
  <2> HIDE DEF A, S
  <2>5. IsFiniteSet(A') /\ IsFiniteSet(S') /\ IsFiniteSet(directKey')
    BY <2>1, <2>2, <2>3, <2>4, FS_AddElement, FS_Subset
  <2> QED
    BY <2>5 DEF CountedFinite, A, S
<1> QED
  BY <1>1, <1>3, <1>4, <1>5, <1>6, <1>7, <1>8, ReleaseType DEF TypeOK, QueuedRecorded

\* Resets, edits and entitlement checks write rows of their tables' shape.
LEMMA OthersType ==
  ASSUME TypeInv, NEW u \in Users,
         DeleteKey(u) \/ ResetUsage(u) \/ EditRead(u) \/ EditWrite(u) \/ ReadUsage(u) \/ WriteBackUsage(u)
  PROVE  TypeInv'
<1> USE DEF TypeInv
<1>0. /\ sub[u] \in SubRow /\ key[u] \in KeyRow /\ now \in Nat
      /\ reader[u].sub \in SubRow /\ reader[u].at \in Nat /\ editor[u].key \in KeyRow
  BY DEF TypeOK
<1>7. CountedFinite'
  BY DEF CountedFinite, DeleteKey, ResetUsage, EditRead, EditWrite, ReadUsage, WriteBackUsage, counters, history
<1>1. CASE DeleteKey(u)
  BY <1>1, <1>7 DEF DeleteKey, TypeOK, QueuedRecorded, Recorded, counters, history, locks, others
<1>2. CASE ResetUsage(u)
  <2>1. CountedCost(u) \in Nat
    BY CountedTypes
  <2> QED
    BY <1>2, <1>7, <2>1, NoTxType DEF ResetUsage, TypeOK, QueuedRecorded, Recorded, env, locks, others
<1>3. CASE EditRead(u)
  <2>1. editor' \in [Users -> [open : BOOLEAN, key : KeyRow]]
    BY <1>3, <1>0 DEF EditRead, TypeOK
  <2> QED
    BY <1>7, <1>3, <2>1 DEF EditRead, TypeOK, QueuedRecorded, Recorded, counters, history, locks, env
<1>4. CASE EditWrite(u)
  <2> DEFINE k == [editor[u].key EXCEPT !.start = IF @ = NoWindow THEN key[u].start ELSE @]
  <2>1. k \in KeyRow
    BY <1>0 DEF KeyRow
  <2>2. key' = key \/ key' = [key EXCEPT ![u] = k]
    BY <1>4, Zenon DEF EditWrite
  <2> HIDE DEF k
  <2>3. key' \in [Users -> KeyRow]
    BY <2>1, <2>2 DEF TypeOK
  <2>4. NoEdit \in [open : BOOLEAN, key : KeyRow]
    BY NoTxType DEF NoEdit
  <2>5. lostKey' \subseteq Users /\ editor' \in [Users -> [open : BOOLEAN, key : KeyRow]]
    BY <1>4, <2>4 DEF EditWrite, TypeOK
  <2> QED
    BY <1>7, <1>4, <2>3, <2>5 DEF EditWrite, TypeOK, QueuedRecorded, Recorded, locks, env
<1>5. CASE ReadUsage(u)
  <2>1. reader' \in [Users -> [open : BOOLEAN, at : Nat, sub : SubRow]]
    BY <1>5, <1>0 DEF ReadUsage, TypeOK
  <2> QED
    BY <1>7, <1>5, <2>1 DEF ReadUsage, TypeOK, QueuedRecorded, Recorded, counters, history, locks, env
<1>6. CASE WriteBackUsage(u)
  <2>1. NoRead \in [open : BOOLEAN, at : Nat, sub : SubRow]
    BY NoTxType DEF NoRead
  <2>2. resetExpiredUsage(reader[u].sub, reader[u].at) \in SubRow
    BY <1>0, ResetUsageType
  <2>3. sub' \in [Users -> SubRow] /\ lostSub' \in [Users -> Nat \cup {NoLoss}]
    BY <1>6, <2>2, <1>0 DEF WriteBackUsage, TypeOK
  <2> QED
    BY <1>7, <1>6, <2>1, <2>3 DEF WriteBackUsage, TypeOK, QueuedRecorded, Recorded, locks, env
<1> QED
  BY <1>1, <1>2, <1>3, <1>4, <1>5, <1>6

\* Every step of the specification preserves the types.
LEMMA TypeInvNext == TypeInv /\ [Next]_vars => TypeInv'
<1> SUFFICES ASSUME TypeInv, [Next]_vars PROVE TypeInv'
  OBVIOUS
<1> USE DEF TypeInv
<1>1. ASSUME NEW r \in Rows, RecordUsage(r) \/ RecordFails(r) PROVE TypeInv'
  <2>1. /\ created' \in [Rows -> Nat \cup {Never}]
        /\ live' \in [Rows -> {"none", "queued", "direct", "over"}]
        /\ \A q \in Rows : created[q] # Never => created'[q] # Never
    <3>1. /\ created' = created \/ created' = [created EXCEPT ![r] = now]
          /\ \E x \in {"queued", "direct", "over"} : live' = [live EXCEPT ![r] = x]
      BY <1>1 DEF RecordUsage, RecordFails
    <3>2. /\ created \in [Rows -> Nat \cup {Never}] /\ now \in Nat
          /\ live \in [Rows -> {"none", "queued", "direct", "over"}]
      BY DEF TypeOK
    <3> QED
      BY <3>1, <3>2 DEF Never
  <2>2. QueuedRecorded'
    BY <1>1 DEF RecordUsage, RecordFails, QueuedRecorded, TypeOK, Never
  <2>3. sweep' \subseteq Recorded'
    BY <1>1, <2>1 DEF RecordUsage, RecordFails, TypeOK, Recorded
  <2>4. CountedFinite'
    BY <1>1 DEF RecordUsage, RecordFails, CountedFinite, counters, history
  <2> QED
    BY <1>1, <2>1, <2>2, <2>3, <2>4 DEF RecordUsage, RecordFails, TypeOK, counters, history, locks, others
<1>2. ASSUME NEW r \in Rows, LiveDropped(r) PROVE TypeInv'
  BY <1>2 DEF LiveDropped, Fault, TypeOK, QueuedRecorded, CountedFinite, Recorded, counters, history, locks, env, others
<1>3. ASSUME NEW r \in Rows, LiveApply(r) PROVE TypeInv'
  <2>1. /\ tx' \in [Procs -> TxState]
        /\ \A q \in Procs : tx'[q].pc # "idle" => tx'[q].row \in Rows
    BY <1>3, GetRowType, ProcsFacts DEF LiveApply, QueuedRecorded
  <2> QED
    BY <1>3, <2>1 DEF LiveApply, TypeOK, QueuedRecorded, CountedFinite, Recorded, counters, history, locks, env, others
<1>4. ASSUME NEW r \in Rows, recordGatewayMaterializedCosts(r) PROVE TypeInv'
  <2> DEFINE t == [NoTx EXCEPT !.pc = "sub", !.way = "usage", !.row = r, !.at = now]
  <2>1. t \in TxState /\ t.row = r
    BY NoTxType DEF TypeOK, TxState, NoTx
  <2>2. tx' = [tx EXCEPT ![r] = t] /\ r \in Procs
    BY <1>4, ProcsFacts DEF recordGatewayMaterializedCosts
  <2> HIDE DEF t
  <2>3. /\ tx' \in [Procs -> TxState]
        /\ \A q \in Procs : tx'[q].pc # "idle" => tx'[q].row \in Rows
    BY <2>1, <2>2, TxType
  <2> QED
    BY <1>4, <2>3 DEF recordGatewayMaterializedCosts, TypeOK, QueuedRecorded, CountedFinite, Recorded,
      counters, history, locks, env, others
<1>5. CASE SweepPending
  BY <1>5 DEF SweepPending, Sweepable, TypeOK, QueuedRecorded, CountedFinite, Recorded, counters, history, locks, env, others
<1>6. ASSUME NEW r \in Rows, SweepApply(r) PROVE TypeInv'
  <2>1. /\ tx' \in [Procs -> TxState]
        /\ \A q \in Procs : tx'[q].pc # "idle" => tx'[q].row \in Rows
    BY <1>6, GetRowType, ProcsFacts DEF SweepApply, TypeOK, Recorded
  <2> QED
    BY <1>6, <2>1 DEF SweepApply, TypeOK, QueuedRecorded, CountedFinite, Recorded, counters, history, locks, env, others
<1>7. ASSUME NEW p \in Procs, TxStep(p) \/ Rollback(p) PROVE TypeInv'
  BY <1>7, ReadStatementType, WriteStatementType, EndType DEF TxStep
<1>8. ASSUME NEW u \in Users,
             DeleteKey(u) \/ ResetUsage(u) \/ EditRead(u) \/ EditWrite(u) \/ ReadUsage(u) \/ WriteBackUsage(u)
      PROVE  TypeInv'
  BY <1>8, OthersType
<1>9. CASE Tick
  BY <1>9 DEF Tick, TypeOK, QueuedRecorded, CountedFinite, Recorded, counters, history, locks, others
<1>10. CASE UNCHANGED vars
  BY <1>10 DEF vars, TypeOK, QueuedRecorded, CountedFinite, Recorded, counters, history, locks, env, others
<1> QED
  BY <1>1, <1>2, <1>3, <1>4, <1>5, <1>6, <1>7, <1>8, <1>9, <1>10 DEF Next

\* Type correctness of the aggregation: no interleaving of transactions,
\* sweeps, edits, resets and entitlement checks makes a cost counter negative,
\* loses the shape of a table or works on a row that was never recorded.
THEOREM AggregationTypes == Spec => []TypeOK
<1>1. TypeInv => TypeOK
  BY DEF TypeInv
<1> QED
  BY TypeInvInit, TypeInvNext, <1>1, PTL DEF Spec

-----------------------------------------------------------------------------
(* What the counters hold. *)

\* Rows of u whose increments are committed: aggregated, or counted directly
\* on the subscription.
Done(u) == {r \in RowsOf(u) : aggregated[r]}
SubDirect(u) == {r \in RowsOf(u) : directSub[r] # Never}

\* A row is recorded once and counted directly once at most; nothing is
\* counted for a time that has not come yet.
RowInv ==
    \A r \in Rows :
        /\ created[r] <= now /\ directSub[r] <= now
        /\ created[r] # Never => live[r] # "none"
        /\ aggregated[r] => created[r] # Never
        /\ live[r] # "over" => r \notin directKey /\ directSub[r] = Never

\* What ApplyAggregation has written by the statement it is at: it commits
\* without the subscription only when there is none, and without the key only
\* when the key is deleted.
AggregationInv(p) ==
    LET u == Owner[tx[p].row] IN
    /\ created[tx[p].row] = tx[p].at
    /\ tx[p].pc \in {"claim", "sub", "writesub"} => tx[p].wrote = {}
    /\ tx[p].pc = "writesub" => u \in Subscribed
    /\ tx[p].pc \in {"key", "writekey", "commit"} => ("sub" \in tx[p].wrote <=> u \in Subscribed)
    /\ tx[p].pc \in {"key", "writekey"} => "key" \notin tx[p].wrote
    /\ tx[p].pc = "commit" /\ "key" \notin tx[p].wrote => ~keyLive[u]

\* The direct increments: one process, the row's own, runs them, once.
UsageInv(p) ==
    /\ p = tx[p].row /\ live[p] = "over" /\ directSub[p] = Never /\ p \notin directKey
    /\ tx[p].pc \in {"sub", "writesub", "commit"}
    /\ tx[p].wrote = IF tx[p].pc = "commit" THEN {"sub"} ELSE {}

CostInv(p) ==
    /\ p = tx[p].row /\ live[p] = "over" /\ p \notin directKey
    /\ tx[p].pc \in {"key", "writekey", "commit"}
    /\ tx[p].wrote = IF tx[p].pc = "commit" THEN {"key"} ELSE {}

\* A copy of the key a transaction holds, current or not, never shows more
\* than what is counted by now.
TxInv(p) ==
    tx[p].pc # "idle" =>
        /\ tx[p].at <= now
        /\ \A u \in Users : Owner[tx[p].row] = u => tx[p].key.total <= CountedCost(u)
        /\ tx[p].way = "aggregation" => AggregationInv(p)
        /\ tx[p].way = "usage" => UsageInv(p)
        /\ tx[p].way = "cost" => CostInv(p)

KeyInv(u) ==
    /\ editor[u].key.total <= CountedCost(u)
    /\ key[u].total <= CountedCost(u)
    /\ keyLive[u] /\ u \notin lostKey => key[u].total = CountedCost(u) - waived[u]

\* No counted row is younger than both the stored window and the last loss.
SubInv(u) ==
    /\ reader[u].at <= now
    /\ u \in Subscribed =>
         /\ \A x \in Int : sub[u].start = x /\ x > lostSub[u] => sub[u].used >= CountedSince(u, x)
         /\ \A r \in Done(u) : created[r] <= sub[u].start \/ created[r] <= lostSub[u]
         /\ \A r \in SubDirect(u) : directSub[r] <= sub[u].start \/ directSub[r] <= lostSub[u]

CounterInv ==
    /\ TypeInv /\ ClaimInv /\ RowInv
    /\ \A p \in Procs : TxInv(p)
    /\ \A u \in Users : KeyInv(u)
    /\ \A u \in Users : SubInv(u)

\* Sums of costs grow by what is added at most, and by exactly that when the
\* row is new.
LEMMA MoreCost ==
  ASSUME NEW S \in SUBSET Rows, IsFiniteSet(S), NEW r \in Rows, NEW T, T \subseteq S \cup {r}
  PROVE  /\ TotalCost(S) \in Nat /\ TotalCost(T) \in Nat /\ IsFiniteSet(T)
         /\ TotalCost(T) <= TotalCost(S) + Cost[r]
         /\ r \notin S => TotalCost(S \cup {r}) = TotalCost(S) + Cost[r]
<1>1. IsFiniteSet(S \cup {r}) /\ \A q \in S \cup {r} : Cost[q] \in Nat
  BY FS_AddElement, CostAssumption
<1>2. IsFiniteSet(T) /\ \A q \in T : Cost[q] \in Nat
  BY <1>1, FS_Subset
<1>3. TotalCost(S) \in Nat /\ TotalCost(T) \in Nat
  BY <1>1, <1>2, SumNat DEF TotalCost
<1>4. TotalCost(T) <= TotalCost(S \cup {r})
  BY <1>1, SumMonotone DEF TotalCost
<1>5. r \notin S => TotalCost(S \cup {r}) = Cost[r] + TotalCost(S)
  <2>1. \A q \in S \cup {r} : Cost[q] \in Int
    BY <1>1
  <2> QED
    BY <2>1, SumAdd DEF TotalCost
<1>6. r \in S => S \cup {r} = S
  OBVIOUS
<1> QED
  BY <1>1, <1>2, <1>3, <1>4, <1>5, <1>6

\* What a write of the subscription does to its window and usage.
Delta(s, at, cost, n) ==
    /\ at > s.start => n.start = at /\ n.used = cost
    /\ at <= s.start => n.start = s.start /\ n.used = s.used + cost

LEMMA ResetFacts ==
  ASSUME NEW s \in SubRow, NEW at \in Nat
  PROVE  Delta(s, at, 0, resetExpiredUsage(s, at))
<1>1. s.start \in Nat \cup {-1} /\ s.used \in Nat
  BY DEF SubRow, NoWindow
<1>2. CASE at > s.start
  BY <1>1, <1>2 DEF Delta, resetExpiredUsage, windowRolledForward, startOfDayUTC
<1>3. CASE at <= s.start
  BY <1>1, <1>3 DEF Delta, resetExpiredUsage, windowRolledForward, startOfDayUTC, NoWindow
<1> QED
  BY <1>1, <1>2, <1>3

LEMMA DeltaFacts ==
  ASSUME NEW s \in SubRow, NEW at \in Nat, NEW cost \in Nat
  PROVE  Delta(s, at, cost, applyUsageDelta(s, at, cost))
<1>1. PICK w : w = resetExpiredUsage(s, at)
  OBVIOUS
<1>2. w \in SubRow /\ Delta(s, at, 0, w)
  BY <1>1, ResetUsageType, ResetFacts
<1>3. applyUsageDelta(s, at, cost) = [w EXCEPT !.used = w.used + cost]
  BY <1>1 DEF applyUsageDelta
<1>4. applyUsageDelta(s, at, cost).start = w.start /\ applyUsageDelta(s, at, cost).used = w.used + cost
  BY <1>2, <1>3 DEF SubRow
<1> QED
  BY <1>2, <1>4 DEF Delta, SubRow

\* The key's lifetime cost grows by the row's cost, window or not.
LEMMA KeyTotalGrows ==
  ASSUME NEW k \in KeyRow, NEW at \in Nat, NEW cost \in Nat
  PROVE  applyAPIKeyCostUsage(k, at, cost).total = k.total + cost
<1>1. PICK w : w = resetAPIKeyExpiredCostWindows(k, at)
  OBVIOUS
<1>2. w \in KeyRow /\ w.total = k.total
  BY <1>1 DEF resetAPIKeyExpiredCostWindows, rollingCounterExpired, KeyRow
<1>3. applyAPIKeyCostUsage(k, at, cost) = [w EXCEPT !.total = w.total + cost, !.used = w.used + cost]
  BY <1>1 DEF applyAPIKeyCostUsage
<1> QED
  BY <1>2, <1>3 DEF KeyRow

\* The sums are natural numbers, before and after a step.
SumsNatural ==
    \A u \in Users : /\ CountedCost(u) \in Nat
                     /\ \A x \in Int : CountedSince(u, x) \in Nat

LEMMA SumsNat == TypeInv => SumsNatural
<1> SUFFICES ASSUME TypeInv, NEW u \in Users, NEW x \in Int
             PROVE  CountedCost(u) \in Nat /\ CountedSince(u, x) \in Nat
  BY DEF SumsNatural
<1> DEFINE A == {r \in RowsOf(u) : aggregated[r] /\ created[r] >= x}
           S == {r \in RowsOf(u) : directSub[r] # Never /\ directSub[r] >= x}
<1>1. /\ A \subseteq {r \in RowsOf(u) : aggregated[r]} /\ A \subseteq Rows
      /\ S \subseteq {r \in RowsOf(u) : directSub[r] # Never} /\ S \subseteq Rows
  BY DEF RowsOf
<1>2. CountedSince(u, x) = TotalCost(A) + TotalCost(S)
  BY DEF CountedSince
<1> HIDE DEF A, S
<1>3. IsFiniteSet(A) /\ IsFiniteSet(S)
  BY <1>1, CountedTypes, FS_Subset
<1>4. TotalCost(A) \in Nat /\ TotalCost(S) \in Nat
  BY <1>1, <1>3, CostAssumption, SumNat DEF TotalCost
<1>5. CountedCost(u) \in Nat
  BY CountedTypes
<1>6. CountedSince(u, x) \in Nat
  BY <1>2, <1>4
<1> QED
  BY <1>5, <1>6

LEMMA SumsNatNext ==
    TypeInv' => \A u \in Users : /\ CountedCost(u)' \in Nat
                                 /\ \A x \in Int : CountedSince(u, x)' \in Nat
<1>1. TypeInv' => SumsNatural'
  BY SumsNat, PTL
<1> QED
  BY <1>1 DEF SumsNatural

\* Nothing is counted from x on when every counted row is older.
LEMMA NothingSince ==
  ASSUME NEW u \in Users, NEW x \in Int,
         \A r \in Done(u) : ~(created[r] >= x),
         \A r \in SubDirect(u) : ~(directSub[r] >= x)
  PROVE  CountedSince(u, x) = 0
<1>1. /\ {r \in RowsOf(u) : aggregated[r] /\ created[r] >= x} = {}
      /\ {r \in RowsOf(u) : directSub[r] # Never /\ directSub[r] >= x} = {}
  BY DEF Done, SubDirect
<1>2. TotalCost({}) = 0
  BY SumEmpty DEF TotalCost
<1> QED
  BY <1>1, <1>2 DEF CountedSince

\* Before the first row every counter is at zero.
LEMMA CounterInvInit == Init => CounterInv
<1> SUFFICES ASSUME Init PROVE CounterInv
  OBVIOUS
<1>1. TypeInv /\ ClaimInv
  BY TypeInvInit, ClaimInvInit
<1>2. \A p \in Procs : TxInv(p)
  BY NoTxType DEF Init, TxInv
<1>3. RowInv
  BY DEF Init, RowInv, Never
<1>4. TotalCost({}) = 0
  BY SumEmpty DEF TotalCost
<1>5. ASSUME NEW u \in Users PROVE KeyInv(u) /\ SubInv(u)
  <2>1. /\ Done(u) = {} /\ SubDirect(u) = {}
        /\ {r \in RowsOf(u) : aggregated[r]} = {} /\ RowsOf(u) \cap directKey = {}
    BY DEF Init, Done, SubDirect, RowsOf
  <2>2. CountedCost(u) = TotalCost({}) + TotalCost({})
    BY <2>1 DEF CountedCost
  <2>3. CountedCost(u) = 0 /\ \A x \in Int : CountedSince(u, x) = 0
    BY <2>1, <2>2, <1>4, NothingSince
  <2>4. /\ key[u].total = 0 /\ editor[u].key.total = 0 /\ waived[u] = 0
        /\ sub[u].used = 0 /\ reader[u].at = 0 /\ now = 0
    BY DEF Init, EmptyKey, EmptySub, NoEdit, NoRead
  <2>5. KeyInv(u)
    BY <2>3, <2>4 DEF KeyInv
  <2>6. SubInv(u)
    BY <2>1, <2>3, <2>4 DEF SubInv
  <2> QED
    BY <2>5, <2>6
<1> QED
  BY <1>1, <1>2, <1>3, <1>5 DEF CounterInv

\* A transaction nothing happens to.
LEMMA TxKept ==
  ASSUME TypeInv, TypeInv', NEW p \in Procs, TxInv(p), tx'[p] = tx[p], now' >= now,
         \A u \in Users : CountedCost(u) <= CountedCost(u)',
         \A r \in Rows : created[r] # Never => created'[r] = created[r],
         \A u \in Users : keyLive'[u] => keyLive[u],
         \A r \in Rows : live[r] = "over" => live'[r] = "over",
         tx[p].way # "aggregation" =>
             /\ p \notin directKey => p \notin directKey'
             /\ tx[p].way = "usage" /\ directSub[p] = Never => directSub'[p] = Never
  PROVE  TxInv(p)'
<1> SUFFICES ASSUME tx[p].pc # "idle" PROVE TxInv(p)'
  BY DEF TxInv
<1>1. /\ tx[p].row \in Rows /\ Owner[tx[p].row] \in Users /\ tx[p].at \in Nat
      /\ tx[p].key.total \in Nat /\ now \in Nat /\ now' \in Nat
  BY OpenTx DEF TypeInv, TypeOK, KeyRow
<1>3. ASSUME NEW u \in Users, Owner[tx'[p].row] = u PROVE tx'[p].key.total <= CountedCost(u)'
  <2>1. tx[p].key.total <= CountedCost(u)
    BY <1>3 DEF TxInv
  <2>2. CountedCost(u) \in Nat /\ CountedCost(u)' \in Nat
    BY SumsNat, SumsNatNext DEF SumsNatural
  <2> QED
    BY <1>1, <2>1, <2>2
<1>4. tx[p].way = "aggregation" => AggregationInv(p)'
  <2> SUFFICES ASSUME tx[p].way = "aggregation" PROVE AggregationInv(p)'
    OBVIOUS
  <2>1. AggregationInv(p)
    BY DEF TxInv
  <2>2. created'[tx[p].row] = created[tx[p].row]
    BY <2>1, <1>1 DEF AggregationInv, Never
  <2> QED
    BY <2>1, <2>2, <1>1 DEF AggregationInv
<1>5. tx[p].way = "usage" => UsageInv(p)'
  BY <1>1 DEF TxInv, UsageInv
<1>6. tx[p].way = "cost" => CostInv(p)'
  BY <1>1 DEF TxInv, CostInv
<1>7. tx[p].at <= now'
  BY <1>1 DEF TxInv
<1> QED
  BY <1>3, <1>4, <1>5, <1>6, <1>7 DEF TxInv

\* A step that counts nothing leaves the sums as they are.
LEMMA SumsKept ==
  ASSUME TypeInv, RowInv, UNCHANGED <<aggregated, directSub, directKey>>,
         \A r \in Rows : created[r] # Never => created'[r] = created[r]
  PROVE  \A u \in Users : /\ CountedCost(u)' = CountedCost(u)
                          /\ Done(u)' = Done(u) /\ SubDirect(u)' = SubDirect(u)
                          /\ \A r \in Done(u) : created'[r] = created[r]
                          /\ \A x \in Int : CountedSince(u, x)' = CountedSince(u, x)
<1> SUFFICES ASSUME NEW u \in Users
             PROVE  /\ CountedCost(u)' = CountedCost(u)
                    /\ Done(u)' = Done(u) /\ SubDirect(u)' = SubDirect(u)
                    /\ \A r \in Done(u) : created'[r] = created[r]
                    /\ \A x \in Int : CountedSince(u, x)' = CountedSince(u, x)
  OBVIOUS
<1>1. \A r \in Rows : aggregated[r] => created'[r] = created[r]
  BY DEF RowInv
<1>2. CountedCost(u)' = CountedCost(u) /\ Done(u)' = Done(u) /\ SubDirect(u)' = SubDirect(u)
  BY DEF CountedCost, Done, SubDirect, RowsOf, TotalCost
<1>3. \A r \in Done(u) : created'[r] = created[r]
  BY <1>1 DEF Done, RowsOf
<1>4. ASSUME NEW x \in Int PROVE CountedSince(u, x)' = CountedSince(u, x)
  <2>1. {r \in RowsOf(u) : aggregated'[r] /\ created'[r] >= x} = {r \in RowsOf(u) : aggregated[r] /\ created[r] >= x}
    BY <1>1 DEF RowsOf
  <2> QED
    BY <2>1 DEF CountedSince, RowsOf, TotalCost
<1> QED
  BY <1>2, <1>3, <1>4

\* The key of a user nothing is written to or counted for.
LEMMA KeyKept ==
  ASSUME NEW u \in Users, KeyInv(u), CountedCost(u)' = CountedCost(u),
         key'[u] = key[u], editor'[u] = editor[u],
         u \in lostKey => u \in lostKey', waived'[u] = waived[u], keyLive'[u] => keyLive[u]
  PROVE  KeyInv(u)'
  BY DEF KeyInv

\* The subscription likewise.
LEMMA SubKept ==
  ASSUME TypeInv, NEW u \in Users, SubInv(u), now' \in Nat, now' >= now,
         Done(u)' = Done(u), SubDirect(u)' = SubDirect(u),
         \A r \in Done(u) : created'[r] = created[r],
         \A r \in SubDirect(u) : directSub'[r] = directSub[r],
         \A x \in Int : CountedSince(u, x)' = CountedSince(u, x),
         sub'[u] = sub[u], reader'[u].at = reader[u].at, lostSub'[u] = lostSub[u]
  PROVE  SubInv(u)'
<1>1. reader[u].at \in Nat /\ now \in Nat
  BY DEF TypeInv, TypeOK
<1> QED
  BY <1>1 DEF SubInv

\* A step that counts nothing and writes no counter: what remains to show is
\* about the rows and the transactions it moves.
LEMMA QuietStep ==
  ASSUME CounterInv, TypeInv', ClaimInv', RowInv', UNCHANGED <<aggregated, counters, others>>,
         now' >= now,
         \A r \in Rows : created[r] # Never => created'[r] = created[r],
         \A u \in Users : keyLive'[u] => keyLive[u],
         \A r \in Rows : live[r] = "over" => live'[r] = "over",
         \A p \in Procs : tx'[p] = tx[p] \/ TxInv(p)'
  PROVE  CounterInv'
<1>1. UNCHANGED <<aggregated, directSub, directKey, waived, lostSub, lostKey, sub, key, reader, editor>>
  BY DEF counters, history, others
<1>2. \A u \in Users : /\ CountedCost(u)' = CountedCost(u)
                       /\ Done(u)' = Done(u) /\ SubDirect(u)' = SubDirect(u)
                       /\ \A r \in Done(u) : created'[r] = created[r]
                       /\ \A x \in Int : CountedSince(u, x)' = CountedSince(u, x)
  BY <1>1, SumsKept DEF CounterInv
<1>3. \A u \in Users : CountedCost(u) \in Nat
  BY SumsNat DEF CounterInv, SumsNatural
<1>4. ASSUME NEW p \in Procs PROVE TxInv(p)'
  <2>1. CASE tx'[p] = tx[p]
    BY <2>1, <1>1, <1>2, <1>3, TxKept DEF CounterInv
  <2> QED
    BY <2>1
<1>5. now' \in Nat
  BY DEF TypeInv, TypeOK
<1>6. ASSUME NEW u \in Users PROVE KeyInv(u)' /\ SubInv(u)'
  <2>1. KeyInv(u)'
    BY <1>1, <1>2, KeyKept DEF CounterInv
  <2>2. SubInv(u)'
    BY <1>1, <1>2, <1>5, SubKept DEF CounterInv
  <2> QED
    BY <2>1, <2>2
<1> QED
  BY <1>4, <1>6 DEF CounterInv

\* A transaction that goes on with its row, with the copy of the key it had or
\* with the current one.
LEMMA TxGoesOn ==
  ASSUME CounterInv, NEW p \in Procs, tx[p].pc # "idle",
         UNCHANGED <<now, created, aggregated, directSub, directKey>>,
         tx'[p].row = tx[p].row, tx'[p].at = tx[p].at,
         tx'[p].key = tx[p].key \/ tx'[p].key = key[Owner[tx[p].row]],
         tx'[p].way = "aggregation" => AggregationInv(p)',
         tx'[p].way = "usage" => UsageInv(p)',
         tx'[p].way = "cost" => CostInv(p)'
  PROVE  TxInv(p)'
<1>1. \A u \in Users : CountedCost(u)' = CountedCost(u)
  BY SumsKept DEF CounterInv
<1>2. tx[p].at <= now /\ \A u \in Users : Owner[tx[p].row] = u => tx[p].key.total <= CountedCost(u)
  BY DEF CounterInv, TxInv
<1>3. \A u \in Users : key[u].total <= CountedCost(u)
  BY DEF CounterInv, KeyInv
<1>4. \A u \in Users : Owner[tx'[p].row] = u => tx'[p].key.total <= CountedCost(u)'
  BY <1>1, <1>2, <1>3
<1> QED
  BY <1>2, <1>4 DEF TxInv

\* Only p's transaction changed.
OnlyTx(p) ==
    /\ UNCHANGED <<env, live, aggregated, applied, counters, others>>
    /\ \A q \in Procs : q # p => tx'[q] = tx[q]

\* A statement of p, or its end, that writes no counter.
LEMMA OnlyTxStep ==
  ASSUME CounterInv, TypeInv', ClaimInv', NEW p \in Procs, OnlyTx(p),
         tx'[p].pc # "idle" =>
             /\ tx[p].pc # "idle"
             /\ tx'[p].row = tx[p].row /\ tx'[p].at = tx[p].at
             /\ tx'[p].key = tx[p].key \/ tx'[p].key = key[Owner[tx[p].row]]
             /\ tx'[p].way = "aggregation" => AggregationInv(p)'
             /\ tx'[p].way = "usage" => UsageInv(p)'
             /\ tx'[p].way = "cost" => CostInv(p)'
  PROVE  CounterInv'
<1>1. /\ UNCHANGED <<now, created, keyLive, live, aggregated, directSub, directKey, counters, others>>
      /\ \A q \in Procs : q # p => tx'[q] = tx[q]
  BY DEF OnlyTx, env, counters, history
<1>2. RowInv'
  BY <1>1 DEF CounterInv, RowInv
<1>3. TxInv(p)'
  <2>1. CASE tx'[p].pc = "idle"
    BY <2>1 DEF TxInv
  <2>2. CASE tx'[p].pc # "idle"
    BY <2>2, <1>1, TxGoesOn
  <2> QED
    BY <2>1, <2>2
<1>4. now' >= now
  BY <1>1 DEF CounterInv, TypeInv, TypeOK
<1> QED
  BY <1>1, <1>2, <1>3, <1>4, QuietStep

\* The fields of a transaction that goes on.
LEMMA ClaimCounts ==
  ASSUME CounterInv, TypeInv', ClaimInv', NEW p \in Procs, Claim(p)
  PROVE  CounterInv'
<1>1. tx \in [Procs -> TxState] /\ tx[p].pc = "claim" /\ TxInv(p)
  BY DEF Claim, CounterInv, TypeInv, TypeOK
<1>2. OnlyTx(p)
  BY <1>1 DEF Claim, OnlyTx
<1>3. tx[p].way = "aggregation" /\ AggregationInv(p)
  <2>1. tx[p].way \in {"aggregation", "usage", "cost"}
    BY <1>1 DEF TxState
  <2> QED
    BY <1>1, <2>1 DEF TxInv, UsageInv, CostInv
<1>4. tx'[p] = NoTx \/ tx'[p] = [tx[p] EXCEPT !.pc = "sub"]
  BY <1>1 DEF Claim
<1>5. tx'[p].pc = "idle" \/ (/\ tx'[p].pc = "sub" /\ tx'[p].way = "aggregation"
                             /\ tx'[p].row = tx[p].row /\ tx'[p].at = tx[p].at
                             /\ tx'[p].key = tx[p].key /\ tx'[p].wrote = tx[p].wrote)
  BY <1>1, <1>3, <1>4, NoTxType DEF TxState
<1>6. tx'[p].pc # "idle" => AggregationInv(p)'
  BY <1>1, <1>2, <1>3, <1>5 DEF AggregationInv, OnlyTx, env
<1> QED
  BY <1>1, <1>2, <1>5, <1>6, OnlyTxStep

LEMMA ReadSubscriptionCounts ==
  ASSUME CounterInv, TypeInv', ClaimInv', NEW p \in Procs, ReadSubscription(p)
  PROVE  CounterInv'
<1> DEFINE u == Owner[tx[p].row]
<1>1. tx \in [Procs -> TxState] /\ tx[p].pc = "sub" /\ TxInv(p)
  BY DEF ReadSubscription, CounterInv, TypeInv, TypeOK
<1>2. OnlyTx(p) /\ UNCHANGED <<created, keyLive, live, directSub, directKey>>
  BY <1>1 DEF ReadSubscription, OnlyTx, env, counters, history
<1>3. /\ tx[p].way = "aggregation" => AggregationInv(p)
      /\ tx[p].way = "usage" => UsageInv(p)
      /\ tx[p].way \in {"aggregation", "usage"}
  <2>1. tx[p].way \in {"aggregation", "usage", "cost"}
    BY <1>1 DEF TxState
  <2> QED
    BY <1>1, <2>1 DEF TxInv, CostInv
<1>4. tx'[p].row = tx[p].row /\ tx'[p].at = tx[p].at /\ tx'[p].key = tx[p].key /\ tx'[p].wrote = tx[p].wrote
  BY <1>1 DEF ReadSubscription, TxState
<1>5. CASE u \in Subscribed
  <2>1. tx'[p].pc = "writesub" /\ tx'[p].way = tx[p].way
    BY <1>1, <1>5 DEF ReadSubscription, TxState
  <2>2. tx[p].way = "aggregation" => AggregationInv(p)'
    BY <1>1, <1>2, <1>3, <1>4, <1>5, <2>1 DEF AggregationInv
  <2>3. tx[p].way = "usage" => UsageInv(p)'
    BY <1>1, <1>2, <1>3, <1>4, <2>1 DEF UsageInv
  <2> QED
    BY <1>1, <1>2, <1>3, <1>4, <2>1, <2>2, <2>3, OnlyTxStep
<1>6. CASE u \notin Subscribed
  <2>1. tx'[p].pc = "key" /\ tx'[p].way = IF tx[p].way = "usage" THEN "cost" ELSE tx[p].way
    BY <1>1, <1>6 DEF ReadSubscription, TxState
  <2>2. tx[p].way = "aggregation" => AggregationInv(p)'
    BY <1>1, <1>2, <1>3, <1>4, <1>6, <2>1 DEF AggregationInv
  <2>3. tx[p].way = "usage" => CostInv(p)'
    BY <1>1, <1>2, <1>3, <1>4, <2>1 DEF UsageInv, CostInv
  <2> QED
    BY <1>1, <1>2, <1>3, <1>4, <2>1, <2>2, <2>3, OnlyTxStep
<1> QED
  BY <1>5, <1>6

LEMMA WriteSubscriptionCounts ==
  ASSUME CounterInv, TypeInv', ClaimInv', NEW p \in Procs, WriteSubscription(p)
  PROVE  CounterInv'
<1>1. tx \in [Procs -> TxState] /\ tx[p].pc = "writesub" /\ TxInv(p)
  BY DEF WriteSubscription, CounterInv, TypeInv, TypeOK
<1>2. OnlyTx(p) /\ UNCHANGED <<created, keyLive, live, directSub, directKey>>
  BY <1>1 DEF WriteSubscription, OnlyTx, env, counters, history
<1>3. /\ tx[p].way = "aggregation" => AggregationInv(p)
      /\ tx[p].way = "usage" => UsageInv(p)
      /\ tx[p].way \in {"aggregation", "usage"}
  <2>1. tx[p].way \in {"aggregation", "usage", "cost"}
    BY <1>1 DEF TxState
  <2> QED
    BY <1>1, <2>1 DEF TxInv, CostInv
<1>4. /\ tx'[p].row = tx[p].row /\ tx'[p].at = tx[p].at /\ tx'[p].key = tx[p].key
      /\ tx'[p].way = tx[p].way /\ tx'[p].wrote = {"sub"}
      /\ tx'[p].pc = IF tx[p].way = "usage" THEN "commit" ELSE "key"
  BY <1>1 DEF WriteSubscription, TxState
<1>5. tx[p].way = "aggregation" => AggregationInv(p)'
  BY <1>1, <1>2, <1>3, <1>4 DEF AggregationInv
<1>6. tx[p].way = "usage" => UsageInv(p)'
  BY <1>1, <1>2, <1>3, <1>4 DEF UsageInv
<1> QED
  BY <1>1, <1>2, <1>3, <1>4, <1>5, <1>6, OnlyTxStep

\* A deleted key: the transaction ends, or commits without the key.
LEMMA KeyNotFoundCounts ==
  ASSUME CounterInv, TypeInv', ClaimInv', NEW p \in Procs, OnlyTx(p), KeyNotFound(p),
         tx[p].pc \in {"key", "writekey"}, ~keyLive[Owner[tx[p].row]]
  PROVE  CounterInv'
<1>1. tx \in [Procs -> TxState] /\ TxInv(p)
  BY DEF CounterInv, TypeInv, TypeOK
<1>2. UNCHANGED <<created, keyLive, live, directSub, directKey>>
  BY DEF OnlyTx, env, counters, history
<1>3. CASE tx[p].way = "cost"
  <2>1. tx'[p].pc = "idle"
    BY <1>1, <1>3, NoTxType DEF KeyNotFound
  <2> QED
    BY <2>1, OnlyTxStep
<1>4. CASE tx[p].way # "cost"
  <2>1. tx[p].way = "aggregation" /\ AggregationInv(p)
    <3>1. tx[p].way \in {"aggregation", "usage", "cost"}
      BY <1>1 DEF TxState
    <3> QED
      BY <1>1, <1>4, <3>1 DEF TxInv, UsageInv
  <2>2. /\ tx'[p].row = tx[p].row /\ tx'[p].at = tx[p].at /\ tx'[p].key = tx[p].key
        /\ tx'[p].way = tx[p].way /\ tx'[p].wrote = tx[p].wrote /\ tx'[p].pc = "commit"
    BY <1>1, <1>4 DEF KeyNotFound, TxState
  <2>3. AggregationInv(p)'
    BY <1>1, <1>2, <2>1, <2>2 DEF AggregationInv
  <2> QED
    BY <2>1, <2>2, <2>3, OnlyTxStep
<1> QED
  BY <1>3, <1>4

LEMMA KeyStatementCounts ==
  ASSUME CounterInv, TypeInv', ClaimInv', NEW p \in Procs, ReadKey(p) \/ WriteKey(p)
  PROVE  CounterInv'
<1> DEFINE u == Owner[tx[p].row]
<1>1. tx \in [Procs -> TxState] /\ tx[p].pc \in {"key", "writekey"} /\ TxInv(p)
  BY DEF ReadKey, WriteKey, CounterInv, TypeInv, TypeOK
<1>2. OnlyTx(p) /\ UNCHANGED <<created, keyLive, live, directSub, directKey>>
  BY <1>1 DEF ReadKey, WriteKey, KeyNotFound, OnlyTx, env, counters, history
<1>3. /\ tx[p].way = "aggregation" => AggregationInv(p)
      /\ tx[p].way = "cost" => CostInv(p)
      /\ tx[p].way \in {"aggregation", "cost"}
  <2>1. tx[p].way \in {"aggregation", "usage", "cost"}
    BY <1>1 DEF TxState
  <2> QED
    BY <1>1, <2>1 DEF TxInv, UsageInv
<1>4. CASE keyLive[u] /\ ReadKey(p)
  <2>1. /\ tx'[p].row = tx[p].row /\ tx'[p].at = tx[p].at /\ tx'[p].key = key[u]
        /\ tx'[p].way = tx[p].way /\ tx'[p].wrote = tx[p].wrote /\ tx'[p].pc = "writekey"
        /\ tx[p].pc = "key"
    BY <1>1, <1>4 DEF ReadKey, TxState
  <2>2. tx[p].way = "aggregation" => AggregationInv(p)'
    BY <1>1, <1>2, <1>3, <2>1 DEF AggregationInv
  <2>3. tx[p].way = "cost" => CostInv(p)'
    BY <1>1, <1>2, <1>3, <2>1 DEF CostInv
  <2> QED
    BY <1>1, <1>2, <1>3, <2>1, <2>2, <2>3, OnlyTxStep
<1>5. CASE keyLive[u] /\ WriteKey(p)
  <2>1. /\ tx'[p].row = tx[p].row /\ tx'[p].at = tx[p].at /\ tx'[p].key = tx[p].key
        /\ tx'[p].way = tx[p].way /\ tx'[p].wrote = tx[p].wrote \cup {"key"} /\ tx'[p].pc = "commit"
        /\ tx[p].pc = "writekey"
    BY <1>1, <1>5 DEF WriteKey, TxState
  <2>2. tx[p].way = "aggregation" => AggregationInv(p)'
    BY <1>1, <1>2, <1>3, <2>1 DEF AggregationInv
  <2>3. tx[p].way = "cost" => CostInv(p)'
    BY <1>1, <1>2, <1>3, <2>1 DEF CostInv
  <2> QED
    BY <1>1, <1>2, <1>3, <2>1, <2>2, <2>3, OnlyTxStep
<1>6. CASE ~keyLive[u]
  BY <1>1, <1>2, <1>6, KeyNotFoundCounts DEF ReadKey, WriteKey
<1> QED
  BY <1>4, <1>5, <1>6

\* Nothing of a transaction that is rolled back was counted.
LEMMA RollbackCounts ==
  ASSUME CounterInv, TypeInv', ClaimInv', NEW p \in Procs, Rollback(p)
  PROVE  CounterInv'
<1>1. tx \in [Procs -> TxState] /\ tx[p].pc # "idle" /\ TxInv(p)
  BY DEF Rollback, CounterInv, TypeInv, TypeOK
<1>2. OnlyTx(p) /\ UNCHANGED <<created, keyLive, live, directSub, directKey>>
  BY <1>1 DEF Rollback, OnlyTx, env, counters, history
<1>3. CASE tx' = [tx EXCEPT ![p] = NoTx]
  <2>1. tx'[p].pc = "idle"
    BY <1>1, <1>3, NoTxType
  <2> QED
    BY <1>2, <2>1, OnlyTxStep
<1>4. CASE tx[p].way = "usage" /\ tx' = [tx EXCEPT ![p].pc = "key", ![p].way = "cost", ![p].wrote = {}]
  <2>1. /\ tx'[p].row = tx[p].row /\ tx'[p].at = tx[p].at /\ tx'[p].key = tx[p].key
        /\ tx'[p].way = "cost" /\ tx'[p].wrote = {} /\ tx'[p].pc = "key"
    BY <1>1, <1>4 DEF TxState
  <2>2. UsageInv(p)
    BY <1>1, <1>4 DEF TxInv
  <2>3. CostInv(p)'
    BY <1>1, <1>2, <2>1, <2>2 DEF UsageInv, CostInv
  <2> QED
    BY <1>1, <1>2, <2>1, <2>3, OnlyTxStep
<1> QED
  BY <1>3, <1>4 DEF Rollback

\* A transaction opened for a recorded row.
LEMMA GetRowCounts ==
  ASSUME CounterInv, TypeInv', ClaimInv', NEW p \in Procs, NEW r \in Rows, GetRow(p, r), created[r] # Never,
         UNCHANGED <<env, aggregated, counters, others>>,
         live' = live \/ live' = [live EXCEPT ![r] = "over"]
  PROVE  CounterInv'
<1>1. UNCHANGED <<now, created, keyLive, aggregated, directSub, directKey, counters, others>>
  BY DEF env, counters, history
<1>2. tx \in [Procs -> TxState] /\ RowInv /\ now \in Nat /\ live \in [Rows -> {"none", "queued", "direct", "over"}]
  BY DEF CounterInv, TypeInv, TypeOK
<1>3. RowInv'
  BY <1>1, <1>2 DEF RowInv
<1>4. \A q \in Procs : q # p => tx'[q] = tx[q]
  BY DEF GetRow
<1>5. TxInv(p)'
  <2> DEFINE opened == [NoTx EXCEPT !.pc = "claim", !.row = r, !.at = created[r]]
  <2>1. tx'[p] = NoTx \/ tx'[p] = opened
    BY <1>2 DEF GetRow
  <2>2. /\ opened.pc = "claim" /\ opened.way = "aggregation" /\ opened.row = r /\ opened.at = created[r]
        /\ opened.key.total = 0 /\ opened.wrote = {}
    BY DEF NoTx, EmptyKey
  <2> HIDE DEF opened
  <2>3. \A u \in Users : CountedCost(u)' \in Nat
    BY SumsNatNext
  <2>4. tx'[p].pc # "idle" => /\ tx'[p] = opened /\ AggregationInv(p)'
    BY <2>1, <2>2, <1>1, NoTxType DEF AggregationInv
  <2>5. tx'[p].pc # "idle" => tx'[p].at <= now' /\ \A u \in Users : tx'[p].key.total <= CountedCost(u)'
    BY <2>2, <2>3, <2>4, <1>1, <1>2 DEF RowInv
  <2> QED
    BY <2>2, <2>4, <2>5 DEF TxInv
<1> QED
  BY <1>1, <1>2, <1>3, <1>4, <1>5, QuietStep

\* The steps of the gateway, of the reconciler's selection and of the clock.
LEMMA GatewayCounts ==
  ASSUME CounterInv, TypeInv', ClaimInv', NEW r \in Rows,
         \/ RecordUsage(r) \/ RecordFails(r) \/ LiveDropped(r) \/ LiveApply(r)
         \/ recordGatewayMaterializedCosts(r) \/ SweepApply(r)
  PROVE  CounterInv'
<1>1. /\ now \in Nat /\ RowInv /\ tx \in [Procs -> TxState] /\ QueuedRecorded /\ sweep \subseteq Recorded
      /\ live \in [Rows -> {"none", "queued", "direct", "over"}] /\ created \in [Rows -> Nat \cup {Never}]
  BY DEF CounterInv, TypeInv, TypeOK
<1>2. CASE RecordUsage(r) \/ RecordFails(r)
  <2>1. /\ UNCHANGED <<now, keyLive, aggregated, directSub, directKey, counters, others, tx>>
        /\ live[r] = "none"
        /\ created' = created \/ created' = [created EXCEPT ![r] = now]
        /\ \E x \in {"queued", "direct", "over"} : live' = [live EXCEPT ![r] = x]
    BY <1>2 DEF RecordUsage, RecordFails, counters, history
  <2>2. created[r] = Never
    BY <1>1, <2>1 DEF RowInv
  <2>3. RowInv'
    BY <1>1, <2>1 DEF RowInv
  <2>4. /\ \A q \in Rows : created[q] # Never => created'[q] = created[q]
        /\ \A q \in Rows : live[q] = "over" => live'[q] = "over"
    BY <1>1, <2>1, <2>2
  <2> QED
    BY <1>1, <2>1, <2>3, <2>4, QuietStep
<1>3. CASE LiveDropped(r)
  <2>1. /\ UNCHANGED <<now, created, keyLive, aggregated, directSub, directKey, counters, others, tx>>
        /\ live' = [live EXCEPT ![r] = "over"]
    BY <1>3 DEF LiveDropped, env, counters, history
  <2>2. RowInv'
    BY <1>1, <2>1 DEF RowInv
  <2> QED
    BY <1>1, <2>1, <2>2, QuietStep
<1>4. CASE LiveApply(r)
  <2>1. /\ UNCHANGED <<env, aggregated, counters, others>> /\ live' = [live EXCEPT ![r] = "over"]
        /\ GetRow(r, r) /\ created[r] # Never /\ r \in Procs
    BY <1>4, <1>1, ProcsFacts DEF LiveApply, QueuedRecorded
  <2> QED
    BY <2>1, GetRowCounts
<1>5. CASE SweepApply(r)
  <2>1. /\ UNCHANGED <<env, aggregated, counters, others>> /\ live' = live
        /\ GetRow(Reconciler, r) /\ created[r] # Never /\ Reconciler \in Procs
    BY <1>5, <1>1, ProcsFacts DEF SweepApply, Recorded
  <2> QED
    BY <2>1, GetRowCounts
<1>6. CASE recordGatewayMaterializedCosts(r)
  <2> DEFINE t == [NoTx EXCEPT !.pc = "sub", !.way = "usage", !.row = r, !.at = now]
  <2>1. /\ UNCHANGED <<now, created, keyLive, aggregated, directSub, directKey, counters, others>>
        /\ live' = [live EXCEPT ![r] = "over"] /\ live[r] = "direct"
        /\ tx' = [tx EXCEPT ![r] = t] /\ r \in Procs
    BY <1>6, ProcsFacts DEF recordGatewayMaterializedCosts, env, counters, history
  <2>2. /\ t.pc = "sub" /\ t.way = "usage" /\ t.row = r /\ t.at = now /\ t.key.total = 0 /\ t.wrote = {}
    BY DEF NoTx, EmptyKey
  <2> HIDE DEF t
  <2>3. RowInv'
    BY <1>1, <2>1 DEF RowInv
  <2>4. tx'[r] = t /\ \A q \in Procs : q # r => tx'[q] = tx[q]
    BY <1>1, <2>1
  <2>5. UsageInv(r)'
    BY <1>1, <2>1, <2>2, <2>4 DEF UsageInv, RowInv
  <2>6. \A u \in Users : CountedCost(u)' \in Nat
    BY SumsNatNext
  <2>7. TxInv(r)'
    BY <1>1, <2>1, <2>2, <2>4, <2>5, <2>6 DEF TxInv
  <2> QED
    BY <1>1, <2>1, <2>3, <2>4, <2>7, QuietStep
<1> QED
  BY <1>2, <1>3, <1>4, <1>5, <1>6

\* The sums after a step, in terms of the state it leaves.
LEMMA SumsNext ==
  ASSUME NEW u \in Users
  PROVE  /\ CountedCost(u)' = TotalCost({q \in RowsOf(u) : aggregated'[q]}) + TotalCost(RowsOf(u) \cap directKey')
         /\ \A x \in Int : CountedSince(u, x)' =
              TotalCost({q \in RowsOf(u) : aggregated'[q] /\ created'[q] >= x})
              + TotalCost({q \in RowsOf(u) : directSub'[q] # Never /\ directSub'[q] >= x})
  BY DEF CountedCost, CountedSince, RowsOf, TotalCost, Never

\* What an increment committed for row r of user u changes: cost bounds what
\* the sum of a key grows by, and at is the time it is counted for.
Counts(u, r, at, cost) ==
    /\ \A v \in Users : v # u => CountedCost(v)' = CountedCost(v)
    /\ CountedCost(u)' = CountedCost(u) + cost
    /\ \A v \in Users : v # u =>
         /\ Done(v)' = Done(v) /\ SubDirect(v)' = SubDirect(v)
         /\ \A x \in Int : CountedSince(v, x)' = CountedSince(v, x)
    /\ \A q \in Done(u)' : q \in Done(u) \/ created[q] = at
    /\ \A q \in SubDirect(u)' : (q \in SubDirect(u) /\ directSub'[q] = directSub[q]) \/ directSub'[q] = at
    /\ \A v \in Users : v # u => \A q \in SubDirect(v) : directSub'[q] = directSub[q]
    /\ \A x \in Int : CountedSince(u, x)' <= CountedSince(u, x) + Cost[r]

LEMMA CommitAdds ==
  ASSUME CounterInv, TypeInv', NEW r \in Rows, ~aggregated[r],
         aggregated' = [aggregated EXCEPT ![r] = TRUE], UNCHANGED <<created, directSub, directKey>>
  PROVE  Counts(Owner[r], r, created[r], Cost[r])
<1>1. PICK u \in Users : u = Owner[r]
  BY OwnerAssumption
<1>2. /\ TypeInv /\ aggregated \in [Rows -> BOOLEAN] /\ r \in RowsOf(u)
      /\ \A v \in Users : RowsOf(v) \subseteq Rows /\ (v # u => r \notin RowsOf(v))
      /\ Cost[r] \in Nat /\ Owner[r] = u
  BY <1>1, CostAssumption DEF CounterInv, TypeInv, TypeOK, RowsOf
<1>3. ASSUME NEW v \in Users, v # u
      PROVE  /\ CountedCost(v)' = CountedCost(v) /\ Done(v)' = Done(v) /\ SubDirect(v)' = SubDirect(v)
             /\ \A x \in Int : CountedSince(v, x)' = CountedSince(v, x)
             /\ \A q \in SubDirect(v) : directSub'[q] = directSub[q]
  <2>1. \A q \in RowsOf(v) : aggregated'[q] = aggregated[q]
    BY <1>2, <1>3
  <2>2. /\ {q \in RowsOf(v) : aggregated'[q]} = {q \in RowsOf(v) : aggregated[q]}
        /\ \A x \in Int : {q \in RowsOf(v) : aggregated'[q] /\ created'[q] >= x}
                          = {q \in RowsOf(v) : aggregated[q] /\ created[q] >= x}
    BY <2>1
  <2>3. CountedCost(v)' = CountedCost(v) /\ \A x \in Int : CountedSince(v, x)' = CountedSince(v, x)
    BY <2>2, SumsNext DEF CountedCost, CountedSince
  <2>4. Done(v)' = Done(v) /\ SubDirect(v)' = SubDirect(v)
    BY <2>1 DEF Done, SubDirect, RowsOf, Never
  <2> QED
    BY <2>3, <2>4
<1>4. CountedCost(u)' = CountedCost(u) + Cost[r]
  <2> DEFINE A == {q \in RowsOf(u) : aggregated[q]}
  <2>1. {q \in RowsOf(u) : aggregated'[q]} = A \cup {r} /\ r \notin A /\ A \in SUBSET Rows
    BY <1>2
  <2>2. IsFiniteSet(A) /\ TotalCost(RowsOf(u) \cap directKey) \in Nat
    <3>1. IsFiniteSet(A) /\ IsFiniteSet(RowsOf(u) \cap directKey)
      BY <1>2, CountedTypes
    <3>2. \A q \in RowsOf(u) \cap directKey : Cost[q] \in Nat
      BY <1>2, CostAssumption
    <3> QED
      BY <3>1, <3>2, SumNat DEF TotalCost
  <2>3. CountedCost(u) = TotalCost(A) + TotalCost(RowsOf(u) \cap directKey)
    BY DEF CountedCost
  <2>4. CountedCost(u)' = TotalCost({q \in RowsOf(u) : aggregated'[q]}) + TotalCost(RowsOf(u) \cap directKey')
    BY SumsNext
  <2> HIDE DEF A
  <2>5. TotalCost(A \cup {r}) = TotalCost(A) + Cost[r] /\ TotalCost(A) \in Nat
    BY <2>1, <2>2, MoreCost
  <2>6. CountedCost(u)' = TotalCost(A \cup {r}) + TotalCost(RowsOf(u) \cap directKey)
    BY <2>1, <2>4
  <2>7. Cost[r] \in Nat
    BY <1>2
  <2> QED
    BY <2>2, <2>3, <2>5, <2>6, <2>7
<1>5. ASSUME NEW x \in Int PROVE CountedSince(u, x)' <= CountedSince(u, x) + Cost[r]
  <2> DEFINE A == {q \in RowsOf(u) : aggregated[q] /\ created[q] >= x}
             B == {q \in RowsOf(u) : aggregated'[q] /\ created'[q] >= x}
             D == {q \in RowsOf(u) : directSub[q] # Never /\ directSub[q] >= x}
  <2>1. /\ A \in SUBSET Rows /\ B \subseteq A \cup {r} /\ D \in SUBSET Rows
        /\ A \subseteq {q \in RowsOf(u) : aggregated[q]} /\ D \subseteq {q \in RowsOf(u) : directSub[q] # Never}
    BY <1>2
  <2>2. CountedSince(u, x) = TotalCost(A) + TotalCost(D) /\ CountedSince(u, x)' = TotalCost(B) + TotalCost(D)
    BY SumsNext DEF CountedSince
  <2> HIDE DEF A, B, D
  <2>3. IsFiniteSet(A) /\ IsFiniteSet(D)
    BY <1>2, <2>1, CountedTypes, FS_Subset
  <2>4. TotalCost(B) \in Nat /\ TotalCost(A) \in Nat /\ TotalCost(B) <= TotalCost(A) + Cost[r]
    BY <2>1, <2>3, MoreCost
  <2>5. TotalCost(D) \in Nat
    BY <2>1, <2>3, CostAssumption, SumNat DEF TotalCost
  <2> QED
    BY <2>2, <2>4, <2>5, <1>2
<1>6. /\ \A q \in Done(u)' : q \in Done(u) \/ created[q] = created[r]
      /\ SubDirect(u)' = SubDirect(u)
  BY <1>2 DEF Done, SubDirect, RowsOf, Never
<1> QED
  BY <1>2, <1>3, <1>4, <1>5, <1>6 DEF Counts

LEMMA CommitUsageAdds ==
  ASSUME CounterInv, TypeInv', NEW r \in Rows, NEW at \in Nat, directSub[r] = Never,
         directSub' = [directSub EXCEPT ![r] = at], UNCHANGED <<created, aggregated, directKey>>
  PROVE  Counts(Owner[r], r, at, 0)
<1>1. PICK u \in Users : u = Owner[r]
  BY OwnerAssumption
<1>2. /\ TypeInv /\ directSub \in [Rows -> Nat \cup {Never}] /\ r \in RowsOf(u)
      /\ \A v \in Users : RowsOf(v) \subseteq Rows /\ (v # u => r \notin RowsOf(v))
      /\ Cost[r] \in Nat /\ Owner[r] = u
  BY <1>1, CostAssumption DEF CounterInv, TypeInv, TypeOK, RowsOf
<1>3. \A v \in Users : CountedCost(v)' = CountedCost(v) /\ CountedCost(v) \in Nat
  BY <1>2, SumsNext, SumsNat DEF CountedCost, SumsNatural
<1>4. ASSUME NEW v \in Users, v # u
      PROVE  /\ Done(v)' = Done(v) /\ SubDirect(v)' = SubDirect(v)
             /\ \A x \in Int : CountedSince(v, x)' = CountedSince(v, x)
             /\ \A q \in SubDirect(v) : directSub'[q] = directSub[q]
  <2>1. \A q \in RowsOf(v) : directSub'[q] = directSub[q]
    BY <1>2, <1>4
  <2>2. \A x \in Int : {q \in RowsOf(v) : directSub'[q] # Never /\ directSub'[q] >= x}
                       = {q \in RowsOf(v) : directSub[q] # Never /\ directSub[q] >= x}
    BY <2>1
  <2>3. \A x \in Int : CountedSince(v, x)' = CountedSince(v, x)
    BY <2>2, SumsNext DEF CountedSince
  <2>4. Done(v)' = Done(v) /\ SubDirect(v)' = SubDirect(v) /\ \A q \in SubDirect(v) : directSub'[q] = directSub[q]
    BY <2>1 DEF Done, SubDirect, RowsOf, Never
  <2> QED
    BY <2>3, <2>4
<1>5. ASSUME NEW x \in Int PROVE CountedSince(u, x)' <= CountedSince(u, x) + Cost[r]
  <2> DEFINE A == {q \in RowsOf(u) : directSub[q] # Never /\ directSub[q] >= x}
             B == {q \in RowsOf(u) : directSub'[q] # Never /\ directSub'[q] >= x}
             D == {q \in RowsOf(u) : aggregated[q] /\ created[q] >= x}
  <2>1. /\ A \in SUBSET Rows /\ B \subseteq A \cup {r} /\ D \in SUBSET Rows
        /\ D \subseteq {q \in RowsOf(u) : aggregated[q]} /\ A \subseteq {q \in RowsOf(u) : directSub[q] # Never}
    BY <1>2
  <2>2. CountedSince(u, x) = TotalCost(D) + TotalCost(A) /\ CountedSince(u, x)' = TotalCost(D) + TotalCost(B)
    BY SumsNext DEF CountedSince
  <2> HIDE DEF A, B, D
  <2>3. IsFiniteSet(A) /\ IsFiniteSet(D)
    BY <1>2, <2>1, CountedTypes, FS_Subset
  <2>4. TotalCost(B) \in Nat /\ TotalCost(A) \in Nat /\ TotalCost(B) <= TotalCost(A) + Cost[r]
    BY <2>1, <2>3, MoreCost
  <2>5. TotalCost(D) \in Nat
    BY <2>1, <2>3, CostAssumption, SumNat DEF TotalCost
  <2> QED
    BY <2>2, <2>4, <2>5, <1>2
<1>6. /\ Done(u)' = Done(u)
      /\ \A q \in SubDirect(u)' : (q \in SubDirect(u) /\ directSub'[q] = directSub[q]) \/ directSub'[q] = at
  BY <1>2 DEF Done, SubDirect, RowsOf, Never
<1> QED
  BY <1>2, <1>3, <1>4, <1>5, <1>6 DEF Counts

LEMMA CommitCostAdds ==
  ASSUME CounterInv, TypeInv', NEW r \in Rows, r \notin directKey, directKey' = directKey \cup {r},
         UNCHANGED <<created, aggregated, directSub>>
  PROVE  /\ \A v \in Users : v # Owner[r] => CountedCost(v)' = CountedCost(v)
         /\ \A v \in Users : v = Owner[r] => CountedCost(v)' = CountedCost(v) + Cost[r]
         /\ \A v \in Users : /\ Done(v)' = Done(v) /\ SubDirect(v)' = SubDirect(v)
                             /\ \A x \in Int : CountedSince(v, x)' = CountedSince(v, x)
<1>1. /\ TypeInv /\ \A v \in Users : RowsOf(v) \subseteq Rows
      /\ \A v \in Users : (r \in RowsOf(v)) <=> (v = Owner[r])
      /\ Cost[r] \in Nat
  BY CostAssumption DEF CounterInv, RowsOf
<1>2. ASSUME NEW v \in Users, v # Owner[r] PROVE CountedCost(v)' = CountedCost(v)
  <2>1. RowsOf(v) \cap directKey' = RowsOf(v) \cap directKey
    BY <1>1, <1>2
  <2> QED
    BY <2>1, SumsNext DEF CountedCost
<1>3. ASSUME NEW v \in Users, v = Owner[r] PROVE CountedCost(v)' = CountedCost(v) + Cost[r]
  <2> DEFINE A == {q \in RowsOf(v) : aggregated[q]}
             K == RowsOf(v) \cap directKey
  <2>1. RowsOf(v) \cap directKey' = K \cup {r} /\ r \notin K /\ K \in SUBSET Rows /\ A \in SUBSET Rows
    BY <1>1, <1>3
  <2>2. IsFiniteSet(A) /\ IsFiniteSet(K)
    BY <1>1, CountedTypes
  <2>3. CountedCost(v) = TotalCost(A) + TotalCost(K) /\ CountedCost(v)' = TotalCost(A) + TotalCost(K \cup {r})
    BY <2>1, SumsNext DEF CountedCost
  <2> HIDE DEF A, K
  <2>4. TotalCost(K \cup {r}) = TotalCost(K) + Cost[r] /\ TotalCost(K) \in Nat
    BY <2>1, <2>2, MoreCost
  <2>5. TotalCost(A) \in Nat
    BY <2>1, <2>2, CostAssumption, SumNat DEF TotalCost
  <2> QED
    BY <2>3, <2>4, <2>5, <1>1
<1>4. ASSUME NEW v \in Users
      PROVE  /\ Done(v)' = Done(v) /\ SubDirect(v)' = SubDirect(v)
             /\ \A x \in Int : CountedSince(v, x)' = CountedSince(v, x)
  BY SumsNext DEF Done, SubDirect, RowsOf, Never, CountedSince
<1> QED
  BY <1>2, <1>3, <1>4

\* A write of the subscription: of the copy s read before, with cost added for
\* the time at.  A stale copy is a loss, dated now; a current one keeps the
\* usage of the period complete, because a window that moves on to a later
\* period starts with nothing counted for it.
LEMMA SubWritten ==
  ASSUME CounterInv, TypeInv', NEW u \in Users, NEW s \in SubRow, NEW at \in Nat, NEW cost \in Nat,
         Delta(s, at, cost, sub'[u]), at <= now, now' = now, created' = created,
         lostSub'[u] = IF s # sub[u] THEN now ELSE lostSub[u],
         reader'[u].at <= now',
         \A q \in Done(u)' : q \in Done(u) \/ created[q] = at,
         \A q \in SubDirect(u)' : (q \in SubDirect(u) /\ directSub'[q] = directSub[q]) \/ directSub'[q] = at,
         \A x \in Int : CountedSince(u, x)' <= CountedSince(u, x) + cost,
         \A x \in Int : CountedSince(u, x)' = 0 \/ (\E q \in Done(u)' : created[q] >= x)
                                                \/ (\E q \in SubDirect(u)' : directSub'[q] >= x),
         RowInv'
  PROVE  SubInv(u)'
<1>1. /\ now \in Nat /\ lostSub[u] \in Int /\ sub[u] \in SubRow /\ SubInv(u)
      /\ s.start \in Int /\ s.used \in Nat /\ sub'[u] \in SubRow /\ sub[u].used \in Nat
      /\ \A q \in Rows : created[q] \in Int /\ directSub[q] \in Int /\ directSub'[q] \in Int
  BY DEF CounterInv, TypeInv, TypeOK, SubRow, NoWindow, NoLoss, Never
<1>2. /\ sub'[u].start \in Int /\ sub'[u].used \in Nat
  BY <1>1 DEF SubRow, NoWindow
<1>3. /\ \A x \in Int : CountedSince(u, x) \in Nat /\ CountedSince(u, x)' \in Nat
      /\ Done(u)' \subseteq Rows /\ SubDirect(u)' \subseteq Rows
      /\ Done(u) \subseteq Rows /\ SubDirect(u) \subseteq Rows
  BY SumsNat, SumsNatNext DEF CounterInv, SumsNatural, Done, SubDirect, RowsOf
<1>4. /\ \A q \in Rows : created[q] <= now /\ directSub'[q] <= now
  BY DEF RowInv
<1> SUFFICES ASSUME u \in Subscribed
             PROVE  /\ \A x \in Int : sub'[u].start = x /\ x > lostSub'[u] => sub'[u].used >= CountedSince(u, x)'
                    /\ \A q \in Done(u)' : created'[q] <= sub'[u].start \/ created'[q] <= lostSub'[u]
                    /\ \A q \in SubDirect(u)' : directSub'[q] <= sub'[u].start \/ directSub'[q] <= lostSub'[u]
  BY DEF SubInv
<1>5. CASE s # sub[u]
  <2>1. lostSub'[u] = now
    BY <1>5
  <2>2. ASSUME NEW x \in Int, x > now PROVE CountedSince(u, x)' = 0
    BY <1>1, <1>3, <1>4, <2>2
  <2> QED
    BY <1>1, <1>2, <1>3, <1>4, <2>1, <2>2
<1>6. CASE s = sub[u] /\ at <= s.start
  <2>1. sub'[u].start = sub[u].start /\ sub'[u].used = sub[u].used + cost /\ lostSub'[u] = lostSub[u]
    BY <1>6 DEF Delta
  <2>2. \A x \in Int : sub'[u].start = x /\ x > lostSub'[u] => sub'[u].used >= CountedSince(u, x)'
    BY <1>1, <1>3, <2>1 DEF SubInv
  <2>3. \A q \in Done(u)' : created'[q] <= sub'[u].start \/ created'[q] <= lostSub'[u]
    BY <1>1, <1>3, <1>6, <2>1 DEF SubInv
  <2>4. \A q \in SubDirect(u)' : directSub'[q] <= sub'[u].start \/ directSub'[q] <= lostSub'[u]
    BY <1>1, <1>3, <1>6, <2>1 DEF SubInv
  <2> QED
    BY <2>2, <2>3, <2>4
<1>7. CASE s = sub[u] /\ at > s.start
  <2>1. sub'[u].start = at /\ sub'[u].used = cost /\ lostSub'[u] = lostSub[u]
    BY <1>7 DEF Delta
  <2>2. ASSUME at > lostSub[u] PROVE CountedSince(u, at) = 0
    <3>1. \A q \in Done(u) : ~(created[q] >= at)
      BY <1>1, <1>3, <1>7, <2>2 DEF SubInv
    <3>2. \A q \in SubDirect(u) : ~(directSub[q] >= at)
      BY <1>1, <1>3, <1>7, <2>2 DEF SubInv
    <3> QED
      BY <3>1, <3>2, NothingSince
  <2>3. \A x \in Int : sub'[u].start = x /\ x > lostSub'[u] => sub'[u].used >= CountedSince(u, x)'
    BY <1>1, <1>3, <2>1, <2>2
  <2>4. \A q \in Done(u)' : created'[q] <= sub'[u].start \/ created'[q] <= lostSub'[u]
    BY <1>1, <1>3, <1>7, <2>1 DEF SubInv
  <2>5. \A q \in SubDirect(u)' : directSub'[q] <= sub'[u].start \/ directSub'[q] <= lostSub'[u]
    BY <1>1, <1>3, <1>7, <2>1 DEF SubInv
  <2> QED
    BY <2>3, <2>4, <2>5
<1> QED
  BY <1>1, <1>5, <1>6, <1>7

\* The last hypothesis of SubWritten, for any step.
LEMMA NothingSinceNext ==
  ASSUME NEW u \in Users, created' = created
  PROVE  \A x \in Int : CountedSince(u, x)' = 0 \/ (\E q \in Done(u)' : created[q] >= x)
                                                \/ (\E q \in SubDirect(u)' : directSub'[q] >= x)
<1> SUFFICES ASSUME NEW x \in Int, \A q \in Done(u)' : ~(created[q] >= x),
                    \A q \in SubDirect(u)' : ~(directSub'[q] >= x)
             PROVE  CountedSince(u, x)' = 0
  OBVIOUS
<1>1. /\ {q \in RowsOf(u) : aggregated'[q] /\ created'[q] >= x} = {}
      /\ {q \in RowsOf(u) : directSub'[q] # Never /\ directSub'[q] >= x} = {}
  BY DEF Done, SubDirect, RowsOf, Never
<1>2. TotalCost({}) = 0
  BY SumEmpty DEF TotalCost
<1>3. CountedSince(u, x)' =
         TotalCost({q \in RowsOf(u) : aggregated'[q] /\ created'[q] >= x})
         + TotalCost({q \in RowsOf(u) : directSub'[q] # Never /\ directSub'[q] >= x})
  BY SumsNext
<1>4. CountedSince(u, x)' = TotalCost({}) + TotalCost({})
  BY <1>1, <1>3
<1> QED
  BY <1>2, <1>4

\* What the commit of p publishes.
LEMMA PublishFacts ==
  ASSUME TypeInv, NEW p \in Procs, tx[p].pc # "idle", Publish(p), NEW u \in Users, u = Owner[tx[p].row]
  PROVE  /\ \A v \in Users : v # u => /\ sub'[v] = sub[v] /\ key'[v] = key[v] /\ lostSub'[v] = lostSub[v]
                                      /\ v \in lostKey => v \in lostKey'
         /\ "sub" \in tx[p].wrote =>
              /\ Delta(tx[p].sub, tx[p].at, Cost[tx[p].row], sub'[u])
              /\ lostSub'[u] = IF tx[p].sub # sub[u] THEN now ELSE lostSub[u]
         /\ "sub" \notin tx[p].wrote => sub' = sub /\ lostSub' = lostSub
         /\ "key" \in tx[p].wrote =>
              /\ key'[u].total = tx[p].key.total + Cost[tx[p].row]
              /\ u \notin lostKey' => u \notin lostKey /\ tx[p].key = key[u]
         /\ "key" \notin tx[p].wrote => key' = key /\ lostKey' = lostKey
<1>1. /\ tx[p].sub \in SubRow /\ tx[p].key \in KeyRow /\ tx[p].at \in Nat /\ Cost[tx[p].row] \in Nat
      /\ sub \in [Users -> SubRow] /\ key \in [Users -> KeyRow] /\ lostSub \in [Users -> Nat \cup {NoLoss}]
  BY OpenTx DEF TypeInv, TypeOK
<1>2. PICK s, k : /\ s = applyUsageDelta(tx[p].sub, tx[p].at, Cost[tx[p].row])
                  /\ k = applyAPIKeyCostUsage(tx[p].key, tx[p].at, Cost[tx[p].row])
  OBVIOUS
<1>3. /\ Delta(tx[p].sub, tx[p].at, Cost[tx[p].row], s) /\ k.total = tx[p].key.total + Cost[tx[p].row]
  BY <1>1, <1>2, DeltaFacts, KeyTotalGrows
<1>4. /\ sub' = IF "sub" \in tx[p].wrote THEN [sub EXCEPT ![u] = s] ELSE sub
      /\ key' = IF "key" \in tx[p].wrote THEN [key EXCEPT ![u] = k] ELSE key
      /\ lostSub' = IF "sub" \in tx[p].wrote /\ tx[p].sub # sub[u] THEN [lostSub EXCEPT ![u] = now] ELSE lostSub
      /\ lostKey' = IF "key" \in tx[p].wrote /\ tx[p].key # key[u] THEN lostKey \cup {u} ELSE lostKey
  BY <1>2, Zenon DEF Publish
<1>5. /\ sub' = sub \/ sub' = [sub EXCEPT ![u] = s]
      /\ "sub" \in tx[p].wrote => sub'[u] = s
      /\ "sub" \notin tx[p].wrote => sub' = sub /\ lostSub' = lostSub
  BY <1>4, <1>1
<1>6. /\ key' = key \/ key' = [key EXCEPT ![u] = k]
      /\ "key" \in tx[p].wrote => key'[u] = k
      /\ "key" \notin tx[p].wrote => key' = key /\ lostKey' = lostKey
  BY <1>4, <1>1
<1>7. /\ \A v \in Users : v # u => lostSub'[v] = lostSub[v] /\ (v \in lostKey => v \in lostKey')
      /\ "sub" \in tx[p].wrote => lostSub'[u] = IF tx[p].sub # sub[u] THEN now ELSE lostSub[u]
      /\ "key" \in tx[p].wrote => (u \notin lostKey' => u \notin lostKey /\ tx[p].key = key[u])
  BY <1>4, <1>1
<1>8. \A v \in Users : v # u => sub'[v] = sub[v] /\ key'[v] = key[v]
  BY <1>1, <1>5, <1>6
<1> QED
  BY <1>3, <1>5, <1>6, <1>7, <1>8

\* The key after a commit that counts cost on it.
LEMMA KeyCounted ==
  ASSUME CounterInv, TypeInv', NEW p \in Procs, tx[p].pc # "idle", Publish(p), NEW u \in Users, u = Owner[tx[p].row],
         CountedCost(u)' = CountedCost(u) + Cost[tx[p].row],
         "key" \notin tx[p].wrote => ~keyLive[u], UNCHANGED <<keyLive, waived, editor>>
  PROVE  KeyInv(u)'
<1>1. /\ tx[p].key.total \in Nat /\ key[u].total \in Nat /\ Cost[tx[p].row] \in Nat /\ waived[u] \in Nat
      /\ editor[u].key.total \in Nat /\ CountedCost(u) \in Nat
  BY OpenTx, SumsNat DEF CounterInv, TypeInv, TypeOK, KeyRow, SumsNatural
<1>2. /\ "key" \in tx[p].wrote =>
              /\ key'[u].total = tx[p].key.total + Cost[tx[p].row]
              /\ u \notin lostKey' => u \notin lostKey /\ tx[p].key = key[u]
      /\ "key" \notin tx[p].wrote => key' = key /\ lostKey' = lostKey
  BY PublishFacts DEF CounterInv
<1>3. KeyInv(u) /\ tx[p].key.total <= CountedCost(u)
  BY DEF CounterInv, TxInv
<1>4. CASE "key" \in tx[p].wrote
  BY <1>1, <1>2, <1>3, <1>4 DEF KeyInv
<1>5. CASE "key" \notin tx[p].wrote
  BY <1>1, <1>2, <1>3, <1>5 DEF KeyInv
<1> QED
  BY <1>4, <1>5

\* The transactions of the other processes when p commits.
LEMMA OthersCommit ==
  ASSUME CounterInv, TypeInv', NEW p \in Procs, NEW q \in Procs, q # p, tx'[q] = tx[q],
         UNCHANGED <<now, created, keyLive, live>>,
         \A u \in Users : CountedCost(u) <= CountedCost(u)',
         directKey' = directKey \/ directKey' = directKey \cup {p},
         \A r \in Rows : r # p => directSub'[r] = directSub[r]
  PROVE  TxInv(q)'
<1>2. CASE tx[q].pc = "idle"
  BY <1>2 DEF TxInv
<1>3. CASE tx[q].pc # "idle"
  <2>1. tx[q].way # "aggregation" => q \in Rows
    <3>1. tx[q].row \in Rows /\ tx[q].way \in {"aggregation", "usage", "cost"}
      BY <1>3, OpenTx DEF CounterInv, TypeInv, TxState
    <3>2. TxInv(q)
      BY DEF CounterInv
    <3> QED
      BY <1>3, <3>1, <3>2 DEF TxInv, UsageInv, CostInv
  <2>2. TypeInv /\ TxInv(q) /\ now' >= now
    BY DEF CounterInv, TypeInv, TypeOK
  <2>3. tx[q].way # "aggregation" =>
             /\ q \notin directKey => q \notin directKey'
             /\ tx[q].way = "usage" /\ directSub[q] = Never => directSub'[q] = Never
    BY <2>1
  <2> QED
    BY <2>2, <2>3, TxKept
<1> QED
  BY <1>2, <1>3

\* ApplyAggregation commits: row r joins the counted ones, once.
LEMMA CommitCounts ==
  ASSUME CounterInv, TypeInv', ClaimInv', NEW p \in Procs, Commit(p)
  PROVE  CounterInv'
<1>1. PICK r \in Rows, u \in Users : r = tx[p].row /\ u = Owner[r]
  BY OpenTx DEF Commit, CounterInv, TypeInv
<1>2. /\ tx[p].pc = "commit" /\ tx[p].way = "aggregation" /\ Publish(p) /\ tx' = [tx EXCEPT ![p] = NoTx]
      /\ aggregated' = [aggregated EXCEPT ![r] = TRUE]
      /\ UNCHANGED <<now, created, keyLive, live, directSub, directKey, waived, reader, editor>>
  BY <1>1 DEF Commit, env, others
<1>3. /\ tx[p].at \in Nat /\ tx[p].sub \in SubRow /\ Cost[r] \in Nat /\ Owner[tx[p].row] = u
      /\ tx \in [Procs -> TxState] /\ now \in Nat /\ TypeInv /\ RowInv
      /\ \A v \in Users : CountedCost(v) \in Nat /\ CountedCost(v)' \in Nat
      /\ aggregated \in [Rows -> BOOLEAN] /\ reader[u].at <= now
  BY <1>1, <1>2, OpenTx, SumsNat, SumsNatNext DEF CounterInv, TypeInv, TypeOK, SumsNatural, SubInv
<1>4. AggregationInv(p) /\ created[r] = tx[p].at /\ tx[p].at <= now /\ created[r] # Never
  <2>1. TxInv(p)
    BY DEF CounterInv
  <2> QED
    BY <2>1, <1>1, <1>2, <1>3 DEF TxInv, AggregationInv, Never
<1>5. ~aggregated[r]
  <2>1. Claimed(p)
    BY <1>2 DEF Claimed, AfterClaim
  <2> QED
    BY <1>1, <2>1 DEF CounterInv, ClaimInv, ClaimHeld
<1>6. Counts(u, r, created[r], Cost[r])
  BY <1>1, <1>2, <1>5, CommitAdds
<1>7. RowInv'
  BY <1>2, <1>3, <1>4 DEF RowInv
<1>8. ASSUME NEW q \in Procs PROVE TxInv(q)'
  <2>1. CASE q = p
    <3>1. tx'[p].pc = "idle"
      BY <1>2, <1>3, NoTxType
    <3> QED
      BY <2>1, <3>1 DEF TxInv
  <2>2. CASE q # p
    <3>1. tx'[q] = tx[q]
      BY <1>2, <2>2
    <3>2. \A v \in Users : CountedCost(v) <= CountedCost(v)'
      BY <1>3, <1>6 DEF Counts
    <3> QED
      BY <1>2, <2>2, <3>1, <3>2, OthersCommit
  <2> QED
    BY <2>1, <2>2
<1>9. ASSUME NEW v \in Users, v # u PROVE KeyInv(v)' /\ SubInv(v)'
  <2>1. /\ sub'[v] = sub[v] /\ key'[v] = key[v] /\ lostSub'[v] = lostSub[v] /\ (v \in lostKey => v \in lostKey')
    BY <1>1, <1>2, <1>3, <1>9, PublishFacts
  <2>2. /\ CountedCost(v)' = CountedCost(v) /\ Done(v)' = Done(v) /\ SubDirect(v)' = SubDirect(v)
        /\ \A x \in Int : CountedSince(v, x)' = CountedSince(v, x)
    BY <1>6, <1>9 DEF Counts
  <2>3. KeyInv(v)'
    BY <1>2, <2>1, <2>2, KeyKept DEF CounterInv
  <2>4. SubInv(v)'
    BY <1>2, <1>3, <2>1, <2>2, SubKept DEF CounterInv
  <2> QED
    BY <2>3, <2>4
<1>10. KeyInv(u)'
  <2>1. CountedCost(u)' = CountedCost(u) + Cost[tx[p].row]
    BY <1>1, <1>6 DEF Counts
  <2>2. "key" \notin tx[p].wrote => ~keyLive[u]
    BY <1>2, <1>3, <1>4 DEF AggregationInv
  <2> QED
    BY <1>1, <1>2, <2>1, <2>2, KeyCounted
<1>11. SubInv(u)'
  <2>1. CASE u \in Subscribed
    <3>1. "sub" \in tx[p].wrote
      BY <1>2, <1>3, <1>4, <2>1 DEF AggregationInv
    <3>2. /\ Delta(tx[p].sub, tx[p].at, Cost[r], sub'[u])
          /\ lostSub'[u] = IF tx[p].sub # sub[u] THEN now ELSE lostSub[u]
      BY <1>1, <1>2, <1>3, <3>1, PublishFacts
    <3>3. /\ \A q \in Done(u)' : q \in Done(u) \/ created[q] = tx[p].at
          /\ \A q \in SubDirect(u)' : (q \in SubDirect(u) /\ directSub'[q] = directSub[q]) \/ directSub'[q] = tx[p].at
          /\ \A x \in Int : CountedSince(u, x)' <= CountedSince(u, x) + Cost[r]
      BY <1>4, <1>6 DEF Counts
    <3>4. \A x \in Int : CountedSince(u, x)' = 0 \/ (\E q \in Done(u)' : created[q] >= x)
                                                 \/ (\E q \in SubDirect(u)' : directSub'[q] >= x)
      BY <1>2, NothingSinceNext
    <3> QED
      BY <1>2, <1>3, <1>4, <1>7, <3>2, <3>3, <3>4, SubWritten
  <2>2. CASE u \notin Subscribed
    BY <1>2, <1>3, <2>2 DEF SubInv
  <2> QED
    BY <2>1, <2>2
<1> QED
  BY <1>7, <1>8, <1>9, <1>10, <1>11 DEF CounterInv

\* IncrementMaterializedUsage commits: usage is counted for its own time.
LEMMA CommitUsageCounts ==
  ASSUME CounterInv, TypeInv', ClaimInv', NEW p \in Procs, CommitUsage(p)
  PROVE  CounterInv'
<1>1. PICK r \in Rows, u \in Users : r = tx[p].row /\ u = Owner[r]
  BY OpenTx DEF CommitUsage, CounterInv, TypeInv
<1>2. /\ tx[p].pc = "commit" /\ tx[p].way = "usage" /\ Publish(p)
      /\ tx' = [tx EXCEPT ![p].pc = "key", ![p].way = "cost", ![p].wrote = {}]
      /\ directSub' = [directSub EXCEPT ![r] = tx[p].at]
      /\ UNCHANGED <<now, created, keyLive, live, aggregated, directKey, waived, reader, editor>>
  BY <1>1 DEF CommitUsage, env, others
<1>3. /\ tx[p].at \in Nat /\ tx[p].sub \in SubRow /\ Cost[r] \in Nat /\ Owner[tx[p].row] = u
      /\ tx \in [Procs -> TxState] /\ now \in Nat /\ TypeInv /\ RowInv
      /\ \A v \in Users : CountedCost(v) \in Nat
      /\ directSub \in [Rows -> Nat \cup {Never}] /\ reader[u].at <= now
  BY <1>1, <1>2, OpenTx, SumsNat DEF CounterInv, TypeInv, TypeOK, SumsNatural, SubInv
<1>4. /\ UsageInv(p) /\ tx[p].at <= now /\ TxInv(p) /\ r = p /\ live[r] = "over" /\ directSub[r] = Never
      /\ tx[p].wrote = {"sub"} /\ p \notin directKey
  BY <1>1, <1>2 DEF CounterInv, TxInv, UsageInv
<1>6. Counts(u, r, tx[p].at, 0)
  BY <1>1, <1>2, <1>3, <1>4, CommitUsageAdds
<1>5. \A v \in Users : CountedCost(v)' = CountedCost(v)
  BY <1>3, <1>6 DEF Counts
<1>7. RowInv'
  BY <1>2, <1>3, <1>4 DEF RowInv
<1>8. ASSUME NEW q \in Procs PROVE TxInv(q)'
  <2>1. CASE q = p
    <3>1. /\ tx'[p].pc = "key" /\ tx'[p].way = "cost" /\ tx'[p].wrote = {} /\ tx'[p].row = tx[p].row
          /\ tx'[p].at = tx[p].at /\ tx'[p].key = tx[p].key
      BY <1>2, <1>3 DEF TxState
    <3>2. CostInv(p)'
      BY <1>1, <1>2, <1>4, <3>1 DEF CostInv
    <3>3. \A v \in Users : Owner[tx[p].row] = v => tx[p].key.total <= CountedCost(v)'
      BY <1>2, <1>4, <1>5 DEF TxInv
    <3> QED
      BY <2>1, <1>2, <1>4, <3>1, <3>2, <3>3 DEF TxInv
  <2>2. CASE q # p
    <3>1. tx'[q] = tx[q]
      BY <1>2, <1>3, <2>2
    <3>2. \A v \in Users : CountedCost(v) <= CountedCost(v)'
      BY <1>3, <1>5
    <3>3. \A s \in Rows : s # p => directSub'[s] = directSub[s]
      BY <1>2, <1>4
    <3> QED
      BY <1>2, <2>2, <3>1, <3>2, <3>3, OthersCommit
  <2> QED
    BY <2>1, <2>2
<1>9. ASSUME NEW v \in Users PROVE KeyInv(v)'
  <2>1. key' = key /\ lostKey' = lostKey
    BY <1>1, <1>2, <1>3, <1>4, PublishFacts
  <2> QED
    BY <1>2, <1>5, <2>1, KeyKept DEF CounterInv
<1>10. ASSUME NEW v \in Users, v # u PROVE SubInv(v)'
  <2>1. sub'[v] = sub[v] /\ lostSub'[v] = lostSub[v]
    BY <1>1, <1>2, <1>3, <1>10, PublishFacts
  <2>2. /\ Done(v)' = Done(v) /\ SubDirect(v)' = SubDirect(v)
        /\ \A x \in Int : CountedSince(v, x)' = CountedSince(v, x)
        /\ \A q \in SubDirect(v) : directSub'[q] = directSub[q]
    BY <1>6, <1>10 DEF Counts
  <2> QED
    BY <1>2, <1>3, <2>1, <2>2, SubKept DEF CounterInv
<1>11. SubInv(u)'
  <2>0. "sub" \in tx[p].wrote
    BY <1>4
  <2>1. /\ Delta(tx[p].sub, tx[p].at, Cost[r], sub'[u])
        /\ lostSub'[u] = IF tx[p].sub # sub[u] THEN now ELSE lostSub[u]
    BY <1>1, <1>2, <1>3, <2>0, PublishFacts
  <2>2. /\ \A q \in Done(u)' : q \in Done(u) \/ created[q] = tx[p].at
        /\ \A q \in SubDirect(u)' : (q \in SubDirect(u) /\ directSub'[q] = directSub[q]) \/ directSub'[q] = tx[p].at
        /\ \A x \in Int : CountedSince(u, x)' <= CountedSince(u, x) + Cost[r]
    BY <1>6 DEF Counts
  <2>3. \A x \in Int : CountedSince(u, x)' = 0 \/ (\E q \in Done(u)' : created[q] >= x)
                                               \/ (\E q \in SubDirect(u)' : directSub'[q] >= x)
    BY <1>2, NothingSinceNext
  <2> QED
    BY <1>2, <1>3, <1>4, <1>7, <2>1, <2>2, <2>3, SubWritten
<1> QED
  BY <1>7, <1>8, <1>9, <1>10, <1>11 DEF CounterInv

\* ApplyCostUsage commits: the row is counted on its key directly.
LEMMA CommitCostCounts ==
  ASSUME CounterInv, TypeInv', ClaimInv', NEW p \in Procs, CommitCost(p)
  PROVE  CounterInv'
<1>1. PICK r \in Rows, u \in Users : r = tx[p].row /\ u = Owner[r]
  BY OpenTx DEF CommitCost, CounterInv, TypeInv
<1>2. /\ tx[p].pc = "commit" /\ tx[p].way = "cost" /\ Publish(p) /\ tx' = [tx EXCEPT ![p] = NoTx]
      /\ directKey' = directKey \cup {r}
      /\ UNCHANGED <<now, created, keyLive, live, aggregated, directSub, waived, reader, editor>>
  BY <1>1 DEF CommitCost, env, others
<1>3. /\ Cost[r] \in Nat /\ Owner[tx[p].row] = u
      /\ tx \in [Procs -> TxState] /\ now \in Nat /\ TypeInv /\ RowInv
      /\ \A v \in Users : CountedCost(v) \in Nat
  BY <1>1, <1>2, OpenTx, SumsNat DEF CounterInv, TypeInv, TypeOK, SumsNatural
<1>4. CostInv(p) /\ r = p /\ live[r] = "over" /\ tx[p].wrote = {"key"} /\ r \notin directKey
  BY <1>1, <1>2 DEF CounterInv, TxInv, CostInv
<1>6. /\ \A v \in Users : v # u => CountedCost(v)' = CountedCost(v)
      /\ CountedCost(u)' = CountedCost(u) + Cost[r]
      /\ \A v \in Users : /\ Done(v)' = Done(v) /\ SubDirect(v)' = SubDirect(v)
                          /\ \A x \in Int : CountedSince(v, x)' = CountedSince(v, x)
  BY <1>1, <1>2, <1>4, CommitCostAdds
<1>7. RowInv'
  BY <1>2, <1>3, <1>4 DEF RowInv
<1>8. ASSUME NEW q \in Procs PROVE TxInv(q)'
  <2>1. CASE q = p
    <3>1. tx'[p].pc = "idle"
      BY <1>2, <1>3, NoTxType
    <3> QED
      BY <2>1, <3>1 DEF TxInv
  <2>2. CASE q # p
    <3>1. tx'[q] = tx[q]
      BY <1>2, <2>2
    <3>2. \A v \in Users : CountedCost(v) <= CountedCost(v)'
      BY <1>3, <1>6
    <3> QED
      BY <1>2, <1>4, <2>2, <3>1, <3>2, OthersCommit
  <2> QED
    BY <2>1, <2>2
<1>9. ASSUME NEW v \in Users, v # u PROVE KeyInv(v)'
  <2>1. key'[v] = key[v] /\ (v \in lostKey => v \in lostKey')
    BY <1>1, <1>2, <1>3, <1>9, PublishFacts
  <2> QED
    BY <1>2, <1>6, <1>9, <2>1, KeyKept DEF CounterInv
<1>10. KeyInv(u)'
  BY <1>1, <1>2, <1>4, <1>6, KeyCounted
<1>11. ASSUME NEW v \in Users PROVE SubInv(v)'
  <2>1. sub' = sub /\ lostSub' = lostSub
    BY <1>1, <1>2, <1>3, <1>4, PublishFacts
  <2> QED
    BY <1>2, <1>3, <1>6, <2>1, SubKept DEF CounterInv
<1> QED
  BY <1>7, <1>8, <1>9, <1>10, <1>11 DEF CounterInv

\* Deletions, resets, edits and entitlement checks: no transaction moves and
\* nothing is counted.
LEMMA OthersCount ==
  ASSUME CounterInv, TypeInv', ClaimInv', NEW u \in Users,
         DeleteKey(u) \/ ResetUsage(u) \/ EditRead(u) \/ EditWrite(u) \/ ReadUsage(u) \/ WriteBackUsage(u)
  PROVE  CounterInv'
<1>1. /\ UNCHANGED <<now, created, live, aggregated, directSub, directKey, tx>>
      /\ \A v \in Users : keyLive'[v] => keyLive[v]
      /\ \A v \in Users : v # u => /\ sub'[v] = sub[v] /\ key'[v] = key[v] /\ reader'[v] = reader[v]
                                   /\ editor'[v] = editor[v] /\ lostSub'[v] = lostSub[v]
                                   /\ v \in lostKey => v \in lostKey'
                                   /\ waived'[v] = waived[v]
  <2>1. /\ keyLive \in [Users -> BOOLEAN] /\ sub \in [Users -> SubRow] /\ key \in [Users -> KeyRow]
        /\ lostSub \in [Users -> Nat \cup {NoLoss}] /\ waived \in [Users -> Nat]
        /\ reader \in [Users -> [open : BOOLEAN, at : Nat, sub : SubRow]]
        /\ editor \in [Users -> [open : BOOLEAN, key : KeyRow]]
    BY DEF CounterInv, TypeInv, TypeOK
  <2>2. CASE DeleteKey(u)
    BY <2>1, <2>2 DEF DeleteKey, counters, history, others
  <2>3. CASE ResetUsage(u)
    BY <2>1, <2>3 DEF ResetUsage, env, others
  <2>4. CASE EditRead(u)
    BY <2>1, <2>4 DEF EditRead, env, counters, history
  <2>5. CASE EditWrite(u)
    BY <2>1, <2>5 DEF EditWrite, env
  <2>6. CASE ReadUsage(u)
    BY <2>1, <2>6 DEF ReadUsage, env, counters, history
  <2>7. CASE WriteBackUsage(u)
    BY <2>1, <2>7 DEF WriteBackUsage, env
  <2> QED
    BY <2>2, <2>3, <2>4, <2>5, <2>6, <2>7
<1>2. /\ TypeInv /\ RowInv /\ now \in Nat /\ now' \in Nat /\ now' >= now
      /\ \A v \in Users : CountedCost(v) \in Nat /\ KeyInv(v) /\ SubInv(v)
  BY <1>1, SumsNat DEF CounterInv, TypeInv, TypeOK, SumsNatural
<1>3. \A v \in Users : /\ CountedCost(v)' = CountedCost(v)
                       /\ Done(v)' = Done(v) /\ SubDirect(v)' = SubDirect(v)
                       /\ \A r \in Done(v) : created'[r] = created[r]
                       /\ \A x \in Int : CountedSince(v, x)' = CountedSince(v, x)
  BY <1>1, <1>2, SumsKept
<1>4. RowInv'
  BY <1>1, <1>2 DEF RowInv
<1>5. ASSUME NEW p \in Procs PROVE TxInv(p)'
  BY <1>1, <1>2, <1>3, TxKept DEF CounterInv
<1>6. ASSUME NEW v \in Users, v # u PROVE KeyInv(v)' /\ SubInv(v)'
  <2>1. KeyInv(v)'
    BY <1>1, <1>2, <1>3, <1>6, KeyKept
  <2>2. SubInv(v)'
    BY <1>1, <1>2, <1>3, <1>6, SubKept
  <2> QED
    BY <2>1, <2>2
<1>7. KeyInv(u)'
  <2>1. CASE DeleteKey(u) \/ ReadUsage(u) \/ WriteBackUsage(u)
    <3>1. UNCHANGED <<key, editor, lostKey, waived>>
      BY <2>1 DEF DeleteKey, ReadUsage, WriteBackUsage, counters, history, others
    <3> QED
      BY <1>1, <1>2, <1>3, <3>1, KeyKept
  <2>2. CASE ResetUsage(u)
    <3>1. key'[u].total = 0 /\ waived'[u] = CountedCost(u) /\ editor'[u] = editor[u]
      BY <2>2 DEF ResetUsage, EmptyKey, others, CounterInv, TypeInv, TypeOK
    <3> QED
      BY <1>2, <1>3, <3>1 DEF KeyInv
  <2>3. CASE EditRead(u)
    <3>1. key'[u] = key[u] /\ waived'[u] = waived[u] /\ editor'[u].key = key[u]
          /\ lostKey' = lostKey /\ keyLive' = keyLive
      BY <2>3 DEF EditRead, counters, history, env, CounterInv, TypeInv, TypeOK
    <3> QED
      BY <1>2, <1>3, <3>1 DEF KeyInv
  <2>4. CASE EditWrite(u)
    <3>1. editor[u].key \in KeyRow /\ key[u] \in KeyRow /\ key \in [Users -> KeyRow]
          /\ editor \in [Users -> [open : BOOLEAN, key : KeyRow]]
      BY <1>2 DEF TypeInv, TypeOK
    <3>2. editor'[u].key.total = 0 /\ waived'[u] = waived[u] /\ keyLive' = keyLive
      BY <2>4, <3>1 DEF EditWrite, NoEdit, EmptyKey, env
    <3>3. PICK k : k = [editor[u].key EXCEPT !.start = IF @ = NoWindow THEN key[u].start ELSE @]
      OBVIOUS
    <3>4. k.total = editor[u].key.total
      BY <3>1, <3>3 DEF KeyRow
    <3>5. /\ key' = IF keyLive[u] THEN [key EXCEPT ![u] = k] ELSE key
          /\ lostKey' = IF keyLive[u] /\ editor[u].key # key[u] THEN lostKey \cup {u} ELSE lostKey
      BY <2>4, <3>3, Zenon DEF EditWrite
    <3>6. /\ keyLive[u] => key'[u] = k
          /\ ~keyLive[u] => key'[u] = key[u]
          /\ keyLive[u] /\ u \notin lostKey' => u \notin lostKey /\ editor[u].key = key[u]
      BY <3>1, <3>5
    <3> QED
      BY <1>2, <1>3, <3>2, <3>4, <3>6 DEF KeyInv
  <2> QED
    BY <2>1, <2>2, <2>3, <2>4
<1>8. SubInv(u)'
  <2>1. CASE DeleteKey(u) \/ ResetUsage(u) \/ EditRead(u) \/ EditWrite(u)
    <3>1. UNCHANGED <<sub, reader, lostSub>>
      BY <2>1 DEF DeleteKey, ResetUsage, EditRead, EditWrite, counters, history, others
    <3> QED
      BY <1>1, <1>2, <1>3, <3>1, SubKept
  <2>2. CASE ReadUsage(u)
    <3>1. sub' = sub /\ lostSub' = lostSub /\ reader'[u].at = now
      BY <2>2 DEF ReadUsage, counters, history, CounterInv, TypeInv, TypeOK
    <3> QED
      BY <1>1, <1>2, <1>3, <3>1 DEF SubInv
  <2>3. CASE WriteBackUsage(u)
    <3>1. /\ reader[u].sub \in SubRow /\ reader[u].at \in Nat /\ sub \in [Users -> SubRow]
          /\ lostSub \in [Users -> Nat \cup {NoLoss}]
          /\ reader \in [Users -> [open : BOOLEAN, at : Nat, sub : SubRow]]
      BY <1>2 DEF TypeInv, TypeOK
    <3>2. /\ sub'[u] = resetExpiredUsage(reader[u].sub, reader[u].at)
          /\ lostSub'[u] = IF reader[u].sub # sub[u] THEN now ELSE lostSub[u]
          /\ reader'[u].at = 0
      BY <2>3, <3>1 DEF WriteBackUsage, NoRead
    <3>3. Delta(reader[u].sub, reader[u].at, 0, sub'[u]) /\ reader[u].at <= now
      BY <1>2, <3>1, <3>2, ResetFacts DEF SubInv
    <3>4. \A x \in Int : CountedSince(u, x) \in Nat /\ CountedSince(u, x)' <= CountedSince(u, x) + 0
      BY <1>2, <1>3, SumsNat DEF SumsNatural
    <3>5. \A x \in Int : CountedSince(u, x)' = 0 \/ (\E q \in Done(u)' : created[q] >= x)
                                                 \/ (\E q \in SubDirect(u)' : directSub'[q] >= x)
      BY <1>1, NothingSinceNext
    <3>6. /\ \A q \in Done(u)' : q \in Done(u) \/ created[q] = reader[u].at
          /\ \A q \in SubDirect(u)' : (q \in SubDirect(u) /\ directSub'[q] = directSub[q])
                                      \/ directSub'[q] = reader[u].at
      BY <1>1, <1>3
    <3>7. reader[u].sub \in SubRow /\ reader[u].at \in Nat /\ 0 \in Nat /\ reader'[u].at <= now'
          /\ now' = now /\ created' = created
      BY <1>1, <1>2, <3>1, <3>2
    <3>8. \A x \in Int : CountedSince(u, x)' <= CountedSince(u, x) + 0
      BY <3>4
    <3> QED
      BY <1>4, <3>2, <3>3, <3>5, <3>6, <3>7, <3>8, SubWritten
  <2> QED
    BY <2>1, <2>2, <2>3
<1> QED
  BY <1>4, <1>5, <1>6, <1>7, <1>8 DEF CounterInv

\* Every step of the specification preserves what the counters hold.
LEMMA CounterInvNext == CounterInv /\ [Next]_vars => CounterInv'
<1> SUFFICES ASSUME CounterInv, [Next]_vars PROVE CounterInv'
  OBVIOUS
<1>1. TypeInv' /\ ClaimInv'
  BY TypeInvNext, ClaimInvNext DEF CounterInv
<1>2. ASSUME NEW r \in Rows,
             \/ RecordUsage(r) \/ RecordFails(r) \/ LiveDropped(r) \/ LiveApply(r)
             \/ recordGatewayMaterializedCosts(r) \/ SweepApply(r)
      PROVE  CounterInv'
  BY <1>1, <1>2, GatewayCounts
<1>3. ASSUME NEW p \in Procs, TxStep(p) \/ Rollback(p) PROVE CounterInv'
  BY <1>1, <1>3, ClaimCounts, ReadSubscriptionCounts, WriteSubscriptionCounts, KeyStatementCounts,
     CommitCounts, CommitUsageCounts, CommitCostCounts, RollbackCounts DEF TxStep
<1>4. ASSUME NEW u \in Users,
             DeleteKey(u) \/ ResetUsage(u) \/ EditRead(u) \/ EditWrite(u) \/ ReadUsage(u) \/ WriteBackUsage(u)
      PROVE  CounterInv'
  BY <1>1, <1>4, OthersCount
<1>5. CASE SweepPending \/ Tick \/ UNCHANGED vars
  <2>1. /\ UNCHANGED <<created, keyLive, live, aggregated, directSub, directKey, counters, others, tx>>
        /\ now' = now \/ now' = now + 1
    BY <1>5 DEF SweepPending, Tick, vars, env, counters, history
  <2>2. now \in Nat /\ RowInv /\ created \in [Rows -> Nat \cup {Never}] /\ directSub \in [Rows -> Nat \cup {Never}]
    BY DEF CounterInv, TypeInv, TypeOK
  <2>3. RowInv'
    BY <2>1, <2>2 DEF RowInv, Never
  <2> QED
    BY <1>1, <2>1, <2>2, <2>3, QuietStep
<1> QED
  BY <1>2, <1>3, <1>4, <1>5 DEF Next

\* The API key's lifetime cost never exceeds what was counted, and is exactly
\* what was counted since the key's last reset unless an update was lost on it
\* since then: for any number of rows, users, live writers, direct increments,
\* sweeps, resets, edits, rollbacks and deletions, and any costs.
THEOREM KeyCostExact == Spec => []CostExact
<1>1. CounterInv => CostExact
  BY DEF CounterInv, KeyInv, CostExact
<1> QED
  BY CounterInvInit, CounterInvNext, <1>1, PTL DEF Spec

\* The subscription's daily usage covers every committed increment of the
\* stored period and of later ones, unless an update was lost in that period
\* or after it: rows may be aggregated late and out of order, directly or by
\* the reconciler, while entitlement checks write the subscription back.
THEOREM PeriodCovered == Spec => []UsageCoversPeriod
<1>1. CounterInv => UsageCoversPeriod
  <2> SUFFICES ASSUME CounterInv, NEW u \in Users, u \in Subscribed, sub[u].start > lostSub[u]
               PROVE  sub[u].used >= CountedSince(u, sub[u].start)
    BY DEF UsageCoversPeriod
  <2>1. sub[u].start \in Int
    BY DEF CounterInv, TypeInv, TypeOK, SubRow, NoWindow
  <2> QED
    BY <2>1 DEF CounterInv, SubInv
<1> QED
  BY CounterInvInit, CounterInvNext, <1>1, PTL DEF Spec

\* The stored window start of a subscription moves back only in a step that
\* writes an old copy over it: neither a replayed row of an older period nor a
\* slow entitlement check takes it back otherwise, for any number of either.
THEOREM WindowNeverMovesBack == Spec => WindowForwardOnly
<1>1. TypeInv /\ [Next]_vars =>
        [\A u \in Users : sub'[u].start >= sub[u].start \/ WritesOldCopy(u)]_vars
  <2> SUFFICES ASSUME TypeInv, Next, NEW u \in Users
               PROVE  sub'[u].start >= sub[u].start \/ WritesOldCopy(u)
    OBVIOUS
  <2>1. /\ sub \in [Users -> SubRow] /\ sub[u].start \in Int
        /\ \A s \in SubRow : s.start \in Int
        /\ reader[u].sub \in SubRow /\ reader[u].at \in Nat
    BY DEF TypeInv, TypeOK, SubRow, NoWindow
  <2>2. CASE sub'[u] = sub[u]
    BY <2>1, <2>2
  <2>3. ASSUME NEW p \in Procs, Commit(p) \/ CommitUsage(p) \/ CommitCost(p)
        PROVE  sub'[u].start >= sub[u].start \/ WritesOldCopy(u)
    <3>1. tx[p].pc # "idle" /\ Publish(p)
      BY <2>3 DEF Commit, CommitUsage, CommitCost
    <3>2. PICK v \in Users : v = Owner[tx[p].row]
      BY <3>1, OpenTx DEF TypeInv
    <3>3. CASE u = v /\ "sub" \in tx[p].wrote
      <4>1. Delta(tx[p].sub, tx[p].at, Cost[tx[p].row], sub'[u])
        BY <3>1, <3>2, <3>3, PublishFacts
      <4>2. tx[p].sub \in SubRow /\ tx[p].at \in Nat
        BY <3>1, OpenTx DEF TypeInv
      <4>3. CASE tx[p].sub = sub[u]
        BY <2>1, <4>1, <4>2, <4>3 DEF Delta
      <4>4. CASE tx[p].sub # sub[u]
        <5>1. tx[p].pc = "commit" /\ tx'[p].pc # "commit"
          <6>1. tx \in [Procs -> TxState]
            BY DEF TypeInv, TypeOK
          <6>2. CASE Commit(p) \/ CommitCost(p)
            <7>1. tx[p].pc = "commit" /\ tx'[p] = NoTx
              BY <6>1, <6>2 DEF Commit, CommitCost
            <7> QED
              BY <7>1 DEF NoTx
          <6>3. CASE CommitUsage(p)
            BY <6>1, <6>3 DEF CommitUsage, TxState
          <6> QED
            BY <2>3, <6>2, <6>3
        <5> QED
          BY <3>2, <3>3, <4>4, <5>1 DEF WritesOldCopy
      <4> QED
        BY <4>3, <4>4
    <3>4. CASE ~(u = v /\ "sub" \in tx[p].wrote)
      <4>1. sub'[u] = sub[u]
        BY <3>1, <3>2, <3>4, PublishFacts
      <4> QED
        BY <4>1, <2>1
    <3> QED
      BY <3>3, <3>4
  <2>4. ASSUME NEW v \in Users, WriteBackUsage(v)
        PROVE  sub'[u].start >= sub[u].start \/ WritesOldCopy(u)
    <3>1. CASE u # v
      BY <2>1, <2>4, <3>1 DEF WriteBackUsage
    <3>2. CASE u = v
      <4>1. /\ sub'[u] = resetExpiredUsage(reader[u].sub, reader[u].at)
            /\ reader[u].open /\ ~reader'[u].open
        BY <2>1, <2>4, <3>2 DEF WriteBackUsage, NoRead, TypeInv, TypeOK
      <4>2. Delta(reader[u].sub, reader[u].at, 0, sub'[u])
        BY <2>1, <4>1, ResetFacts
      <4>3. CASE reader[u].sub = sub[u]
        BY <2>1, <4>2, <4>3 DEF Delta
      <4> QED
        BY <4>1, <4>3 DEF WritesOldCopy
    <3> QED
      BY <3>1, <3>2
  <2>5. \/ sub' = sub
        \/ \E p \in Procs : Commit(p) \/ CommitUsage(p) \/ CommitCost(p)
        \/ \E v \in Users : WriteBackUsage(v)
    BY DEF Next, RecordUsage, RecordFails, LiveDropped, LiveApply, recordGatewayMaterializedCosts, SweepPending,
      SweepApply, TxStep, Claim, ReadSubscription, WriteSubscription, ReadKey, WriteKey, Rollback, DeleteKey,
      ResetUsage, EditRead, EditWrite, ReadUsage, Tick, counters, history
  <2> QED
    BY <2>2, <2>3, <2>4, <2>5
<1> QED
  BY TypeInvInit, TypeInvNext, <1>1, PTL DEF Spec, WindowForwardOnly
=============================================================================
