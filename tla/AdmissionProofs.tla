-------------------------- MODULE AdmissionProofs --------------------------
(***************************************************************************)
(* Proofs about what a request passes before it is dispatched: the         *)
(* idempotency wrapper (Idempotency), for any number of requests and       *)
(* bodies and any times that satisfy TimesAssumption, and the balance gate *)
(* (BalanceGate), for any requests, estimates, balance, TTL and faults.    *)
(***************************************************************************)
EXTENDS Idempotency, BalanceGate, FiniteSums

-----------------------------------------------------------------------------
(* Idempotency: the inductive invariant. *)

\* A request began in the past, and not longer ago than it may take.
Punctual ==
    \A r \in Requests :
        /\ began[r] <= clock
        /\ pc[r] \in InBegin => clock <= began[r] + BeginTime
        /\ Alive(r) => clock <= began[r] + Life

\* The two times of a row come from one claim.
RowTimes == record.status = "in_progress" => record.locked + RecordTTL = record.expires + LockTTL

\* As long as a request executes under a claim, the row is there with its hash,
\* and expires no earlier than its own claim would have.
HolderKeepsRow ==
    \A r \in Requests : Holds(r) =>
        /\ r \in claimed
        /\ record.status # "absent"
        /\ record.hash = Hash[r]
        /\ record.expires >= began[r] + RecordTTL

\* Within its lock, the row's times are its own.
LockIsOurs ==
    \A r \in Requests : Holds(r) /\ LockLive(r) => record.expires = began[r] + RecordTTL

\* A request about to take a claim over takes it from its own body, or the row
\* changed under it and the conditional update finds it locked or completed.
TakeOverSameBody ==
    \A r \in Requests :
        pc[r] = "reacquire" /\ Reacquirable(r) => record.hash = Hash[r]

\* A claim holds no response.
NoEarlySnapshot == record.status # "completed" => record.snapshot = Nobody

KeyInv ==
    /\ TypeOK /\ Punctual /\ RowTimes /\ HolderKeepsRow /\ LockIsOurs
    /\ TakeOverSameBody /\ NoEarlySnapshot /\ HoldersExclusive /\ ReplaySameBody

LEMMA KeyInvInit == Init => KeyInv
<1> SUFFICES ASSUME Init PROVE KeyInv
  OBVIOUS
<1> USE RequestsAssumption, TimesAssumption
<1>1. TypeOK
  BY DEF Init, TypeOK, Rows, NoRow, PCs, InBegin
<1>2. Punctual /\ RowTimes /\ NoEarlySnapshot
  BY DEF Init, Punctual, RowTimes, NoEarlySnapshot, NoRow, InBegin, Alive
<1>3. \A r \in Requests : ~Holds(r) /\ pc[r] # "reacquire"
  BY DEF Init, Holds
<1>4. ReplaySameBody
  BY DEF Init, ReplaySameBody, NoRow
<1> QED
  BY <1>1, <1>2, <1>3, <1>4
  DEF KeyInv, HolderKeepsRow, LockIsOurs, TakeOverSameBody, HoldersExclusive

-----------------------------------------------------------------------------
(* Types. *)

\* A place that a request goes to.
LEMMA GotoFacts ==
  ASSUME TypeOK, NEW r \in Requests, NEW place \in PCs, Goto(r, place)
  PROVE  /\ pc' \in [Requests -> PCs]
         /\ pc'[r] = place
         /\ \A s \in Requests : s # r => pc'[s] = pc[s]
  BY DEF TypeOK, Goto

LEMMA ClaimType ==
  ASSUME TypeOK, NEW r \in Requests
  PROVE  Claim(r) \in Rows
  BY RequestsAssumption, TimesAssumption DEF TypeOK, Claim, Rows

-----------------------------------------------------------------------------
(* The three kinds of step of a request: it leaves the row alone, it claims *)
(* the row, or it completes it.                                             *)

\* A step of r that leaves the row alone preserves the invariant, if it does not
\* make r a holder and sends it to a take-over only from its own body.
LEMMA RowUntouched ==
  ASSUME KeyInv, TypeOK', NEW r \in Requests,
         record' = record, clock' = clock,
         \A s \in Requests : s # r => pc'[s] = pc[s] /\ began'[s] = began[s],
         served \subseteq served', claimed \subseteq claimed',
         Holds(r)' => Holds(r) /\ began'[r] = began[r],
         pc'[r] = "reacquire" => record.hash = Hash[r],
         began'[r] <= clock,
         pc'[r] \in InBegin => clock <= began'[r] + BeginTime,
         Alive(r)' => clock <= began'[r] + Life,
         \A s \in Requests : replay'[s] = replay[s] \/ (s = r /\ replay'[s] = Stored(r))
  PROVE  KeyInv'
<1>1. Punctual'
  BY DEF KeyInv, Punctual, Alive
<1>2. RowTimes' /\ NoEarlySnapshot'
  BY DEF KeyInv, RowTimes, NoEarlySnapshot
<1>3. \A s \in Requests : Holds(s)' => Holds(s) /\ began'[s] = began[s]
  BY DEF Holds
<1>4. HolderKeepsRow' /\ LockIsOurs' /\ HoldersExclusive'
  BY <1>3 DEF KeyInv, HolderKeepsRow, LockIsOurs, HoldersExclusive, LockLive
<1>5. TakeOverSameBody'
  BY DEF KeyInv, TakeOverSameBody, Reacquirable
<1>6. ReplaySameBody'
  BY DEF KeyInv, ReplaySameBody, Answers, Stored
<1> QED
  BY <1>1, <1>2, <1>4, <1>5, <1>6 DEF KeyInv

\* A claim preserves it, if those who still execute hold for the same body and
\* are past their locks.
LEMMA RowClaimed ==
  ASSUME KeyInv, TypeOK', NEW r \in Requests, NEW place \in {"run", "reread"},
         pc[r] \in InBegin, pc'[r] = place,
         \A s \in Requests : s # r => pc'[s] = pc[s],
         record' = Claim(r), claimed' = claimed \cup {r},
         UNCHANGED <<began, replay, served, clock>>,
         \A s \in Requests : Holds(s) => /\ ~LockLive(s)
                                         /\ Hash[s] = Hash[r]
                                         /\ began[s] <= began[r]
  PROVE  KeyInv'
<1> USE TimesAssumption
<1>0. /\ began \in [Requests -> Nat] /\ clock \in Nat
      /\ began[r] \in Nat /\ clock <= began[r] + BeginTime /\ clock <= began[r] + Life
  BY DEF KeyInv, TypeOK, Punctual, InBegin, Alive
<1>1. /\ record'.status = "in_progress" /\ record'.hash = Hash[r]
      /\ record'.locked = began[r] + LockTTL /\ record'.expires = began[r] + RecordTTL
      /\ record'.snapshot = Nobody
  BY DEF Claim
<1>2. Punctual'
  BY <1>0 DEF KeyInv, Punctual, Alive, InBegin
<1>3. RowTimes' /\ NoEarlySnapshot'
  BY <1>0, <1>1 DEF RowTimes, NoEarlySnapshot
<1>4. \A s \in Requests : Holds(s)' => s = r \/ Holds(s)
  BY DEF Holds
<1>5. HolderKeepsRow'
  BY <1>0, <1>1, <1>4 DEF KeyInv, HolderKeepsRow
<1>6. LockIsOurs' /\ HoldersExclusive'
  BY <1>0, <1>1, <1>4 DEF KeyInv, LockIsOurs, HoldersExclusive, LockLive
<1>7. TakeOverSameBody'
  <2>1. \A s \in Requests : ~(record'.locked < began'[s])
    BY <1>0, <1>1 DEF KeyInv, Punctual
  <2> QED
    BY <2>1 DEF TakeOverSameBody, Reacquirable
<1>8. ReplaySameBody'
  BY <1>1 DEF KeyInv, ReplaySameBody, Answers
<1> QED
  BY <1>2, <1>3, <1>5, <1>6, <1>7, <1>8 DEF KeyInv

-----------------------------------------------------------------------------
(* The actions. *)

LEMMA BeginKeeps ==
  ASSUME KeyInv, NEW r \in Requests, Begin(r)
  PROVE  KeyInv'
<1> USE TimesAssumption
<1>1. TypeOK /\ clock \in Nat /\ "insert" \in PCs
  BY DEF KeyInv, TypeOK, PCs, InBegin
<1>2. /\ pc' \in [Requests -> PCs] /\ pc'[r] = "insert"
      /\ \A s \in Requests : s # r => pc'[s] = pc[s]
  BY <1>1, GotoFacts DEF Begin
<1>3. began' \in [Requests -> Nat] /\ began'[r] = clock
      /\ \A s \in Requests : s # r => began'[s] = began[s]
  BY <1>1 DEF Begin, TypeOK
<1>4. UNCHANGED <<record, replay, served, claimed, clock>>
  BY DEF Begin
<1>5. TypeOK'
  BY <1>1, <1>2, <1>3, <1>4 DEF TypeOK
<1>6. ~Holds(r)'
  BY <1>2 DEF Holds
<1> QED
  BY <1>1, <1>2, <1>3, <1>4, <1>5, <1>6, RowUntouched

\* The steps at which a request only moves on, for the ones that do not lead to
\* a take-over or to a claim.
LEMMA MoveKeeps ==
  ASSUME KeyInv, NEW r \in Requests, NEW place \in PCs \ {"reacquire"},
         Goto(r, place), Alive(r),
         place \in InBegin => pc[r] \in InBegin,
         place \in {"reread", "run", "complete"} => Holds(r),
         UNCHANGED <<record, began, replay, claimed, clock>>,
         served' \in {served, served \cup {r}}
  PROVE  KeyInv'
<1>1. TypeOK
  BY DEF KeyInv
<1>2. /\ pc' \in [Requests -> PCs] /\ pc'[r] = place
      /\ \A s \in Requests : s # r => pc'[s] = pc[s]
  BY <1>1, GotoFacts
<1>3. TypeOK'
  BY <1>1, <1>2 DEF TypeOK
<1>4. Holds(r)' => Holds(r)
  BY <1>2 DEF Holds
<1>5. /\ began[r] <= clock /\ clock <= began[r] + Life
      /\ pc[r] \in InBegin => clock <= began[r] + BeginTime
  BY DEF KeyInv, Punctual
<1> QED
  BY <1>2, <1>3, <1>4, <1>5, RowUntouched

LEMMA FindKeeps ==
  ASSUME KeyInv, NEW r \in Requests, Find(r)
  PROVE  KeyInv'
<1>1. TypeOK /\ Decision(r) \in PCs \ {"reread", "run", "complete"} /\ pc[r] = "find"
  <2>1. TypeOK /\ pc[r] = "find" /\ record \in Rows
    BY DEF Find, KeyInv, TypeOK
  <2>2. record.status \in {"absent", "in_progress", "completed"}
    BY <2>1 DEF Rows
  <2> QED
    BY <2>1, <2>2 DEF Decision, PCs, InBegin
<1>2. /\ pc' \in [Requests -> PCs] /\ pc'[r] = Decision(r)
      /\ \A s \in Requests : s # r => pc'[s] = pc[s]
  BY <1>1, GotoFacts DEF Find
<1>3. UNCHANGED <<record, began, served, claimed, clock>>
  BY DEF Find
<1>4. Stored(r) \in Requests \cup {Nobody}
  BY <1>1 DEF TypeOK, Rows, Stored
<1>5. /\ replay' \in [Requests -> Requests \cup {Nobody}]
      /\ \A s \in Requests : replay'[s] = replay[s] \/ (s = r /\ replay'[s] = Stored(r))
  BY <1>1, <1>4 DEF Find, TypeOK
<1>6. TypeOK'
  BY <1>1, <1>2, <1>3, <1>5 DEF TypeOK
<1>7. Decision(r) = "reacquire" => record.hash = Hash[r]
  BY <1>1 DEF Decision, TypeOK, Rows
<1>8. /\ began[r] <= clock /\ clock <= began[r] + Life /\ clock <= began[r] + BeginTime
  BY <1>1 DEF KeyInv, Punctual, Alive, InBegin
<1>9. ~Holds(r)'
  BY <1>1, <1>2 DEF Holds
<1> QED
  BY <1>2, <1>3, <1>5, <1>6, <1>7, <1>8, <1>9, RowUntouched

LEMMA InsertKeeps ==
  ASSUME KeyInv, NEW r \in Requests, Insert(r)
  PROVE  KeyInv'
<1>1. CASE record.status # "absent"
  BY <1>1, MoveKeeps DEF Insert, PCs, InBegin, Alive
<1>2. CASE record.status = "absent"
  <2>1. TypeOK /\ pc[r] = "insert" /\ Goto(r, "run") /\ "run" \in PCs
    BY <1>2 DEF Insert, KeyInv, PCs
  <2>2. /\ pc' \in [Requests -> PCs] /\ pc'[r] = "run"
        /\ \A s \in Requests : s # r => pc'[s] = pc[s]
    BY <2>1, GotoFacts
  <2>3. /\ record' = Claim(r) /\ claimed' = claimed \cup {r}
        /\ UNCHANGED <<began, replay, served, clock>>
    BY <1>2 DEF Insert
  <2>4. TypeOK'
    BY <2>1, <2>2, <2>3, ClaimType DEF TypeOK
  <2>5. \A s \in Requests : ~Holds(s)
    BY <1>2 DEF KeyInv, HolderKeepsRow
  <2> QED
    BY <2>1, <2>2, <2>3, <2>4, <2>5, RowClaimed DEF InBegin
<1> QED
  BY <1>1, <1>2

\* The holders a take-over finds are past their locks, since the row's lock is
\* over and it is at least as late as theirs.
LEMMA ReacquireKeeps ==
  ASSUME KeyInv, NEW r \in Requests, Reacquire(r)
  PROVE  KeyInv'
<1>1. CASE ~Reacquirable(r)
  BY <1>1, MoveKeeps DEF Reacquire, PCs, InBegin, Alive
<1>2. CASE Reacquirable(r)
  <2>1. TypeOK /\ pc[r] = "reacquire" /\ Goto(r, "reread") /\ "reread" \in PCs
    BY <1>2 DEF Reacquire, KeyInv, PCs, InBegin
  <2>2. /\ pc' \in [Requests -> PCs] /\ pc'[r] = "reread"
        /\ \A s \in Requests : s # r => pc'[s] = pc[s]
    BY <2>1, GotoFacts
  <2>3. /\ record' = Claim(r) /\ claimed' = claimed \cup {r}
        /\ UNCHANGED <<began, replay, served, clock>>
    BY <1>2 DEF Reacquire
  <2>4. TypeOK'
    BY <2>1, <2>2, <2>3, ClaimType DEF TypeOK
  <2>5. /\ record.locked \in Nat /\ record.expires \in Nat /\ clock \in Nat
        /\ began \in [Requests -> Nat]
    BY <2>1 DEF TypeOK, Rows
  <2>6. /\ record.locked + RecordTTL = record.expires + LockTTL
        /\ record.locked < began[r] /\ began[r] <= clock /\ record.hash = Hash[r]
    BY <1>2, <2>1 DEF KeyInv, RowTimes, Punctual, TakeOverSameBody, Reacquirable
  <2>7. ASSUME NEW s \in Requests, Holds(s)
        PROVE  ~LockLive(s) /\ Hash[s] = Hash[r] /\ began[s] <= began[r]
    <3>1. record.hash = Hash[s] /\ record.expires >= began[s] + RecordTTL
      BY <2>7 DEF KeyInv, HolderKeepsRow
    <3>2. began[s] + LockTTL <= record.locked
      BY <2>5, <2>6, <3>1, TimesAssumption
    <3> QED
      BY <2>5, <2>6, <3>1, <3>2, TimesAssumption DEF LockLive
  <2> QED
    BY <2>1, <2>2, <2>3, <2>4, <2>7, RowClaimed DEF InBegin
<1> QED
  BY <1>1, <1>2

\* A holder's row is there and has its hash, so what it stores answers that body.
LEMMA CompleteKeeps ==
  ASSUME KeyInv, NEW r \in Requests, Complete(r)
  PROVE  KeyInv'
<1> USE RequestsAssumption
<1>1. TypeOK /\ pc[r] = "complete" /\ "done" \in PCs
  BY DEF Complete, KeyInv, PCs
<1>2. /\ pc' \in [Requests -> PCs] /\ pc'[r] = "done"
      /\ \A s \in Requests : s # r => pc'[s] = pc[s]
  BY <1>1, GotoFacts DEF Complete
<1>3. UNCHANGED <<began, replay, served, claimed, clock>>
  BY DEF Complete
<1>4. record.status # "absent" /\ record.hash = Hash[r] /\ r \in claimed
  BY <1>1 DEF KeyInv, HolderKeepsRow, Holds
<1>5. record' = [record EXCEPT !.status = "completed", !.locked = 0,
                               !.snapshot = IF r \in served THEN r ELSE Nobody]
  BY <1>4 DEF Complete, CompletedBy
<1>6. /\ record' \in Rows /\ record'.status = "completed" /\ record'.hash = record.hash
      /\ record'.expires = record.expires
      /\ record'.snapshot = IF r \in served THEN r ELSE Nobody
  BY <1>1, <1>5 DEF TypeOK, Rows
<1>7. TypeOK'
  BY <1>1, <1>2, <1>3, <1>6 DEF TypeOK
<1>8. Punctual'
  BY <1>2, <1>3 DEF KeyInv, Punctual, Alive, InBegin
<1>9. RowTimes' /\ NoEarlySnapshot' /\ TakeOverSameBody'
  BY <1>6 DEF RowTimes, NoEarlySnapshot, TakeOverSameBody, Reacquirable
<1>10. \A s \in Requests : Holds(s)' => Holds(s)
  BY <1>2 DEF Holds
<1>11. HolderKeepsRow' /\ LockIsOurs' /\ HoldersExclusive'
  BY <1>3, <1>6, <1>10 DEF KeyInv, HolderKeepsRow, LockIsOurs, HoldersExclusive, LockLive
<1>12. ReplaySameBody'
  BY <1>3, <1>4, <1>6 DEF KeyInv, ReplaySameBody, Answers
<1> QED
  BY <1>7, <1>8, <1>9, <1>11, <1>12 DEF KeyInv

\* Nobody executes under a claim on a row that has expired: a request does not
\* live that long.
LEMMA DeleteKeeps ==
  ASSUME KeyInv, DeleteExpired
  PROVE  KeyInv'
<1> USE RequestsAssumption, TimesAssumption
<1>1. /\ record' = NoRow /\ UNCHANGED <<pc, began, replay, served, claimed, clock>>
      /\ record.expires < clock /\ TypeOK
  BY DEF DeleteExpired, KeyInv
<1>2. NoRow \in Rows /\ NoRow.status = "absent" /\ NoRow.snapshot = Nobody
  BY DEF NoRow, Rows
<1>3. TypeOK'
  BY <1>1, <1>2 DEF TypeOK
<1>4. ASSUME NEW s \in Requests PROVE ~Holds(s)
  <2>1. record.expires \in Nat /\ clock \in Nat /\ began[s] \in Nat
    BY <1>1 DEF TypeOK, Rows
  <2>2. Holds(s) => clock <= began[s] + Life /\ record.expires >= began[s] + RecordTTL
    BY DEF KeyInv, Punctual, HolderKeepsRow, Holds, Alive
  <2> QED
    BY <1>1, <2>1, <2>2
<1>5. \A s \in Requests : ~Holds(s)'
  BY <1>1, <1>4 DEF Holds
<1>6. Punctual' /\ RowTimes' /\ NoEarlySnapshot' /\ TakeOverSameBody'
  BY <1>1, <1>2
  DEF KeyInv, Punctual, Alive, RowTimes, NoEarlySnapshot, TakeOverSameBody, Reacquirable
<1>7. ReplaySameBody'
  BY <1>1, <1>2 DEF KeyInv, ReplaySameBody, Answers
<1> QED
  BY <1>3, <1>5, <1>6, <1>7 DEF KeyInv, HolderKeepsRow, LockIsOurs, HoldersExclusive

LEMMA TickKeeps ==
  ASSUME KeyInv, Tick
  PROVE  KeyInv'
<1> USE TimesAssumption
<1>1. /\ UNCHANGED <<record, pc, began, replay, served, claimed>> /\ clock' = clock + 1
      /\ TypeOK
  BY DEF Tick, KeyInv
<1>2. clock \in Nat /\ began \in [Requests -> Nat]
  BY <1>1 DEF TypeOK
<1>3. TypeOK'
  BY <1>1, <1>2 DEF TypeOK
<1>4. Punctual'
  BY <1>1, <1>2 DEF Tick, KeyInv, Punctual, Alive
<1>5. \A s \in Requests : LockLive(s)' => LockLive(s)
  BY <1>1, <1>2 DEF LockLive
<1>6. HolderKeepsRow' /\ LockIsOurs' /\ HoldersExclusive'
  BY <1>1, <1>5 DEF KeyInv, HolderKeepsRow, LockIsOurs, HoldersExclusive, Holds
<1>7. RowTimes' /\ NoEarlySnapshot' /\ TakeOverSameBody'
  BY <1>1 DEF KeyInv, RowTimes, NoEarlySnapshot, TakeOverSameBody, Reacquirable
<1>8. ReplaySameBody'
  BY <1>1 DEF KeyInv, ReplaySameBody, Answers
<1> QED
  BY <1>3, <1>4, <1>6, <1>7, <1>8 DEF KeyInv

\* What is left of a request: its handler, and all the ways to end early.
LEMMA RestKeeps ==
  ASSUME KeyInv, NEW r \in Requests,
         Reread(r) \/ FailOpen(r) \/ Execute(r) \/ ExecuteOpen(r) \/ CompleteFails(r)
         \/ Disconnect(r) \/ Crash(r)
  PROVE  KeyInv'
<1>1. CASE Reread(r)
  BY <1>1, MoveKeeps DEF Reread, PCs, InBegin, Alive, Holds
<1>2. CASE FailOpen(r)
  BY <1>2, MoveKeeps DEF FailOpen, PCs, InBegin, Alive
<1>3. CASE Execute(r)
  BY <1>3, MoveKeeps DEF Execute, PCs, InBegin, Alive, Holds
<1>4. CASE ExecuteOpen(r)
  BY <1>4, MoveKeeps DEF ExecuteOpen, PCs, InBegin, Alive
<1>5. CASE CompleteFails(r)
  BY <1>5, MoveKeeps DEF CompleteFails, PCs, InBegin, Alive
<1>6. CASE Disconnect(r)
  BY <1>6, MoveKeeps DEF Disconnect, PCs, InBegin, Alive
<1>7. CASE Crash(r)
  BY <1>7, MoveKeeps DEF Crash, PCs, InBegin, Alive
<1> QED
  BY <1>1, <1>2, <1>3, <1>4, <1>5, <1>6, <1>7

LEMMA StutterKeeps ==
  ASSUME KeyInv, UNCHANGED vars
  PROVE  KeyInv'
<1>1. UNCHANGED <<record, pc, began, replay, served, claimed, clock>>
  BY DEF vars
<1> QED
  BY <1>1 DEF KeyInv, TypeOK, Punctual, RowTimes, HolderKeepsRow, LockIsOurs, TakeOverSameBody,
    NoEarlySnapshot, HoldersExclusive, ReplaySameBody, Holds, LockLive, Alive, Reacquirable, Answers

LEMMA KeyInvHolds == Spec => []KeyInv
<1>1. ASSUME KeyInv, [Next]_vars PROVE KeyInv'
  <2>1. ASSUME NEW r \in Requests,
               Begin(r) \/ Serve(r) \/ FailOpen(r) \/ CompleteFails(r) \/ Disconnect(r) \/ Crash(r)
        PROVE  KeyInv'
    BY <1>1, <2>1, BeginKeeps, InsertKeeps, FindKeeps, ReacquireKeeps, CompleteKeeps, RestKeeps
    DEF Serve
  <2> QED
    BY <1>1, <2>1, DeleteKeeps, TickKeeps, StutterKeeps DEF Next
<1> QED
  BY <1>1, KeyInvInit, PTL DEF Spec

-----------------------------------------------------------------------------
\* Of the requests executing under a claim (the handlers Begin let proceed), at
\* most one is within its locked_until, for any number of requests.
THEOREM OneHolderWithinLock == Spec => []HoldersExclusive
<1>1. KeyInv => HoldersExclusive
  BY DEF KeyInv
<1> QED
  BY <1>1, KeyInvHolds, PTL

\* No request is answered with the stored response to another body, nor with one
\* of a handler that ran because Begin failed open.
THEOREM ReplaysAnswerTheBody == Spec => []ReplaySameBody
<1>1. KeyInv => ReplaySameBody
  BY DEF KeyInv
<1> QED
  BY <1>1, KeyInvHolds, PTL

\* The row, the requests and the clock keep their types.
THEOREM IdempotencyTypes == Spec => []TypeOK
<1>1. KeyInv => TypeOK
  BY DEF KeyInv
<1> QED
  BY <1>1, KeyInvHolds, PTL

-----------------------------------------------------------------------------
(* The balance gate: the inductive invariant. *)

\* What the proofs use of the constants.
LEMMA GateConstants ==
    /\ Estimate \in [UserRequests -> Nat] /\ InitialBalance \in Int
    /\ MaxAttempts \in Nat \ {0} /\ MaxFallbacks \in Nat
    /\ TTL \in Nat \ {0} /\ GateMaxTime \in Nat /\ MaxFaults \in Nat
  BY EstimateAssumption, BoundsAssumption

RequestState ==
    [pc : {"new", "gate", "run", "failed", "done"}, seen : Int, held : BOOLEAN,
     attempt : 0..MaxAttempts, fallbacks : 0..MaxFallbacks]

\* Decisions are taken on balances the user really had, which never grow.
SeenBounded ==
    /\ balance <= InitialBalance
    /\ \A r \in UserRequests : request[r].pc = "gate" => request[r].seen <= InitialBalance

\* The hash outlives the TTL of every field in it: EXPIRE only moves forward.
FieldsOutlive ==
    /\ expires <= now + TTL
    /\ \A r \in UserRequests : request[r].held \/ r \in hash => reservedAt[r] + TTL <= expires

\* A request that has failed or is answered has released its field.
ReleasedWhenOver ==
    \A r \in UserRequests :
        /\ request[r].pc \in {"failed", "done"} /\ r \notin leaked => r \notin hash
        /\ request[r].pc = "run" => request[r].attempt >= 1

GateInv ==
    /\ GateTypeOK /\ IsFiniteSet(hash) /\ IsFiniteSet(owed)
    /\ SeenBounded /\ FieldsOutlive /\ ReleasedWhenOver
    /\ NoOverReservation /\ FirstAttemptCovered

-----------------------------------------------------------------------------
(* The balance gate: sums of estimates. *)

\* A total of estimates is a number, grows with the set, and grows by the
\* estimate of a request that joins it.
LEMMA TotalNat ==
    ASSUME NEW S, S \subseteq UserRequests, IsFiniteSet(S)
    PROVE  reservedTotal(S) \in Nat
<1>1. \A x \in S : Estimate[x] \in Nat
  BY GateConstants
<1> QED BY <1>1, SumNat DEF reservedTotal

LEMMA TotalShrinks ==
    ASSUME NEW T, T \subseteq UserRequests, IsFiniteSet(T), NEW S, S \subseteq T
    PROVE  reservedTotal(S) <= reservedTotal(T)
<1>1. \A x \in T : Estimate[x] \in Nat
  BY GateConstants
<1>2. SumFunctionOnSet(Estimate, S) <= SumFunctionOnSet(Estimate, T)
  BY <1>1, SumMonotone
<1> QED BY <1>2 DEF reservedTotal

LEMMA TotalGrows ==
    ASSUME NEW S, S \subseteq UserRequests, IsFiniteSet(S), NEW r \in UserRequests, r \notin S
    PROVE  reservedTotal(S \cup {r}) = Estimate[r] + reservedTotal(S)
<1>1. \A x \in S \cup {r} : Estimate[x] \in Int
  BY GateConstants
<1>2. SumFunctionOnSet(Estimate, S \cup {r}) = Estimate[r] + SumFunctionOnSet(Estimate, S)
  BY <1>1, SumAdd
<1> QED BY <1>2 DEF reservedTotal

-----------------------------------------------------------------------------
(* The balance gate: the steps. *)

\* A step that writes one request leaves the others alone.
LEMMA GateRequest ==
    ASSUME GateTypeOK, NEW r \in UserRequests, NEW q, request' = [request EXCEPT ![r] = q]
    PROVE  /\ request'[r] = q /\ \A s \in UserRequests : s # r => request'[s] = request[s]
           /\ request[r] \in RequestState
           /\ q \in RequestState => request' \in [UserRequests -> RequestState]
<1>1. request \in [UserRequests -> RequestState]
  BY DEF GateTypeOK, RequestState
<1> QED BY <1>1

\* Every step of a request that grants it no reservation.
LEMMA GateMoves ==
    ASSUME GateInv, NEW r \in UserRequests, NEW q \in RequestState,
           request' = [request EXCEPT ![r] = q],
           hash' \in {hash, hash \ {r}},
           r \in hash' => q.pc \notin {"failed", "done"} \/ r \in leaked',
           leaked' \in {leaked, leaked \cup {r}}, owed' \in {owed, owed \cup {r}},
           balance' = balance, expires' = expires, reservedAt' = reservedAt, now' = now,
           faults' \in Nat,
           q.pc = "gate" => q.seen <= InitialBalance,
           q.held => request[r].held \/ r \in hash,
           q.pc = "run" => q.attempt >= 1,
           q.pc = "run" /\ q.attempt = 1 /\ q.held => r \in hash'
    PROVE  GateInv'
<1>0. /\ GateTypeOK /\ IsFiniteSet(hash) /\ IsFiniteSet(owed)
      /\ SeenBounded /\ FieldsOutlive /\ ReleasedWhenOver
      /\ NoOverReservation /\ FirstAttemptCovered
  BY DEF GateInv
<1>1. /\ request'[r] = q /\ \A s \in UserRequests : s # r => request'[s] = request[s]
      /\ request' \in [UserRequests -> RequestState]
  BY <1>0, GateRequest
<1>2. hash' \subseteq hash /\ \A s \in UserRequests : s # r => (s \in hash' <=> s \in hash)
  OBVIOUS
<1>3. /\ hash \subseteq UserRequests /\ owed \subseteq UserRequests
      /\ hash \subseteq {x \in UserRequests : Estimate[x] > 0} /\ leaked \subseteq UserRequests
  BY <1>0 DEF GateTypeOK
<1>4. GateTypeOK'
  <2>1. /\ hash' \subseteq {x \in UserRequests : Estimate[x] > 0}
        /\ owed' \subseteq UserRequests /\ leaked' \subseteq UserRequests
    BY <1>2, <1>3
  <2> QED BY <1>0, <1>1, <2>1 DEF GateTypeOK, RequestState
<1>5. IsFiniteSet(hash') /\ IsFiniteSet(owed')
  BY <1>0, FS_AddElement, FS_RemoveElement
<1>6. SeenBounded'
  BY <1>0, <1>1 DEF SeenBounded
<1>7. FieldsOutlive'
  BY <1>0, <1>1, <1>2 DEF FieldsOutlive
<1>8. ReleasedWhenOver'
  BY <1>0, <1>1, <1>2 DEF ReleasedWhenOver
<1>9. NoOverReservation'
  <2>1. reservedTotal(hash)' = reservedTotal(hash')
    BY DEF reservedTotal
  <2>2. reservedTotal(hash') <= reservedTotal(hash)
    BY <1>0, <1>2, <1>3, TotalShrinks
  <2>3. reservedTotal(hash') \in Nat /\ reservedTotal(hash) \in Nat
    BY <1>0, <1>2, <1>3, <1>5, TotalNat
  <2>4. hash' # {} => hash # {}
    BY <1>2
  <2> QED BY <1>0, <2>1, <2>2, <2>3, <2>4, GateConstants DEF NoOverReservation
<1>10. FirstAttemptCovered'
  BY <1>0, <1>1, <1>2 DEF FirstAttemptCovered, Running
<1> QED BY <1>4, <1>5, <1>6, <1>7, <1>8, <1>9, <1>10 DEF GateInv

LEMMA RequestParts ==
    ASSUME GateInv, NEW r \in UserRequests
    PROVE  /\ request[r] \in RequestState /\ request[r].attempt \in 0..MaxAttempts
           /\ request[r].fallbacks \in 0..MaxFallbacks
           /\ request \in [UserRequests -> RequestState] /\ faults \in Nat
           /\ r \in hash => Estimate[r] > 0
  BY DEF GateInv, GateTypeOK, RequestState

LEMMA FetchUserKeeps ==
    ASSUME GateInv, NEW r \in UserRequests, FetchUser(r)
    PROVE  GateInv'
<1>1. PICK q : q = [request[r] EXCEPT !.pc = "gate", !.seen = balance]
  OBVIOUS
<1>2. request' = [request EXCEPT ![r] = q] /\ balance \in Int /\ balance <= InitialBalance
  BY <1>1, RequestParts DEF FetchUser, GateInv, GateTypeOK, SeenBounded
<1>3. q \in RequestState /\ q.pc = "gate" /\ q.seen = balance /\ q.held = request[r].held
  BY <1>1, <1>2, RequestParts DEF RequestState
<1>4. /\ hash' = hash /\ leaked' = leaked /\ owed' = owed /\ balance' = balance
      /\ expires' = expires /\ reservedAt' = reservedAt /\ now' = now /\ faults' \in Nat
  BY RequestParts DEF FetchUser, redis
<1> QED BY <1>2, <1>3, <1>4, GateMoves

LEMMA FailsOpenKeeps ==
    ASSUME GateInv, NEW r \in UserRequests, GateFailsOpen(r)
    PROVE  GateInv'
<1>1. PICK b \in BOOLEAN : b <=> r \in hash
  <2>1. CASE r \in hash
    BY <2>1
  <2>2. CASE r \notin hash
    BY <2>2
  <2> QED BY <2>1, <2>2
<1>2. PICK q : q = [request[r] EXCEPT !.pc = "run", !.attempt = 1, !.held = b]
  OBVIOUS
<1>3. request' = [request EXCEPT ![r] = q]
  <2>1. request' = Admitted(r, r \in hash)
    BY DEF GateFailsOpen
  <2>2. (r \in hash) = b
    BY <1>1, Zenon
  <2>3. Admitted(r, r \in hash) = Admitted(r, b)
    BY <2>2, Zenon
  <2>4. Admitted(r, b) = [request EXCEPT ![r] = q]
    BY <1>2, RequestParts DEF Admitted
  <2> QED BY <2>1, <2>3, <2>4, Zenon
<1>4. q \in RequestState /\ q.pc = "run" /\ q.attempt = 1 /\ q.held = b
  <2>1. request[r] \in RequestState /\ 1 \in 0..MaxAttempts
    BY RequestParts, GateConstants
  <2> QED BY <1>2, <2>1 DEF RequestState
<1>5. /\ hash' = hash /\ leaked' = leaked /\ owed' = owed /\ balance' = balance
      /\ expires' = expires /\ reservedAt' = reservedAt /\ now' = now /\ faults' \in Nat
  BY RequestParts DEF GateFailsOpen, redis, Fault
<1>6. q.held => r \in hash
  BY <1>1, <1>4, Zenon
<1>7. q.pc # "gate" /\ q.pc \notin {"failed", "done"} /\ q.attempt >= 1
  BY <1>4
<1> QED BY <1>3, <1>4, <1>5, <1>6, <1>7, GateMoves

\* A request is denied, with its field released.
LEMMA DeniedKeeps ==
    ASSUME GateInv, NEW r \in UserRequests, request' = Denied(r),
           Release(r), UNCHANGED <<balance, owed, reservedAt, leaked, now, faults>>
    PROVE  GateInv'
<1>1. PICK p \in {"failed", "done"} : p = IF request[r].fallbacks > 0 THEN "failed" ELSE "done"
  OBVIOUS
<1>2. PICK q : q = [request[r] EXCEPT !.pc = p]
  OBVIOUS
<1>3. request' = [request EXCEPT ![r] = q]
  BY <1>1, <1>2, RequestParts DEF Denied
<1>4. q \in RequestState /\ q.pc = p /\ q.held = request[r].held
  BY <1>2, RequestParts DEF RequestState
<1>5. hash' = hash \ {r} /\ expires' = expires /\ faults' \in Nat
  BY RequestParts DEF Release
<1> QED BY <1>3, <1>4, <1>5, GateMoves

LEMMA AttemptFailsKeeps ==
    ASSUME GateInv, NEW r \in UserRequests, AttemptFails(r)
    PROVE  GateInv'
<1>0. /\ request[r].pc = "run" /\ request[r].attempt >= 1 /\ request[r].attempt \in Nat
      /\ MaxAttempts \in Nat
  BY RequestParts, GateConstants DEF AttemptFails, GateInv, ReleasedWhenOver
<1>1. PICK p \in {"run", "failed"} :
           p = IF request[r].attempt < MaxAttempts THEN "run" ELSE "failed"
  OBVIOUS
<1>2. PICK n : n = IF request[r].attempt < MaxAttempts THEN request[r].attempt + 1
                   ELSE request[r].attempt
  OBVIOUS
<1>3. request[r].attempt <= MaxAttempts
  BY <1>0, RequestParts
<1>4. n \in 0..MaxAttempts /\ (p = "run" => n > 1)
  BY <1>0, <1>1, <1>2, <1>3, RequestParts
<1>5. PICK q : q = [request[r] EXCEPT !.pc = p, !.attempt = n]
  OBVIOUS
<1>6. request' = [request EXCEPT ![r] = q]
  BY <1>1, <1>2, <1>3, <1>5, RequestParts DEF AttemptFails
<1>7. q \in RequestState /\ q.pc = p /\ q.attempt = n /\ q.held = request[r].held
  BY <1>4, <1>5, RequestParts DEF RequestState
<1>8. /\ hash' = hash \ {r} /\ leaked' = leaked /\ owed' = owed /\ balance' = balance
      /\ expires' = expires /\ reservedAt' = reservedAt /\ now' = now /\ faults' \in Nat
  BY RequestParts DEF AttemptFails, Release
<1>9. /\ q.pc # "gate" /\ (q.pc = "run" => q.attempt >= 1)
      /\ ~(q.pc = "run" /\ q.attempt = 1)
  BY <1>4, <1>7
<1> QED BY <1>6, <1>7, <1>8, <1>9, GateMoves

LEMMA ModelFallbackKeeps ==
    ASSUME GateInv, NEW r \in UserRequests, ModelFallback(r)
    PROVE  GateInv'
<1>1. PICK n : n = request[r].fallbacks + 1
  OBVIOUS
<1>2. n \in 0..MaxFallbacks
  BY <1>1, RequestParts, GateConstants DEF ModelFallback
<1>3. PICK q : q = [New EXCEPT !.fallbacks = n]
  OBVIOUS
<1>4. request' = [request EXCEPT ![r] = q]
  BY <1>1, <1>3 DEF ModelFallback
<1>5. q \in RequestState /\ q.pc = "new" /\ ~q.held
  <2>1. PICK z \in 0..MaxAttempts : z = 0
    BY GateConstants
  <2>2. q = [pc |-> "new", seen |-> 0, held |-> FALSE, attempt |-> z, fallbacks |-> n]
    BY <1>3, <2>1 DEF New
  <2> QED BY <1>2, <2>1, <2>2 DEF RequestState
<1>6. /\ hash' = hash /\ leaked' = leaked /\ owed' = owed /\ balance' = balance
      /\ expires' = expires /\ reservedAt' = reservedAt /\ now' = now /\ faults' \in Nat
  BY RequestParts DEF ModelFallback, redis
<1> QED BY <1>4, <1>5, <1>6, GateMoves

LEMMA GiveUpKeeps ==
    ASSUME GateInv, NEW r \in UserRequests, GiveUp(r)
    PROVE  GateInv'
<1>1. PICK q : q = [request[r] EXCEPT !.pc = "done"]
  OBVIOUS
<1>2. request' = [request EXCEPT ![r] = q]
  BY <1>1, RequestParts DEF GiveUp
<1>3. q \in RequestState /\ q.pc = "done" /\ q.held = request[r].held
  BY <1>1, RequestParts DEF RequestState
<1>4. /\ hash' = hash /\ leaked' = leaked /\ owed' = owed /\ balance' = balance
      /\ expires' = expires /\ reservedAt' = reservedAt /\ now' = now /\ faults' \in Nat
  BY RequestParts DEF GiveUp, redis
<1>5. r \notin leaked => r \notin hash
  BY DEF GiveUp, GateInv, ReleasedWhenOver
<1> QED BY <1>2, <1>3, <1>4, <1>5, GateMoves

LEMMA SucceedKeeps ==
    ASSUME GateInv, NEW r \in UserRequests, Succeed(r) \/ ReleaseMissed(r)
    PROVE  GateInv'
<1>1. PICK q : q = [request[r] EXCEPT !.pc = "done"]
  OBVIOUS
<1>2. request' = [request EXCEPT ![r] = q]
  BY <1>1, RequestParts DEF Succeed, ReleaseMissed
<1>3. q \in RequestState /\ q.pc = "done" /\ q.held = request[r].held
  BY <1>1, RequestParts DEF RequestState
<1>4. /\ owed' \in {owed, owed \cup {r}} /\ balance' = balance
      /\ expires' = expires /\ reservedAt' = reservedAt /\ now' = now /\ faults' \in Nat
  BY RequestParts DEF Succeed, ReleaseMissed, Release, redis, Fault
<1>5. \/ hash' = hash \ {r} /\ leaked' = leaked
      \/ hash' = hash /\ leaked' = leaked \cup {r}
  BY DEF Succeed, ReleaseMissed, Release, redis
<1> QED BY <1>2, <1>3, <1>4, <1>5, GateMoves

\* The gate admits: the field is written or refreshed and EXPIRE set again. A
\* new field is only written when it fits a balance the user had.
LEMMA AdmitsKeeps ==
    ASSUME GateInv, NEW r \in UserRequests, GateAdmits(r)
    PROVE  GateInv'
<1>0. /\ GateTypeOK /\ IsFiniteSet(hash) /\ IsFiniteSet(owed)
      /\ SeenBounded /\ FieldsOutlive /\ ReleasedWhenOver
      /\ NoOverReservation /\ FirstAttemptCovered
      /\ Estimate[r] \in Nat /\ TTL \in Nat /\ now \in Nat /\ expires \in Nat /\ TTL > 0
      /\ reservedAt \in [UserRequests -> Nat]
      /\ hash \subseteq {x \in UserRequests : Estimate[x] > 0}
      /\ hash \subseteq UserRequests /\ InitialBalance \in Int
  BY GateConstants DEF GateInv, GateTypeOK
<1>1. PICK b \in BOOLEAN : b <=> Estimate[r] > 0
  <2>1. CASE Estimate[r] > 0
    BY <2>1
  <2>2. CASE ~(Estimate[r] > 0)
    BY <2>2
  <2> QED BY <2>1, <2>2
<1>2. PICK q : q = [request[r] EXCEPT !.pc = "run", !.attempt = 1, !.held = b]
  OBVIOUS
<1>3. request' = [request EXCEPT ![r] = q]
  <2>1. request' = Admitted(r, Estimate[r] > 0)
    BY DEF GateAdmits
  <2>2. (Estimate[r] > 0) = b
    <3>1. CASE Estimate[r] > 0
      <4>1. (Estimate[r] > 0) = TRUE
        BY <3>1, Zenon
      <4>2. b = TRUE
        BY <1>1, <3>1, Zenon
      <4> QED BY <4>1, <4>2, Zenon
    <3>2. CASE ~(Estimate[r] > 0)
      <4>1. (Estimate[r] > 0) = FALSE
        BY <3>2
      <4>2. b = FALSE
        BY <1>1, <3>2, Zenon
      <4> QED BY <4>1, <4>2, Zenon
    <3> QED BY <3>1, <3>2
  <2>3. Admitted(r, Estimate[r] > 0) = Admitted(r, b)
    BY <2>2, Zenon
  <2>4. Admitted(r, b) = [request EXCEPT ![r] = q]
    BY <1>2, RequestParts DEF Admitted
  <2> QED BY <2>1, <2>3, <2>4, Zenon
<1>4. q \in RequestState /\ q.pc = "run" /\ q.attempt = 1 /\ q.held = b
  <2>1. request[r] \in RequestState /\ 1 \in 0..MaxAttempts
    BY RequestParts, GateConstants
  <2> QED BY <1>2, <2>1 DEF RequestState
<1>5. /\ request'[r] = q /\ \A s \in UserRequests : s # r => request'[s] = request[s]
      /\ request' \in [UserRequests -> RequestState]
  BY <1>0, <1>3, <1>4, GateRequest
<1>6. /\ balance' = balance /\ owed' = owed /\ leaked' = leaked /\ now' = now /\ faults' = faults
      /\ hash' = IF Estimate[r] > 0 THEN hash \cup {r} ELSE hash
      /\ expires' = IF Estimate[r] > 0 THEN now + TTL ELSE expires
      /\ reservedAt' = [reservedAt EXCEPT ![r] = now]
  BY DEF GateAdmits, Reserve
<1>7. /\ reservedAt'[r] = now /\ \A s \in UserRequests : s # r => reservedAt'[s] = reservedAt[s]
      /\ reservedAt' \in [UserRequests -> Nat]
  BY <1>0, <1>6
<1>8. expires' \in Nat /\ expires <= expires' /\ expires' <= now + TTL
  BY <1>0, <1>6 DEF FieldsOutlive
<1>9. GateTypeOK'
  <2>1. hash' \subseteq {x \in UserRequests : Estimate[x] > 0}
    BY <1>0, <1>6
  <2> QED BY <1>0, <1>5, <1>6, <1>7, <1>8, <2>1 DEF GateTypeOK, RequestState
<1>10. IsFiniteSet(hash') /\ IsFiniteSet(owed')
  BY <1>0, <1>6, FS_AddElement
<1>11. SeenBounded'
  BY <1>0, <1>4, <1>5, <1>6 DEF SeenBounded
<1>12. FieldsOutlive'
  <2> SUFFICES ASSUME NEW s \in UserRequests, request'[s].held \/ s \in hash'
               PROVE  reservedAt'[s] + TTL <= expires'
    BY <1>6, <1>8 DEF FieldsOutlive
  <2>1. CASE s = r
    <3>1. Estimate[r] > 0
      <4>1. CASE q.held
        BY <1>1, <1>4, <4>1, Zenon
      <4>2. CASE s \in hash'
        BY <1>0, <1>6, <2>1, <4>2
      <4> QED BY <1>5, <2>1, <4>1, <4>2
    <3> QED BY <1>0, <1>6, <1>7, <2>1, <3>1
  <2>2. CASE s # r
    <3>1. request[s].held \/ s \in hash
      BY <1>5, <1>6, <2>2
    <3>2. reservedAt[s] + TTL <= expires /\ reservedAt[s] \in Nat
      BY <1>0, <3>1 DEF FieldsOutlive
    <3> QED BY <1>0, <1>7, <1>8, <2>2, <3>2
  <2> QED BY <2>1, <2>2
<1>13. ReleasedWhenOver'
  BY <1>0, <1>4, <1>5, <1>6 DEF ReleasedWhenOver
<1>14. NoOverReservation'
  <2>1. reservedTotal(hash)' = reservedTotal(hash')
    BY DEF reservedTotal
  <2>2. CASE hash' = hash
    BY <1>0, <2>1, <2>2 DEF NoOverReservation
  <2>3. CASE hash' # hash
    <3>1. r \notin hash /\ hash' = hash \cup {r} /\ Estimate[r] > 0
      BY <1>6, <2>3
    <3>2. request[r].pc = "gate" /\ Fits(r, request[r].seen)
      BY <1>0, <3>1 DEF GateAdmits
    <3>3. request[r].seen <= InitialBalance /\ request[r].seen \in Int
      BY <1>0, <3>2, RequestParts DEF SeenBounded, RequestState
    <3>4. request[r].seen - reservedTotal(hash) >= Estimate[r]
      BY <3>2 DEF Fits
    <3>5. reservedTotal(hash) \in Nat
      BY <1>0, TotalNat
    <3>6. reservedTotal(hash') = Estimate[r] + reservedTotal(hash)
      BY <1>0, <3>1, TotalGrows
    <3>7. reservedTotal(hash') <= InitialBalance
      BY <1>0, <3>3, <3>4, <3>5, <3>6
    <3> QED BY <2>1, <3>7 DEF NoOverReservation
  <2> QED BY <2>2, <2>3
<1>15. FirstAttemptCovered'
  <2> SUFFICES ASSUME NEW s \in UserRequests, request'[s].pc = "run", request'[s].attempt = 1,
                      request'[s].held, now' - reservedAt'[s] < TTL
               PROVE  s \in hash'
    BY DEF FirstAttemptCovered, Running
  <2>1. CASE s = r
    <3>1. Estimate[r] > 0
      BY <1>1, <1>4, <1>5, <2>1, Zenon
    <3> QED BY <1>6, <2>1, <3>1
  <2>2. CASE s # r
    <3>1. s \in hash
      BY <1>0, <1>5, <1>6, <1>7, <2>2 DEF FirstAttemptCovered, Running
    <3> QED BY <1>6, <3>1
  <2> QED BY <2>1, <2>2
<1> QED BY <1>9, <1>10, <1>11, <1>12, <1>13, <1>14, <1>15 DEF GateInv

\* The charger only takes from the balance.
LEMMA GateChargeKeeps ==
    ASSUME GateInv, Charge
    PROVE  GateInv'
<1>1. /\ balance' = balance - reservedTotal(owed) /\ owed' = {}
      /\ hash' = hash /\ expires' = expires /\ request' = request /\ reservedAt' = reservedAt
      /\ leaked' = leaked /\ now' = now /\ faults' = faults
  BY DEF Charge, redis
<1>2. reservedTotal(owed) \in Nat /\ balance \in Int /\ InitialBalance \in Int
  BY TotalNat, GateConstants DEF GateInv, GateTypeOK
<1>3. balance' \in Int /\ balance' <= balance
  BY <1>1, <1>2
<1>4. GateTypeOK' /\ IsFiniteSet(hash') /\ IsFiniteSet(owed')
  BY <1>1, <1>3, FS_EmptySet DEF GateInv, GateTypeOK
<1>5. SeenBounded'
  BY <1>1, <1>2, <1>3 DEF GateInv, SeenBounded
<1>6. FieldsOutlive' /\ ReleasedWhenOver' /\ FirstAttemptCovered'
  BY <1>1 DEF GateInv, FieldsOutlive, ReleasedWhenOver, FirstAttemptCovered, Running
<1>7. NoOverReservation'
  <2>1. reservedTotal(hash)' = reservedTotal(hash)
    BY <1>1 DEF reservedTotal
  <2> QED BY <1>1, <2>1 DEF GateInv, NoOverReservation
<1> QED BY <1>4, <1>5, <1>6, <1>7 DEF GateInv

\* Redis drops the hash only when the TTL of its last field is over.
LEMMA GateTickKeeps ==
    ASSUME GateInv, GateTick
    PROVE  GateInv'
<1>0. /\ GateTypeOK /\ IsFiniteSet(hash) /\ IsFiniteSet(owed)
      /\ SeenBounded /\ FieldsOutlive /\ ReleasedWhenOver
      /\ NoOverReservation /\ FirstAttemptCovered
      /\ TTL \in Nat /\ now \in Nat /\ expires \in Nat /\ reservedAt \in [UserRequests -> Nat]
  BY GateConstants DEF GateInv, GateTypeOK
<1>1. /\ now' = now + 1 /\ hash' = IF now + 1 >= expires THEN {} ELSE hash
      /\ balance' = balance /\ owed' = owed /\ expires' = expires /\ request' = request
      /\ reservedAt' = reservedAt /\ leaked' = leaked /\ faults' = faults
  BY DEF GateTick
<1>2. GateTypeOK' /\ IsFiniteSet(hash') /\ IsFiniteSet(owed')
  BY <1>0, <1>1, FS_EmptySet DEF GateTypeOK
<1>3. SeenBounded' /\ ReleasedWhenOver'
  BY <1>0, <1>1 DEF SeenBounded, ReleasedWhenOver
<1>4. FieldsOutlive'
  BY <1>0, <1>1 DEF FieldsOutlive
<1>5. NoOverReservation'
  <2>1. reservedTotal(hash)' = reservedTotal(hash')
    BY DEF reservedTotal
  <2>2. hash' # {} => hash' = hash
    BY <1>1
  <2> QED BY <1>0, <2>1, <2>2 DEF NoOverReservation
<1>6. FirstAttemptCovered'
  <2> SUFFICES ASSUME NEW s, s \in Running', request'[s].attempt = 1, request'[s].held,
                      now' - reservedAt'[s] < TTL
               PROVE  s \in hash'
    BY Zenon DEF FirstAttemptCovered
  <2>0. /\ s \in UserRequests /\ request[s].pc = "run" /\ request[s].attempt = 1 /\ request[s].held
        /\ now + 1 - reservedAt[s] < TTL
    <3>1. s \in UserRequests /\ request'[s].pc = "run"
      BY Zenon DEF Running
    <3>2. request[s].held /\ request[s].attempt = 1 /\ request[s].pc = "run"
      BY <1>1, <3>1, Zenon
    <3>3. now + 1 - reservedAt[s] < TTL
      <4>1. now' = now + 1 /\ reservedAt' = reservedAt /\ now \in Nat /\ reservedAt[s] \in Nat
            /\ TTL \in Nat
        BY <1>0, <1>1, <3>1
      <4> QED BY <4>1
    <3> QED BY <3>1, <3>2, <3>3, Zenon
  <2>1. reservedAt[s] \in Nat /\ reservedAt[s] + TTL <= expires
    BY <1>0, <2>0 DEF FieldsOutlive
  <2>2. s \in hash
    BY <1>0, <2>0, <2>1 DEF FirstAttemptCovered, Running
  <2>3. ~(now + 1 >= expires)
    BY <1>0, <2>0, <2>1
  <2> QED BY <1>1, <2>2, <2>3
<1> QED BY <1>2, <1>3, <1>4, <1>5, <1>6 DEF GateInv

\* A step that leaves the variables of the gate alone.
LEMMA GateStutter ==
    ASSUME GateInv, UNCHANGED gateVars
    PROVE  GateInv'
<1>1. /\ hash' = hash /\ expires' = expires /\ request' = request /\ reservedAt' = reservedAt
      /\ leaked' = leaked /\ now' = now /\ faults' = faults /\ balance' = balance /\ owed' = owed
  BY DEF gateVars
<1>2. reservedTotal(hash)' = reservedTotal(hash)
  BY <1>1 DEF reservedTotal
<1> QED BY <1>1, <1>2 DEF GateInv, GateTypeOK, SeenBounded, FieldsOutlive, ReleasedWhenOver,
                          NoOverReservation, FirstAttemptCovered, Running

LEMMA GateInvInit == GateInit => GateInv
<1> SUFFICES ASSUME GateInit PROVE GateInv
  OBVIOUS
<1>1. /\ balance = InitialBalance /\ owed = {} /\ hash = {} /\ expires = 0 /\ leaked = {}
      /\ request = [r \in UserRequests |-> New] /\ reservedAt = [r \in UserRequests |-> 0]
      /\ now = 0 /\ faults = 0
  BY DEF GateInit
<1>2. PICK z \in 0..MaxAttempts : z = 0
  BY GateConstants
<1>3. PICK y \in 0..MaxFallbacks : y = 0
  BY GateConstants
<1>4. New = [pc |-> "new", seen |-> 0, held |-> FALSE, attempt |-> z, fallbacks |-> y]
  BY <1>2, <1>3 DEF New
<1>5. New \in RequestState /\ New.pc = "new" /\ ~New.held
  BY <1>4 DEF RequestState
<1>6. GateTypeOK
  BY <1>1, <1>5, GateConstants DEF GateTypeOK, RequestState
<1>7. SeenBounded /\ FieldsOutlive /\ ReleasedWhenOver
  BY <1>1, <1>5, GateConstants DEF SeenBounded, FieldsOutlive, ReleasedWhenOver
<1>8. NoOverReservation /\ FirstAttemptCovered
  BY <1>1, <1>5 DEF NoOverReservation, FirstAttemptCovered, Running
<1> QED BY <1>1, <1>6, <1>7, <1>8, FS_EmptySet DEF GateInv

LEMMA GateInvNext == GateInv /\ [GateNext]_(gateVars) => GateInv'
<1> SUFFICES ASSUME GateInv, [GateNext]_(gateVars) PROVE GateInv'
  OBVIOUS
<1>1. ASSUME NEW r \in UserRequests, RequestStep(r) PROVE GateInv'
  <2>1. CASE GateDenies(r) \/ LaterCheckDenies(r)
    BY <2>1, DeniedKeeps DEF GateDenies, LaterCheckDenies
  <2> QED BY <1>1, <2>1, FetchUserKeeps, AdmitsKeeps, AttemptFailsKeeps, ModelFallbackKeeps,
             GiveUpKeeps, SucceedKeeps DEF RequestStep
<1>2. ASSUME NEW r \in UserRequests, GateFailsOpen(r) \/ ReleaseMissed(r) PROVE GateInv'
  BY <1>2, FailsOpenKeeps, SucceedKeeps
<1>3. CASE Charge \/ GateTick
  BY <1>3, GateChargeKeeps, GateTickKeeps
<1>4. CASE Finished \/ UNCHANGED gateVars
  BY <1>4, GateStutter DEF Finished
<1> QED BY <1>1, <1>2, <1>3, <1>4 DEF GateNext

LEMMA GateInvariant == GateSpec => []GateInv
  BY GateInvInit, GateInvNext, PTL DEF GateSpec

\* However many requests read the same balance at the same time, what the
\* reserve script grants together never exceeds what the user had.
THEOREM GateNeverOverReserves == GateSpec => []NoOverReservation
<1>1. GateInv => NoOverReservation
  BY DEF GateInv
<1> QED BY GateInvariant, <1>1, PTL

\* A granted field is in the hash until the request's first attempt is over,
\* unless the attempt takes longer than the TTL: other requests' EXPIRE and
\* HDEL, panics and Redis errors never take it away.
THEOREM GateCoversFirstAttempt == GateSpec => []FirstAttemptCovered
<1>1. GateInv => FirstAttemptCovered
  BY DEF GateInv
<1> QED BY GateInvariant, <1>1, PTL

\* An answered request leaves no field in the hash unless its release was
\* missed by a panic or a Redis error.
THEOREM GateLeavesNothing == GateSpec => []NothingLeftBehind
<1>1. GateInv => NothingLeftBehind
  BY DEF GateInv, ReleasedWhenOver, NothingLeftBehind
<1> QED BY GateInvariant, <1>1, PTL
=============================================================================
