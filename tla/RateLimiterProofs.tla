------------------------- MODULE RateLimiterProofs -------------------------
(***************************************************************************)
(* Proofs about RateLimiter's leases, counters and types, for any number   *)
(* of attempts, counters and lease sets, any costs, limits and lifetimes   *)
(* and any number of faults.                                               *)
(***************************************************************************)
EXTENDS RateLimiter, FiniteSums

(* What a step of the counters may touch, and its types. *)
CounterTypes ==
    /\ \A k \in Counters : counter[k] \in [used : 0..Limit[k], expires : Nat]
    /\ grantedIn \in [Attempts -> SUBSET Counters] /\ disturbed \subseteq Counters
    /\ unrefunded \subseteq Attempts
    /\ faults \in Nat

LeaseTypes ==
    /\ zset \in [Leases -> SUBSET Members]
    /\ \A k \in Leases : IsFiniteSet(zset[k]) /\ Cardinality(zset[k]) <= LeaseLimit[k]
    /\ zexpires \in [Leases -> Nat]
    /\ attempt \in [Attempts -> AttemptStates]
    /\ orphans \subseteq Attempts
    /\ now \in Nat

\* A lease set's key outlives its members, so that it never expires under one.
KeyOutlivesMembers ==
    \A k \in Leases : /\ zexpires[k] <= now + TTL
                      /\ \A m \in zset[k] : m.score <= zexpires[k]

\* An unexpired lease that an attempt holds is in its set.
HeldIsMember ==
    \A a \in Attempts : \A k \in attempt[a].held : attempt[a].until[k] > now =>
        [token |-> Token(a), score |-> attempt[a].until[k]] \in zset[k]

\* A member belongs to the present dispatch of an attempt that still holds the
\* lease, unless its attempt lost it.
MemberIsHeld ==
    \A a \in Attempts \ orphans : \A k \in Leases : \A m \in zset[k] :
        m.token[1] = a => k \in attempt[a].held /\ m.token = Token(a)

\* What an attempt may hold, by where it is.
WellPlaced(s) ==
    /\ s.pc \in {"dispatch", "acquire"} => s.next \in 1..NumLeases /\ s.held \subseteq 1..(s.next - 1)
    /\ s.pc \in {"new", "done"} => s.held = {}
    /\ s.seen <= now

LeaseInv ==
    /\ LeaseTypes
    /\ KeyOutlivesMembers
    /\ HeldIsMember
    /\ MemberIsHeld
    /\ \A a \in Attempts : WellPlaced(attempt[a])

LimiterInv == CounterTypes /\ LeaseInv

-----------------------------------------------------------------------------
(* The counters. *)

LEMMA IncrementTypes ==
  ASSUME CounterTypes, now \in Nat, NEW a \in Attempts, Fits(a), IncrementAll(a)
  PROVE  /\ \A k \in Counters : counter'[k] \in [used : 0..Limit[k], expires : Nat]
         /\ grantedIn' \in [Attempts -> SUBSET Counters]
<1>1. ASSUME NEW k \in Counters
      PROVE  counter'[k] \in [used : 0..Limit[k], expires : Nat]
  <2>1. Cost[a][k] \in Nat /\ Limit[k] \in Nat /\ Window \in Nat
    BY CounterAssumption, TimeAssumption
  <2>2. counter[k].used + Cost[a][k] <= Limit[k]
    BY DEF Fits
  <2>3. counter'[k] = Incremented(counter[k], Cost[a][k])
    BY DEF IncrementAll
  <2> QED
    BY <2>1, <2>2, <2>3 DEF Incremented, CounterTypes
<1> QED
  BY <1>1 DEF IncrementAll, CounterTypes

LEMMA DecrementTypes ==
  ASSUME CounterTypes, now \in Nat, NEW a \in Attempts, DecrementAll(a)
  PROVE  /\ \A k \in Counters : counter'[k] \in [used : 0..Limit[k], expires : Nat]
         /\ disturbed' \subseteq Counters
<1>1. ASSUME NEW k \in Counters
      PROVE  counter'[k] \in [used : 0..Limit[k], expires : Nat]
  <2>1. Cost[a][k] \in Nat /\ Limit[k] \in Nat
    BY CounterAssumption
  <2>2. counter'[k] = Decremented(counter[k], Cost[a][k])
    BY DEF DecrementAll
  <2> QED
    BY <2>1, <2>2 DEF Decremented, CounterTypes
<1> QED
  BY <1>1 DEF DecrementAll, CounterTypes

\* Most steps leave the counters alone.
CountersLeft(a) ==
    /\ counter' = counter /\ grantedIn' = grantedIn /\ disturbed' = disturbed
    /\ unrefunded' = unrefunded \/ unrefunded' = unrefunded \cup {a}
    /\ faults' = faults \/ Fault

LEMMA CountersLeftTypes ==
  ASSUME CounterTypes, NEW a \in Attempts, CountersLeft(a)
  PROVE  CounterTypes'
<1>1. faults' \in Nat
  BY DEF CountersLeft, Fault, CounterTypes
<1> QED
  BY <1>1 DEF CountersLeft, CounterTypes

LEMMA CounterTypesInductive ==
  ASSUME CounterTypes, now \in Nat, [Next]_vars
  PROVE  CounterTypes'
<1>1. CASE Tick
  <2>1. \A k \in Counters : Limit[k] \in Nat
    BY CounterAssumption
  <2>2. /\ \A k \in Counters : counter'[k] = NoCounter \/ counter'[k] = counter[k]
        /\ grantedIn' \in [Attempts -> SUBSET Counters] /\ disturbed' \subseteq Counters
        /\ unrefunded' = unrefunded /\ faults' = faults
    BY <1>1 DEF Tick, CounterTypes
  <2> QED
    BY <2>1, <2>2 DEF CounterTypes, NoCounter
<1>2. CASE UNCHANGED vars
  BY <1>2 DEF vars, CounterTypes
<1>3. ASSUME NEW a \in Attempts, AttemptStep(a)
      PROVE  CounterTypes'
  <2>1. CASE Allow(a)
    BY <2>1, IncrementTypes DEF Allow, CounterTypes
  <2>2. CASE AllowUnanswered(a)
    <3>1. faults' \in Nat /\ unrefunded' \subseteq Attempts
      <4>1. /\ faults' = faults + 1
            /\ unrefunded' = unrefunded \/ unrefunded' = unrefunded \cup {a}
        BY <2>2, Zenon DEF AllowUnanswered, Fault
      <4> QED
        BY <4>1 DEF CounterTypes
    <3>2. CASE Fits(a) /\ IncrementAll(a) /\ UNCHANGED disturbed
      BY <3>1, <3>2, IncrementTypes DEF CounterTypes
    <3>3. CASE UNCHANGED windows
      BY <3>1, <3>3 DEF CounterTypes, windows
    <3> QED
      BY <2>2, <3>2, <3>3 DEF AllowUnanswered
  <2>3. CASE SlotUnavailable(a)
    BY <2>3, DecrementTypes DEF SlotUnavailable, CounterTypes
  <2>4. CASE Refund(a)
    BY <2>4, DecrementTypes DEF Refund, CounterTypes
  <2>5. CASE \/ AllowLimited(a) \/ ThrottleCancelled(a) \/ TakeClock(a)
             \/ AcquireConcurrency(a) \/ AcquireLimited(a) \/ AcquireUnanswered(a)
    <3>1. CountersLeft(a)
      BY <2>5, Zenon DEF AllowLimited, ThrottleCancelled, TakeClock, AcquireConcurrency,
         AcquireLimited, AcquireUnanswered, CountersLeft, windows
    <3> QED
      BY <3>1, CountersLeftTypes
  <2>6. CASE \/ \E ok \in BOOLEAN : InvokeEnds(a, ok)
             \/ \E k \in Leases : ReleaseConcurrency(a, k) \/ ReleaseUnanswered(a, k)
             \/ Succeed(a) \/ RetrySameCandidate(a) \/ RefundLost(a) \/ Crash(a)
    <3>1. CountersLeft(a)
      BY <2>6, Zenon DEF InvokeEnds, ReleaseConcurrency, ReleaseUnanswered, Succeed,
         RetrySameCandidate, RefundLost, Crash, CountersLeft, windows
    <3> QED
      BY <3>1, CountersLeftTypes
  <2> QED
    BY <1>3, <2>1, <2>2, <2>3, <2>4, <2>5, <2>6 DEF AttemptStep
<1> QED
  BY <1>1, <1>2, <1>3 DEF Next, Finished

-----------------------------------------------------------------------------
(* Steps that leave the lease sets alone. *)

\* Attempt a moves to state s and no lease set changes.
Moves(a, s) ==
    /\ attempt' = [attempt EXCEPT ![a] = s]
    /\ zset' = zset /\ zexpires' = zexpires /\ now' = now

\* The move keeps the leases with their expiry and token, has none to lose, or
\* loses them for good.
KeepsLeases(a, s) ==
    \/ s.held = attempt[a].held /\ s.until = attempt[a].until /\ s.retries = attempt[a].retries
    \/ attempt[a].held = {} /\ s.held = {}
    \/ s.held \subseteq attempt[a].held /\ a \in orphans' /\ s.retries = attempt[a].retries
       /\ \A k \in s.held : s.until[k] = attempt[a].until[k]
    \/ s.held = {} /\ a \in orphans'

LEMMA MoveKeepsInv ==
  ASSUME LeaseInv, NEW a \in Attempts, NEW s \in AttemptStates, Moves(a, s),
         orphans \subseteq orphans', orphans' \subseteq Attempts,
         KeepsLeases(a, s), WellPlaced(s)
  PROVE  LeaseInv'
<1>1. /\ attempt'[a] = s
      /\ \A b \in Attempts : b # a => attempt'[b] = attempt[b]
      /\ attempt' \in [Attempts -> AttemptStates]
      /\ zset' = zset /\ zexpires' = zexpires /\ now' = now
  BY DEF LeaseInv, LeaseTypes, Moves
<1>2. LeaseTypes'
  BY <1>1 DEF LeaseInv, LeaseTypes
<1>3. KeyOutlivesMembers'
  BY <1>1 DEF LeaseInv, KeyOutlivesMembers
<1>4. HeldIsMember'
  <2> SUFFICES ASSUME NEW b \in Attempts, NEW k \in attempt'[b].held, attempt'[b].until[k] > now
               PROVE  [token |-> <<b, attempt'[b].retries>>, score |-> attempt'[b].until[k]] \in zset[k]
    BY <1>1 DEF HeldIsMember, Token
  <2>1. CASE b # a
    BY <1>1, <2>1 DEF LeaseInv, HeldIsMember, Token
  <2>2. CASE b = a
    <3>1. /\ k \in attempt[a].held /\ attempt'[a].until[k] = attempt[a].until[k]
          /\ attempt'[a].retries = attempt[a].retries
      BY <1>1, <2>2 DEF KeepsLeases
    <3> QED
      BY <1>1, <2>2, <3>1 DEF LeaseInv, HeldIsMember, Token
  <2> QED
    BY <2>1, <2>2
<1>5. MemberIsHeld'
  <2> SUFFICES ASSUME NEW b \in Attempts \ orphans', NEW k \in Leases, NEW m \in zset[k], m.token[1] = b
               PROVE  k \in attempt'[b].held /\ m.token = <<b, attempt'[b].retries>>
    BY <1>1 DEF MemberIsHeld, Token
  <2>1. k \in attempt[b].held /\ m.token = <<b, attempt[b].retries>>
    BY DEF LeaseInv, MemberIsHeld, Token
  <2>2. CASE b # a
    BY <1>1, <2>1, <2>2
  <2>3. CASE b = a
    BY <1>1, <2>1, <2>3 DEF KeepsLeases
  <2> QED
    BY <2>2, <2>3
<1>6. \A b \in Attempts : WellPlaced(attempt[b])'
  BY <1>1 DEF LeaseInv, WellPlaced
<1> QED
  BY <1>2, <1>3, <1>4, <1>5, <1>6 DEF LeaseInv

LEMMA NewAttemptType ==
  /\ NewAttempt \in AttemptStates
  /\ NewAttempt.held = {} /\ NewAttempt.seen = 0
<1>1. 0 \in 0..NumLeases /\ 0 \in 0..MaxRetries /\ [k \in Leases |-> 0] \in [Leases -> Nat]
  BY LeaseAssumption, BoundAssumption
<1> QED
  BY <1>1 DEF NewAttempt, AttemptStates

LEMMA EndKeepsInv ==
  ASSUME LeaseInv, NEW a \in Attempts, NEW ok \in BOOLEAN, End(a, ok),
         zset' = zset, zexpires' = zexpires, now' = now,
         orphans \subseteq orphans', orphans' \subseteq Attempts,
         attempt[a].held = {} \/ a \in orphans'
  PROVE  LeaseInv'
<1> DEFINE s == [NewAttempt EXCEPT !.pc = "done", !.ok = ok]
<1>1. s \in AttemptStates /\ s.held = {} /\ s.pc = "done" /\ s.seen = 0
  BY NewAttemptType, LeaseAssumption DEF AttemptStates
<1>2. Moves(a, s)
  BY DEF End, Moves
<1> HIDE DEF s
<1>3. WellPlaced(s)
  BY <1>1 DEF WellPlaced, LeaseInv, LeaseTypes
<1>4. KeepsLeases(a, s)
  BY <1>1 DEF KeepsLeases
<1> QED
  BY <1>1, <1>2, <1>3, <1>4, MoveKeepsInv

LEMMA StartKeepsInv ==
  ASSUME LeaseInv, NEW a \in Attempts, NEW r \in 0..MaxRetries, StartDispatch(a, r),
         zset' = zset, zexpires' = zexpires, now' = now, orphans' = orphans,
         attempt[a].held = {}
  PROVE  LeaseInv'
<1> DEFINE s == [NewAttempt EXCEPT !.pc = "dispatch", !.retries = r, !.next = 1]
<1>1. s \in AttemptStates /\ s.held = {} /\ s.pc = "dispatch" /\ s.seen = 0 /\ s.next = 1
  <2>1. 1 \in 0..NumLeases
    BY LeaseAssumption
  <2> DEFINE u == [NewAttempt EXCEPT !.pc = "dispatch"]
             v == [u EXCEPT !.retries = r]
  <2>2. u \in AttemptStates /\ u.held = {} /\ u.pc = "dispatch" /\ u.seen = 0
    BY NewAttemptType DEF AttemptStates
  <2> HIDE DEF u
  <2>3. v \in AttemptStates /\ v.held = {} /\ v.pc = "dispatch" /\ v.seen = 0
    BY <2>2 DEF AttemptStates
  <2>4. s = [v EXCEPT !.next = 1]
    BY DEF u
  <2> HIDE DEF v, s
  <2> QED
    BY <2>1, <2>3, <2>4 DEF AttemptStates
<1>2. Moves(a, s)
  BY DEF StartDispatch, Moves
<1> HIDE DEF s
<1>3. WellPlaced(s)
  BY <1>1, LeaseAssumption DEF WellPlaced, LeaseInv, LeaseTypes
<1>4. KeepsLeases(a, s)
  BY <1>1 DEF KeepsLeases
<1> QED
  BY <1>1, <1>2, <1>3, <1>4, MoveKeepsInv DEF LeaseInv, LeaseTypes

\* The steps of an attempt that do not touch a lease set.
LEMMA LocalStepsKeepInv ==
  ASSUME LeaseInv, NEW a \in Attempts,
         \/ Allow(a) \/ AllowLimited(a) \/ AllowUnanswered(a)
         \/ SlotUnavailable(a) \/ ThrottleCancelled(a) \/ TakeClock(a)
         \/ \E ok \in BOOLEAN : InvokeEnds(a, ok)
         \/ \E k \in Leases : ReleaseUnanswered(a, k)
         \/ Succeed(a) \/ RetrySameCandidate(a) \/ Refund(a) \/ RefundLost(a) \/ Crash(a)
  PROVE  LeaseInv'
<1>1. zset' = zset /\ zexpires' = zexpires /\ now' = now
  BY Zenon DEF Allow, AllowLimited, AllowUnanswered, SlotUnavailable, ThrottleCancelled, TakeClock,
     InvokeEnds, ReleaseUnanswered, Succeed, RetrySameCandidate, Refund, RefundLost, Crash, leaseSets
<1>2. orphans \subseteq Attempts /\ attempt[a] \in AttemptStates /\ WellPlaced(attempt[a])
  BY DEF LeaseInv, LeaseTypes
<1>3. attempt[a].pc \in {"new", "done"} => attempt[a].held = {}
  BY <1>2 DEF WellPlaced
<1>4. 0 \in 0..MaxRetries
  BY BoundAssumption
<1>5. CASE Allow(a)
  BY <1>1, <1>3, <1>4, <1>5, StartKeepsInv DEF Allow
<1>6. CASE AllowLimited(a)
  BY <1>1, <1>2, <1>3, <1>6, EndKeepsInv DEF AllowLimited
<1>7. CASE AllowUnanswered(a)
  BY <1>1, <1>2, <1>3, <1>4, <1>7, StartKeepsInv, EndKeepsInv DEF AllowUnanswered
<1>8. CASE SlotUnavailable(a) \/ ThrottleCancelled(a)
  <2>1. attempt[a].held = {}
    <3>1. attempt[a].pc = "dispatch" /\ attempt[a].next = 1
      BY <1>8, Zenon DEF SlotUnavailable, ThrottleCancelled, NotYetInvoked
    <3>2. attempt[a].held \subseteq 1..0
      BY <1>2, <3>1 DEF WellPlaced
    <3> QED
      BY <3>2
  <2>2. End(a, FALSE) /\ orphans' = orphans
    BY <1>8 DEF SlotUnavailable, ThrottleCancelled
  <2> QED
    BY <1>1, <1>2, <2>1, <2>2, EndKeepsInv
<1>9. CASE TakeClock(a)
  <2> DEFINE s == [attempt[a] EXCEPT !.pc = "acquire", !.seen = now]
  <2>1. attempt' = [attempt EXCEPT ![a] = s] /\ orphans' = orphans /\ attempt[a].pc = "dispatch"
    BY <1>9 DEF TakeClock
  <2>2. /\ s \in AttemptStates /\ s.held = attempt[a].held /\ s.until = attempt[a].until
        /\ s.retries = attempt[a].retries /\ s.next = attempt[a].next /\ s.pc = "acquire" /\ s.seen = now
    BY <1>2 DEF AttemptStates, LeaseInv, LeaseTypes
  <2> HIDE DEF s
  <2>3. WellPlaced(s)
    BY <1>2, <2>1, <2>2 DEF WellPlaced, LeaseInv, LeaseTypes
  <2> QED
    BY <1>1, <1>2, <2>1, <2>2, <2>3, MoveKeepsInv DEF Moves, KeepsLeases
<1>10. ASSUME NEW ok \in BOOLEAN, InvokeEnds(a, ok) PROVE LeaseInv'
  <2> DEFINE s == [attempt[a] EXCEPT !.pc = "release", !.ok = ok]
  <2>1. attempt' = [attempt EXCEPT ![a] = s] /\ orphans' = orphans
    BY <1>10 DEF InvokeEnds
  <2>2. /\ s \in AttemptStates /\ s.held = attempt[a].held /\ s.until = attempt[a].until
        /\ s.retries = attempt[a].retries /\ s.pc = "release" /\ s.seen = attempt[a].seen
    BY <1>2 DEF AttemptStates
  <2> HIDE DEF s
  <2>3. WellPlaced(s)
    BY <1>2, <2>2 DEF WellPlaced
  <2> QED
    BY <1>1, <1>2, <2>1, <2>2, <2>3, MoveKeepsInv DEF Moves, KeepsLeases
<1>11. ASSUME NEW k \in Leases, ReleaseUnanswered(a, k) PROVE LeaseInv'
  <2> DEFINE s == [attempt[a] EXCEPT !.held = @ \ {k}, !.until[k] = 0]
  <2>1. /\ attempt' = [attempt EXCEPT ![a] = s] /\ orphans' = orphans \cup {a}
        /\ attempt[a].pc = "release"
    BY <1>11 DEF ReleaseUnanswered
  <2>2. /\ s \in AttemptStates /\ s.held = attempt[a].held \ {k}
        /\ \A j \in s.held : s.until[j] = attempt[a].until[j]
        /\ s.retries = attempt[a].retries /\ s.pc = attempt[a].pc /\ s.seen = attempt[a].seen
    BY <1>2 DEF AttemptStates
  <2> HIDE DEF s
  <2>3. WellPlaced(s)
    BY <1>2, <2>1, <2>2 DEF WellPlaced
  <2> QED
    BY <1>1, <1>2, <2>1, <2>2, <2>3, MoveKeepsInv DEF Moves, KeepsLeases
<1>12. CASE Succeed(a) \/ Refund(a) \/ RefundLost(a) \/ Crash(a)
  <2>1. PICK ok \in BOOLEAN : End(a, ok)
    BY <1>12, Zenon DEF Succeed, Refund, RefundLost, Crash
  <2>2. /\ orphans' = orphans \/ orphans' = orphans \cup {a}
        /\ attempt[a].held = {} \/ a \in orphans'
    BY <1>12, Zenon DEF Succeed, Refund, RefundLost, Crash, Released
  <2> QED
    BY <1>1, <1>2, <2>1, <2>2, EndKeepsInv
<1>13. CASE RetrySameCandidate(a)
  <2>1. attempt[a].retries + 1 \in 0..MaxRetries
    BY <1>2, <1>13, BoundAssumption DEF RetrySameCandidate, AttemptStates
  <2> QED
    BY <1>1, <1>13, <2>1, StartKeepsInv DEF RetrySameCandidate, Released
<1> QED
  BY <1>5, <1>6, <1>7, <1>8, <1>9, <1>10, <1>11, <1>12, <1>13

-----------------------------------------------------------------------------
(* Steps that change a lease set. *)

\* An attempt that asks for a lease: which one, and with which clock.
LEMMA AcquireFacts ==
  ASSUME LeaseInv, NEW a \in Attempts, attempt[a].pc = "acquire"
  PROVE  /\ attempt[a] \in AttemptStates /\ WellPlaced(attempt[a])
         /\ attempt[a].next \in Leases /\ attempt[a].next \in 1..NumLeases
         /\ attempt[a].held \subseteq 1..attempt[a].next
         /\ attempt[a].seen \in Nat /\ attempt[a].seen <= now
         /\ now \in Nat /\ TTL \in Nat /\ TTL > 0
<1>1. attempt[a] \in AttemptStates /\ WellPlaced(attempt[a]) /\ now \in Nat
  BY DEF LeaseInv, LeaseTypes
<1>2. attempt[a].next \in 1..NumLeases /\ attempt[a].held \subseteq 1..(attempt[a].next - 1)
  BY <1>1 DEF WellPlaced
<1>3. attempt[a].held \subseteq 1..attempt[a].next
  BY <1>2, LeaseAssumption
<1> QED
  BY <1>1, <1>2, <1>3, TimeAssumption DEF WellPlaced, Leases, AttemptStates

LEMMA UnexpiredFacts ==
  ASSUME LeaseInv, NEW k \in Leases, NEW seen \in Nat
  PROVE  /\ Unexpired(k, seen) \subseteq zset[k] /\ Unexpired(k, seen) \subseteq Members
         /\ IsFiniteSet(Unexpired(k, seen)) /\ Cardinality(Unexpired(k, seen)) \in Nat
         /\ Cardinality(Unexpired(k, seen)) <= LeaseLimit[k]
<1>1. Unexpired(k, seen) \subseteq zset[k] /\ zset[k] \subseteq Members /\ IsFiniteSet(zset[k])
  BY DEF Unexpired, LeaseInv, LeaseTypes
<1>2. IsFiniteSet(Unexpired(k, seen)) /\ Cardinality(Unexpired(k, seen)) <= Cardinality(zset[k])
  BY <1>1, FS_Subset
<1>3. Cardinality(Unexpired(k, seen)) \in Nat /\ Cardinality(zset[k]) \in Nat
  BY <1>1, <1>2, FS_CardinalityType
<1>4. LeaseLimit[k] \in Nat /\ Cardinality(zset[k]) <= LeaseLimit[k]
  BY LeaseAssumption DEF Leases, LeaseInv, LeaseTypes
<1> QED
  BY <1>1, <1>2, <1>3, <1>4

\* A member is added where there is room, by an attempt that comes to hold the
\* lease or that never learns of it.
LEMMA AddKeepsInv ==
  ASSUME LeaseInv, NEW a \in Attempts, attempt[a].pc = "acquire", HasRoom(a), AddMember(a),
         now' = now, orphans \subseteq orphans', orphans' \subseteq Attempts,
         NEW s \in AttemptStates, attempt' = [attempt EXCEPT ![a] = s], WellPlaced(s),
         s.retries = attempt[a].retries,
         \/ /\ s.held = attempt[a].held \cup {attempt[a].next}
            /\ s.until = [attempt[a].until EXCEPT ![attempt[a].next] = attempt[a].seen + TTL]
         \/ s.held = attempt[a].held /\ s.until = attempt[a].until /\ a \in orphans'
  PROVE  LeaseInv'
<1> DEFINE k == attempt[a].next
           seen == attempt[a].seen
           new == [token |-> <<a, attempt[a].retries>>, score |-> seen + TTL]
           S == Unexpired(k, seen) \cup {new}
<1>1. k \in Leases /\ seen \in Nat /\ seen <= now /\ now \in Nat /\ TTL \in Nat /\ TTL > 0
      /\ attempt[a] \in AttemptStates
  BY AcquireFacts
<1>2. /\ attempt'[a] = s
      /\ \A b \in Attempts : b # a => attempt'[b] = attempt[b]
      /\ attempt' \in [Attempts -> AttemptStates]
  BY DEF LeaseInv, LeaseTypes
<1>3. /\ zset' = [zset EXCEPT ![k] = S] /\ zexpires' = [zexpires EXCEPT ![k] = now + TTL]
  BY DEF AddMember, Token
<1>4. new \in Members /\ new.score = seen + TTL /\ new.token = <<a, attempt[a].retries>>
  BY <1>1 DEF Members, AttemptStates
<1>5. IsFiniteSet(S) /\ Cardinality(S) <= LeaseLimit[k] /\ S \subseteq Members
  <2>1. /\ IsFiniteSet(Unexpired(k, seen)) /\ Cardinality(Unexpired(k, seen)) \in Nat
        /\ Unexpired(k, seen) \subseteq Members
    BY <1>1, UnexpiredFacts
  <2>2. Cardinality(Unexpired(k, seen)) < LeaseLimit[k] /\ LeaseLimit[k] \in Nat
    BY <1>1, LeaseAssumption DEF HasRoom, Leases
  <2> HIDE DEF new, k, seen
  <2>3. /\ IsFiniteSet(S)
        /\ Cardinality(S) = IF new \in Unexpired(k, seen) THEN Cardinality(Unexpired(k, seen))
                            ELSE Cardinality(Unexpired(k, seen)) + 1
    BY <2>1, FS_AddElement
  <2> QED
    BY <1>4, <2>1, <2>2, <2>3
<1>6. /\ zset' \in [Leases -> SUBSET Members] /\ zexpires' \in [Leases -> Nat]
      /\ zset'[k] = S /\ zexpires'[k] = now + TTL
      /\ \A j \in Leases : j # k => zset'[j] = zset[j] /\ zexpires'[j] = zexpires[j]
  <2> HIDE DEF S, k
  <2> QED
    BY <1>1, <1>3, <1>5 DEF LeaseInv, LeaseTypes
<1> HIDE DEF S, new
<1>7. \A m \in S : m = new \/ m \in zset[k]
  BY <1>1, UnexpiredFacts DEF S
<1>8. \A m \in zset[k] : m.score > now => m \in S
  <2>1. \A m \in zset[k] : m.score \in Nat
    BY <1>1 DEF LeaseInv, LeaseTypes, Members
  <2> QED
    BY <1>1, <2>1 DEF S, Unexpired
<1> HIDE DEF k, seen
<1>9. LeaseTypes'
  BY <1>1, <1>2, <1>5, <1>6 DEF LeaseInv, LeaseTypes
<1>10. KeyOutlivesMembers'
  <2>1. ASSUME NEW m \in S PROVE m.score <= now + TTL
    <3>1. zexpires[k] \in Nat /\ zexpires[k] <= now + TTL
          /\ (m \in zset[k] => m.score <= zexpires[k] /\ m.score \in Nat)
      BY <1>1 DEF LeaseInv, LeaseTypes, KeyOutlivesMembers, Members
    <3> QED
      BY <1>1, <1>4, <1>7, <2>1, <3>1
  <2>2. ASSUME NEW j \in Leases
        PROVE  zexpires'[j] <= now + TTL /\ \A m \in zset'[j] : m.score <= zexpires'[j]
    BY <1>1, <1>6, <2>1 DEF LeaseInv, KeyOutlivesMembers
  <2> QED
    BY <2>2 DEF KeyOutlivesMembers
<1>11. HeldIsMember'
  <2> SUFFICES ASSUME NEW b \in Attempts, NEW j \in attempt'[b].held, attempt'[b].until[j] > now
               PROVE  [token |-> <<b, attempt'[b].retries>>, score |-> attempt'[b].until[j]] \in zset'[j]
    BY DEF HeldIsMember, Token
  <2>1. j \in Leases
    BY <1>2 DEF AttemptStates
  <2>2. CASE b = a /\ j = k /\ attempt'[a].until[k] = seen + TTL
    BY <1>2, <1>6, <2>2 DEF S, new
  <2>3. CASE /\ j \in attempt[b].held /\ attempt'[b].until[j] = attempt[b].until[j]
             /\ attempt'[b].retries = attempt[b].retries
    <3> DEFINE m == [token |-> <<b, attempt[b].retries>>, score |-> attempt[b].until[j]]
    <3>1. m \in zset[j] /\ m.score > now
      BY <2>3 DEF LeaseInv, HeldIsMember, Token
    <3> HIDE DEF m
    <3>2. m \in zset'[j]
      BY <1>6, <1>8, <2>1, <3>1
    <3> QED
      BY <2>3, <3>2 DEF m
  <2>4. CASE b # a
    BY <1>2, <2>3, <2>4
  <2>5. CASE b = a
    <3>1. attempt[a].until \in [Leases -> Nat]
      BY <1>1 DEF AttemptStates
    <3> QED
      BY <1>1, <1>2, <2>1, <2>2, <2>3, <2>5, <3>1 DEF k, seen
  <2> QED
    BY <2>4, <2>5
<1>12. MemberIsHeld'
  <2> SUFFICES ASSUME NEW b \in Attempts \ orphans', NEW j \in Leases, NEW m \in zset'[j], m.token[1] = b
               PROVE  j \in attempt'[b].held /\ m.token = <<b, attempt'[b].retries>>
    BY DEF MemberIsHeld, Token
  <2>1. CASE m \in zset[j]
    <3>1. j \in attempt[b].held /\ m.token = <<b, attempt[b].retries>>
      BY <2>1 DEF LeaseInv, MemberIsHeld, Token
    <3> QED
      BY <1>2, <3>1
  <2>2. CASE j = k /\ m = new
    <3>1. m.token = <<a, attempt[a].retries>> /\ b = a
      BY <1>4, <2>2
    <3> QED
      BY <1>2, <2>2, <3>1 DEF k
  <2> QED
    BY <1>6, <1>7, <2>1, <2>2
<1>13. \A b \in Attempts : WellPlaced(attempt[b])'
  BY <1>2 DEF LeaseInv, WellPlaced
<1> QED
  BY <1>9, <1>10, <1>11, <1>12, <1>13 DEF LeaseInv

\* Where an attempt goes once a lease is done, whatever it holds then.
LEMMA AfterFacts ==
  ASSUME LeaseInv, NEW u \in AttemptStates, NEW k \in 1..NumLeases, u.held \subseteq 1..k
  PROVE  /\ After(u, k) \in AttemptStates /\ WellPlaced(After(u, k))
         /\ After(u, k).held = u.held /\ After(u, k).until = u.until
         /\ After(u, k).retries = u.retries
<1> DEFINE v == [u EXCEPT !.pc = "running", !.next = 0, !.seen = 0]
           w == [u EXCEPT !.pc = "dispatch", !.next = k + 1, !.seen = 0]
<1>1. 0 \in 0..NumLeases /\ NumLeases \in Nat /\ now \in Nat
  BY LeaseAssumption DEF LeaseInv, LeaseTypes
<1>2. CASE k = NumLeases
  <2>1. /\ v \in AttemptStates /\ v.pc = "running" /\ v.seen = 0
        /\ v.held = u.held /\ v.until = u.until /\ v.retries = u.retries
    BY <1>1 DEF AttemptStates
  <2>2. After(u, k) = v
    BY <1>2 DEF After
  <2> HIDE DEF v
  <2> QED
    BY <1>1, <2>1, <2>2 DEF WellPlaced
<1>3. CASE k # NumLeases
  <2>1. k + 1 \in 0..NumLeases /\ k + 1 \in 1..NumLeases /\ k + 1 - 1 = k
    BY <1>1, <1>3
  <2>2. /\ w \in AttemptStates /\ w.pc = "dispatch" /\ w.seen = 0 /\ w.next = k + 1
        /\ w.held = u.held /\ w.until = u.until /\ w.retries = u.retries
    BY <1>1, <2>1 DEF AttemptStates
  <2>3. After(u, k) = w
    BY <1>3 DEF After
  <2> HIDE DEF w
  <2> QED
    BY <1>1, <2>1, <2>2, <2>3 DEF WellPlaced
<1> QED
  BY <1>2, <1>3

\* Where an attempt goes that gives its leases back.
LEMMA ToReleaseFacts ==
  ASSUME LeaseInv, NEW a \in Attempts,
         NEW s, s = [attempt[a] EXCEPT !.pc = "release", !.next = 0, !.seen = 0]
  PROVE  /\ s \in AttemptStates /\ WellPlaced(s)
         /\ s.held = attempt[a].held /\ s.until = attempt[a].until
         /\ s.retries = attempt[a].retries
<1>1. attempt[a] \in AttemptStates /\ now \in Nat /\ 0 \in 0..NumLeases
  BY LeaseAssumption DEF LeaseInv, LeaseTypes
<1>2. /\ s \in AttemptStates /\ s.pc = "release" /\ s.seen = 0
      /\ s.held = attempt[a].held /\ s.until = attempt[a].until
      /\ s.retries = attempt[a].retries
  BY <1>1 DEF AttemptStates
<1> QED
  BY <1>1, <1>2 DEF WellPlaced

LEMMA AcquireKeepsInv ==
  ASSUME LeaseInv, NEW a \in Attempts, AcquireConcurrency(a)
  PROVE  LeaseInv'
<1> DEFINE k == attempt[a].next
           u == WithLease(attempt[a], k)
           s == After(u, k)
<1>1. /\ attempt[a].pc = "acquire" /\ HasRoom(a) /\ AddMember(a)
      /\ attempt' = [attempt EXCEPT ![a] = s] /\ now' = now /\ orphans' = orphans
  BY DEF AcquireConcurrency
<1>2. /\ attempt[a] \in AttemptStates /\ k \in Leases /\ k \in 1..NumLeases
      /\ attempt[a].held \subseteq 1..k /\ attempt[a].seen + TTL \in Nat
  BY <1>1, AcquireFacts
<1>3. /\ u \in AttemptStates /\ u.held = attempt[a].held \cup {k}
      /\ u.until = [attempt[a].until EXCEPT ![k] = attempt[a].seen + TTL]
      /\ u.retries = attempt[a].retries
  <2> HIDE DEF k
  <2> QED
    BY <1>2 DEF AttemptStates, WithLease
<1>4. u.held \subseteq 1..k
  BY <1>2, <1>3
<1> HIDE DEF u
<1>5. /\ s \in AttemptStates /\ WellPlaced(s) /\ s.held = u.held /\ s.until = u.until
      /\ s.retries = u.retries
  BY <1>2, <1>3, <1>4, AfterFacts
<1> HIDE DEF s
<1> QED
  BY <1>1, <1>3, <1>5, AddKeepsInv DEF LeaseInv, LeaseTypes

LEMMA AcquireUnansweredKeepsInv ==
  ASSUME LeaseInv, NEW a \in Attempts, AcquireUnanswered(a)
  PROVE  LeaseInv'
<1> DEFINE k == attempt[a].next
<1>1. attempt[a].pc = "acquire" /\ now' = now
  BY DEF AcquireUnanswered
<1>2. attempt[a] \in AttemptStates /\ k \in 1..NumLeases /\ attempt[a].held \subseteq 1..k
  BY <1>1, AcquireFacts
<1>3. PICK s \in AttemptStates :
        /\ attempt' = [attempt EXCEPT ![a] = s] /\ WellPlaced(s)
        /\ s.held = attempt[a].held /\ s.until = attempt[a].until
        /\ s.retries = attempt[a].retries
  <2> DEFINE r == [attempt[a] EXCEPT !.pc = "release", !.next = 0, !.seen = 0]
  <2>1. attempt' = [attempt EXCEPT ![a] = After(attempt[a], k)] \/ attempt' = [attempt EXCEPT ![a] = r]
    BY DEF AcquireUnanswered
  <2>2. CASE attempt' = [attempt EXCEPT ![a] = After(attempt[a], k)]
    BY <1>2, <2>2, AfterFacts
  <2>3. CASE attempt' = [attempt EXCEPT ![a] = r]
    <3>1. /\ r \in AttemptStates /\ WellPlaced(r)
          /\ r.held = attempt[a].held /\ r.until = attempt[a].until
          /\ r.retries = attempt[a].retries
      BY ToReleaseFacts
    <3> QED
      BY <2>3, <3>1, Zenon
  <2> QED
    BY <2>1, <2>2, <2>3
<1>4. CASE HasRoom(a) /\ AddMember(a) /\ orphans' = orphans \cup {a}
  BY <1>1, <1>3, <1>4, AddKeepsInv DEF LeaseInv, LeaseTypes
<1>5. CASE zset' = zset /\ zexpires' = zexpires /\ orphans' = orphans
  BY <1>1, <1>3, <1>5, MoveKeepsInv DEF Moves, KeepsLeases, LeaseInv, LeaseTypes
<1> QED
  BY <1>4, <1>5, Zenon DEF AcquireUnanswered, leaseSets

\* Members leave lease set k, none that others hold unexpired, while attempt a
\* keeps its leases but perhaps k, of which then no member of it is left.
LEMMA ShrinkKeepsInv ==
  ASSUME LeaseInv, NEW a \in Attempts, NEW k \in Leases, NEW S \in SUBSET zset[k],
         zset' = [zset EXCEPT ![k] = S], now' = now, orphans' = orphans,
         zexpires' = zexpires \/ (S = {} /\ zexpires' = [zexpires EXCEPT ![k] = 0]),
         NEW s \in AttemptStates, attempt' = [attempt EXCEPT ![a] = s], WellPlaced(s),
         s.retries = attempt[a].retries,
         \A m \in zset[k] : m.score > now /\ m.token # Token(a) => m \in S,
         \/ /\ s.held = attempt[a].held /\ s.until = attempt[a].until
            /\ \A m \in zset[k] : m.score > now => m \in S
         \/ /\ s.held = attempt[a].held \ {k} /\ s.until = [attempt[a].until EXCEPT ![k] = 0]
            /\ \A m \in S : m.token # Token(a)
  PROVE  LeaseInv'
<1>1. /\ attempt'[a] = s
      /\ \A b \in Attempts : b # a => attempt'[b] = attempt[b]
      /\ attempt' \in [Attempts -> AttemptStates] /\ attempt[a] \in AttemptStates
  BY DEF LeaseInv, LeaseTypes
<1>2. /\ zset' \in [Leases -> SUBSET Members] /\ zset'[k] = S
      /\ \A j \in Leases : j # k => zset'[j] = zset[j]
      /\ \A j \in Leases : zset'[j] \subseteq zset[j]
      /\ zexpires' \in [Leases -> Nat]
      /\ \A j \in Leases : zexpires'[j] = zexpires[j] \/ (zset'[j] = {} /\ zexpires'[j] = 0)
  <2>1. zset \in [Leases -> SUBSET Members] /\ zexpires \in [Leases -> Nat]
    BY DEF LeaseInv, LeaseTypes
  <2>2. /\ zset' \in [Leases -> SUBSET Members] /\ zset'[k] = S
        /\ \A j \in Leases : j # k => zset'[j] = zset[j]
        /\ \A j \in Leases : zset'[j] \subseteq zset[j]
    BY <2>1
  <2>3. CASE zexpires' = zexpires
    BY <2>1, <2>2, <2>3
  <2>4. CASE S = {} /\ zexpires' = [zexpires EXCEPT ![k] = 0]
    BY <2>1, <2>2, <2>4
  <2> QED
    BY <2>3, <2>4
<1>3. LeaseTypes'
  <2>1. ASSUME NEW j \in Leases
        PROVE  IsFiniteSet(zset'[j]) /\ Cardinality(zset'[j]) <= LeaseLimit[j]
    <3>1. IsFiniteSet(zset[j]) /\ Cardinality(zset[j]) <= LeaseLimit[j] /\ LeaseLimit[j] \in Nat
      BY LeaseAssumption DEF LeaseInv, LeaseTypes, Leases
    <3>2. IsFiniteSet(zset'[j]) /\ Cardinality(zset'[j]) <= Cardinality(zset[j])
      BY <1>2, <3>1, FS_Subset
    <3>3. Cardinality(zset[j]) \in Nat /\ Cardinality(zset'[j]) \in Nat
      BY <3>1, <3>2, FS_CardinalityType
    <3> QED
      BY <3>1, <3>2, <3>3
  <2> QED
    BY <1>1, <1>2, <2>1 DEF LeaseInv, LeaseTypes
<1>4. KeyOutlivesMembers'
  <2>1. now \in Nat /\ TTL \in Nat
    BY TimeAssumption DEF LeaseInv, LeaseTypes
  <2>2. ASSUME NEW j \in Leases
        PROVE  zexpires'[j] <= now + TTL /\ \A m \in zset'[j] : m.score <= zexpires'[j]
    <3>1. zexpires[j] <= now + TTL /\ \A m \in zset[j] : m.score <= zexpires[j]
      BY DEF LeaseInv, KeyOutlivesMembers
    <3>2. CASE zexpires'[j] = zexpires[j]
      BY <1>2, <3>1, <3>2
    <3>3. CASE zset'[j] = {} /\ zexpires'[j] = 0
      BY <2>1, <3>3
    <3> QED
      BY <1>2, <3>2, <3>3
  <2> QED
    BY <2>2 DEF KeyOutlivesMembers
<1>5. HeldIsMember'
  <2> SUFFICES ASSUME NEW b \in Attempts, NEW j \in attempt'[b].held, attempt'[b].until[j] > now
               PROVE  [token |-> <<b, attempt'[b].retries>>, score |-> attempt'[b].until[j]] \in zset'[j]
    BY DEF HeldIsMember, Token
  <2>1. j \in Leases
    BY <1>1 DEF AttemptStates
  <2>2. /\ j \in attempt[b].held /\ attempt'[b].until[j] = attempt[b].until[j]
        /\ attempt'[b].retries = attempt[b].retries
        /\ b = a /\ j = k => \A m \in zset[k] : m.score > now => m \in S
    <3>1. CASE b # a
      BY <1>1, <3>1
    <3>2. CASE b = a
      <4>1. attempt[a].until \in [Leases -> Nat]
        BY <1>1 DEF AttemptStates
      <4> QED
        BY <1>1, <2>1, <3>2, <4>1
    <3> QED
      BY <3>1, <3>2
  <2> DEFINE m == [token |-> <<b, attempt[b].retries>>, score |-> attempt[b].until[j]]
  <2>3. m \in zset[j] /\ m.score > now /\ (b # a => m.token # <<a, attempt[a].retries>>)
    BY <2>2 DEF LeaseInv, HeldIsMember, Token
  <2> HIDE DEF m
  <2>4. m \in zset'[j]
    BY <1>2, <2>1, <2>2, <2>3 DEF Token
  <2> QED
    BY <2>2, <2>4 DEF m
<1>6. MemberIsHeld'
  <2> SUFFICES ASSUME NEW b \in Attempts \ orphans, NEW j \in Leases, NEW m \in zset'[j], m.token[1] = b
               PROVE  j \in attempt'[b].held /\ m.token = <<b, attempt'[b].retries>>
    BY DEF MemberIsHeld, Token
  <2>1. j \in attempt[b].held /\ m.token = <<b, attempt[b].retries>>
    BY <1>2 DEF LeaseInv, MemberIsHeld, Token
  <2>2. CASE b # a
    BY <1>1, <2>1, <2>2
  <2>3. CASE b = a
    BY <1>1, <1>2, <2>1, <2>3 DEF Token
  <2> QED
    BY <2>2, <2>3
<1>7. \A b \in Attempts : WellPlaced(attempt[b])'
  BY <1>1 DEF LeaseInv, WellPlaced
<1> QED
  BY <1>3, <1>4, <1>5, <1>6, <1>7 DEF LeaseInv

LEMMA AcquireLimitedKeepsInv ==
  ASSUME LeaseInv, NEW a \in Attempts, AcquireLimited(a)
  PROVE  LeaseInv'
<1> DEFINE k == attempt[a].next
           S == Unexpired(k, attempt[a].seen)
           s == [attempt[a] EXCEPT !.pc = "release", !.next = 0, !.seen = 0]
<1>1. /\ attempt[a].pc = "acquire" /\ zset' = [zset EXCEPT ![k] = S]
      /\ zexpires' = zexpires /\ now' = now /\ orphans' = orphans
  BY DEF AcquireLimited
<1>2. attempt' = [attempt EXCEPT ![a] = s]
  BY DEF AcquireLimited
<1>3. k \in Leases /\ attempt[a].seen \in Nat /\ attempt[a].seen <= now /\ now \in Nat
  BY <1>1, AcquireFacts
<1>4. S \subseteq zset[k] /\ \A m \in zset[k] : m.score > now => m \in S
  <2>1. \A m \in zset[k] : m.score \in Nat
    BY <1>3 DEF LeaseInv, LeaseTypes, Members
  <2> QED
    BY <1>3, <2>1 DEF Unexpired
<1>5. /\ s \in AttemptStates /\ WellPlaced(s) /\ s.held = attempt[a].held
      /\ s.until = attempt[a].until /\ s.retries = attempt[a].retries
  BY ToReleaseFacts
<1> HIDE DEF k, S, s
<1> QED
  BY <1>1, <1>2, <1>3, <1>4, <1>5, ShrinkKeepsInv

LEMMA ReleaseKeepsInv ==
  ASSUME LeaseInv, NEW a \in Attempts, NEW k \in Leases, ReleaseConcurrency(a, k)
  PROVE  LeaseInv'
<1> DEFINE S == Without(a, k)
           s == [attempt[a] EXCEPT !.held = @ \ {k}, !.until[k] = 0]
<1>1. /\ attempt[a].pc = "release" /\ zset' = [zset EXCEPT ![k] = S]
      /\ now' = now /\ orphans' = orphans
  BY DEF ReleaseConcurrency
<1>2. attempt' = [attempt EXCEPT ![a] = s]
  BY DEF ReleaseConcurrency
<1>3. zexpires' = zexpires \/ (S = {} /\ zexpires' = [zexpires EXCEPT ![k] = 0])
  <2>1. zexpires' = [zexpires EXCEPT ![k] = IF S = {} THEN 0 ELSE zexpires[k]]
    BY DEF ReleaseConcurrency
  <2> HIDE DEF S
  <2>2. CASE S = {}
    BY <2>1, <2>2
  <2>3. CASE S # {}
    <3>1. zexpires' = [zexpires EXCEPT ![k] = zexpires[k]] /\ zexpires \in [Leases -> Nat]
      BY <2>1, <2>3 DEF LeaseInv, LeaseTypes
    <3> QED
      BY <3>1
  <2> QED
    BY <2>2, <2>3
<1>4. attempt[a] \in AttemptStates /\ WellPlaced(attempt[a])
  BY DEF LeaseInv, LeaseTypes
<1>5. /\ s \in AttemptStates /\ s.held = attempt[a].held \ {k}
      /\ s.until = [attempt[a].until EXCEPT ![k] = 0]
      /\ s.retries = attempt[a].retries /\ s.pc = attempt[a].pc /\ s.seen = attempt[a].seen
  BY <1>4 DEF AttemptStates
<1> HIDE DEF s
<1>6. WellPlaced(s)
  BY <1>1, <1>4, <1>5 DEF WellPlaced
<1>7. /\ S \in SUBSET zset[k] /\ \A m \in S : m.token # Token(a)
      /\ \A m \in zset[k] : m.score > now /\ m.token # Token(a) => m \in S
  BY DEF Without
<1> HIDE DEF S
<1> QED
  BY <1>1, <1>2, <1>3, <1>5, <1>6, <1>7, ShrinkKeepsInv

\* Time passes: a key that expires has only expired members.
LEMMA TickKeepsInv ==
  ASSUME LeaseInv, Tick
  PROVE  LeaseInv'
<1>1. /\ now \in Nat /\ now' = now + 1 /\ attempt' = attempt /\ orphans' = orphans
      /\ TTL \in Nat /\ attempt \in [Attempts -> AttemptStates]
  BY TimeAssumption DEF Tick, LeaseInv, LeaseTypes
<1>2. ASSUME NEW k \in Leases
      PROVE  /\ zexpires[k] \in Nat /\ zset[k] \subseteq Members
             /\ zexpires[k] <= now + 1 => zset'[k] = {} /\ zexpires'[k] = 0
             /\ zexpires[k] > now + 1 => zset'[k] = zset[k] /\ zexpires'[k] = zexpires[k]
  BY <1>1 DEF Tick, LeaseInv, LeaseTypes
<1>3. \A k \in Leases : \/ zset'[k] = {} /\ zexpires'[k] = 0 /\ zexpires[k] <= now + 1
                        \/ zset'[k] = zset[k] /\ zexpires'[k] = zexpires[k]
  BY <1>1, <1>2
<1>4. LeaseTypes'
  <2>1. zset' \in [Leases -> SUBSET Members] /\ zexpires' \in [Leases -> Nat]
    BY DEF Tick, LeaseInv, LeaseTypes
  <2>2. ASSUME NEW k \in Leases
        PROVE  IsFiniteSet(zset'[k]) /\ Cardinality(zset'[k]) <= LeaseLimit[k]
    <3>1. LeaseLimit[k] \in Nat /\ IsFiniteSet(zset[k]) /\ Cardinality(zset[k]) <= LeaseLimit[k]
      BY LeaseAssumption DEF Leases, LeaseInv, LeaseTypes
    <3>2. IsFiniteSet({}) /\ Cardinality({}) = 0 /\ 0 <= LeaseLimit[k]
      BY <3>1, FS_EmptySet
    <3>3. zset'[k] = {} \/ zset'[k] = zset[k]
      BY <1>3
    <3> QED
      BY <3>1, <3>2, <3>3, Zenon
  <2> QED
    BY <1>1, <2>1, <2>2 DEF LeaseInv, LeaseTypes
<1>5. KeyOutlivesMembers'
  <2>1. ASSUME NEW k \in Leases
        PROVE  zexpires'[k] <= now + 1 + TTL /\ \A m \in zset'[k] : m.score <= zexpires'[k]
    <3>1. zexpires[k] <= now + TTL /\ \A m \in zset[k] : m.score <= zexpires[k]
      BY DEF LeaseInv, KeyOutlivesMembers
    <3>2. CASE zset'[k] = {} /\ zexpires'[k] = 0
      BY <1>1, <3>2
    <3>3. CASE zset'[k] = zset[k] /\ zexpires'[k] = zexpires[k]
      <4>1. zexpires[k] <= now + 1 + TTL
        BY <1>1, <1>2, <3>1
      <4> QED
        BY <3>1, <3>3, <4>1
    <3> QED
      BY <1>3, <3>2, <3>3
  <2> QED
    BY <1>1, <2>1 DEF KeyOutlivesMembers
<1>6. HeldIsMember'
  <2> SUFFICES ASSUME NEW b \in Attempts, NEW k \in attempt[b].held, attempt[b].until[k] > now + 1
               PROVE  [token |-> <<b, attempt[b].retries>>, score |-> attempt[b].until[k]] \in zset'[k]
    BY <1>1 DEF HeldIsMember, Token
  <2>1. k \in Leases /\ attempt[b].until[k] \in Nat
    BY <1>1 DEF AttemptStates
  <2> DEFINE m == [token |-> <<b, attempt[b].retries>>, score |-> attempt[b].until[k]]
  <2>2. m \in zset[k]
    BY <1>1, <2>1 DEF LeaseInv, HeldIsMember, Token
  <2>3. m.score = attempt[b].until[k]
    OBVIOUS
  <2>4. m.score <= zexpires[k]
    BY <2>1, <2>2 DEF LeaseInv, KeyOutlivesMembers
  <2> HIDE DEF m
  <2>5. m \in zset'[k]
    BY <1>1, <1>2, <2>1, <2>2, <2>3, <2>4
  <2> QED
    BY <2>5 DEF m
<1>7. MemberIsHeld'
  BY <1>1, <1>3 DEF LeaseInv, MemberIsHeld, Token
<1>8. \A b \in Attempts : WellPlaced(attempt[b])'
  <2>1. ASSUME NEW b \in Attempts PROVE attempt[b].seen <= now + 1
    BY <1>1 DEF LeaseInv, WellPlaced, AttemptStates
  <2> QED
    BY <1>1, <2>1 DEF LeaseInv, WellPlaced
<1> QED
  BY <1>4, <1>5, <1>6, <1>7, <1>8 DEF LeaseInv

-----------------------------------------------------------------------------
(* The invariant and what follows from it. *)

LEMMA LimiterInit == Init => LimiterInv
<1> SUFFICES ASSUME Init PROVE LimiterInv
  OBVIOUS
<1>1. CounterTypes
  <2>1. \A k \in Counters : Limit[k] \in Nat
    BY CounterAssumption
  <2> QED
    BY <2>1 DEF Init, CounterTypes, NoCounter
<1>2. \A a \in Attempts : attempt[a] = NewAttempt
  BY DEF Init
<1>3. LeaseTypes
  <2>1. \A k \in Leases : LeaseLimit[k] \in Nat /\ zset[k] = {}
    BY LeaseAssumption DEF Leases, Init
  <2>2. IsFiniteSet({}) /\ Cardinality({}) = 0
    BY FS_EmptySet
  <2>3. attempt \in [Attempts -> AttemptStates]
    BY NewAttemptType DEF Init
  <2> QED
    BY <2>1, <2>2, <2>3 DEF Init, LeaseTypes
<1>4. KeyOutlivesMembers /\ MemberIsHeld
  BY TimeAssumption DEF Init, KeyOutlivesMembers, MemberIsHeld
<1>5. HeldIsMember
  BY <1>2, NewAttemptType DEF HeldIsMember
<1>6. \A a \in Attempts : WellPlaced(attempt[a])
  <2>1. NewAttempt.pc = "new"
    BY DEF NewAttempt
  <2> QED
    BY <1>2, <2>1, NewAttemptType DEF WellPlaced, Init
<1> QED
  BY <1>1, <1>3, <1>4, <1>5, <1>6 DEF LimiterInv, LeaseInv

LEMMA LeaseInvInductive ==
  ASSUME LeaseInv, [Next]_vars
  PROVE  LeaseInv'
<1>1. CASE UNCHANGED vars
  BY <1>1 DEF vars, LeaseInv, LeaseTypes, KeyOutlivesMembers, HeldIsMember, MemberIsHeld,
     WellPlaced, Token
<1>2. CASE Tick
  BY <1>2, TickKeepsInv
<1>3. ASSUME NEW a \in Attempts, AttemptStep(a) PROVE LeaseInv'
  BY <1>3, LocalStepsKeepInv, AcquireKeepsInv, AcquireLimitedKeepsInv, AcquireUnansweredKeepsInv,
     ReleaseKeepsInv, Zenon DEF AttemptStep
<1> QED
  BY <1>1, <1>2, <1>3 DEF Next, Finished

LEMMA LimiterInvariant == Spec => []LimiterInv
<1>1. LimiterInv /\ [Next]_vars => LimiterInv'
  BY CounterTypesInductive, LeaseInvInductive DEF LimiterInv, LeaseInv, LeaseTypes
<1> QED
  BY LimiterInit, <1>1, PTL DEF Spec

\* The scripts keep every counter in 0..Limit and every lease set within its
\* limit, whatever is lost, retried or refunded late.
THEOREM LimiterTypes == Spec => []TypeOK
<1>1. LimiterInv => TypeOK
  BY DEF LimiterInv, CounterTypes, LeaseInv, LeaseTypes, TypeOK
<1> QED
  BY LimiterInvariant, <1>1, PTL

LEMMA HoldersBounded ==
  ASSUME LeaseInv, NEW k \in Leases
  PROVE  Cardinality({a \in Attempts : k \in attempt[a].held /\ attempt[a].until[k] > now})
            <= LeaseLimit[k]
<1> DEFINE H == {a \in Attempts : k \in attempt[a].held /\ attempt[a].until[k] > now}
           f == [a \in H |-> [token |-> <<a, attempt[a].retries>>, score |-> attempt[a].until[k]]]
<1>1. f \in [H -> zset[k]]
  BY DEF LeaseInv, HeldIsMember, Token
<1>2. \A a, b \in H : f[a] = f[b] => a = b
  <2> SUFFICES ASSUME NEW a \in H, NEW b \in H, f[a] = f[b] PROVE a = b
    OBVIOUS
  <2>1. f[a].token = <<a, attempt[a].retries>> /\ f[b].token = <<b, attempt[b].retries>>
    OBVIOUS
  <2> HIDE DEF f
  <2>2. <<a, attempt[a].retries>> = <<b, attempt[b].retries>>
    BY <2>1
  <2> QED
    BY <2>2
<1> HIDE DEF f, H
<1>3. f \in Injection(H, zset[k])
  BY <1>1, <1>2 DEF Injection, IsInjective
<1>4. /\ IsFiniteSet(zset[k]) /\ Cardinality(zset[k]) <= LeaseLimit[k] /\ LeaseLimit[k] \in Nat
  BY LeaseAssumption DEF LeaseInv, LeaseTypes, Leases
<1>5. IsFiniteSet(H) /\ Cardinality(H) <= Cardinality(zset[k])
  BY <1>3, <1>4, FS_Injection
<1>6. Cardinality(H) \in Nat /\ Cardinality(zset[k]) \in Nat
  BY <1>4, <1>5, FS_CardinalityType
<1> QED
  BY <1>4, <1>5, <1>6 DEF H

\* AcquireConcurrency admits at most LeaseLimit holders of an unexpired lease
\* at once: each has a member of its own in the set.
THEOREM LeasesNeverExceeded == Spec => []LeasesBounded
<1>1. LimiterInv => LeasesBounded
  BY HoldersBounded DEF LimiterInv, LeasesBounded
<1> QED
  BY LimiterInvariant, <1>1, PTL

\* An attempt that ends, however far its dispatch came, gives every lease back
\* unless a reply was lost or its process died.
THEOREM LeasesReturned == Spec => []NoLeaseLeft
<1>1. LimiterInv => NoLeaseLeft
  BY DEF LimiterInv, LeaseInv, MemberIsHeld, WellPlaced, NoLeaseLeft
<1> QED
  BY LimiterInvariant, <1>1, PTL

-----------------------------------------------------------------------------
(* The windowed counters. *)

CostAt(k) == [a \in Attempts |-> Cost[a][k]]

\* Only a running window holds units or grants, and an attempt that has not
\* reserved yet has none.
WindowsRun ==
    /\ \A k \in Counters : counter[k].used > 0 => counter[k].expires > now
    /\ \A a \in Attempts : \A k \in grantedIn[a] : counter[k].expires > now
    /\ \A a \in Attempts : attempt[a].pc = "new" => grantedIn[a] = {}

CountInv ==
    /\ WindowsRun
    /\ \A k \in Counters : IsFiniteSet(Counted(k))
    /\ NeverOvercounts
    /\ CountsEveryGrant

LEMMA UnitsOf ==
  ASSUME NEW k \in Counters, NEW S \in SUBSET Attempts, IsFiniteSet(S)
  PROVE  /\ SumFunction([a \in S |-> Cost[a][k]]) = SumFunctionOnSet(CostAt(k), S)
         /\ SumFunctionOnSet(CostAt(k), S) \in Nat
<1>1. PICK f : f = [a \in S |-> Cost[a][k]]
  OBVIOUS
<1>2. DOMAIN f = S /\ \A a \in S : f[a] = CostAt(k)[a] /\ CostAt(k)[a] \in Nat
  BY <1>1, CounterAssumption DEF CostAt
<1>3. SumFunctionOnSet(f, S) = SumFunctionOnSet(CostAt(k), S)
  BY <1>2, SumCongruence
<1>4. SumFunction(f) = SumFunctionOnSet(f, S)
  BY <1>2, Zenon DEF SumFunction
<1> QED
  BY <1>1, <1>2, <1>3, <1>4, SumNat

LEMMA UnitsNow ==
  ASSUME NEW k \in Counters, IsFiniteSet(Counted(k))
  PROVE  Units(k) = SumFunctionOnSet(CostAt(k), Counted(k)) /\ Units(k) \in Nat
<1>1. Counted(k) \in SUBSET Attempts
  BY DEF Counted
<1> QED
  BY <1>1, UnitsOf DEF Units

LEMMA UnitsNext ==
  ASSUME NEW k \in Counters, NEW S \in SUBSET Attempts, IsFiniteSet(S), Counted(k)' = S
  PROVE  Units(k)' = SumFunctionOnSet(CostAt(k), S) /\ Units(k)' \in Nat /\ IsFiniteSet(Counted(k))'
  BY UnitsOf DEF Units

LEMMA CostNat == \A k \in Counters : \A a \in Attempts : CostAt(k)[a] = Cost[a][k] /\ Cost[a][k] \in Nat \ {0}
  BY CounterAssumption DEF CostAt

LEMMA UnitsStay ==
  ASSUME NEW k \in Counters, IsFiniteSet(Counted(k)), Counted(k)' = Counted(k)
  PROVE  Units(k)' = Units(k) /\ Units(k) \in Nat /\ IsFiniteSet(Counted(k))'
<1>1. Counted(k) \in SUBSET Attempts
  BY DEF Counted
<1>2. PICK S \in SUBSET Attempts : S = Counted(k)
  BY <1>1
<1> QED
  BY <1>2, UnitsNow, UnitsNext

LEMMA UnitsJoin ==
  ASSUME NEW k \in Counters, IsFiniteSet(Counted(k)), NEW a \in Attempts, a \notin Counted(k),
         Counted(k)' = Counted(k) \cup {a}
  PROVE  Units(k)' = Units(k) + Cost[a][k] /\ Units(k) \in Nat /\ IsFiniteSet(Counted(k))'
<1>1. PICK S : S = Counted(k)
  OBVIOUS
<1>2. PICK T : T = S \cup {a}
  OBVIOUS
<1>3. S \in SUBSET Attempts /\ T \in SUBSET Attempts /\ IsFiniteSet(S) /\ IsFiniteSet(T)
  BY <1>1, <1>2, FS_AddElement DEF Counted
<1>4. \A x \in T : CostAt(k)[x] \in Int
  BY <1>3, CostNat
<1>5. SumFunctionOnSet(CostAt(k), T) = CostAt(k)[a] + SumFunctionOnSet(CostAt(k), S)
  BY <1>1, <1>2, <1>3, <1>4, SumAdd
<1>6. Units(k) = SumFunctionOnSet(CostAt(k), S) /\ Units(k) \in Nat
  BY <1>1, UnitsNow
<1>7. Units(k)' = SumFunctionOnSet(CostAt(k), T) /\ IsFiniteSet(Counted(k))'
  BY <1>1, <1>2, <1>3, UnitsNext
<1> QED
  BY <1>5, <1>6, <1>7, CostNat

LEMMA UnitsLeave ==
  ASSUME NEW k \in Counters, IsFiniteSet(Counted(k)), NEW a \in Counted(k),
         Counted(k)' = Counted(k) \ {a}
  PROVE  /\ Units(k) = Units(k)' + Cost[a][k] /\ Units(k)' \in Nat /\ IsFiniteSet(Counted(k))'
<1>1. PICK S : S = Counted(k)
  OBVIOUS
<1>2. PICK T : T = S \ {a}
  OBVIOUS
<1>3. /\ S \in SUBSET Attempts /\ T \in SUBSET Attempts /\ IsFiniteSet(S) /\ IsFiniteSet(T)
      /\ a \in S /\ a \in Attempts
  BY <1>1, <1>2, FS_RemoveElement DEF Counted
<1>4. \A x \in S : CostAt(k)[x] \in Int
  BY <1>3, CostNat
<1>5. SumFunctionOnSet(CostAt(k), S) = CostAt(k)[a] + SumFunctionOnSet(CostAt(k), T)
  BY <1>2, <1>3, <1>4, SumRemove
<1>6. Units(k) = SumFunctionOnSet(CostAt(k), S) /\ Units(k) \in Nat
  BY <1>1, UnitsNow
<1>7. Units(k)' = SumFunctionOnSet(CostAt(k), T) /\ Units(k)' \in Nat /\ IsFiniteSet(Counted(k))'
  BY <1>1, <1>2, <1>3, UnitsNext
<1> QED
  BY <1>3, <1>5, <1>6, <1>7, CostNat

\* A step of attempt a that leaves the counters alone, and a counted or not.
StaysCounted(a) ==
    grantedIn[a] = {} \/ attempt'[a].pc # "done" \/ attempt'[a].ok \/ a \in unrefunded'

LEMMA CountersLeftKeep ==
  ASSUME LimiterInv, CountInv, NEW a \in Attempts, CountersLeft(a), now' = now,
         attempt[a].pc # "done", attempt'[a].pc # "new",
         \A b \in Attempts \ {a} : attempt'[b] = attempt[b],
         StaysCounted(a)
  PROVE  CountInv'
<1>1. counter' = counter /\ grantedIn' = grantedIn /\ disturbed' = disturbed
  BY DEF CountersLeft
<1>2. \A b \in Attempts \ {a} : b \in unrefunded' <=> b \in unrefunded
  BY DEF CountersLeft
<1>3. ASSUME NEW k \in Counters PROVE Counted(k)' = Counted(k)
  BY <1>1, <1>2 DEF Counted, StaysCounted
<1>4. ASSUME NEW k \in Counters
      PROVE  Units(k)' = Units(k) /\ IsFiniteSet(Counted(k))'
  BY <1>3, UnitsStay DEF CountInv
<1>5. WindowsRun'
  BY <1>1 DEF CountInv, WindowsRun
<1>6. NeverOvercounts' /\ CountsEveryGrant'
  BY <1>1, <1>4 DEF CountInv, NeverOvercounts, CountsEveryGrant
<1> QED
  BY <1>4, <1>5, <1>6 DEF CountInv

\* Allow: the window starts, if none runs, and counts the attempt.
LEMMA IncrementKeeps ==
  ASSUME LimiterInv, CountInv, NEW a \in Attempts, IncrementAll(a), disturbed' = disturbed, now' = now,
         attempt[a].pc = "new", attempt'[a].pc # "new",
         \A b \in Attempts \ {a} : attempt'[b] = attempt[b] /\ (b \in unrefunded' <=> b \in unrefunded),
         attempt'[a].pc # "done" \/ a \in unrefunded'
  PROVE  CountInv'
<1>1. /\ grantedIn[a] = {} /\ grantedIn' = [grantedIn EXCEPT ![a] = Counters]
      /\ grantedIn \in [Attempts -> SUBSET Counters]
  BY DEF CountInv, WindowsRun, IncrementAll, LimiterInv, CounterTypes
<1>2. grantedIn'[a] = Counters /\ \A b \in Attempts \ {a} : grantedIn'[b] = grantedIn[b]
  BY <1>1
<1>3. ASSUME NEW k \in Counters
      PROVE  /\ counter'[k].used = counter[k].used + Cost[a][k]
             /\ counter[k].used \in Nat /\ counter'[k].expires > now
             /\ counter[k].expires > now => counter'[k].expires > now
  <2>1. counter'[k] = Incremented(counter[k], Cost[a][k])
    BY DEF IncrementAll
  <2>2. /\ counter[k].used \in Nat /\ counter[k].expires \in Nat /\ now \in Nat /\ Window \in Nat \ {0}
        /\ counter[k].used > 0 => counter[k].expires > now
    BY CounterAssumption, TimeAssumption DEF LimiterInv, CounterTypes, LeaseInv, LeaseTypes, CountInv, WindowsRun
  <2> QED
    BY <2>1, <2>2 DEF Incremented
<1>4. ASSUME NEW k \in Counters
      PROVE  a \notin Counted(k) /\ Counted(k)' = Counted(k) \cup {a}
  BY <1>1, <1>2 DEF Counted
<1>5. ASSUME NEW k \in Counters
      PROVE  Units(k)' = Units(k) + Cost[a][k] /\ Units(k) \in Nat /\ IsFiniteSet(Counted(k))'
  BY <1>4, UnitsJoin DEF CountInv
<1>6. WindowsRun'
  <2>1. \A b \in Attempts : \A k \in grantedIn'[b] : k \in Counters
    BY <1>1, <1>2
  <2>2. \A k \in Counters : counter'[k].expires > now'
    BY <1>3
  <2>3. \A b \in Attempts : attempt'[b].pc = "new" => grantedIn'[b] = {}
    BY <1>2 DEF CountInv, WindowsRun
  <2> QED
    BY <2>1, <2>2, <2>3 DEF WindowsRun
<1>7. NeverOvercounts' /\ CountsEveryGrant'
  BY <1>3, <1>5, CostNat DEF CountInv, NeverOvercounts, CountsEveryGrant
<1> QED
  BY <1>5, <1>6, <1>7 DEF CountInv

\* Release: the window gives the attempt's units back, or another window does,
\* and is marked.
LEMMA DecrementKeeps ==
  ASSUME LimiterInv, CountInv, NEW a \in Attempts, DecrementAll(a), now' = now,
         grantedIn' = [grantedIn EXCEPT ![a] = {}],
         attempt[a].pc # "done", attempt'[a].pc # "new",
         \A b \in Attempts \ {a} : attempt'[b] = attempt[b],
         unrefunded' = unrefunded
  PROVE  CountInv'
<1>1. grantedIn \in [Attempts -> SUBSET Counters] /\ now \in Nat
  BY DEF LimiterInv, CounterTypes, LeaseInv, LeaseTypes
<1>2. grantedIn'[a] = {} /\ \A b \in Attempts \ {a} : grantedIn'[b] = grantedIn[b]
  BY <1>1
<1>3. ASSUME NEW k \in Counters
      PROVE  /\ counter[k].used \in Nat /\ counter'[k].expires = counter[k].expires
             /\ counter[k].expires > now =>
                   counter'[k].used = IF counter[k].used < Cost[a][k] THEN 0 ELSE counter[k].used - Cost[a][k]
             /\ ~(counter[k].expires > now) => counter'[k] = counter[k]
             /\ k \in grantedIn[a] => counter[k].expires > now
             /\ k \notin grantedIn[a] /\ counter[k].expires > now => k \in disturbed'
             /\ k \in disturbed => k \in disturbed'
  <2>1. counter'[k] = Decremented(counter[k], Cost[a][k])
    BY DEF DecrementAll
  <2>2. counter[k] \in [used : Nat, expires : Nat]
    BY CounterAssumption DEF LimiterInv, CounterTypes
  <2>3. /\ k \in grantedIn[a] => counter[k].expires > now
    BY DEF CountInv, WindowsRun
  <2> QED
    BY <2>1, <2>2, <2>3 DEF Decremented, DecrementAll
<1>4. ASSUME NEW k \in Counters
      PROVE  /\ IsFiniteSet(Counted(k))' /\ counter'[k].used <= Units(k)'
             /\ k \notin disturbed' => counter'[k].used = Units(k)'
  <2>1. /\ counter[k].used <= Units(k) /\ (k \notin disturbed => counter[k].used = Units(k))
        /\ IsFiniteSet(Counted(k)) /\ Cost[a][k] \in Nat
    BY CostNat DEF CountInv, NeverOvercounts, CountsEveryGrant
  <2>2. CASE k \in grantedIn[a]
    <3>1. a \in Counted(k) /\ Counted(k)' = Counted(k) \ {a}
      BY <1>2, <2>2 DEF Counted
    <3>2. Units(k) = Units(k)' + Cost[a][k] /\ Units(k)' \in Nat /\ IsFiniteSet(Counted(k))'
      BY <2>1, <3>1, UnitsLeave
    <3> QED
      BY <1>3, <2>1, <2>2, <3>2
  <2>3. CASE k \notin grantedIn[a]
    <3>1. Counted(k)' = Counted(k)
      BY <1>2, <2>3 DEF Counted
    <3>2. Units(k)' = Units(k) /\ Units(k) \in Nat /\ IsFiniteSet(Counted(k))'
      BY <2>1, <3>1, UnitsStay
    <3> QED
      BY <1>3, <2>1, <2>3, <3>2
  <2> QED
    BY <2>2, <2>3
<1>5. WindowsRun'
  <2>1. ASSUME NEW k \in Counters, counter'[k].used > 0 PROVE counter'[k].expires > now
    <3>1. counter[k].used > 0
      BY <1>3, <2>1, CostNat
    <3> QED
      BY <1>3, <3>1 DEF CountInv, WindowsRun
  <2>2. \A b \in Attempts : \A k \in grantedIn'[b] : k \in Counters /\ k \in grantedIn[b]
    BY <1>1, <1>2
  <2> QED
    BY <1>2, <1>3, <2>1, <2>2 DEF CountInv, WindowsRun
<1> QED
  BY <1>4, <1>5 DEF CountInv, NeverOvercounts, CountsEveryGrant

\* A window that is over takes its grants with it.
LEMMA WindowEndKeeps ==
  ASSUME LimiterInv, CountInv, Tick
  PROVE  CountInv'
<1>1. PICK gone : gone = {k \in Counters : counter[k].expires <= now + 1}
  OBVIOUS
<1>2. /\ now \in Nat /\ now' = now + 1
      /\ \A k \in Counters : counter'[k] = IF k \in gone THEN NoCounter ELSE counter[k]
      /\ \A b \in Attempts : grantedIn'[b] = grantedIn[b] \ gone
      /\ disturbed' = disturbed \ gone
      /\ attempt' = attempt /\ unrefunded' = unrefunded
  BY <1>1 DEF Tick, LimiterInv, LeaseInv, LeaseTypes
<1>3. NoCounter.used = 0
  BY DEF NoCounter
<1>4. \A k \in Counters : k \notin gone => counter[k].expires > now + 1
  BY <1>1, <1>2 DEF LimiterInv, CounterTypes
<1>5. ASSUME NEW k \in Counters
      PROVE  /\ IsFiniteSet(Counted(k))' /\ counter'[k].used <= Units(k)'
             /\ k \notin disturbed' => counter'[k].used = Units(k)'
  <2>1. CASE k \in gone
    <3>1. Counted(k)' = {} /\ IsFiniteSet({})
      BY <1>2, <2>1, FS_EmptySet DEF Counted
    <3>2. Units(k)' = SumFunctionOnSet(CostAt(k), {}) /\ IsFiniteSet(Counted(k))'
      BY <3>1, UnitsNext
    <3>3. Units(k)' = 0
      BY <3>2, SumEmpty
    <3> QED
      BY <1>2, <1>3, <2>1, <3>2, <3>3
  <2>2. CASE k \notin gone
    <3>1. Counted(k)' = Counted(k)
      BY <1>2, <2>2 DEF Counted
    <3>2. Units(k)' = Units(k) /\ IsFiniteSet(Counted(k))'
      BY <3>1, UnitsStay DEF CountInv
    <3> QED
      BY <1>2, <2>2, <3>2 DEF CountInv, NeverOvercounts, CountsEveryGrant
  <2> QED
    BY <2>1, <2>2
<1>6. WindowsRun'
  <2>1. \A b \in Attempts : \A k \in grantedIn'[b] : k \in Counters /\ k \in grantedIn[b] /\ k \notin gone
    BY <1>2 DEF LimiterInv, CounterTypes
  <2> QED
    BY <1>2, <1>3, <1>4, <2>1 DEF CountInv, WindowsRun
<1> QED
  BY <1>5, <1>6 DEF CountInv, NeverOvercounts, CountsEveryGrant

\* The steps of an attempt that neither reserve nor refund.
LEMMA EndedAs ==
  ASSUME LimiterInv, NEW a \in Attempts, NEW ok \in BOOLEAN, End(a, ok)
  PROVE  /\ attempt'[a].pc = "done" /\ attempt'[a].ok = ok
         /\ \A b \in Attempts \ {a} : attempt'[b] = attempt[b]
<1>1. attempt \in [Attempts -> AttemptStates]
  BY DEF LimiterInv, LeaseInv, LeaseTypes
<1>2. PICK s : s = [NewAttempt EXCEPT !.pc = "done", !.ok = ok]
  OBVIOUS
<1>3. s.pc = "done" /\ s.ok = ok
  BY <1>2, NewAttemptType DEF AttemptStates
<1>4. attempt' = [attempt EXCEPT ![a] = s]
  BY <1>2 DEF End
<1> QED
  BY <1>1, <1>3, <1>4

LEMMA StartedAs ==
  ASSUME LimiterInv, NEW a \in Attempts, NEW r, StartDispatch(a, r)
  PROVE  attempt'[a].pc = "dispatch" /\ \A b \in Attempts \ {a} : attempt'[b] = attempt[b]
<1>1. attempt \in [Attempts -> AttemptStates]
  BY DEF LimiterInv, LeaseInv, LeaseTypes
<1>2. PICK s : s = [NewAttempt EXCEPT !.pc = "dispatch", !.retries = r, !.next = 1]
  OBVIOUS
<1>3. s.pc = "dispatch"
  BY <1>2 DEF NewAttempt
<1>4. attempt' = [attempt EXCEPT ![a] = s]
  BY <1>2 DEF StartDispatch
<1> QED
  BY <1>1, <1>3, <1>4

LEMMA LeaseStepsMove ==
  ASSUME LimiterInv, NEW a \in Attempts,
         \/ TakeClock(a) \/ AcquireConcurrency(a) \/ AcquireLimited(a) \/ AcquireUnanswered(a)
         \/ \E ok \in BOOLEAN : InvokeEnds(a, ok)
         \/ \E k \in Leases : ReleaseConcurrency(a, k) \/ ReleaseUnanswered(a, k)
  PROVE  /\ attempt[a].pc # "done" /\ attempt'[a].pc \notin {"new", "done"}
         /\ \A b \in Attempts \ {a} : attempt'[b] = attempt[b]
<1>1. attempt \in [Attempts -> AttemptStates] /\ attempt[a] \in AttemptStates
  BY DEF LimiterInv, LeaseInv, LeaseTypes
<1>2. attempt[a].pc \in {"dispatch", "acquire", "running", "release"}
  BY Zenon DEF TakeClock, AcquireConcurrency, AcquireLimited, AcquireUnanswered, InvokeEnds,
     ReleaseConcurrency, ReleaseUnanswered
<1>3. CASE TakeClock(a)
  BY <1>1, <1>2, <1>3 DEF TakeClock, AttemptStates
<1>4. CASE AcquireConcurrency(a) \/ AcquireUnanswered(a) \/ AcquireLimited(a)
  <2>1. PICK k : k = attempt[a].next
    OBVIOUS
  <2>2. \/ attempt' = [attempt EXCEPT ![a] = After(WithLease(attempt[a], k), k)]
        \/ attempt' = [attempt EXCEPT ![a] = After(attempt[a], k)]
        \/ attempt' = [attempt EXCEPT ![a].pc = "release", ![a].next = 0, ![a].seen = 0]
    BY <1>4, <2>1 DEF AcquireConcurrency, AcquireUnanswered, AcquireLimited
  <2>3. ASSUME NEW s \in AttemptStates PROVE After(s, k).pc \in {"running", "dispatch"}
    BY DEF After, AttemptStates
  <2>4. ASSUME NEW s, s = WithLease(attempt[a], k) PROVE After(s, k).pc \in {"running", "dispatch"}
    <3>1. DOMAIN s = {"pc", "next", "seen", "held", "until", "ok", "retries"}
      BY <1>1, <2>4 DEF WithLease, AttemptStates
    <3> QED
      BY <3>1 DEF After
  <2>5. attempt'[a].pc \in {"running", "dispatch", "release"}
    BY <1>1, <2>2, <2>3, <2>4 DEF AttemptStates
  <2> QED
    BY <1>1, <1>2, <2>2, <2>5
<1>5. ASSUME NEW ok \in BOOLEAN, InvokeEnds(a, ok)
      PROVE  attempt'[a].pc = "release" /\ \A b \in Attempts \ {a} : attempt'[b] = attempt[b]
  BY <1>1, <1>5 DEF InvokeEnds, AttemptStates
<1>6. ASSUME NEW k \in Leases, ReleaseConcurrency(a, k) \/ ReleaseUnanswered(a, k)
      PROVE  attempt'[a].pc = "release" /\ \A b \in Attempts \ {a} : attempt'[b] = attempt[b]
  <2>1. /\ attempt[a].pc = "release"
        /\ attempt' = [attempt EXCEPT ![a].held = @ \ {k}, ![a].until[k] = 0]
    BY <1>6 DEF ReleaseConcurrency, ReleaseUnanswered
  <2> QED
    BY <1>1, <2>1 DEF AttemptStates
<1> QED
  BY <1>2, <1>3, <1>4, <1>5, <1>6

LEMMA CountInvStep ==
  ASSUME LimiterInv, CountInv, NEW a \in Attempts, AttemptStep(a)
  PROVE  CountInv'
<1>1. CASE \/ TakeClock(a) \/ AcquireConcurrency(a) \/ AcquireLimited(a) \/ AcquireUnanswered(a)
           \/ \E ok \in BOOLEAN : InvokeEnds(a, ok)
           \/ \E k \in Leases : ReleaseConcurrency(a, k) \/ ReleaseUnanswered(a, k)
  <2>1. CountersLeft(a) /\ now' = now
    BY <1>1, Zenon DEF TakeClock, AcquireConcurrency, AcquireLimited, AcquireUnanswered, InvokeEnds,
       ReleaseConcurrency, ReleaseUnanswered, CountersLeft, windows, Fault
  <2> QED
    BY <1>1, <2>1, LeaseStepsMove, CountersLeftKeep DEF StaysCounted
<1>2. CASE Allow(a)
  <2>1. /\ attempt[a].pc = "new" /\ IncrementAll(a) /\ StartDispatch(a, 0)
        /\ disturbed' = disturbed /\ now' = now /\ unrefunded' = unrefunded
    BY <1>2 DEF Allow
  <2>2. attempt'[a].pc = "dispatch" /\ \A b \in Attempts \ {a} : attempt'[b] = attempt[b]
    BY <2>1, StartedAs
  <2> QED
    BY <2>1, <2>2, IncrementKeeps
<1>3. CASE AllowLimited(a)
  <2>1. attempt[a].pc = "new" /\ End(a, FALSE) /\ CountersLeft(a) /\ now' = now
    BY <1>3, Zenon DEF AllowLimited, CountersLeft, windows
  <2>2. attempt'[a].pc = "done" /\ \A b \in Attempts \ {a} : attempt'[b] = attempt[b]
    BY <2>1, EndedAs
  <2>3. grantedIn[a] = {}
    BY <2>1 DEF CountInv, WindowsRun
  <2> QED
    BY <2>1, <2>2, <2>3, CountersLeftKeep DEF StaysCounted
<1>4. CASE AllowUnanswered(a)
  <2>1. attempt[a].pc = "new" /\ now' = now /\ Fault
    BY <1>4 DEF AllowUnanswered
  <2>2. \/ StartDispatch(a, 0) /\ unrefunded' = unrefunded
        \/ End(a, FALSE) /\ unrefunded' = unrefunded \cup {a}
    BY <1>4 DEF AllowUnanswered
  <2>3. /\ attempt'[a].pc \in {"dispatch", "done"} /\ (attempt'[a].pc = "done" => a \in unrefunded')
        /\ \A b \in Attempts \ {a} : attempt'[b] = attempt[b] /\ (b \in unrefunded' <=> b \in unrefunded)
    BY <2>2, StartedAs, EndedAs
  <2>4. CASE IncrementAll(a) /\ disturbed' = disturbed
    BY <2>1, <2>3, <2>4, IncrementKeeps
  <2>5. CASE UNCHANGED windows
    <3>1. CountersLeft(a)
      BY <2>1, <2>2, <2>5, Zenon DEF CountersLeft, windows
    <3> QED
      BY <2>1, <2>3, <3>1, CountersLeftKeep DEF StaysCounted
  <2> QED
    BY <1>4, <2>4, <2>5 DEF AllowUnanswered
<1>5. CASE SlotUnavailable(a) \/ Refund(a)
  <2>1. /\ attempt[a].pc # "done" /\ DecrementAll(a) /\ End(a, FALSE) /\ now' = now
        /\ grantedIn' = [grantedIn EXCEPT ![a] = {}] /\ unrefunded' = unrefunded
    BY <1>5 DEF SlotUnavailable, Refund, NotYetInvoked, Released
  <2>2. attempt'[a].pc = "done" /\ \A b \in Attempts \ {a} : attempt'[b] = attempt[b]
    BY <2>1, EndedAs
  <2> QED
    BY <2>1, <2>2, DecrementKeeps
<1>6. CASE ThrottleCancelled(a) \/ RefundLost(a) \/ Crash(a)
  <2>1. attempt[a].pc # "done" /\ End(a, FALSE) /\ a \in unrefunded'
    BY <1>6 DEF ThrottleCancelled, RefundLost, Crash, NotYetInvoked, Released
  <2>2. CountersLeft(a) /\ now' = now
    BY <1>6, Zenon DEF ThrottleCancelled, RefundLost, Crash, CountersLeft, windows, Fault
  <2>3. attempt'[a].pc = "done" /\ \A b \in Attempts \ {a} : attempt'[b] = attempt[b]
    BY <2>1, EndedAs
  <2> QED
    BY <2>1, <2>2, <2>3, CountersLeftKeep DEF StaysCounted
<1>7. CASE Succeed(a)
  <2>1. attempt[a].pc # "done" /\ End(a, TRUE)
    BY <1>7 DEF Succeed, Released
  <2>2. CountersLeft(a) /\ now' = now
    BY <1>7, Zenon DEF Succeed, CountersLeft, windows
  <2>3. attempt'[a].pc = "done" /\ attempt'[a].ok /\ \A b \in Attempts \ {a} : attempt'[b] = attempt[b]
    BY <2>1, EndedAs
  <2> QED
    BY <2>1, <2>2, <2>3, CountersLeftKeep DEF StaysCounted
<1>8. CASE RetrySameCandidate(a)
  <2>1. attempt[a].pc # "done" /\ StartDispatch(a, attempt[a].retries + 1)
    BY <1>8 DEF RetrySameCandidate, Released
  <2>2. CountersLeft(a) /\ now' = now
    BY <1>8, Zenon DEF RetrySameCandidate, CountersLeft, windows
  <2>3. attempt'[a].pc = "dispatch" /\ \A b \in Attempts \ {a} : attempt'[b] = attempt[b]
    BY <2>1, StartedAs
  <2> QED
    BY <2>1, <2>2, <2>3, CountersLeftKeep DEF StaysCounted
<1> QED
  BY <1>1, <1>2, <1>3, <1>4, <1>5, <1>6, <1>7, <1>8 DEF AttemptStep

LEMMA CountInvInit == Init => CountInv
<1> SUFFICES ASSUME Init PROVE CountInv
  OBVIOUS
<1>1. /\ \A a \in Attempts : grantedIn[a] = {}
      /\ \A k \in Counters : counter[k].used = 0
  BY DEF Init, NoCounter
<1>2. ASSUME NEW k \in Counters PROVE IsFiniteSet(Counted(k)) /\ Units(k) = 0
  <2>1. Counted(k) = {}
    BY <1>1 DEF Counted
  <2>2. Units(k) = SumFunctionOnSet(CostAt(k), {}) /\ IsFiniteSet(Counted(k))
    BY <2>1, UnitsNow, FS_EmptySet
  <2> QED
    BY <2>2, SumEmpty
<1>3. WindowsRun
  BY <1>1 DEF WindowsRun
<1> QED
  BY <1>1, <1>2, <1>3 DEF CountInv, NeverOvercounts, CountsEveryGrant

LEMMA CountInvNext == LimiterInv /\ CountInv /\ [Next]_vars => CountInv'
<1> SUFFICES ASSUME LimiterInv, CountInv, [Next]_vars PROVE CountInv'
  OBVIOUS
<1>1. CASE UNCHANGED vars
  <2>1. /\ counter' = counter /\ grantedIn' = grantedIn /\ disturbed' = disturbed
        /\ attempt' = attempt /\ unrefunded' = unrefunded /\ now' = now
    BY <1>1 DEF vars
  <2>2. ASSUME NEW k \in Counters PROVE Counted(k)' = Counted(k)
    BY <2>1 DEF Counted
  <2>3. ASSUME NEW k \in Counters PROVE Units(k)' = Units(k) /\ IsFiniteSet(Counted(k))'
    BY <2>2, UnitsStay DEF CountInv
  <2>4. WindowsRun'
    BY <2>1 DEF CountInv, WindowsRun
  <2> QED
    BY <2>1, <2>3, <2>4 DEF CountInv, NeverOvercounts, CountsEveryGrant
<1>2. CASE Tick
  BY <1>2, WindowEndKeeps
<1>3. ASSUME NEW a \in Attempts, AttemptStep(a) PROVE CountInv'
  BY <1>3, CountInvStep
<1> QED
  BY <1>1, <1>2, <1>3 DEF Next, Finished

LEMMA CountInvariant == Spec => []CountInv
  BY LimiterInit, LimiterInvariant, CountInvInit, CountInvNext, PTL DEF Spec

\* Whatever is refused, refunded, refunded late or lost, a counter never stands
\* above what the attempts of its window used: reserving all counters and
\* refunding all of them are each one script.
THEOREM CountersNeverOvercount == Spec => []NeverOvercounts
<1>1. CountInv => NeverOvercounts
  BY DEF CountInv
<1> QED
  BY <1>1, CountInvariant, PTL

\* A counter misses a grant of its window only after a refund that belonged to
\* an earlier window, or to a reservation that never ran.
THEOREM CountersMissNoGrant == Spec => []CountsEveryGrant
<1>1. CountInv => CountsEveryGrant
  BY DEF CountInv
<1> QED
  BY <1>1, CountInvariant, PTL
=============================================================================
