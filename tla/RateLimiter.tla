---------------------------- MODULE RateLimiter ----------------------------
(***************************************************************************)
(* platform/ratelimit and its use for one provider account: the windowed   *)
(* counters (account and group rpm/tpm) an attempt reserves with Allow and *)
(* a failed one refunds with Release, and the concurrency leases (account, *)
(* model, group) every dispatch of the attempt acquires one after another. *)
(*                                                                         *)
(* A Lua script runs atomically in Redis, at some time after the client    *)
(* took the clock it passes along.  A reply may be lost: the script then   *)
(* ran or not, and the client either fails open (an availability error) or *)
(* returns the error.  Production never calls SetFailureMode, so FailOpen  *)
(* is the mode.                                                            *)
(***************************************************************************)
EXTENDS Integers, FiniteSets, Functions

CONSTANTS
    Attempts,    \* scheduled candidates, each a run of the failover loop's body
    Counters,    \* keys of the windowed counters
    Limit,       \* limit of each counter
    Cost,        \* cost of each attempt at each counter
    Window,      \* length of a window, in clock ticks
    NumLeases,   \* lease sets, numbered in the order of acquisition
    LeaseLimit,  \* limit of each lease set
    TTL,         \* lifetime of a lease
    MaxRetries,  \* retries on the same candidate
    MaxTime,     \* bound: the clock stops here
    MaxFaults    \* bound: lost replies, errors and crashes

ASSUME CounterAssumption ==
    /\ Limit \in [Counters -> Nat \ {0}]
    /\ Cost \in [Attempts -> [Counters -> Nat \ {0}]]
ASSUME LeaseAssumption ==
    /\ NumLeases \in Nat \ {0}
    /\ LeaseLimit \in [1..NumLeases -> Nat \ {0}]
ASSUME TimeAssumption == Window \in Nat \ {0} /\ TTL \in Nat \ {0} /\ MaxTime \in Nat
ASSUME BoundAssumption == MaxRetries \in Nat /\ MaxFaults \in Nat

VARIABLES
    counter,    \* windowed counters: value and expiry
    zset,       \* lease sets: members with their scores
    zexpires,   \* expiry of each lease set's key
    attempt,    \* local state of every attempt
    grantedIn,  \* history: counters whose current window counts the attempt
    disturbed,  \* history: counters whose window saw a lost reply or a late refund
    orphans,    \* history: attempts that lost a lease to a lost reply or a crash
    unrefunded, \* history: attempts that ended without their refund
    now,
    faults

vars == <<counter, zset, zexpires, attempt, grantedIn, disturbed, orphans, unrefunded, now, faults>>
windows == <<counter, grantedIn, disturbed>>
leaseSets == <<zset, zexpires>>

Leases == 1..NumLeases

NoCounter == [used |-> 0, expires |-> 0]

\* next: the lease to acquire; seen: the clock passed to the script; held:
\* leases of this dispatch with their expiry; ok: how the dispatch ended.
NewAttempt == [pc |-> "new", next |-> 0, seen |-> 0, held |-> {}, until |-> [k \in Leases |-> 0],
               ok |-> FALSE, retries |-> 0]

Init ==
    /\ counter = [k \in Counters |-> NoCounter]
    /\ zset = [k \in Leases |-> {}]
    /\ zexpires = [k \in Leases |-> 0]
    /\ attempt = [a \in Attempts |-> NewAttempt]
    /\ grantedIn = [a \in Attempts |-> {}]
    /\ disturbed = {} /\ orphans = {} /\ unrefunded = {}
    /\ now = 0
    /\ faults = 0

Fault == faults < MaxFaults /\ faults' = faults + 1

-----------------------------------------------------------------------------
(* multiLimitScript and releaseLimitScript. *)

\* used + cost > limit refuses, for any of the counters.
Fits(a) == \A k \in Counters : counter[k].used + Cost[a][k] <= Limit[k]

\* INCRBY, and PEXPIRE on the first unit of a window.
Incremented(c, cost) ==
    [used |-> c.used + cost,
     expires |-> IF c.used = 0 THEN now + Window ELSE c.expires]

IncrementAll(a) ==
    /\ counter' = [k \in Counters |-> Incremented(counter[k], Cost[a][k])]
    /\ grantedIn' = [grantedIn EXCEPT ![a] = Counters]

\* DECRBY on an existing counter, clamped at zero.
Decremented(c, cost) ==
    IF c.expires > now THEN [c EXCEPT !.used = IF @ < cost THEN 0 ELSE @ - cost] ELSE c

\* A refund whose window is over hits the window that runs now.
DecrementAll(a) ==
    /\ counter' = [k \in Counters |-> Decremented(counter[k], Cost[a][k])]
    /\ disturbed' = disturbed \cup {k \in Counters \ grantedIn[a] : counter[k].expires > now}

-----------------------------------------------------------------------------
(* reserveGatewayAccountQuota. *)

StartDispatch(a, retries) ==
    attempt' = [attempt EXCEPT ![a] = [NewAttempt EXCEPT !.pc = "dispatch", !.retries = retries, !.next = 1]]

End(a, ok) ==
    attempt' = [attempt EXCEPT ![a] = [NewAttempt EXCEPT !.pc = "done", !.ok = ok]]

Allow(a) ==
    /\ attempt[a].pc = "new" /\ Fits(a)
    /\ IncrementAll(a)
    /\ StartDispatch(a, 0)
    /\ UNCHANGED <<leaseSets, disturbed, orphans, unrefunded, now, faults>>

\* Mutant: the counters that still had room were incremented before.
AllowLimitedPartial(a) ==
    /\ attempt[a].pc = "new" /\ ~Fits(a)
    /\ counter' = [k \in Counters |->
          IF counter[k].used + Cost[a][k] <= Limit[k]
          THEN Incremented(counter[k], Cost[a][k]) ELSE counter[k]]
    /\ End(a, FALSE)
    /\ UNCHANGED <<leaseSets, grantedIn, disturbed, orphans, unrefunded, now, faults>>

AllowLimited(a) ==
    /\ attempt[a].pc = "new" /\ ~Fits(a)
    /\ End(a, FALSE)
    /\ UNCHANGED <<windows, leaseSets, orphans, unrefunded, now, faults>>

\* No reply to Allow: the script ran or not; the attempt goes on (fail open)
\* or fails without a refund.
AllowUnanswered(a) ==
    /\ attempt[a].pc = "new"
    /\ Fault
    /\ \/ Fits(a) /\ IncrementAll(a) /\ UNCHANGED disturbed
       \/ UNCHANGED windows
    /\ \/ StartDispatch(a, 0) /\ UNCHANGED unrefunded
       \/ End(a, FALSE) /\ unrefunded' = unrefunded \cup {a}
    /\ UNCHANGED <<leaseSets, orphans, now>>

-----------------------------------------------------------------------------
(* Between the reservation and the first dispatch. *)

NotYetInvoked(a) ==
    attempt[a].pc = "dispatch" /\ attempt[a].next = 1 /\ attempt[a].retries = 0

\* No in-process concurrency slot: the quota is refunded.
SlotUnavailable(a) ==
    /\ NotYetInvoked(a)
    /\ DecrementAll(a)
    /\ grantedIn' = [grantedIn EXCEPT ![a] = {}]
    /\ End(a, FALSE)
    /\ UNCHANGED <<leaseSets, orphans, unrefunded, now, faults>>

\* The client goes away during the adaptive throttle's sleep: the loop returns
\* without a refund.
ThrottleCancelled(a) ==
    /\ NotYetInvoked(a)
    /\ End(a, FALSE)
    /\ unrefunded' = unrefunded \cup {a}
    /\ UNCHANGED <<windows, leaseSets, orphans, now, faults>>

-----------------------------------------------------------------------------
(* prepareProviderDispatch: the leases of one dispatch. *)

\* The clock is taken before the script runs.
TakeClock(a) ==
    /\ attempt[a].pc = "dispatch"
    /\ attempt' = [attempt EXCEPT ![a].pc = "acquire", ![a].seen = now]
    /\ UNCHANGED <<windows, leaseSets, orphans, unrefunded, now, faults>>

\* ZREMRANGEBYSCORE up to the client's clock.
Unexpired(k, seen) == {m \in zset[k] : m.score > seen}

Token(a) == <<a, attempt[a].retries>>

HasRoom(a) == LET k == attempt[a].next IN
    Cardinality(Unexpired(k, attempt[a].seen)) < LeaseLimit[k]

\* ZADD and PEXPIRE of the whole key.
AddMember(a) ==
    LET k == attempt[a].next
        seen == attempt[a].seen
    IN
    /\ zset' = [zset EXCEPT ![k] = Unexpired(k, seen) \cup {[token |-> Token(a), score |-> seen + TTL]}]
    /\ zexpires' = [zexpires EXCEPT ![k] = now + TTL]

WithLease(s, k) == [s EXCEPT !.held = @ \cup {k}, !.until[k] = s.seen + TTL]

\* The attempt with lease k done: on to the next lease, or to the upstream.
After(s, k) ==
    IF k = NumLeases THEN [s EXCEPT !.pc = "running", !.next = 0, !.seen = 0]
    ELSE [s EXCEPT !.pc = "dispatch", !.next = k + 1, !.seen = 0]

AcquireConcurrency(a) ==
    LET k == attempt[a].next IN
    /\ attempt[a].pc = "acquire" /\ HasRoom(a)
    /\ AddMember(a)
    /\ attempt' = [attempt EXCEPT ![a] = After(WithLease(@, k), k)]
    /\ UNCHANGED <<windows, orphans, unrefunded, now, faults>>

\* Mutant: the leases acquired before are not rolled back.
AcquireLimitedNoRollback(a) ==
    LET k == attempt[a].next IN
    /\ attempt[a].pc = "acquire" /\ ~HasRoom(a)
    /\ zset' = [zset EXCEPT ![k] = Unexpired(k, attempt[a].seen)]
    /\ attempt' = [attempt EXCEPT ![a].pc = "release", ![a].next = 0, ![a].seen = 0, ![a].held = {}]
    /\ UNCHANGED <<windows, zexpires, orphans, unrefunded, now, faults>>

\* One lease is refused: those acquired before are rolled back.
AcquireLimited(a) ==
    LET k == attempt[a].next IN
    /\ attempt[a].pc = "acquire" /\ ~HasRoom(a)
    /\ zset' = [zset EXCEPT ![k] = Unexpired(k, attempt[a].seen)]
    /\ attempt' = [attempt EXCEPT ![a].pc = "release", ![a].next = 0, ![a].seen = 0]
    /\ UNCHANGED <<windows, zexpires, orphans, unrefunded, now, faults>>

\* No reply: the member may be there, but nobody knows its token.
AcquireUnanswered(a) ==
    LET k == attempt[a].next IN
    /\ attempt[a].pc = "acquire"
    /\ Fault
    /\ \/ HasRoom(a) /\ AddMember(a) /\ orphans' = orphans \cup {a}
       \/ UNCHANGED <<leaseSets, orphans>>
    /\ \/ attempt' = [attempt EXCEPT ![a] = After(@, k)]
       \/ attempt' = [attempt EXCEPT ![a].pc = "release", ![a].next = 0, ![a].seen = 0]
    /\ UNCHANGED <<windows, unrefunded, now>>

\* The upstream answers, or the credential or the call fails.
InvokeEnds(a, ok) ==
    /\ attempt[a].pc = "running"
    /\ attempt' = [attempt EXCEPT ![a].pc = "release", ![a].ok = ok]
    /\ UNCHANGED <<windows, leaseSets, orphans, unrefunded, now, faults>>

\* ZREM of the own token.
Without(a, k) == {m \in zset[k] : m.token # Token(a)}

\* Mutant: the release takes whatever member is oldest.
ReleaseConcurrencyOldest(a, k) ==
    /\ attempt[a].pc = "release" /\ k \in attempt[a].held
    /\ zset' = [zset EXCEPT ![k] = {m \in @ : \E n \in @ : n.score < m.score}]
    /\ attempt' = [attempt EXCEPT ![a].held = @ \ {k}, ![a].until[k] = 0]
    /\ UNCHANGED <<windows, zexpires, orphans, unrefunded, now, faults>>

\* releaseGatewayConcurrency, lease after lease, with the DEL of an empty set;
\* a rollback releases the groups' first, the end of a dispatch the account's.
ReleaseConcurrency(a, k) ==
    /\ attempt[a].pc = "release" /\ k \in attempt[a].held
    /\ zset' = [zset EXCEPT ![k] = Without(a, k)]
    /\ zexpires' = [zexpires EXCEPT ![k] = IF Without(a, k) = {} THEN 0 ELSE @]
    /\ attempt' = [attempt EXCEPT ![a].held = @ \ {k}, ![a].until[k] = 0]
    /\ UNCHANGED <<windows, orphans, unrefunded, now, faults>>

ReleaseUnanswered(a, k) ==
    /\ attempt[a].pc = "release" /\ k \in attempt[a].held
    /\ Fault
    /\ attempt' = [attempt EXCEPT ![a].held = @ \ {k}, ![a].until[k] = 0]
    /\ orphans' = orphans \cup {a}
    /\ UNCHANGED <<windows, leaseSets, unrefunded, now>>

-----------------------------------------------------------------------------
(* The end of the candidate's turn in the failover loop. *)

Released(a) == attempt[a].pc = "release" /\ attempt[a].held = {}

Succeed(a) ==
    /\ Released(a) /\ attempt[a].ok
    /\ End(a, TRUE)
    /\ UNCHANGED <<windows, leaseSets, orphans, unrefunded, now, faults>>

\* Mutant: every failed call refunds, also one that is retried.
RetrySameCandidateRefunds(a) ==
    /\ Released(a) /\ ~attempt[a].ok /\ attempt[a].retries < MaxRetries
    /\ DecrementAll(a)
    /\ StartDispatch(a, attempt[a].retries + 1)
    /\ UNCHANGED <<leaseSets, grantedIn, orphans, unrefunded, now, faults>>

RetrySameCandidate(a) ==
    /\ Released(a) /\ ~attempt[a].ok /\ attempt[a].retries < MaxRetries
    /\ StartDispatch(a, attempt[a].retries + 1)
    /\ UNCHANGED <<windows, leaseSets, orphans, unrefunded, now, faults>>

\* releaseGatewayAccountQuota after the last failure.
Refund(a) ==
    /\ Released(a) /\ ~attempt[a].ok
    /\ DecrementAll(a)
    /\ grantedIn' = [grantedIn EXCEPT ![a] = {}]
    /\ End(a, FALSE)
    /\ UNCHANGED <<leaseSets, orphans, unrefunded, now, faults>>

\* The refund is not answered and did not run.
RefundLost(a) ==
    /\ Released(a) /\ ~attempt[a].ok
    /\ Fault
    /\ End(a, FALSE)
    /\ unrefunded' = unrefunded \cup {a}
    /\ UNCHANGED <<windows, leaseSets, orphans, now>>

\* The process dies with everything the attempt holds.
Crash(a) ==
    /\ attempt[a].pc \notin {"new", "done"}
    /\ Fault
    /\ End(a, FALSE)
    /\ orphans' = orphans \cup {a}
    /\ unrefunded' = unrefunded \cup {a}
    /\ UNCHANGED <<windows, leaseSets, now>>

\* Time passes, and Redis drops the keys whose expiry has come.
Tick ==
    LET gone == {k \in Counters : counter[k].expires <= now + 1} IN
    /\ now < MaxTime
    /\ now' = now + 1
    /\ counter' = [k \in Counters |-> IF k \in gone THEN NoCounter ELSE counter[k]]
    /\ grantedIn' = [a \in Attempts |-> grantedIn[a] \ gone]
    /\ disturbed' = disturbed \ gone
    /\ zset' = [k \in Leases |-> IF zexpires[k] <= now + 1 THEN {} ELSE zset[k]]
    /\ zexpires' = [k \in Leases |-> IF zexpires[k] <= now + 1 THEN 0 ELSE zexpires[k]]
    /\ UNCHANGED <<attempt, orphans, unrefunded, faults>>

Finished ==
    /\ now = MaxTime /\ \A a \in Attempts : attempt[a].pc = "done"
    /\ UNCHANGED vars

AttemptStep(a) ==
    \/ Allow(a) \/ AllowLimited(a) \/ AllowUnanswered(a)
    \/ SlotUnavailable(a) \/ ThrottleCancelled(a) \/ TakeClock(a)
    \/ AcquireConcurrency(a) \/ AcquireLimited(a) \/ AcquireUnanswered(a)
    \/ \E ok \in BOOLEAN : InvokeEnds(a, ok)
    \/ \E k \in Leases : ReleaseConcurrency(a, k) \/ ReleaseUnanswered(a, k)
    \/ Succeed(a) \/ RetrySameCandidate(a) \/ Refund(a) \/ RefundLost(a) \/ Crash(a)

Next == Tick \/ Finished \/ \E a \in Attempts : AttemptStep(a)

Spec == Init /\ [][Next]_vars

-----------------------------------------------------------------------------
(* Properties. *)

Members == [token : Attempts \X (0..MaxRetries), score : Nat]

AttemptStates ==
    [pc : {"new", "dispatch", "acquire", "running", "release", "done"}, next : 0..NumLeases,
     seen : Nat, held : SUBSET Leases, until : [Leases -> Nat], ok : BOOLEAN,
     retries : 0..MaxRetries]

\* The tables and attempts keep their shape, no counter leaves 0..Limit and no
\* lease set outgrows its limit, orphaned members included.
TypeOK ==
    /\ \A k \in Counters : counter[k] \in [used : 0..Limit[k], expires : Nat]
    /\ zset \in [Leases -> SUBSET Members]
    /\ \A k \in Leases : IsFiniteSet(zset[k]) /\ Cardinality(zset[k]) <= LeaseLimit[k]
    /\ zexpires \in [Leases -> Nat]
    /\ attempt \in [Attempts -> AttemptStates]
    /\ grantedIn \in [Attempts -> SUBSET Counters] /\ disturbed \subseteq Counters
    /\ orphans \subseteq Attempts /\ unrefunded \subseteq Attempts
    /\ now \in Nat /\ faults \in Nat

\* Attempts whose units a counter's current window should count: granted in
\* it, and under way, successful or ended without their refund.
Counted(k) == {a \in Attempts : k \in grantedIn[a] /\
                  (attempt[a].pc # "done" \/ attempt[a].ok \/ a \in unrefunded)}
Units(k) == SumFunction([a \in Counted(k) |-> Cost[a][k]])

\* A refused or failed attempt costs the account nothing: a counter never
\* stands above the units of the attempts its window should count.
NeverOvercounts == \A k \in Counters : counter[k].used <= Units(k)

\* Within a window that no late or unfounded refund has hit, the counter is
\* exactly those units: no grant of the window is missing from it.
CountsEveryGrant == \A k \in Counters \ disturbed : counter[k].used = Units(k)

\* At most LeaseLimit attempts hold an unexpired lease of a set at once,
\* however old the clocks the clients sent, whatever expires meanwhile and
\* whoever releases late.
LeasesBounded ==
    \A k \in Leases :
        Cardinality({a \in Attempts : k \in attempt[a].held /\ attempt[a].until[k] > now})
            <= LeaseLimit[k]

\* An attempt that ended leaves no member behind, also when a later lease of
\* the same dispatch was refused, unless a reply was lost or it crashed.
NoLeaseLeft ==
    \A a \in Attempts \ orphans : attempt[a].pc = "done" =>
        \A k \in Leases : \A m \in zset[k] : m.token[1] # a
=============================================================================
