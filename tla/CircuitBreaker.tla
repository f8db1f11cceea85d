--------------------------- MODULE CircuitBreaker ---------------------------
(***************************************************************************)
(* platform/circuitbreaker: the breaker in front of every provider account *)
(* and of the billing aggregation.  Allow and recordResult run under the   *)
(* breaker's mutex, so each is one step; what happens between a caller's   *)
(* Allow and its done callback is not, and the callback carries no record  *)
(* of the state in which it was handed out.                                *)
(*                                                                         *)
(* The two consecutive counters are only ever compared with a threshold,   *)
(* so they are kept up to it; the time since openedAt is kept as the time  *)
(* left of the current timeout.                                            *)
(*                                                                         *)
(* The specification's own names begin with Breaker, so that a module can  *)
(* extend this one beside another component.                               *)
(***************************************************************************)
EXTENDS Integers, FiniteSets

CONSTANTS
    Callers,
    FailureThreshold, SuccessThreshold, MaxHalfOpenRequests,
    Timeout, MaxTimeout,  \* in clock ticks
    MaxPanics             \* bound: callers that never invoke done

ASSUME CallersAssumption == IsFiniteSet(Callers)
ASSUME ThresholdAssumption ==
    /\ FailureThreshold \in Nat \ {0} /\ SuccessThreshold \in Nat \ {0}
    /\ MaxHalfOpenRequests \in Nat \ {0}
ASSUME TimeoutAssumption ==
    /\ Timeout \in Nat \ {0} /\ MaxTimeout \in Nat \ {0} /\ Timeout <= MaxTimeout
ASSUME PanicAssumption == MaxPanics \in Nat

VARIABLES
    state,
    consecutiveSuccesses, consecutiveFailures,
    halfOpenInflight,
    timeLeft,        \* of currentTimeout since openedAt
    currentTimeout,
    outstanding,     \* callers admitted by Allow that have not called done
    probes,          \* history: admitted in the current half-open period, not back yet
    staleReturns,    \* history: other callers that came back during that period
    abandoned,       \* callers that panicked between Allow and done
    healthy          \* whether the protected operation succeeds at present

counts == <<consecutiveSuccesses, consecutiveFailures>>
timer == <<timeLeft, currentTimeout>>
period == <<probes, staleReturns>>
breakerVars == <<state, counts, halfOpenInflight, timer, outstanding, period, abandoned, healthy>>

UpTo(n, bound) == IF n < bound THEN n ELSE bound

BreakerInit ==
    /\ state = "closed"
    /\ consecutiveSuccesses = 0 /\ consecutiveFailures = 0
    /\ halfOpenInflight = 0
    /\ timeLeft = 0 /\ currentTimeout = Timeout
    /\ outstanding = {} /\ abandoned = {}
    /\ probes = {} /\ staleReturns = 0
    /\ healthy \in BOOLEAN

-----------------------------------------------------------------------------
\* Callers free to ask: done was called, or never will be.
MayAsk(c) == c \notin outstanding /\ c \notin abandoned

AllowClosed(c) ==
    /\ MayAsk(c) /\ state = "closed"
    /\ outstanding' = outstanding \cup {c}
    /\ UNCHANGED <<state, counts, halfOpenInflight, timer, period, abandoned, healthy>>

\* The timeout is over: this caller becomes the first probe.
AllowOpen(c) ==
    /\ MayAsk(c) /\ state = "open" /\ timeLeft = 0
    /\ state' = "half-open"
    /\ consecutiveSuccesses' = 0
    /\ halfOpenInflight' = 1
    /\ outstanding' = outstanding \cup {c}
    /\ probes' = {c} /\ staleReturns' = 0
    /\ UNCHANGED <<consecutiveFailures, timer, abandoned, healthy>>

AllowHalfOpen(c) ==
    /\ MayAsk(c) /\ state = "half-open" /\ halfOpenInflight < MaxHalfOpenRequests
    /\ halfOpenInflight' = halfOpenInflight + 1
    /\ outstanding' = outstanding \cup {c}
    /\ probes' = probes \cup {c}
    /\ UNCHANGED <<state, counts, timer, staleReturns, abandoned, healthy>>

\* Every other Allow answers ErrCircuitOpen and changes nothing.
Allow(c) == AllowClosed(c) \/ AllowOpen(c) \/ AllowHalfOpen(c)

-----------------------------------------------------------------------------
\* The caller's part of every done: it is no longer outstanding.
Returns(c) ==
    /\ c \in outstanding
    /\ outstanding' = outstanding \ {c}
    /\ UNCHANGED <<abandoned, healthy>>

\* The period ends with the state, or goes on without c.
PeriodAfter(c, ends) ==
    /\ probes' = IF ends THEN {} ELSE probes \ {c}
    /\ staleReturns' = IF ends THEN 0
                       ELSE IF state = "half-open" /\ c \notin probes THEN staleReturns + 1
                       ELSE staleReturns

\* Mutant: a successful probe keeps its place in flight.
recordSuccessKeepsPlace(c) ==
    LET succ == UpTo(consecutiveSuccesses + 1, SuccessThreshold)
        closes == state = "half-open" /\ succ >= SuccessThreshold
    IN
    /\ Returns(c)
    /\ consecutiveSuccesses' = succ /\ consecutiveFailures' = 0
    /\ state' = IF closes THEN "closed" ELSE state
    /\ currentTimeout' = IF closes THEN Timeout ELSE currentTimeout
    /\ halfOpenInflight' = IF closes THEN 0 ELSE halfOpenInflight
    /\ PeriodAfter(c, closes)
    /\ UNCHANGED timeLeft

\* Mutant: closing keeps the backed-off timeout and the probe count.
recordSuccessClosesOnly(c) ==
    LET succ == UpTo(consecutiveSuccesses + 1, SuccessThreshold)
        closes == state = "half-open" /\ succ >= SuccessThreshold
    IN
    /\ Returns(c)
    /\ consecutiveSuccesses' = succ /\ consecutiveFailures' = 0
    /\ state' = IF closes THEN "closed" ELSE state
    /\ halfOpenInflight' = IF state = "half-open" THEN halfOpenInflight - 1 ELSE halfOpenInflight
    /\ PeriodAfter(c, closes)
    /\ UNCHANGED timer

\* done(true).
recordSuccess(c) ==
    LET succ == UpTo(consecutiveSuccesses + 1, SuccessThreshold)
        closes == state = "half-open" /\ succ >= SuccessThreshold
    IN
    /\ Returns(c)
    /\ consecutiveSuccesses' = succ /\ consecutiveFailures' = 0
    /\ state' = IF closes THEN "closed" ELSE state
    /\ currentTimeout' = IF closes THEN Timeout ELSE currentTimeout
    /\ halfOpenInflight' = IF closes THEN 0
                           ELSE IF state = "half-open" THEN halfOpenInflight - 1
                           ELSE halfOpenInflight
    /\ PeriodAfter(c, closes)
    /\ UNCHANGED timeLeft

\* done(false): the failure trips a closed breaker at the threshold and a
\* half-open one at once, with the timeout doubled up to MaxTimeout.
recordFailure(c) ==
    LET fails == UpTo(consecutiveFailures + 1, FailureThreshold)
        backoff == IF state = "half-open" THEN UpTo(currentTimeout * 2, MaxTimeout)
                   ELSE currentTimeout
        trips == state = "half-open" \/ (state = "closed" /\ fails >= FailureThreshold)
    IN
    /\ Returns(c)
    /\ consecutiveFailures' = fails /\ consecutiveSuccesses' = 0
    /\ currentTimeout' = backoff
    /\ state' = IF trips THEN "open" ELSE state
    /\ timeLeft' = IF trips THEN backoff ELSE timeLeft
    /\ halfOpenInflight' = IF trips THEN 0 ELSE halfOpenInflight
    /\ PeriodAfter(c, trips)

\* The done callback reports what the operation did.
Done(c) == IF healthy THEN recordSuccess(c) ELSE recordFailure(c)

\* A panic unwinds past the call that should have invoked done.
Panic(c) ==
    /\ c \in outstanding /\ Cardinality(abandoned) < MaxPanics
    /\ abandoned' = abandoned \cup {c}
    /\ outstanding' = outstanding \ {c}
    /\ UNCHANGED <<state, counts, halfOpenInflight, timer, period, healthy>>

Reset ==
    /\ state' = "closed"
    /\ consecutiveSuccesses' = 0 /\ consecutiveFailures' = 0
    /\ halfOpenInflight' = 0
    /\ currentTimeout' = Timeout
    /\ probes' = {} /\ staleReturns' = 0
    /\ UNCHANGED <<timeLeft, outstanding, abandoned, healthy>>

BreakerTick ==
    /\ timeLeft > 0
    /\ timeLeft' = timeLeft - 1
    /\ UNCHANGED <<state, counts, halfOpenInflight, currentTimeout, outstanding, period, abandoned, healthy>>

\* The protected operation breaks or recovers.
HealthChanges ==
    /\ healthy' = ~healthy
    /\ UNCHANGED <<state, counts, halfOpenInflight, timer, outstanding, period, abandoned>>

BreakerNext ==
    \/ \E c \in Callers : Allow(c) \/ Done(c) \/ Panic(c)
    \/ Reset \/ BreakerTick \/ HealthChanges

BreakerSpec == BreakerInit /\ [][BreakerNext]_breakerVars

\* Requests keep coming, an admitted one finishes, and time passes; nobody
\* has to call Reset.
BreakerFairSpec ==
    /\ BreakerSpec
    /\ \A c \in Callers : SF_breakerVars(Allow(c)) /\ WF_breakerVars(Done(c))
    /\ WF_breakerVars(BreakerTick)

-----------------------------------------------------------------------------
(* Properties. *)

\* The counters stay within their thresholds and the timers within MaxTimeout,
\* through every trip, re-trip, recovery and Reset.
BreakerTypeOK ==
    /\ state \in {"closed", "open", "half-open"}
    /\ consecutiveSuccesses \in 0..SuccessThreshold
    /\ consecutiveFailures \in 0..FailureThreshold
    /\ halfOpenInflight \in Int
    /\ timeLeft \in 0..MaxTimeout /\ currentTimeout \in 1..MaxTimeout
    /\ outstanding \subseteq Callers /\ abandoned \subseteq Callers
    /\ outstanding \cap abandoned = {}
    /\ probes \subseteq Callers /\ staleReturns \in Nat
    /\ healthy \in BOOLEAN

\* The half-open counter is exactly the number of probes that are not back
\* (lost ones included), less one place for every other caller that came back
\* meanwhile and gave back a place it never took; so it is only ever too low,
\* and by a stale callback each, no more than MaxHalfOpenRequests +
\* staleReturns probes are out at once.  Outside half-open it counts nothing.
InflightAccounted ==
    /\ state # "half-open" => halfOpenInflight = 0
    /\ state = "half-open" =>
         /\ halfOpenInflight = Cardinality(probes) - staleReturns
         /\ Cardinality(probes) <= MaxHalfOpenRequests + staleReturns

\* The exponential backoff is forgotten once the breaker has closed, however
\* many re-trips came before, and never leaves [Timeout, MaxTimeout].
BackoffBounded ==
    /\ currentTimeout \in Timeout..MaxTimeout
    /\ state = "closed" => currentTimeout = Timeout

\* At most MaxHalfOpenRequests probes run during a half-open period.
HalfOpenLimit == Cardinality(probes) <= MaxHalfOpenRequests

\* Once the operation stays healthy the breaker closes and stays closed, as
\* long as fewer callers were lost to a panic than half-open has places.
Recovers == <>[]healthy => <>[](state = "closed")
=============================================================================
