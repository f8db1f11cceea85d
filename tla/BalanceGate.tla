---------------------------- MODULE BalanceGate ----------------------------
(***************************************************************************)
(* The opt-in balance gate of one pay-as-you-go user: admission reads the  *)
(* balance, checks that it covers the estimate and reserves the estimate   *)
(* in the user's Redis hash under the request id; recordGatewayUsage       *)
(* releases the field; the balance_charger takes recorded usage from the   *)
(* balance later.  Users do not share a hash, so one user is the general   *)
(* case.  The reserve and release Lua scripts are atomic in Redis.         *)
(*                                                                         *)
(* Assumed: request ids are unique.  The server takes the X-Request-ID of  *)
(* the client and draws one itself only when there is none; two live       *)
(* requests with one id would share a field, and the first to end would    *)
(* remove it.                                                              *)
(*                                                                         *)
(* The specification's own names begin with Gate, so that a module can     *)
(* extend this one beside another component.                               *)
(***************************************************************************)
EXTENDS Integers, FiniteSets, Functions

CONSTANTS
    UserRequests,    \* the requests of the user
    Estimate,        \* estimated cost of each request; the actual cost is the same
    InitialBalance,
    MaxAttempts,     \* failover attempts of one admission
    MaxFallbacks,    \* fallback models configured
    TTL,             \* expiry of the reservation hash, in clock ticks
    GateMaxTime,     \* bound: the clock stops here
    MaxFaults        \* bound: panics and Redis errors

ASSUME EstimateAssumption == Estimate \in [UserRequests -> Nat]
ASSUME BoundsAssumption ==
    /\ InitialBalance \in Int
    /\ MaxAttempts \in Nat \ {0} /\ MaxFallbacks \in Nat
    /\ TTL \in Nat \ {0} /\ GateMaxTime \in Nat /\ MaxFaults \in Nat

VARIABLES
    balance,     \* users.balance
    owed,        \* requests whose successful usage row is not yet charged
    hash,        \* fields of the reservation hash: requests holding a slot
    expires,     \* time at which Redis drops the hash
    request,     \* the handler of each request
    reservedAt,  \* history: when the request's field was written or refreshed
    leaked,      \* history: requests that ended without a release
    now,
    faults

gateVars == <<balance, owed, hash, expires, request, reservedAt, leaked, now, faults>>
redis == <<hash, expires>>

\* seen: the balance read; held: a reservation was granted to this admission.
New == [pc |-> "new", seen |-> 0, held |-> FALSE, attempt |-> 0, fallbacks |-> 0]

GateInit ==
    /\ balance = InitialBalance
    /\ owed = {}
    /\ hash = {}
    /\ expires = 0
    /\ request = [r \in UserRequests |-> New]
    /\ reservedAt = [r \in UserRequests |-> 0]
    /\ leaked = {}
    /\ now = 0
    /\ faults = 0

Fault == faults < MaxFaults /\ faults' = faults + 1

reservedTotal(S) == SumFunctionOnSet(Estimate, S)

-----------------------------------------------------------------------------
(* The Redis store. *)

\* Mutant: the script compares the balance with the amount alone.
FitsIgnoringOthers(r, seen) == seen >= Estimate[r]

\* reserveScript: balance - reserved < amount refuses.
Fits(r, seen) == seen - reservedTotal(hash) >= Estimate[r]

\* Mutant: EXPIRE is not repeated for the fields that follow the first.
ReserveKeepsExpiry(r) ==
    /\ hash' = IF Estimate[r] > 0 THEN hash \cup {r} ELSE hash
    /\ expires' = IF hash = {} /\ Estimate[r] > 0 THEN now + TTL ELSE expires
    /\ reservedAt' = [reservedAt EXCEPT ![r] = now]

\* A granted reservation: write the field (or find it) and EXPIRE the hash.
\* A zero amount is granted without a field.
Reserve(r) ==
    /\ hash' = IF Estimate[r] > 0 THEN hash \cup {r} ELSE hash
    /\ expires' = IF Estimate[r] > 0 THEN now + TTL ELSE expires
    /\ reservedAt' = [reservedAt EXCEPT ![r] = now]

\* Mutant: the release forgets to delete the field.
ReleaseNothing(r) == UNCHANGED redis

\* releaseScript: HDEL, idempotent.
Release(r) == hash' = hash \ {r} /\ UNCHANGED expires

-----------------------------------------------------------------------------
(* Admission. *)

\* FindByID: the balance the gate will decide on.
FetchUser(r) ==
    /\ request[r].pc = "new"
    /\ request' = [request EXCEPT ![r].pc = "gate", ![r].seen = balance]
    /\ UNCHANGED <<balance, owed, redis, reservedAt, leaked, now, faults>>

\* gatewayBalanceCoversRequest: strictly positive and at least the estimate.
gatewayBalanceCoversRequest(r, seen) == seen > 0 /\ seen >= Estimate[r]

Admitted(r, held) ==
    [request EXCEPT ![r].pc = "run", ![r].attempt = 1, ![r].held = held]

\* gatewayBalanceGate admits: the request runs with its reservation.
GateAdmits(r) ==
    LET seen == request[r].seen IN
    /\ request[r].pc = "gate"
    /\ gatewayBalanceCoversRequest(r, seen)
    /\ r \in hash \/ Estimate[r] = 0 \/ Fits(r, seen)
    /\ Reserve(r)
    /\ request' = Admitted(r, Estimate[r] > 0)
    /\ UNCHANGED <<balance, owed, leaked, now, faults>>

\* Redis answers with an error: the gate fails open, without a reservation.
GateFailsOpen(r) ==
    /\ request[r].pc = "gate"
    /\ gatewayBalanceCoversRequest(r, request[r].seen)
    /\ Fault
    /\ request' = Admitted(r, r \in hash)
    /\ UNCHANGED <<balance, owed, redis, reservedAt, leaked, now>>

\* gatewayBalanceGate denies, or a later admission check (API-key cost limit,
\* rate limit) does, or one of them errors: the handler records a failed
\* usage, which releases the reservation; a fallback admission releases it
\* directly and tries the next model or gives up.
Denied(r) ==
    [request EXCEPT ![r].pc = IF request[r].fallbacks > 0 THEN "failed" ELSE "done"]

GateDenies(r) ==
    LET seen == request[r].seen IN
    /\ request[r].pc = "gate"
    /\ \/ ~gatewayBalanceCoversRequest(r, seen)
       \/ r \notin hash /\ Estimate[r] > 0 /\ ~Fits(r, seen)
    /\ Release(r)
    /\ request' = Denied(r)
    /\ UNCHANGED <<balance, owed, reservedAt, leaked, now, faults>>

LaterCheckDenies(r) ==
    /\ request[r].pc = "run" /\ request[r].attempt = 1
    /\ Release(r)
    /\ request' = Denied(r)
    /\ UNCHANGED <<balance, owed, reservedAt, leaked, now, faults>>

-----------------------------------------------------------------------------
(* Dispatch: the failover loop, the model fallback, the usage record. *)

\* A candidate fails: recordGatewayUsage writes a failed row and releases the
\* reservation; the loop goes on to the next candidate or returns.
AttemptFails(r) ==
    LET again == request[r].attempt < MaxAttempts IN
    /\ request[r].pc = "run"
    /\ Release(r)
    /\ request' = [request EXCEPT ![r].pc = IF again THEN "run" ELSE "failed",
                                  ![r].attempt = IF again THEN @ + 1 ELSE @]
    /\ UNCHANGED <<balance, owed, reservedAt, leaked, now, faults>>

\* invokeProviderConversationWithModelFallback: the next fallback model goes
\* through admission again under the same request id.
ModelFallback(r) ==
    /\ request[r].pc = "failed" /\ request[r].fallbacks < MaxFallbacks
    /\ request' = [request EXCEPT ![r] = [New EXCEPT !.fallbacks = request[r].fallbacks + 1]]
    /\ UNCHANGED <<balance, owed, redis, reservedAt, leaked, now, faults>>

GiveUp(r) ==
    /\ request[r].pc = "failed"
    /\ request' = [request EXCEPT ![r].pc = "done"]
    /\ UNCHANGED <<balance, owed, redis, reservedAt, leaked, now, faults>>

\* The upstream answered: the usage row is recorded and the reservation
\* released; the balance itself is not touched yet.
Succeed(r) ==
    /\ request[r].pc = "run"
    /\ owed' = owed \cup {r}
    /\ Release(r)
    /\ request' = [request EXCEPT ![r].pc = "done"]
    /\ UNCHANGED <<balance, reservedAt, leaked, now, faults>>

\* A panic, or Release answered with an error (after the usage row of a
\* successful request, too): the field stays in the hash.
ReleaseMissed(r) ==
    /\ request[r].pc = "run"
    /\ Fault
    /\ owed' \in {owed, owed \cup {r}}
    /\ request' = [request EXCEPT ![r].pc = "done"]
    /\ leaked' = leaked \cup {r}
    /\ UNCHANGED <<balance, redis, reservedAt, now>>

-----------------------------------------------------------------------------
\* The balance_charger takes everything owed from the balance.
Charge ==
    /\ owed # {}
    /\ balance' = balance - reservedTotal(owed)
    /\ owed' = {}
    /\ UNCHANGED <<redis, request, reservedAt, leaked, now, faults>>

\* Time passes; Redis drops the hash when its TTL is over.
GateTick ==
    /\ now < GateMaxTime
    /\ now' = now + 1
    /\ hash' = IF now + 1 >= expires THEN {} ELSE hash
    /\ UNCHANGED <<balance, owed, expires, request, reservedAt, leaked, faults>>

RequestStep(r) ==
    \/ FetchUser(r) \/ GateAdmits(r) \/ GateDenies(r) \/ LaterCheckDenies(r)
    \/ AttemptFails(r) \/ ModelFallback(r) \/ GiveUp(r) \/ Succeed(r)

\* All requests answered, everything charged, the clock at its bound.
Finished ==
    /\ \A r \in UserRequests : request[r].pc = "done"
    /\ owed = {} /\ now = GateMaxTime
    /\ UNCHANGED gateVars

GateNext ==
    \/ \E r \in UserRequests : RequestStep(r) \/ GateFailsOpen(r) \/ ReleaseMissed(r)
    \/ Charge \/ GateTick \/ Finished

GateSpec == GateInit /\ [][GateNext]_gateVars

-----------------------------------------------------------------------------
(* Properties. *)

\* Types; only requests with a positive estimate hold a field, and a request
\* makes no more attempts and fallbacks than configured.
GateTypeOK ==
    /\ balance \in Int
    /\ owed \subseteq UserRequests
    /\ hash \subseteq {r \in UserRequests : Estimate[r] > 0}
    /\ expires \in Nat /\ now \in Nat /\ faults \in Nat
    /\ request \in [UserRequests -> [pc : {"new", "gate", "run", "failed", "done"},
                                 seen : Int, held : BOOLEAN,
                                 attempt : 0..MaxAttempts, fallbacks : 0..MaxFallbacks]]
    /\ reservedAt \in [UserRequests -> Nat]
    /\ leaked \subseteq UserRequests

Running == {r \in UserRequests : request[r].pc = "run"}

\* What the gate closes: however many requests read the same balance at the
\* same time, the estimates reserved together never exceed what the user had.
NoOverReservation == hash # {} => reservedTotal(hash) <= InitialBalance

\* A reservation outlives its request's first attempt: until the attempt is
\* over the field is there, unless the upstream took longer than the TTL.
FirstAttemptCovered ==
    \A r \in Running :
        request[r].attempt = 1 /\ request[r].held /\ now - reservedAt[r] < TTL => r \in hash

\* When no release was missed, nothing of an answered request stays reserved.
NothingLeftBehind ==
    \A r \in UserRequests : request[r].pc = "done" /\ r \notin leaked => r \notin hash

\* The reservation spans the whole request: while any attempt of it runs, the
\* field is in the hash (as long as the TTL is not over).
SpansRequest ==
    \A r \in Running : request[r].held /\ now - reservedAt[r] < TTL => r \in hash
=============================================================================
