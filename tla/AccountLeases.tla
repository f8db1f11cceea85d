--------------------------- MODULE AccountLeases ---------------------------
(***************************************************************************)
(* Scheduling leases: how gateway requests share provider accounts.        *)
(*                                                                         *)
(* Each attempt of a request selects an account whose concurrency marker   *)
(* is below the account's limit, takes a lease on it with one Redis script *)
(* and gives it back with another, keyed by request id and attempt number. *)
(* The end of an attempt is reported by RecordFeedback, off the request's  *)
(* path, so a report may arrive while later attempts run. Leases lapse     *)
(* after TTL and are never renewed; the marker is a cached ZCARD with an   *)
(* expiry of its own, and the metrics endpoint rewrites it.  Request ids   *)
(* are unique: the server also takes them from the client's X-Request-ID,  *)
(* and two live requests with one id would share their leases.             *)
(*                                                                         *)
(* Times are what is left of them: a lease's time goes from TTL to zero,   *)
(* when it lapses, and on to -Retention, when its keys are gone.           *)
(***************************************************************************)
EXTENDS Integers, FiniteSets

CONSTANTS
    Requests,
    Accounts,
    NoAccount,
    Max,            \* the accounts' MaxConcurrency
    MaxAttempts,    \* MaxAttempts[r]: how many candidates r may try
    Fallbacks,      \* Fallbacks[r]: fallback models of the model r asks for
    TTL,            \* the lease TTL (30 seconds)
    Retention,      \* how long a lapsed lease and a marker are kept (5 minutes)
    MaxFaults       \* bound: crashes, canceled sleeps, failed or lost store calls

ASSUME AccountsAssumption == NoAccount \notin Accounts
ASSUME NumbersAssumption ==
    /\ Max \in Nat /\ Fallbacks \in [Requests -> Nat] /\ MaxFaults \in Nat
    /\ MaxAttempts \in [Requests -> Nat \ {0}] /\ TTL \in Nat \ {0} /\ Retention \in Nat \ {0}

VARIABLES
    lease,      \* scheduler:lease:<id>, the id made of request, attempt and account
    leaseOf,    \* scheduler:lease_request:<request>:<attempt>, here the account
    active,     \* scheduler:account:<id>:leases, the leases in the ZSET
    marker,     \* scheduler:account:<id>:concurrency, with its expiry
    req,        \* the failover loop of each request
    feedback,   \* RecordFeedback calls dispatched and not yet run
    scan,       \* the lapsed lease CountActiveLeases has read
    faults

vars == <<lease, leaseOf, active, marker, req, feedback, scan, faults>>
store == <<lease, leaseOf, active, marker>>

----------------------------------------------------------------------------
Attempts == UNION {1..MaxAttempts[r] : r \in Requests}
Keys == {k \in Requests \X Attempts : k[2] <= MaxAttempts[k[1]]}

\* The lease id of request and attempt k on account a.
LeaseId(k, a) == <<k[1], k[2], a>>
Ids == {LeaseId(k, a) : k \in Keys, a \in Accounts}

Gone == [status |-> "none", left |-> -Retention]

Idle == [pc |-> "schedule", attempt |-> 1, fallback |-> 0, account |-> NoAccount,
         excluded |-> {}, recorded |-> FALSE, left |-> 0, orphaned |-> FALSE]

Unmarked == [count |-> 0, left |-> 0, zeroed |-> FALSE]

Init ==
    /\ lease = [id \in Ids |-> Gone]
    /\ leaseOf = [k \in Keys |-> NoAccount]
    /\ active = [a \in Accounts |-> {}]
    /\ marker = [a \in Accounts |-> Unmarked]
    /\ req = [r \in Requests |-> Idle]
    /\ feedback = {}
    /\ scan = {}
    /\ faults = 0

\* CountAccountConcurrency; a marker that is gone reads as zero.
Concurrency(a) == marker[a].count

Lapsed(id) == lease[id].left <= 0

\* The lease filed under request and attempt k.
Filed(k) == LeaseId(k, leaseOf[k])

\* There is one.
Kept(k) == leaseOf[k] # NoAccount

\* What the current attempt of r files its lease under.
Key(r) == <<r, req[r].attempt>>

\* A write of account a's marker that is kept for the given time.
SetMarker(a, count, time) ==
    marker' = [marker EXCEPT ![a] = [count |-> count, left |-> time, zeroed |-> FALSE]]

Fault == faults < MaxFaults /\ faults' = faults + 1

----------------------------------------------------------------------------
(* The scripts. *)

\* updateLeaseScript: a pending lease ends (committed, failed, released, or expired
\* if it is late) and leaves the ZSET; the marker is refreshed in any case.
UpdateLeaseStatus(k) ==
    LET id == Filed(k)
        a == leaseOf[k]
        pending == lease[id].status = "pending"
        left == IF pending THEN active[a] \ {id} ELSE active[a]
    IN  IF Kept(k)
        THEN /\ lease' = [lease EXCEPT ![id].status = "ended"]
             /\ active' = [active EXCEPT ![a] = left]
             /\ SetMarker(a, Cardinality(left), Retention)
             /\ UNCHANGED leaseOf
        ELSE UNCHANGED store

\* The lapsed leases that acquireLeaseScript first takes off the account.
Swept(a) == {id \in active[a] : Lapsed(id)}

Expire(S) == [id \in Ids |-> IF id \in S /\ lease[id].status = "pending"
                              THEN [lease[id] EXCEPT !.status = "ended"] ELSE lease[id]]

\* acquireLeaseScript when the request and attempt already have a lease, on
\* whatever account and in whatever status: that one is returned.
LeaseExists(r, a) ==
    /\ Kept(Key(r))
    /\ lease' = Expire(Swept(a))
    /\ active' = [active EXCEPT ![a] = @ \ Swept(a)]
    /\ UNCHANGED <<leaseOf, marker>>

\* ... when the account is at its limit ...
LeaseFull(r, a) ==
    LET left == active[a] \ Swept(a) IN
    /\ ~Kept(Key(r))
    /\ Cardinality(left) >= Max
    /\ lease' = Expire(Swept(a))
    /\ active' = [active EXCEPT ![a] = left]
    /\ SetMarker(a, Cardinality(left), TTL + Retention)
    /\ UNCHANGED leaseOf

\* Mutant: the marker is what ZCARD said before the lease was added.
LeaseGrantedEarlyCount(r, a) ==
    LET left == active[a] \ Swept(a) IN
    /\ ~Kept(Key(r))
    /\ Cardinality(left) < Max
    /\ lease' = [Expire(Swept(a)) EXCEPT ![LeaseId(Key(r), a)] =
                    [status |-> "pending", left |-> TTL]]
    /\ leaseOf' = [leaseOf EXCEPT ![Key(r)] = a]
    /\ active' = [active EXCEPT ![a] = left \cup {LeaseId(Key(r), a)}]
    /\ SetMarker(a, Cardinality(left), TTL + Retention)

\* ... and when there is room.
LeaseGranted(r, a) ==
    LET left == active[a] \ Swept(a) IN
    /\ ~Kept(Key(r))
    /\ Cardinality(left) < Max
    /\ lease' = [Expire(Swept(a)) EXCEPT ![LeaseId(Key(r), a)] =
                    [status |-> "pending", left |-> TTL]]
    /\ leaseOf' = [leaseOf EXCEPT ![Key(r)] = a]
    /\ active' = [active EXCEPT ![a] = left \cup {LeaseId(Key(r), a)}]
    /\ SetMarker(a, Cardinality(left) + 1, TTL + Retention)

----------------------------------------------------------------------------
(* The failover loop of a request. *)

At(r, place) == req[r].pc = place

Goto(r, place) == req' = [req EXCEPT ![r].pc = place]

\* The request is answered; orphaned: what it leaves in the store is not ended.
Over(r, orphaned) == [Idle EXCEPT !.pc = "done", !.orphaned = orphaned \/ req[r].orphaned]

Answer(r, orphaned) == req' = [req EXCEPT ![r] = Over(r, orphaned)]

\* The next candidate of the loop: the account is excluded.
NextCandidate(r, recorded, orphaned) ==
    /\ req[r].attempt < MaxAttempts[r]
    /\ req' = [req EXCEPT ![r].pc = "schedule", ![r].attempt = @ + 1, ![r].left = 0,
                          ![r].recorded = recorded, ![r].excluded = @ \cup {req[r].account},
                          ![r].orphaned = @ \/ orphaned]

\* The loop returns; recorded: with a failure that was recorded. The request is
\* answered, or a fallback model starts the loop again from attempt one.
LoopEnds(r, recorded, orphaned) ==
    \/ Answer(r, orphaned)
    \/ /\ req[r].fallback < Fallbacks[r]
       /\ recorded \/ req[r].fallback > 0
       /\ req' = [req EXCEPT ![r].pc = "schedule", ![r].attempt = 1, ![r].left = 0,
                             ![r].recorded = FALSE, ![r].excluded = {}, ![r].fallback = @ + 1,
                             ![r].orphaned = @ \/ orphaned]

\* The loop after a skipped candidate.
SkipTo(r, recorded, orphaned) ==
    \/ NextCandidate(r, recorded, orphaned)
    \/ req[r].attempt = MaxAttempts[r] /\ LoopEnds(r, recorded, orphaned)

\* The lease of the current attempt is released. lost: the context of the call is
\* the request's, canceled when the client left, or Redis fails; that is only logged.
GiveBack(r, lost) ==
    \/ ~lost /\ UpdateLeaseStatus(Key(r)) /\ UNCHANGED faults
    \/ lost /\ Fault /\ UNCHANGED store

\* The accounts that evaluateSchedule does not reject for r.
Eligible(r) == {a \in Accounts \ req[r].excluded : Concurrency(a) < Max}

\* Schedule reads the markers and selects an account.
Schedule(r) ==
    /\ At(r, "schedule")
    /\ \E a \in Eligible(r) :
          req' = [req EXCEPT ![r].pc = "acquire", ![r].account = a]
    /\ UNCHANGED <<store, feedback, scan, faults>>

\* No account: the loop returns its last failure. The first attempt may have waited for a slot
\* to be freed, which is scheduling it later.
NoneAvailable(r) ==
    /\ At(r, "schedule")
    /\ Eligible(r) = {}
    /\ LoopEnds(r, req[r].recorded, FALSE)
    /\ UNCHANGED <<store, feedback, scan, faults>>

\* AcquireLease finds the account full: the first attempt may wait and schedule
\* again, a later one gives up.
AcquireFull(r) ==
    /\ At(r, "acquire")
    /\ LeaseFull(r, req[r].account)
    /\ \/ req[r].attempt = 1 /\ Goto(r, "schedule")
       \/ LoopEnds(r, req[r].recorded, FALSE)
    /\ UNCHANGED <<feedback, scan, faults>>

\* A new lease runs for TTL; one handed back has no time of its own, may be over and
\* may be on another account.
AcquireLease(r) ==
    /\ At(r, "acquire")
    /\ \/ LeaseGranted(r, req[r].account) /\ req' = [req EXCEPT ![r].pc = "attempt", ![r].left = TTL]
       \/ LeaseExists(r, req[r].account) /\ req' = [req EXCEPT ![r].pc = "attempt", ![r].left = 0]
    /\ UNCHANGED <<feedback, scan, faults>>

\* The script or the read of its lease fails: Schedule answers as for a full
\* account. granted: the script had run, and nobody knows of the lease.
AcquireFails(r) ==
    /\ At(r, "acquire")
    /\ Fault
    /\ \E granted \in BOOLEAN :
         /\ IF granted THEN LeaseGranted(r, req[r].account) \/ LeaseExists(r, req[r].account)
                       ELSE UNCHANGED store
         /\ \/ /\ req[r].attempt = 1
               /\ req' = [req EXCEPT ![r].pc = "schedule", ![r].orphaned = @ \/ granted]
            \/ LoopEnds(r, req[r].recorded, granted)
    /\ UNCHANGED <<feedback, scan>>

\* The decision cannot be stored: Schedule gives the lease back, which may fail as
\* well, and returns the error.
DecisionFails(r) ==
    /\ At(r, "attempt")
    /\ Fault
    /\ \/ UpdateLeaseStatus(Key(r)) /\ LoopEnds(r, req[r].recorded, FALSE)
       \/ UNCHANGED store /\ LoopEnds(r, req[r].recorded, TRUE)
    /\ UNCHANGED <<feedback, scan>>

\* Mutant: the skipped candidate's lease is left to lapse.
SkipOpenKeepsLease(r) ==
    /\ At(r, "attempt")
    /\ SkipTo(r, req[r].recorded, FALSE)
    /\ UNCHANGED <<store, feedback, scan, faults>>

\* The candidate's breaker is open: the lease is released at once.
SkipOpen(r) ==
    /\ At(r, "attempt")
    /\ \E lost \in BOOLEAN : GiveBack(r, lost) /\ SkipTo(r, req[r].recorded, lost)
    /\ UNCHANGED <<feedback, scan>>

\* No concurrency slot is free: the same, and this is the last failure now, or
\* the loop returns at once when waiting for the slot failed otherwise (the client
\* left: then the release fails too).
SkipFull(r) ==
    /\ At(r, "attempt")
    /\ \E lost \in BOOLEAN : GiveBack(r, lost) /\ (SkipTo(r, FALSE, lost) \/ LoopEnds(r, FALSE, lost))
    /\ UNCHANGED <<feedback, scan>>

\* The throttle sleep before the call is canceled: the loop returns and nobody
\* ends the lease.
ThrottleCanceled(r) ==
    /\ At(r, "attempt")
    /\ Fault
    /\ Answer(r, TRUE)
    /\ UNCHANGED <<store, feedback, scan>>

\* The candidate failed (its quota, or the provider's call): the failure is recorded,
\* which dispatches its feedback, and the loop goes on or gives up.
CandidateFails(r) ==
    /\ At(r, "attempt")
    /\ feedback' = feedback \cup {Key(r)}
    /\ NextCandidate(r, TRUE, FALSE) \/ LoopEnds(r, TRUE, FALSE)
    /\ UNCHANGED <<store, scan, faults>>

\* The provider answered: the usage is recorded, which dispatches the feedback.
CandidateSucceeds(r) ==
    /\ At(r, "attempt")
    /\ feedback' = feedback \cup {Key(r)}
    /\ Answer(r, FALSE)
    /\ UNCHANGED <<store, scan, faults>>

\* Mutant: the feedback ends the lease of the request's current attempt.
RecordFeedbackCurrent(k) ==
    /\ k \in feedback
    /\ feedback' = feedback \ {k}
    /\ UpdateLeaseStatus(Key(k[1]))
    /\ UNCHANGED <<req, scan, faults>>

\* A dispatched feedback runs, at any later time.
RecordFeedback(k) ==
    /\ k \in feedback
    /\ feedback' = feedback \ {k}
    /\ UpdateLeaseStatus(k)
    /\ UNCHANGED <<req, scan, faults>>

\* A feedback is lost: its row cannot be stored, its script fails, or the
\* process dies with it. The lease is left to lapse.
FeedbackLost(k) ==
    /\ k \in feedback
    /\ Fault
    /\ feedback' = feedback \ {k}
    /\ req' = [req EXCEPT ![k[1]].orphaned = TRUE]
    /\ UNCHANGED <<store, scan>>

\* The process that serves r dies with the attempt under way.
Crash(r) ==
    /\ At(r, "attempt")
    /\ Fault
    /\ Answer(r, TRUE)
    /\ UNCHANGED <<store, feedback, scan>>

----------------------------------------------------------------------------
(* The metrics endpoint and time. *)

\* CountActiveLeases reads a lease that is pending and lapsed ...
ScanLease(id) ==
    /\ scan = {}
    /\ lease[id].status = "pending"
    /\ Lapsed(id)
    /\ scan' = {id}
    /\ UNCHANGED <<store, req, feedback, faults>>

\* ... and markExpired ends it: the marker is set to zero, whatever other
\* leases the account has.
MarkExpired(id) ==
    /\ id \in scan
    /\ scan' = {}
    /\ lease' = [lease EXCEPT ![id].status = "ended"]
    /\ active' = [active EXCEPT ![id[3]] = @ \ {id}]
    /\ marker' = [marker EXCEPT ![id[3]] =
                    [count |-> 0, left |-> Retention, zeroed |-> TRUE]]
    /\ UNCHANGED <<leaseOf, req, feedback, faults>>

\* What Redis keeps of a lease, of a request key and of a marker one tick later.
LeaseLater(id) ==
    IF lease[id].left > 1 - Retention THEN [lease[id] EXCEPT !.left = @ - 1] ELSE Gone

LeaseOfLater(k) ==
    IF Kept(k) /\ lease[Filed(k)].left > 1 - Retention THEN leaseOf[k] ELSE NoAccount

\* Mutant: the marker is set without an expiry.
MarkerLaterKept(a) == marker[a]

MarkerLater(a) ==
    IF marker[a].left > 1 THEN [marker[a] EXCEPT !.left = @ - 1] ELSE Unmarked

\* Time passes. (A scrape ends before the lease it read is gone.)
Tick ==
    /\ \A id \in scan : lease[id].left > 1 - Retention
    /\ lease' = [id \in Ids |-> LeaseLater(id)]
    /\ leaseOf' = [k \in Keys |-> LeaseOfLater(k)]
    /\ marker' = [a \in Accounts |-> MarkerLater(a)]
    /\ req' = [r \in Requests |-> [req[r] EXCEPT !.left = IF @ > 0 THEN @ - 1 ELSE 0]]
    /\ UNCHANGED <<active, feedback, scan, faults>>

Step(r) ==
    \/ Schedule(r) \/ NoneAvailable(r) \/ AcquireFull(r) \/ AcquireLease(r)
    \/ SkipOpen(r) \/ SkipFull(r) \/ CandidateFails(r) \/ CandidateSucceeds(r)

Next ==
    \/ \E r \in Requests : Step(r) \/ AcquireFails(r) \/ DecisionFails(r)
    \/ \E r \in Requests : ThrottleCanceled(r) \/ Crash(r)
    \/ \E k \in feedback : RecordFeedback(k) \/ FeedbackLost(k)
    \/ \E id \in Ids : ScanLease(id) \/ MarkExpired(id)
    \/ Tick

Spec == Init /\ [][Next]_vars

\* Only the passing of time is assumed, and that a scrape ends: the requests need
\* not do anything for an account to become available again.
FairSpec ==
    /\ Spec
    /\ WF_vars(Tick)
    /\ WF_vars(\E id \in Ids : MarkExpired(id))

----------------------------------------------------------------------------
(* Properties. *)

\* The requests that use account a within the TTL of the lease they were granted.
\* (Not counted: a fallback model, which reuses the attempt numbers of the first
\* and with them its leases, and an attempt that was handed back the lease of an
\* AcquireLease whose reply was lost, perhaps on another account.)
Using(a) == {r \in Requests : /\ req[r].pc = "attempt"
                              /\ req[r].account = a /\ req[r].fallback = 0
                              /\ req[r].left > 0}

\* An account never serves more requests at once than its MaxConcurrency, among
\* those whose lease is not over: whatever late feedback, expiry, sweep or
\* metrics scrape does, it does not take away the lease of a running attempt.
CapacityHeld ==
    \A a \in Accounts :
        /\ \A r \in Using(a) : LeaseId(Key(r), a) \in active[a]
        /\ Cardinality(Using(a)) <= Max

\* Once a request is over and its feedback has run, none of its leases occupies
\* an account, unless one was left to lapse: by a crash, a lost feedback, a
\* canceled throttle sleep, a release that failed (with the canceled context of
\* the request, say) or an AcquireLease whose reply was lost.
LeaseSettled ==
    \A r \in Requests :
        req[r].pc = "done" /\ ~req[r].orphaned /\ (\A k \in feedback : k[1] # r) =>
            \A a \in Accounts : \A id \in active[a] : id[1] = r => Lapsed(id)

\* The marker never hides a live lease: unless the metrics endpoint set it to
\* zero last, it is at least the number of leases that are not over.
MarkerCovers ==
    \A a \in Accounts : marker[a].zeroed \/
        Concurrency(a) >= Cardinality({id \in active[a] : ~Lapsed(id)})

\* An account whose marker is at the limit is selected again at some time, even
\* if every holder crashed and nobody else writes the marker.
EventuallySelectable ==
    \A a \in Accounts :
        Concurrency(a) >= Max ~> Concurrency(a) < Max
=============================================================================
