---------------------------- MODULE Idempotency ----------------------------
(***************************************************************************)
(* One Idempotency-Key of one caller on one route: the requests that carry *)
(* it, the row idempotency_records keeps for it, and the cleanup worker.   *)
(*                                                                         *)
(* The HTTP wrappers (withGatewayIdempotency, withConsoleIdempotency) call *)
(* Begin, run the handler when Begin says Proceed or when Begin fails      *)
(* ("fail open"), and call Complete with the request's own context.        *)
(* Begin is up to four statements (insert, find, conditional update, find) *)
(* that interleave with those of the other requests and with the deletion  *)
(* of expired rows; it reads the clock once, before the first of them.     *)
(***************************************************************************)
EXTENDS Integers

CONSTANTS
    Requests,       \* the requests that carry the key, retries included
    Nobody,         \* no request and no hash
    Hashes,         \* what idempotencyRequestHash can return
    Hash,           \* Hash[r]: the hash of r's method, path and body
    LockTTL,        \* how long a claim is exclusive (5 minutes)
    RecordTTL,      \* how long a row is kept (24 hours)
    BeginTime,      \* the longest the statements of Begin take
    Life,           \* the longest a request runs, from its Begin to its end
    MaxTime,        \* bound: the clock's last value
    Faults          \* what can go wrong: "store", "crash", "disconnect"

ASSUME RequestsAssumption ==
    /\ Nobody \notin Requests
    /\ Hash \in [Requests -> Hashes]
ASSUME TimesAssumption ==
    /\ LockTTL \in Nat /\ RecordTTL \in Nat /\ Life \in Nat /\ MaxTime \in Nat
    /\ LockTTL < RecordTTL
    /\ BeginTime \in Nat /\ BeginTime <= LockTTL
    /\ Life < RecordTTL
ASSUME FaultsAssumption == Faults \subseteq {"store", "crash", "disconnect"}

VARIABLES
    record,     \* the row of the key; status "absent" when there is none
    pc,         \* where each request is
    began,      \* the clock value its Begin read
    replay,     \* whose stored response it was answered with, if any
    served,     \* history: the requests whose handler produced a response
    claimed,    \* history: the requests that Begin let proceed
    clock

vars == <<record, pc, began, replay, served, claimed, clock>>

----------------------------------------------------------------------------
(* The row and the states of a request. *)

Rows == [status : {"absent", "in_progress", "completed"}, hash : Hashes \cup {Nobody},
         locked : Nat, expires : Nat, snapshot : Requests \cup {Nobody}]

\* There is no row.
NoRow == [status |-> "absent", hash |-> Nobody, locked |-> 0, expires |-> 0,
          snapshot |-> Nobody]

\* The row a claim by r writes: LockedUntil and ExpiresAt from the clock that
\* r's Begin read, and no snapshot.
Claim(r) == [status |-> "in_progress", hash |-> Hash[r], locked |-> began[r] + LockTTL,
             expires |-> began[r] + RecordTTL, snapshot |-> Nobody]

\* The statements of Begin; the handler under a claim and without one; Complete.
InBegin == {"insert", "find", "reacquire", "reread"}
PCs == InBegin \cup {"new", "run", "open", "complete", "done"}

Goto(r, place) == pc' = [pc EXCEPT ![r] = place]

Alive(r) == pc[r] \notin {"new", "done"}

Init ==
    /\ record = NoRow
    /\ pc = [r \in Requests |-> "new"]
    /\ began = [r \in Requests |-> 0]
    /\ replay = [r \in Requests |-> Nobody]
    /\ served = {} /\ claimed = {}
    /\ clock = 0

----------------------------------------------------------------------------
(* Begin. *)

\* The request arrives and Begin reads the clock.
Begin(r) ==
    /\ pc[r] = "new"
    /\ clock + RecordTTL < MaxTime
    /\ Goto(r, "insert")
    /\ began' = [began EXCEPT ![r] = clock]
    /\ UNCHANGED <<record, replay, served, claimed, clock>>

\* InsertOrGet's Create: the unique index lets one insert through, the others
\* go on to read the row.
Insert(r) ==
    /\ pc[r] = "insert"
    /\ \/ /\ record.status = "absent"
          /\ record' = Claim(r)
          /\ claimed' = claimed \cup {r}
          /\ Goto(r, "run")
       \/ /\ record.status # "absent"
          /\ Goto(r, "find")
          /\ UNCHANGED <<record, claimed>>
    /\ UNCHANGED <<began, replay, served, clock>>

\* What Begin decides from the row it found: 422 for another body, the stored
\* response or 409 for a completed one, 409 while the lock lasts, otherwise the
\* claim is stale. A row deleted since the insert is an error of Begin, and the
\* wrapper fails open.
Decision(r) ==
    CASE record.status = "absent" -> "open"
      [] record.status # "absent" /\ record.hash # Hash[r] -> "done"
      [] record.status = "completed" /\ record.hash = Hash[r] -> "done"
      [] record.status = "in_progress" /\ record.hash = Hash[r] ->
            IF record.locked > began[r] THEN "done" ELSE "reacquire"

\* The response a completed row holds for r's body, Nobody's if it holds none.
Stored(r) ==
    IF record.status = "completed" /\ record.hash = Hash[r] THEN record.snapshot ELSE Nobody

\* InsertOrGet's find, and Begin's answer.
Find(r) ==
    /\ pc[r] = "find"
    /\ Goto(r, Decision(r))
    /\ replay' = [replay EXCEPT ![r] = Stored(r)]
    /\ UNCHANGED <<record, began, served, claimed, clock>>

\* Mutant: the update does not look at the lock.
ReacquirableLocked(r) == record.status = "in_progress"

\* The row is one that Reacquire's Update selects for r.
Reacquirable(r) == record.status = "in_progress" /\ record.locked < began[r]

\* Reacquire's Update: it takes the claim over from a holder whose lock lapsed,
\* or affects no row, and then the client gets a 409.
Reacquire(r) ==
    /\ pc[r] = "reacquire"
    /\ \/ /\ Reacquirable(r)
          /\ record' = Claim(r)
          /\ claimed' = claimed \cup {r}
          /\ Goto(r, "reread")
       \/ /\ ~Reacquirable(r)
          /\ Goto(r, "done")
          /\ UNCHANGED <<record, claimed>>
    /\ UNCHANGED <<began, replay, served, clock>>

\* Reacquire's find of the row it just wrote.
Reread(r) ==
    /\ pc[r] = "reread"
    /\ Goto(r, IF record.status = "absent" THEN "done" ELSE "run")
    /\ UNCHANGED <<record, began, replay, served, claimed, clock>>

\* A store call of Begin fails: the wrapper fails open, and what Begin wrote
\* before stays.
FailOpen(r) ==
    /\ "store" \in Faults
    /\ pc[r] \in InBegin
    /\ Goto(r, "open")
    /\ UNCHANGED <<record, began, replay, served, claimed, clock>>

----------------------------------------------------------------------------
(* The handler and Complete. *)

\* The handler runs for the request that holds the claim. It produces a
\* response that can be stored or it does not.
Execute(r) ==
    /\ pc[r] = "run"
    /\ served' \in {served, served \cup {r}}
    /\ Goto(r, "complete")
    /\ UNCHANGED <<record, began, replay, claimed, clock>>

\* Mutant: the response of a request that failed open is recorded.
ExecuteOpenRecorded(r) ==
    /\ pc[r] = "open"
    /\ served' \in {served, served \cup {r}}
    /\ Goto(r, "complete")
    /\ UNCHANGED <<record, began, replay, claimed, clock>>

\* The handler runs without a claim: nothing is recorded.
ExecuteOpen(r) ==
    /\ pc[r] = "open"
    /\ served' \in {served, served \cup {r}}
    /\ Goto(r, "done")
    /\ UNCHANGED <<record, began, replay, claimed, clock>>

\* The row once Complete has written to it: the statement selects by key only,
\* whoever holds the claim. A row that is gone stays gone.
CompletedBy(r) ==
    IF record.status = "absent" THEN record
    ELSE [record EXCEPT !.status = "completed", !.locked = 0,
                        !.snapshot = IF r \in served THEN r ELSE Nobody]

Complete(r) ==
    /\ pc[r] = "complete"
    /\ record' = CompletedBy(r)
    /\ Goto(r, "done")
    /\ UNCHANGED <<began, replay, served, claimed, clock>>

\* Complete runs in the request's context: it fails when the client has left,
\* or when the store does. The error is logged and the claim stays.
CompleteFails(r) ==
    /\ Faults \cap {"store", "disconnect"} # {}
    /\ pc[r] = "complete"
    /\ Goto(r, "done")
    /\ UNCHANGED <<record, began, replay, served, claimed, clock>>

----------------------------------------------------------------------------
(* The surroundings. *)

\* The client leaves during Begin: its statement is canceled, and so is all that
\* the handler does in the same context.
Disconnect(r) ==
    /\ "disconnect" \in Faults
    /\ pc[r] \in InBegin
    /\ Goto(r, "done")
    /\ UNCHANGED <<record, began, replay, served, claimed, clock>>

\* The process that serves r dies.
Crash(r) ==
    /\ "crash" \in Faults
    /\ Alive(r)
    /\ Goto(r, "done")
    /\ UNCHANGED <<record, began, replay, served, claimed, clock>>

\* Mutant: the cleanup worker deletes completed rows only.
DeleteExpiredCompleted ==
    /\ record.status = "completed"
    /\ record.expires < clock
    /\ record' = NoRow
    /\ UNCHANGED <<pc, began, replay, served, claimed, clock>>

\* The cleanup worker deletes the row once it expired, whatever its status.
DeleteExpired ==
    /\ record.status # "absent"
    /\ record.expires < clock
    /\ record' = NoRow
    /\ UNCHANGED <<pc, began, replay, served, claimed, clock>>

\* Time passes; Begin ends within BeginTime and a request within Life.
Tick ==
    /\ clock < MaxTime
    /\ \A r \in Requests : pc[r] \in InBegin => clock < began[r] + BeginTime
    /\ \A r \in Requests : Alive(r) => clock < began[r] + Life
    /\ clock' = clock + 1
    /\ UNCHANGED <<record, pc, began, replay, served, claimed>>

\* What the process does for r when it is scheduled.
Serve(r) ==
    \/ Insert(r) \/ Find(r) \/ Reacquire(r) \/ Reread(r)
    \/ Execute(r) \/ ExecuteOpen(r) \/ Complete(r)

Next ==
    \/ \E r \in Requests :
          Begin(r) \/ Serve(r) \/ FailOpen(r) \/ CompleteFails(r) \/ Disconnect(r) \/ Crash(r)
    \/ DeleteExpired
    \/ Tick

Spec == Init /\ [][Next]_vars

\* Handlers are scheduled, time passes and the cleanup worker keeps its ticker.
FairSpec ==
    /\ Spec
    /\ \A r \in Requests : WF_vars(Serve(r))
    /\ WF_vars(DeleteExpired)
    /\ WF_vars(Tick)

----------------------------------------------------------------------------
(* Properties. *)

\* The values the state can take.
TypeOK ==
    /\ record \in Rows
    /\ pc \in [Requests -> PCs]
    /\ began \in [Requests -> Nat]
    /\ replay \in [Requests -> Requests \cup {Nobody}]
    /\ served \subseteq Requests /\ claimed \subseteq Requests
    /\ clock \in Nat

\* r executes under a claim, or is about to.
Holds(r) == pc[r] \in {"reread", "run", "complete"}

\* The lock r took is not over.
LockLive(r) == clock <= began[r] + LockTTL

\* Of the requests that execute under a claim, at most one is within its lock:
\* a second one gets in only after the first one's locked_until, whatever the
\* interleaving of inserts, take-overs and deletions.
HoldersExclusive ==
    \A r1, r2 \in Requests :
        Holds(r1) /\ Holds(r2) /\ LockLive(r1) /\ LockLive(r2) => r1 = r2

\* owner's response may answer a request with this hash: the handler gave it to
\* a request that Begin let proceed for the same method, path and body.
Answers(owner, hash) == owner \in served \cap claimed /\ Hash[owner] = hash

\* What is replayed, or stored to be, answers the body it is replayed for: a
\* handler that ran because Begin failed open leaves nothing behind, and a late
\* Complete never stores a response in a row that belongs to a different body
\* since, by deletion and insertion or by a take-over.
ReplaySameBody ==
    /\ \A r \in Requests : replay[r] # Nobody => Answers(replay[r], Hash[r])
    /\ record.snapshot # Nobody => Answers(record.snapshot, record.hash)

\* A key is given back in the end: however its holders end (a crash, a lost
\* Complete, a completion), the row is deleted after the last request.
EventuallyForgotten == <>[](record.status = "absent")

\* What the work package promises of a duplicate with the same key and body: it
\* never re-executes. The handler answered at most one of them.
NeverReexecutes ==
    \A r1, r2 \in served : Hash[r1] = Hash[r2] => r1 = r2
=============================================================================
