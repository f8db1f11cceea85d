--------------------------- MODULE AccountProofs ---------------------------
(***************************************************************************)
(* Proofs about what guards a provider account: its scheduling leases      *)
(* (AccountLeases) and its circuit breaker (CircuitBreaker), for any       *)
(* number of requests, accounts and callers and any limits, times and      *)
(* numbers of faults.                                                      *)
(***************************************************************************)
EXTENDS AccountLeases, CircuitBreaker, FiniteSetTheorems, TLAPS

-----------------------------------------------------------------------------
(* Leases: the inductive invariant. *)

\* The key an id was made from.
KeyOf(id) == <<id[1], id[2]>>

LeaseState == [status : {"none", "pending", "ended"}, left : Int]

MarkerState == [count : Int, left : Int, zeroed : BOOLEAN]

ReqState == [pc : {"schedule", "acquire", "attempt", "done"}, attempt : Nat, fallback : Nat,
             account : Accounts \cup {NoAccount}, excluded : SUBSET (Accounts \cup {NoAccount}),
             recorded : BOOLEAN, left : Nat, orphaned : BOOLEAN]

\* A request counts its attempts from one to its limit and has an account
\* from the moment it goes to acquire a lease.
ReqOK(r, q) ==
    /\ q \in ReqState
    /\ q.attempt \in 1..MaxAttempts[r]
    /\ q.pc \in {"acquire", "attempt"} => q.account \in Accounts

StoreTypes ==
    /\ lease \in [Ids -> LeaseState]
    /\ \A id \in Ids : lease[id].left <= TTL
    /\ leaseOf \in [Keys -> Accounts \cup {NoAccount}]
    /\ active \in [Accounts -> SUBSET Ids]
    /\ marker \in [Accounts -> MarkerState]

ReqTypes ==
    /\ DOMAIN req = Requests /\ req = [r \in Requests |-> req[r]]
    /\ \A r \in Requests : ReqOK(r, req[r])
    /\ feedback \subseteq Keys
    /\ scan \subseteq Ids

\* A lease that Redis still keeps is the one filed under its key, and the
\* other way round.
FilingInv ==
    /\ \A id \in Ids : lease[id].left > -Retention => leaseOf[KeyOf(id)] = id[3]
    /\ \A k \in Keys : Kept(k) => lease[Filed(k)].left > -Retention
    /\ \A id \in Ids : lease[id].status = "pending" => lease[id].left > -Retention

\* An account's ZSET holds leases of that account only, pending as long as
\* they are kept, and never more than the limit.
ActiveInv ==
    \A a \in Accounts :
        /\ IsFiniteSet(active[a]) /\ Cardinality(active[a]) <= Max
        /\ \A id \in active[a] :
              id[3] = a /\ (lease[id].left > -Retention => lease[id].status = "pending")

\* Before its first fallback a request has feedback under way for earlier
\* attempts only.
FeedbackInv ==
    \A r \in Requests : req[r].pc # "done" /\ req[r].fallback = 0 =>
        \A k \in Keys : k[1] = r /\ k \in feedback => k[2] < req[r].attempt

\* The lease of a running attempt is in its account's ZSET and outlives what
\* the attempt counts on.
HeldInv ==
    \A r \in Requests :
        req[r].pc = "attempt" /\ req[r].fallback = 0 /\ req[r].left > 0 =>
            /\ LeaseId(Key(r), req[r].account) \in active[req[r].account]
            /\ lease[LeaseId(Key(r), req[r].account)].left >= req[r].left

\* What the metrics endpoint has read is lapsed and still kept.
ScanInv == \A id \in scan : lease[id].left > -Retention /\ Lapsed(id)

\* Somebody answers for every live lease: its attempt runs, its feedback is
\* under way, or the request is known to leave one behind.
AnsweredInv ==
    \A a \in Accounts : \A id \in active[a] : ~Lapsed(id) =>
        \/ req[id[1]].orphaned
        \/ KeyOf(id) \in feedback
        \/ req[id[1]].pc = "attempt" /\ req[id[1]].attempt = id[2]

LeaseInv ==
    /\ StoreTypes /\ ReqTypes
    /\ FilingInv /\ ActiveInv /\ FeedbackInv /\ HeldInv /\ ScanInv /\ AnsweredInv

Live(a) == {id \in active[a] : ~Lapsed(id)}

\* A marker outlives every live lease of its account, and counts them unless
\* it was set to zero.
MarkerInv ==
    \A a \in Accounts :
        /\ \A id \in active[a] : ~Lapsed(id) => lease[id].left <= marker[a].left
        /\ marker[a].zeroed \/ marker[a].count >= Cardinality(Live(a))

-----------------------------------------------------------------------------
(* Leases: keys and ids. *)

LEMMA IdOfKey ==
    ASSUME NEW k \in Keys, NEW a \in Accounts
    PROVE  /\ LeaseId(k, a) \in Ids /\ KeyOf(LeaseId(k, a)) = k
           /\ LeaseId(k, a)[1] = k[1] /\ LeaseId(k, a)[2] = k[2] /\ LeaseId(k, a)[3] = a
<1>1. k = <<k[1], k[2]>>
  BY DEF Keys
<1> QED BY <1>1 DEF LeaseId, KeyOf, Ids

LEMMA KeyOfId ==
    ASSUME NEW id \in Ids
    PROVE  /\ KeyOf(id) \in Keys /\ id[3] \in Accounts /\ id = LeaseId(KeyOf(id), id[3])
           /\ id[1] \in Requests /\ KeyOf(id)[1] = id[1] /\ KeyOf(id)[2] = id[2]
<1>1. PICK k \in Keys, a \in Accounts : id = LeaseId(k, a)
  BY DEF Ids
<1>2. KeyOf(id) = k /\ id[3] = a /\ id[1] = k[1] /\ id[2] = k[2]
  BY <1>1, IdOfKey
<1>3. k[1] \in Requests
  BY DEF Keys
<1> QED BY <1>1, <1>2, <1>3

LEMMA KeyFacts ==
    ASSUME ReqTypes, NEW r \in Requests
    PROVE  /\ Key(r) \in Keys /\ Key(r)[1] = r /\ Key(r)[2] = req[r].attempt
           /\ req[r].attempt \in Nat /\ MaxAttempts[r] \in Nat
<1>1. MaxAttempts[r] \in Nat
  BY NumbersAssumption
<1>2. req[r].attempt \in 1..MaxAttempts[r] /\ req[r].attempt \in Nat
  BY DEF ReqTypes, ReqOK, ReqState
<1>3. req[r].attempt \in Attempts
  BY <1>2 DEF Attempts
<1> QED BY <1>1, <1>2, <1>3 DEF Key, Keys

LEMMA KeptFacts ==
    ASSUME StoreTypes, NEW k \in Keys, Kept(k)
    PROVE  /\ leaseOf[k] \in Accounts /\ Filed(k) \in Ids /\ KeyOf(Filed(k)) = k
           /\ Filed(k)[3] = leaseOf[k] /\ Filed(k)[1] = k[1] /\ Filed(k)[2] = k[2]
<1>1. leaseOf[k] \in Accounts
  BY DEF Kept, StoreTypes
<1> QED BY <1>1, IdOfKey DEF Filed

-----------------------------------------------------------------------------
(* Leases: what the scripts do to the store. *)

\* The leases in X, and no others, end and leave the ZSETs.
Ends(X) ==
    /\ leaseOf' = leaseOf
    /\ lease' \in [Ids -> LeaseState]
    /\ \A id \in Ids : lease'[id].left = lease[id].left
    /\ \A id \in Ids : lease'[id].status \in {lease[id].status, "ended"}
    /\ \A id \in Ids \ X : lease'[id] = lease[id]
    /\ active' \in [Accounts -> SUBSET Ids]
    /\ \A a \in Accounts : active'[a] = active[a] \ X

\* Every marker is as before, or says what its ZSET holds now, or is zeroed;
\* in the last two cases for at least Retention.
Marks ==
    /\ marker' \in [Accounts -> MarkerState]
    /\ \A a \in Accounts :
          \/ marker'[a] = marker[a]
          \/ /\ marker'[a].left >= Retention
             /\ marker'[a].zeroed \/ marker'[a].count = Cardinality(active'[a])

LEMMA UntouchedEnds ==
    ASSUME StoreTypes, UNCHANGED store
    PROVE  Ends({}) /\ Marks
  BY DEF StoreTypes, store, Ends, Marks

LEMMA CountType ==
    ASSUME ActiveInv, NEW a \in Accounts, NEW S, S \subseteq active[a]
    PROVE  /\ IsFiniteSet(S) /\ Cardinality(S) \in Nat
           /\ Cardinality(S) <= Cardinality(active[a]) /\ Cardinality(active[a]) <= Max
           /\ Max \in Nat /\ Cardinality(active[a]) \in Nat
<1>1. IsFiniteSet(active[a]) /\ Cardinality(active[a]) <= Max /\ Max \in Nat
  BY NumbersAssumption DEF ActiveInv
<1> QED BY <1>1, FS_Subset, FS_CardinalityType

\* updateLeaseScript ends the lease filed under k, if there is one.
LEMMA UpdateEnds ==
    ASSUME LeaseInv, NEW k \in Keys, UpdateLeaseStatus(k)
    PROVE  /\ Marks
           /\ \E X : /\ Ends(X) /\ X \subseteq Ids
                     /\ \A id \in X : KeyOf(id) = k
                     /\ \A id \in Ids : KeyOf(id) = k /\ lease[id].left > -Retention => id \in X
<1> USE DEF LeaseInv
<1>1. CASE ~Kept(k)
  <2>1. Ends({}) /\ Marks
    BY <1>1, UntouchedEnds DEF UpdateLeaseStatus
  <2>2. \A id \in Ids : KeyOf(id) = k => ~(lease[id].left > -Retention)
    <3> SUFFICES ASSUME NEW id \in Ids, KeyOf(id) = k, lease[id].left > -Retention PROVE FALSE
      OBVIOUS
    <3>1. leaseOf[k] = id[3] /\ id[3] \in Accounts
      BY KeyOfId DEF FilingInv
    <3> QED BY <1>1, <3>1, AccountsAssumption DEF Kept
  <2> QED BY <2>1, <2>2
<1>2. CASE Kept(k)
  <2> DEFINE id == Filed(k)
             a == leaseOf[k]
             pending == lease[id].status = "pending"
             left == IF pending THEN active[a] \ {id} ELSE active[a]
  <2>1. /\ lease' = [lease EXCEPT ![id].status = "ended"]
        /\ active' = [active EXCEPT ![a] = left]
        /\ marker' = [marker EXCEPT ![a] =
                        [count |-> Cardinality(left), left |-> Retention, zeroed |-> FALSE]]
        /\ leaseOf' = leaseOf
    BY <1>2 DEF UpdateLeaseStatus, SetMarker
  <2>2. a \in Accounts /\ id \in Ids /\ KeyOf(id) = k /\ id[3] = a
    BY <1>2, KeptFacts
  <2>3. lease[id].left > -Retention
    BY <1>2 DEF FilingInv
  <2>4. left = active[a] \ {id}
    BY <2>2, <2>3 DEF ActiveInv
  <2>5. lease \in [Ids -> LeaseState] /\ active \in [Accounts -> SUBSET Ids]
    BY DEF StoreTypes
  <2> HIDE DEF left
  <2>6. \A b \in Accounts : active'[b] = active[b] \ {id}
    <3> SUFFICES ASSUME NEW b \in Accounts PROVE active'[b] = active[b] \ {id}
      OBVIOUS
    <3>1. b # a => id \notin active[b]
      BY <2>2 DEF ActiveInv
    <3> QED BY <2>1, <2>2, <2>4, <2>5, <3>1
  <2>7. Ends({id})
    <3>1. lease' \in [Ids -> LeaseState]
      BY <2>1, <2>2, <2>5 DEF LeaseState
    <3>2. \A i \in Ids : /\ lease'[i].left = lease[i].left
                         /\ lease'[i].status \in {lease[i].status, "ended"}
                         /\ i # id => lease'[i] = lease[i]
      BY <2>1, <2>2, <2>5 DEF LeaseState
    <3>3. active' \in [Accounts -> SUBSET Ids]
      BY <2>1, <2>2, <2>4, <2>5
    <3> QED BY <2>1, <2>6, <3>1, <3>2, <3>3 DEF Ends
  <2>8. Marks
    <3>1. Cardinality(left) \in Nat
      BY <2>2, <2>4, CountType
    <3>2. Retention \in Nat /\ marker \in [Accounts -> MarkerState]
      BY NumbersAssumption DEF StoreTypes
    <3>3. active'[a] = left
      BY <2>1, <2>2, <2>5
    <3>4. [count |-> Cardinality(left), left |-> Retention, zeroed |-> FALSE] \in MarkerState
      BY <3>1, <3>2 DEF MarkerState
    <3>5. marker' \in [Accounts -> MarkerState]
      BY <2>1, <2>2, <3>2, <3>4
    <3>6. \A b \in Accounts : b # a => marker'[b] = marker[b]
      BY <2>1, <2>2, <3>2
    <3>7. marker'[a] = [count |-> Cardinality(left), left |-> Retention, zeroed |-> FALSE]
      BY <2>1, <2>2, <3>2
    <3>8. marker'[a].left = Retention /\ marker'[a].count = Cardinality(active'[a])
      BY <3>3, <3>7
    <3> QED BY <3>2, <3>5, <3>6, <3>8 DEF Marks
  <2>9. \A i \in Ids : KeyOf(i) = k /\ lease[i].left > -Retention => i \in {id}
    <3> SUFFICES ASSUME NEW i \in Ids, KeyOf(i) = k, lease[i].left > -Retention PROVE i = id
      OBVIOUS
    <3>1. leaseOf[k] = i[3]
      BY DEF FilingInv
    <3>2. i = LeaseId(k, leaseOf[k])
      BY <3>1, KeyOfId
    <3> QED BY <3>2 DEF Filed
  <2>10. {id} \subseteq Ids /\ \A i \in {id} : KeyOf(i) = k
    BY <2>2
  <2> HIDE DEF id
  <2> QED BY <2>7, <2>8, <2>9, <2>10
<1> QED BY <1>1, <1>2

\* What acquireLeaseScript does before it looks for room.
LEMMA SweepFacts ==
    ASSUME LeaseInv, NEW a \in Accounts
    PROVE  /\ Swept(a) \subseteq active[a] /\ Swept(a) \subseteq Ids
           /\ \A id \in Swept(a) : Lapsed(id)
           /\ Expire(Swept(a)) \in [Ids -> LeaseState]
           /\ \A id \in Ids : /\ Expire(Swept(a))[id].left = lease[id].left
                              /\ Expire(Swept(a))[id].status \in {lease[id].status, "ended"}
                              /\ id \notin Swept(a) => Expire(Swept(a))[id] = lease[id]
           /\ \A b \in Accounts : b # a => active[b] \ Swept(a) = active[b]
<1>1. /\ lease \in [Ids -> LeaseState] /\ active \in [Accounts -> SUBSET Ids]
      /\ Swept(a) \subseteq active[a] /\ \A id \in Swept(a) : Lapsed(id)
  BY DEF LeaseInv, StoreTypes, Swept
<1>2. PICK S : S = Swept(a)
  OBVIOUS
<1>3. /\ Expire(S) \in [Ids -> LeaseState]
      /\ \A id \in Ids : /\ Expire(S)[id].left = lease[id].left
                         /\ Expire(S)[id].status \in {lease[id].status, "ended"}
                         /\ id \notin S => Expire(S)[id] = lease[id]
  BY <1>1 DEF Expire, LeaseState
<1>4. \A b \in Accounts : b # a => active[b] \ Swept(a) = active[b]
  BY <1>1 DEF LeaseInv, ActiveInv
<1> QED BY <1>1, <1>2, <1>3, <1>4

LEMMA SweptEnds ==
    ASSUME LeaseInv, NEW a \in Accounts,
           lease' = Expire(Swept(a)), active' = [active EXCEPT ![a] = @ \ Swept(a)],
           leaseOf' = leaseOf
    PROVE  Ends(Swept(a)) /\ active'[a] = active[a] \ Swept(a)
<1>1. active \in [Accounts -> SUBSET Ids]
  BY DEF LeaseInv, StoreTypes
<1>2. PICK S : S = Swept(a)
  OBVIOUS
<1>3. \A b \in Accounts : active'[b] = active[b] \ S
  BY <1>1, <1>2, SweepFacts
<1>4. active' \in [Accounts -> SUBSET Ids]
  BY <1>1, <1>2
<1>5. PICK e : e = Expire(S)
  OBVIOUS
<1>6. /\ e \in [Ids -> LeaseState] /\ lease' = e
      /\ \A id \in Ids : /\ e[id].left = lease[id].left
                         /\ e[id].status \in {lease[id].status, "ended"}
                         /\ id \notin S => e[id] = lease[id]
  BY <1>2, <1>5, SweepFacts
<1>7. Ends(S)
  BY <1>3, <1>4, <1>6 DEF Ends
<1> QED BY <1>2, <1>3, <1>7

LEMMA ExistsEnds ==
    ASSUME LeaseInv, NEW r \in Requests, NEW a \in Accounts, LeaseExists(r, a)
    PROVE  Ends(Swept(a)) /\ Marks
<1>1. Ends(Swept(a))
  BY SweptEnds DEF LeaseExists
<1>2. marker' = marker
  BY DEF LeaseExists
<1> QED BY <1>1, <1>2 DEF Marks, LeaseInv, StoreTypes

\* A marker set to what the ZSET of account a holds now.
LEMMA SetMarks ==
    ASSUME LeaseInv, NEW a \in Accounts, NEW n \in Nat, NEW t \in Nat, NEW z \in BOOLEAN,
           t >= Retention, z \/ n = Cardinality(active'[a]),
           marker' = [marker EXCEPT ![a] = [count |-> n, left |-> t, zeroed |-> z]]
    PROVE  Marks
<1>1. marker \in [Accounts -> MarkerState]
  BY DEF LeaseInv, StoreTypes
<1>2. PICK m : m = [count |-> n, left |-> t, zeroed |-> z]
  OBVIOUS
<1>3. m \in MarkerState /\ m.count = n /\ m.left = t /\ (z => m.zeroed)
  BY <1>2 DEF MarkerState
<1>4. marker' = [marker EXCEPT ![a] = m]
  BY <1>2
<1>5. marker' \in [Accounts -> MarkerState] /\ marker'[a] = m
  BY <1>1, <1>3, <1>4
<1>6. \A b \in Accounts : b # a => marker'[b] = marker[b]
  BY <1>1, <1>4
<1>7. marker'[a].left >= Retention /\ (marker'[a].zeroed \/ marker'[a].count = Cardinality(active'[a]))
  BY <1>3, <1>5
<1> QED BY <1>5, <1>6, <1>7 DEF Marks

LEMMA FullEnds ==
    ASSUME LeaseInv, NEW r \in Requests, NEW a \in Accounts, LeaseFull(r, a)
    PROVE  Ends(Swept(a)) /\ Marks
<1>1. PICK left : left = active[a] \ Swept(a)
  OBVIOUS
<1>2. /\ lease' = Expire(Swept(a)) /\ leaseOf' = leaseOf
      /\ active' = [active EXCEPT ![a] = left]
      /\ marker' = [marker EXCEPT ![a] =
                      [count |-> Cardinality(left), left |-> TTL + Retention, zeroed |-> FALSE]]
  BY <1>1 DEF LeaseFull, SetMarker
<1>3. Ends(Swept(a)) /\ active'[a] = left
  BY <1>1, <1>2, SweptEnds
<1>4. Cardinality(left) \in Nat
  BY <1>1, CountType DEF LeaseInv
<1>5. TTL + Retention \in Nat /\ TTL + Retention >= Retention
  BY NumbersAssumption
<1>6. Marks
  BY <1>2, <1>3, <1>4, <1>5, SetMarks
<1> QED BY <1>3, <1>6

LEMMA MarkExpiredEnds ==
    ASSUME LeaseInv, NEW id \in Ids, MarkExpired(id)
    PROVE  Ends({id}) /\ Marks /\ Lapsed(id)
<1>1. id \in scan /\ id[3] \in Accounts
  BY KeyOfId DEF MarkExpired
<1>2. Lapsed(id)
  BY <1>1 DEF LeaseInv, ScanInv
<1>3. lease \in [Ids -> LeaseState] /\ active \in [Accounts -> SUBSET Ids]
  BY DEF LeaseInv, StoreTypes
<1>4. /\ lease' = [lease EXCEPT ![id].status = "ended"] /\ leaseOf' = leaseOf
      /\ active' = [active EXCEPT ![id[3]] = @ \ {id}]
  BY DEF MarkExpired
<1>5. \A b \in Accounts : b # id[3] => id \notin active[b]
  BY DEF LeaseInv, ActiveInv
<1>6. \A b \in Accounts : active'[b] = active[b] \ {id}
  <2> SUFFICES ASSUME NEW b \in Accounts PROVE active'[b] = active[b] \ {id}
    OBVIOUS
  <2> QED BY <1>1, <1>3, <1>4, <1>5
<1>7. active' \in [Accounts -> SUBSET Ids]
  BY <1>1, <1>3, <1>4
<1>8. /\ lease' \in [Ids -> LeaseState]
      /\ \A i \in Ids : /\ lease'[i].left = lease[i].left
                        /\ lease'[i].status \in {lease[i].status, "ended"}
                        /\ i # id => lease'[i] = lease[i]
  BY <1>3, <1>4 DEF LeaseState
<1>9. Ends({id})
  BY <1>4, <1>6, <1>7, <1>8 DEF Ends
<1>10. Marks
  <2>1. Retention \in Nat
    BY NumbersAssumption
  <2>2. marker' = [marker EXCEPT ![id[3]] = [count |-> 0, left |-> Retention, zeroed |-> TRUE]]
    BY DEF MarkExpired
  <2>3. PICK z \in BOOLEAN : z = TRUE
    OBVIOUS
  <2>4. PICK n \in Nat : n = 0
    OBVIOUS
  <2>5. PICK a \in Accounts : a = id[3]
    BY <1>1
  <2>6. marker' = [marker EXCEPT ![a] = [count |-> n, left |-> Retention, zeroed |-> z]]
    BY <2>2, <2>3, <2>4, <2>5
  <2>7. z \/ n = Cardinality(active'[a])
    BY <2>3
  <2>8. Retention >= Retention
    BY <2>1
  <2> QED BY <2>1, <2>6, <2>7, <2>8, SetMarks
<1> QED BY <1>2, <1>9, <1>10

-----------------------------------------------------------------------------
(* Leases: ending leases preserves what is said of the store. *)

LEMMA EndsKeepStore ==
    ASSUME LeaseInv, NEW X, Ends(X), Marks
    PROVE  StoreTypes' /\ FilingInv' /\ ActiveInv'
<1> USE DEF LeaseInv
<1>1. StoreTypes'
  BY DEF StoreTypes, Ends, Marks
<1>2. FilingInv'
  <2>1. \A k : Kept(k)' = Kept(k) /\ Filed(k)' = Filed(k)
    BY DEF Ends, Kept, Filed
  <2>2. \A k \in Keys : Kept(k) => Filed(k) \in Ids
    BY KeptFacts
  <2>3. \A id \in Ids : lease'[id].left = lease[id].left
    BY DEF Ends
  <2>4. \A id \in Ids : lease'[id].status = "pending" => lease[id].status = "pending"
    BY DEF Ends
  <2>5. \A k : leaseOf'[k] = leaseOf[k]
    BY DEF Ends
  <2> QED BY <2>1, <2>2, <2>3, <2>4, <2>5 DEF FilingInv
<1>3. ActiveInv'
  <2> SUFFICES ASSUME NEW a \in Accounts
               PROVE  /\ IsFiniteSet(active'[a]) /\ Cardinality(active'[a]) <= Max
                      /\ \A id \in active'[a] :
                            id[3] = a /\ (lease'[id].left > -Retention => lease'[id].status = "pending")
    BY DEF ActiveInv
  <2>1. active'[a] \subseteq active[a] /\ active'[a] \subseteq Ids \ X
    BY DEF Ends, StoreTypes
  <2>2. IsFiniteSet(active'[a]) /\ Cardinality(active'[a]) <= Max
    <3>1. /\ Cardinality(active'[a]) \in Nat /\ Cardinality(active[a]) \in Nat /\ Max \in Nat
          /\ Cardinality(active'[a]) <= Cardinality(active[a]) /\ Cardinality(active[a]) <= Max
          /\ IsFiniteSet(active'[a])
      BY <2>1, CountType
    <3> QED BY <3>1
  <2>3. \A id \in active'[a] : lease'[id] = lease[id] /\ id \in active[a]
    BY <2>1 DEF Ends
  <2> QED BY <2>2, <2>3 DEF ActiveInv
<1> QED BY <1>1, <1>2, <1>3

LEMMA EndsKeepScan ==
    ASSUME LeaseInv, NEW X, Ends(X), scan' \subseteq scan
    PROVE  ScanInv'
<1>1. \A id \in scan' : id \in Ids /\ lease'[id].left = lease[id].left
  BY DEF LeaseInv, ReqTypes, Ends
<1> QED BY <1>1 DEF LeaseInv, ScanInv, Lapsed

LEMMA EndsKeepMarkers ==
    ASSUME LeaseInv, MarkerInv, TTL <= Retention, NEW X, Ends(X), Marks
    PROVE  MarkerInv'
<1> SUFFICES ASSUME NEW a \in Accounts
             PROVE  /\ \A id \in active'[a] : ~Lapsed(id)' => lease'[id].left <= marker'[a].left
                    /\ marker'[a].zeroed \/ marker'[a].count >= Cardinality(Live(a)')
  BY DEF MarkerInv
<1>0. /\ TTL \in Nat /\ Retention \in Nat
      /\ marker[a] \in MarkerState /\ marker'[a] \in MarkerState
      /\ \A id \in Ids : lease[id] \in LeaseState /\ lease[id].left <= TTL /\ lease[id].left \in Int
  BY NumbersAssumption DEF LeaseInv, StoreTypes, Marks, LeaseState
<1>1. active'[a] \subseteq active[a] /\ active[a] \subseteq Ids
  BY DEF LeaseInv, StoreTypes, Ends
<1>2. \A id \in active'[a] : lease'[id].left = lease[id].left /\ Lapsed(id)' = Lapsed(id)
  BY <1>1 DEF Ends, Lapsed
<1>3. Live(a)' = {id \in active'[a] : ~Lapsed(id)}
  BY <1>2 DEF Live
<1>4. /\ Cardinality(Live(a)') \in Nat /\ Cardinality(Live(a)) \in Nat
      /\ Cardinality(active'[a]) \in Nat
      /\ Cardinality(Live(a)') <= Cardinality(Live(a))
      /\ Cardinality(Live(a)') <= Cardinality(active'[a])
  <2>1. Live(a)' \subseteq Live(a) /\ Live(a) \subseteq active[a] /\ Live(a)' \subseteq active'[a]
    BY <1>1, <1>3 DEF Live
  <2>2. IsFiniteSet(active[a])
    BY DEF LeaseInv, ActiveInv
  <2>3. IsFiniteSet(Live(a)) /\ IsFiniteSet(active'[a])
    BY <2>1, <2>2, <1>1, FS_Subset
  <2> QED BY <2>1, <2>3, FS_Subset, FS_CardinalityType
<1>5. CASE marker'[a] = marker[a]
  <2>1. \A id \in active'[a] : ~Lapsed(id)' => lease'[id].left <= marker'[a].left
    BY <1>1, <1>2, <1>5 DEF MarkerInv
  <2>2. marker[a].zeroed \/ marker[a].count >= Cardinality(Live(a))
    BY DEF MarkerInv
  <2>3. marker[a].count \in Int
    BY <1>0 DEF MarkerState
  <2>4. marker'[a].zeroed \/ marker'[a].count >= Cardinality(Live(a)')
    BY <1>4, <1>5, <2>2, <2>3
  <2> QED BY <2>1, <2>4
<1>6. CASE /\ marker'[a].left >= Retention
           /\ marker'[a].zeroed \/ marker'[a].count = Cardinality(active'[a])
  <2>1. marker'[a].left \in Int
    BY <1>0 DEF MarkerState
  <2>2. \A id \in active'[a] : lease'[id].left <= marker'[a].left
    BY <1>0, <1>1, <1>2, <1>6, <2>1
  <2>3. marker'[a].zeroed \/ marker'[a].count >= Cardinality(Live(a)')
    BY <1>4, <1>6
  <2> QED BY <2>2, <2>3
<1> QED BY <1>5, <1>6 DEF Marks

-----------------------------------------------------------------------------
(* Leases: the steps of a request that do not acquire. *)

\* Request r becomes q, which is not an attempt: it stays where it was, goes
\* on to its next attempt, starts a fallback or is done.
Moves(r, q) ==
    /\ ReqOK(r, q) /\ q.pc # "attempt"
    /\ req' = [req EXCEPT ![r] = q]
    /\ req[r].orphaned => q.orphaned
    /\ q.pc # "done" /\ q.fallback = 0 =>
          /\ req[r].pc # "done" /\ req[r].fallback = 0
          /\ \/ q.attempt = req[r].attempt + 1
             \/ q.attempt = req[r].attempt /\ req[r].pc # "attempt"

\* Nobody but r loses a live lease when the leases in X end.
EndsOf(r, X) ==
    /\ Ends(X) /\ X \subseteq Ids
    /\ \A id \in X : Lapsed(id) \/ KeyOf(id) = Key(r)

LEMMA ReqFacts ==
    ASSUME ReqTypes, NEW r \in Requests, NEW q, req' = [req EXCEPT ![r] = q]
    PROVE  /\ req'[r] = q /\ \A s \in Requests : s # r => req'[s] = req[s]
           /\ DOMAIN req' = Requests /\ req' = [s \in Requests |-> req'[s]]
  BY DEF ReqTypes

LEMMA LiveLasts ==
    ASSUME StoreTypes, NEW id \in Ids, ~Lapsed(id)
    PROVE  lease[id].left > -Retention /\ lease[id].left > 0 /\ lease[id].left \in Int
  BY NumbersAssumption DEF StoreTypes, LeaseState, Lapsed

LEMMA MoveKeeps ==
    ASSUME LeaseInv, NEW r \in Requests, NEW q, Moves(r, q),
           NEW X, EndsOf(r, X), Marks, scan' = scan,
           \/ feedback' = feedback
           \/ feedback' = feedback \cup {Key(r)} /\ req[r].pc = "attempt",
           req[r].pc = "attempt" =>
              \/ q.orphaned
              \/ Key(r) \in feedback'
              \/ \A id \in Ids : KeyOf(id) = Key(r) /\ lease[id].left > -Retention => id \in X
    PROVE  LeaseInv'
<1>0. /\ StoreTypes /\ ReqTypes /\ FilingInv /\ ActiveInv /\ FeedbackInv /\ HeldInv /\ ScanInv
      /\ AnsweredInv /\ Ends(X)
  BY DEF LeaseInv, EndsOf
<1>1. StoreTypes' /\ FilingInv' /\ ActiveInv' /\ ScanInv'
  BY <1>0, EndsKeepStore, EndsKeepScan
<1>2. /\ req'[r] = q /\ \A s \in Requests : s # r => req'[s] = req[s]
      /\ DOMAIN req' = Requests /\ req' = [s \in Requests |-> req'[s]]
  BY <1>0, ReqFacts DEF Moves
<1>3. \A s \in Requests : /\ Key(s) \in Keys /\ Key(s)[1] = s /\ Key(s)[2] = req[s].attempt
                          /\ req[s].attempt \in Nat
  BY <1>0, KeyFacts
<1>4. \A s \in Requests : s # r => Key(s)' = Key(s)
  BY <1>2 DEF Key
<1>5. ReqTypes'
  <2>1. \A s \in Requests : ReqOK(s, req'[s])
    BY <1>0, <1>2 DEF ReqTypes, Moves
  <2>2. feedback' \subseteq Keys /\ scan' \subseteq Ids
    BY <1>0, <1>3 DEF ReqTypes
  <2> QED BY <1>2, <2>1, <2>2 DEF ReqTypes, ReqOK
<1>6. FeedbackInv'
  <2> SUFFICES ASSUME NEW s \in Requests, req'[s].pc # "done", req'[s].fallback = 0,
                      NEW k \in Keys, k[1] = s, k \in feedback'
               PROVE  k[2] < req'[s].attempt
    BY DEF FeedbackInv
  <2>2. k[2] \in Nat
    BY NumbersAssumption DEF Keys, Attempts
  <2>3. CASE s # r
    BY <1>0, <1>2, <1>3, <2>3 DEF FeedbackInv
  <2>4. CASE s = r
    <3>1. /\ req[r].pc # "done" /\ req[r].fallback = 0
          /\ \/ q.attempt = req[r].attempt + 1
             \/ q.attempt = req[r].attempt /\ req[r].pc # "attempt"
      BY <1>2, <2>4 DEF Moves
    <3>2. k \in feedback => k[2] < req[r].attempt
      BY <1>0, <2>4, <3>1 DEF FeedbackInv
    <3> QED BY <1>2, <1>3, <2>2, <2>4, <3>1, <3>2
  <2> QED BY <2>3, <2>4
<1>7. HeldInv'
  <2> SUFFICES ASSUME NEW s \in Requests, req'[s].pc = "attempt", req'[s].fallback = 0,
                      req'[s].left > 0
               PROVE  /\ LeaseId(Key(s)', req'[s].account) \in active'[req'[s].account]
                      /\ lease'[LeaseId(Key(s)', req'[s].account)].left >= req'[s].left
    BY DEF HeldInv
  <2>1. s # r
    BY <1>2 DEF Moves
  <2>2. PICK a \in Accounts : a = req[s].account
    BY <1>0, <1>2, <2>1 DEF ReqTypes, ReqOK
  <2>3. PICK id \in Ids : id = LeaseId(Key(s), a)
    BY <1>3, IdOfKey
  <2>4. /\ id \in active[a] /\ lease[id].left >= req[s].left /\ req[s].left > 0
        /\ req[s].left \in Nat
    BY <1>0, <1>2, <2>1, <2>2, <2>3 DEF HeldInv, ReqTypes, ReqOK, ReqState
  <2>5. id \notin X
    <3>1. KeyOf(id)[1] = s
      BY <1>3, <2>2, <2>3, IdOfKey
    <3>2. KeyOf(id) # Key(r)
      BY <1>3, <2>1, <3>1
    <3>3. lease[id].left \in Int
      BY <1>0 DEF StoreTypes, LeaseState
    <3>4. ~Lapsed(id)
      BY <2>4, <3>3 DEF Lapsed
    <3> QED BY <3>2, <3>4 DEF EndsOf
  <2>6. id \in active'[a] /\ lease'[id].left = lease[id].left
    BY <1>0, <2>4, <2>5 DEF Ends
  <2> QED BY <1>2, <1>4, <2>1, <2>2, <2>3, <2>4, <2>6
<1>8. AnsweredInv'
  <2> SUFFICES ASSUME NEW a \in Accounts, NEW id \in active'[a], ~Lapsed(id)'
               PROVE  \/ req'[id[1]].orphaned
                      \/ KeyOf(id) \in feedback'
                      \/ req'[id[1]].pc = "attempt" /\ req'[id[1]].attempt = id[2]
    BY DEF AnsweredInv, KeyOf
  <2>1. id \in active[a] /\ id \in Ids /\ id \notin X /\ lease'[id].left = lease[id].left
    BY <1>0 DEF Ends, StoreTypes
  <2>2. ~Lapsed(id)
    BY <2>1 DEF Lapsed
  <2>3. \/ req[id[1]].orphaned
        \/ KeyOf(id) \in feedback
        \/ req[id[1]].pc = "attempt" /\ req[id[1]].attempt = id[2]
    BY <1>0, <2>1, <2>2 DEF AnsweredInv
  <2>4. id[1] \in Requests /\ KeyOf(id)[1] = id[1] /\ KeyOf(id)[2] = id[2]
    BY <2>1, KeyOfId
  <2>5. feedback \subseteq feedback'
    OBVIOUS
  <2>6. CASE id[1] # r
    BY <1>2, <2>3, <2>4, <2>5, <2>6
  <2>7. CASE id[1] = r
    <3>1. CASE req[r].orphaned
      BY <1>2, <2>7, <3>1 DEF Moves
    <3>2. CASE KeyOf(id) \in feedback
      BY <2>5, <3>2
    <3>3. CASE req[r].pc = "attempt" /\ req[r].attempt = id[2]
      <4>1. KeyOf(id) = Key(r)
        BY <2>7, <3>3 DEF KeyOf, Key
      <4>2. lease[id].left > -Retention
        BY <1>0, <2>1, <2>2, LiveLasts
      <4>3. q.orphaned \/ Key(r) \in feedback'
        BY <2>1, <3>3, <4>1, <4>2
      <4> QED BY <1>2, <2>7, <4>1, <4>3
    <3> QED BY <2>3, <2>7, <3>1, <3>2, <3>3
  <2> QED BY <2>6, <2>7
<1> QED BY <1>1, <1>5, <1>6, <1>7, <1>8 DEF LeaseInv

LEMMA ReqParts ==
    ASSUME ReqTypes, NEW r \in Requests
    PROVE  /\ req[r] \in ReqState /\ req[r].attempt \in 1..MaxAttempts[r]
           /\ MaxAttempts[r] \in Nat \ {0} /\ req[r].account \in Accounts \cup {NoAccount}
           /\ req[r].excluded \subseteq Accounts \cup {NoAccount}
           /\ req[r].pc \in {"acquire", "attempt"} => req[r].account \in Accounts
  BY NumbersAssumption DEF ReqTypes, ReqOK, ReqState

\* The request is answered.
LEMMA AnswerMoves ==
    ASSUME ReqTypes, NEW r \in Requests, NEW o \in BOOLEAN, Answer(r, o)
    PROVE  \E q : Moves(r, q) /\ (o => q.orphaned)
<1>1. req' = [req EXCEPT ![r] = Over(r, o)]
  BY DEF Answer
<1>2. PICK b \in BOOLEAN : b = (o \/ req[r].orphaned)
  OBVIOUS
<1>3. PICK q : q = [Idle EXCEPT !.pc = "done", !.orphaned = b]
  OBVIOUS
<1>4. Over(r, o) = q
  BY <1>2, <1>3, Zenon DEF Over
<1>5. q \in ReqState /\ q.pc = "done" /\ q.attempt = 1 /\ q.orphaned = b
  BY <1>3 DEF ReqState, Idle
<1>6. ReqOK(r, q)
  BY <1>5, NumbersAssumption DEF ReqOK
<1>7. o \/ req[r].orphaned => q.orphaned
  BY <1>2, <1>5
<1>8. Moves(r, q)
  BY <1>1, <1>4, <1>5, <1>6, <1>7 DEF Moves
<1> QED BY <1>7, <1>8

\* The next candidate is tried under the next attempt number.
LEMMA NextMoves ==
    ASSUME ReqTypes, NEW r \in Requests, req[r].pc # "done", NEW b \in BOOLEAN, NEW o \in BOOLEAN,
           NextCandidate(r, b, o)
    PROVE  \E q : Moves(r, q) /\ (o => q.orphaned)
<1>0. PICK c \in BOOLEAN : c = (req[r].orphaned \/ o)
  OBVIOUS
<1>1. PICK q : q = [req[r] EXCEPT !.pc = "schedule", !.attempt = req[r].attempt + 1, !.left = 0,
                      !.recorded = b, !.excluded = req[r].excluded \cup {req[r].account},
                      !.orphaned = c]
  OBVIOUS
<1>2. req' = [req EXCEPT ![r] = q] /\ req[r].attempt < MaxAttempts[r]
  BY <1>0, <1>1 DEF NextCandidate, ReqTypes
<1>3. q \in ReqState /\ q.pc = "schedule" /\ q.attempt = req[r].attempt + 1
      /\ q.fallback = req[r].fallback /\ q.orphaned = c
  <2>1. PICK n \in Nat : n = req[r].attempt + 1
    BY ReqParts DEF ReqState
  <2>2. PICK e \in SUBSET (Accounts \cup {NoAccount}) : e = req[r].excluded \cup {req[r].account}
    BY ReqParts
  <2>3. q = [req[r] EXCEPT !.pc = "schedule", !.attempt = n, !.left = 0, !.recorded = b,
                           !.excluded = e, !.orphaned = c]
    BY <1>1, <2>1, <2>2
  <2>4. req[r] \in ReqState
    BY ReqParts
  <2> QED BY <2>1, <2>3, <2>4 DEF ReqState
<1>4. ReqOK(r, q)
  BY <1>2, <1>3, ReqParts DEF ReqOK
<1>5. o \/ req[r].orphaned => q.orphaned
  BY <1>0, <1>3
<1>6. Moves(r, q)
  BY <1>2, <1>3, <1>4, <1>5 DEF Moves
<1> QED BY <1>5, <1>6

\* A fallback model starts the loop again.
LEMMA LoopEndsMoves ==
    ASSUME ReqTypes, NEW r \in Requests, NEW b \in BOOLEAN, NEW o \in BOOLEAN, LoopEnds(r, b, o)
    PROVE  \E q : Moves(r, q) /\ (o => q.orphaned)
<1>1. CASE Answer(r, o)
  BY <1>1, AnswerMoves
<1>2. CASE req' = [req EXCEPT ![r].pc = "schedule", ![r].attempt = 1, ![r].left = 0,
                              ![r].recorded = FALSE, ![r].excluded = {}, ![r].fallback = @ + 1,
                              ![r].orphaned = @ \/ o]
  <2>0. PICK d \in BOOLEAN : d = (req[r].orphaned \/ o)
    OBVIOUS
  <2>1. PICK q : q = [req[r] EXCEPT !.pc = "schedule", !.attempt = 1, !.left = 0,
                                    !.recorded = FALSE, !.excluded = {}, !.fallback = req[r].fallback + 1,
                                    !.orphaned = d]
    OBVIOUS
  <2>2. req' = [req EXCEPT ![r] = q]
    BY <1>2, <2>0, <2>1 DEF ReqTypes
  <2>3. q \in ReqState /\ q.pc = "schedule" /\ q.attempt = 1
        /\ q.fallback = req[r].fallback + 1 /\ q.orphaned = d
        /\ req[r].fallback \in Nat
    <3>1. PICK n \in Nat : n = req[r].fallback + 1
      BY ReqParts DEF ReqState
    <3>2. PICK e \in SUBSET (Accounts \cup {NoAccount}) : e = {}
      OBVIOUS
    <3>3. PICK c \in BOOLEAN : c = FALSE
      OBVIOUS
    <3>4. q = [req[r] EXCEPT !.pc = "schedule", !.attempt = 1, !.left = 0, !.recorded = c,
                             !.excluded = e, !.fallback = n, !.orphaned = d]
      BY <2>1, <3>1, <3>2, <3>3
    <3>5. req[r] \in ReqState
      BY ReqParts
    <3> QED BY <3>1, <3>4, <3>5 DEF ReqState
  <2>4. ReqOK(r, q) /\ q.fallback # 0
    BY <2>3, ReqParts DEF ReqOK
  <2>5. o \/ req[r].orphaned => q.orphaned
    BY <2>0, <2>3
  <2>6. Moves(r, q)
    BY <2>2, <2>3, <2>4, <2>5 DEF Moves
  <2> QED BY <2>5, <2>6
<1> QED BY <1>1, <1>2 DEF LoopEnds

LEMMA SkipMoves ==
    ASSUME ReqTypes, NEW r \in Requests, req[r].pc # "done", NEW b \in BOOLEAN, NEW o \in BOOLEAN,
           SkipTo(r, b, o)
    PROVE  \E q : Moves(r, q) /\ (o => q.orphaned)
  BY NextMoves, LoopEndsMoves DEF SkipTo

\* The request schedules the same attempt again, and may be orphaned.
LEMMA AgainMoves ==
    ASSUME ReqTypes, NEW r \in Requests, req[r].pc = "acquire", NEW o \in BOOLEAN,
           req' = [req EXCEPT ![r].pc = "schedule", ![r].orphaned = @ \/ o]
    PROVE  \E q : Moves(r, q) /\ (o => q.orphaned)
<1>1. PICK c \in BOOLEAN : c = (req[r].orphaned \/ o)
  OBVIOUS
<1>2. PICK q : q = [req[r] EXCEPT !.pc = "schedule", !.orphaned = c]
  OBVIOUS
<1>3. req' = [req EXCEPT ![r] = q]
  BY <1>1, <1>2 DEF ReqTypes
<1>4. q \in ReqState /\ q.pc = "schedule" /\ q.attempt = req[r].attempt
      /\ q.fallback = req[r].fallback /\ q.orphaned = c
  BY <1>2, ReqParts DEF ReqState
<1>5. ReqOK(r, q)
  BY <1>4, ReqParts DEF ReqOK
<1>6. o \/ req[r].orphaned => q.orphaned
  BY <1>1, <1>4
<1>7. Moves(r, q)
  BY <1>3, <1>4, <1>5, <1>6 DEF Moves
<1> QED BY <1>6, <1>7

\* The request goes to schedule or to acquire under the same attempt number.
LEMMA GotoMoves ==
    ASSUME ReqTypes, NEW r \in Requests, req[r].pc \in {"schedule", "acquire"},
           NEW a \in Accounts \cup {NoAccount}, NEW p \in {"schedule", "acquire"},
           p = "acquire" => a \in Accounts,
           req' = [req EXCEPT ![r].pc = p, ![r].account = a]
    PROVE  \E q : Moves(r, q)
<1>1. PICK q : q = [req[r] EXCEPT !.pc = p, !.account = a]
  OBVIOUS
<1>2. req' = [req EXCEPT ![r] = q]
  BY <1>1 DEF ReqTypes
<1>3. q \in ReqState /\ q.pc = p /\ q.account = a /\ q.attempt = req[r].attempt
      /\ q.fallback = req[r].fallback /\ q.orphaned = req[r].orphaned
  BY <1>1, ReqParts DEF ReqState
<1>4. ReqOK(r, q)
  BY <1>3, ReqParts DEF ReqOK
<1> QED BY <1>2, <1>3, <1>4 DEF Moves

\* A step that leaves the store alone, from schedule or acquire.
LEMMA QuietKeeps ==
    ASSUME LeaseInv, NEW r \in Requests, NEW q, Moves(r, q), req[r].pc # "attempt",
           NEW X, EndsOf(r, X), Marks, feedback' = feedback, scan' = scan
    PROVE  LeaseInv'
  BY MoveKeeps

LEMMA UntouchedOf ==
    ASSUME LeaseInv, NEW r \in Requests, UNCHANGED store
    PROVE  EndsOf(r, {}) /\ Marks
  BY UntouchedEnds DEF EndsOf, LeaseInv

LEMMA ScheduleKeeps ==
    ASSUME LeaseInv, NEW r \in Requests, Schedule(r)
    PROVE  LeaseInv'
<1>1. EndsOf(r, {}) /\ Marks /\ feedback' = feedback /\ scan' = scan
  BY UntouchedOf DEF Schedule
<1>2. req[r].pc = "schedule" /\ ReqTypes
  BY DEF Schedule, At, LeaseInv
<1>3. PICK a \in Accounts : req' = [req EXCEPT ![r].pc = "acquire", ![r].account = a]
  BY DEF Schedule, Eligible
<1>4. PICK q : Moves(r, q)
  <2>1. PICK p \in {"schedule", "acquire"} : p = "acquire"
    OBVIOUS
  <2>2. req' = [req EXCEPT ![r].pc = p, ![r].account = a]
    BY <1>3, <2>1
  <2> QED BY <1>2, <2>2, GotoMoves
<1> QED BY <1>1, <1>2, <1>4, QuietKeeps

LEMMA NoneAvailableKeeps ==
    ASSUME LeaseInv, NEW r \in Requests, NoneAvailable(r)
    PROVE  LeaseInv'
<1>1. EndsOf(r, {}) /\ Marks /\ feedback' = feedback /\ scan' = scan
  BY UntouchedOf DEF NoneAvailable
<1>2. req[r].pc = "schedule" /\ ReqTypes /\ LoopEnds(r, req[r].recorded, FALSE)
  BY DEF NoneAvailable, At, LeaseInv
<1>3. PICK b, o \in BOOLEAN : b = req[r].recorded /\ o = FALSE
  BY <1>2, ReqParts DEF ReqState
<1>4. LoopEnds(r, b, o)
  BY <1>2, <1>3
<1>5. PICK q : Moves(r, q)
  BY <1>2, <1>4, LoopEndsMoves
<1> QED BY <1>1, <1>2, <1>5, QuietKeeps

LEMMA SweptOf ==
    ASSUME LeaseInv, NEW r \in Requests, NEW a \in Accounts, Ends(Swept(a))
    PROVE  EndsOf(r, Swept(a))
<1>1. Swept(a) \subseteq Ids /\ \A id \in Swept(a) : Lapsed(id)
  BY SweepFacts
<1> QED BY <1>1 DEF EndsOf

LEMMA AcquireFullKeeps ==
    ASSUME LeaseInv, NEW r \in Requests, AcquireFull(r)
    PROVE  LeaseInv'
<1>1. req[r].pc = "acquire" /\ ReqTypes /\ LeaseFull(r, req[r].account)
      /\ feedback' = feedback /\ scan' = scan
  BY DEF AcquireFull, At, LeaseInv
<1>2. PICK a \in Accounts : a = req[r].account
  BY <1>1, ReqParts
<1>3. EndsOf(r, Swept(a)) /\ Marks
  BY <1>1, <1>2, FullEnds, SweptOf
<1>4. PICK q : Moves(r, q)
  <2>1. CASE Goto(r, "schedule")
    <3>1. PICK p \in {"schedule", "acquire"} : p = "schedule"
      OBVIOUS
    <3>2. req' = [req EXCEPT ![r].pc = p, ![r].account = a]
      <4>1. [req[r] EXCEPT !.pc = p, !.account = a] = [req[r] EXCEPT !.pc = p]
        BY <1>1, <1>2, ReqParts DEF ReqState
      <4>2. req' = [req EXCEPT ![r] = [req[r] EXCEPT !.pc = p]]
        BY <2>1, <3>1, <1>1 DEF Goto, ReqTypes
      <4> QED BY <1>1, <4>1, <4>2 DEF ReqTypes
    <3> QED BY <1>1, <3>2, GotoMoves
  <2>2. CASE LoopEnds(r, req[r].recorded, FALSE)
    <3>1. PICK b, o \in BOOLEAN : b = req[r].recorded /\ o = FALSE
      BY <1>1, ReqParts DEF ReqState
    <3>2. LoopEnds(r, b, o)
      BY <2>2, <3>1
    <3> QED BY <1>1, <3>2, LoopEndsMoves
  <2> QED BY <2>1, <2>2 DEF AcquireFull
<1> QED BY <1>1, <1>3, <1>4, QuietKeeps

\* An attempt that ends with its lease given back.
LEMMA GivenBackKeeps ==
    ASSUME LeaseInv, NEW r \in Requests, NEW q, Moves(r, q),
           UpdateLeaseStatus(Key(r)), feedback' = feedback, scan' = scan
    PROVE  LeaseInv'
<1>1. PICK k \in Keys : k = Key(r)
  BY KeyFacts DEF LeaseInv
<1>2. PICK X : /\ Ends(X) /\ X \subseteq Ids
               /\ \A id \in X : KeyOf(id) = k
               /\ \A id \in Ids : KeyOf(id) = k /\ lease[id].left > -Retention => id \in X
  BY <1>1, UpdateEnds
<1>3. EndsOf(r, X) /\ Marks
  BY <1>1, <1>2, UpdateEnds DEF EndsOf
<1>4. \A id \in Ids : KeyOf(id) = Key(r) /\ lease[id].left > -Retention => id \in X
  BY <1>1, <1>2
<1> HIDE DEF EndsOf
<1> QED BY <1>3, <1>4, MoveKeeps

LEMMA RecordedType ==
    ASSUME LeaseInv, NEW r \in Requests
    PROVE  req[r].recorded \in BOOLEAN /\ ReqTypes
  BY ReqParts DEF ReqState, LeaseInv

\* An attempt that ends with its lease left in the store: the request is orphaned.
LEMMA LeftKeeps ==
    ASSUME LeaseInv, NEW r \in Requests, NEW q, Moves(r, q), q.orphaned,
           UNCHANGED <<store, feedback, scan>>
    PROVE  LeaseInv'
<1>1. EndsOf(r, {}) /\ Marks
  BY UntouchedOf
<1> QED BY <1>1, MoveKeeps

LEMMA DecisionFailsKeeps ==
    ASSUME LeaseInv, NEW r \in Requests, DecisionFails(r)
    PROVE  LeaseInv'
<1>1. PICK b \in BOOLEAN : b = req[r].recorded
  BY RecordedType
<1>2. UNCHANGED <<feedback, scan>>
  BY DEF DecisionFails
<1>3. CASE UpdateLeaseStatus(Key(r)) /\ LoopEnds(r, req[r].recorded, FALSE)
  <2>1. PICK o \in BOOLEAN : o = FALSE
    OBVIOUS
  <2>2. LoopEnds(r, b, o)
    BY <1>1, <1>3, <2>1
  <2>3. PICK q : Moves(r, q)
    BY <2>2, RecordedType, LoopEndsMoves
  <2> QED BY <1>2, <1>3, <2>3, GivenBackKeeps
<1>4. CASE UNCHANGED store /\ LoopEnds(r, req[r].recorded, TRUE)
  <2>1. PICK o \in BOOLEAN : o = TRUE
    OBVIOUS
  <2>2. LoopEnds(r, b, o)
    BY <1>1, <1>4, <2>1
  <2>3. PICK q : Moves(r, q) /\ q.orphaned
    BY <2>1, <2>2, RecordedType, LoopEndsMoves
  <2> QED BY <1>2, <1>4, <2>3, LeftKeeps
<1> QED BY <1>3, <1>4 DEF DecisionFails

LEMMA SkipOpenKeeps ==
    ASSUME LeaseInv, NEW r \in Requests, SkipOpen(r)
    PROVE  LeaseInv'
<1>1. PICK b \in BOOLEAN : b = req[r].recorded
  BY RecordedType
<1>2. PICK o \in BOOLEAN : GiveBack(r, o) /\ SkipTo(r, req[r].recorded, o)
  BY Zenon DEF SkipOpen
<1>3. SkipTo(r, b, o) /\ UNCHANGED <<feedback, scan>> /\ req[r].pc # "done"
  BY <1>1, <1>2 DEF SkipOpen, At
<1>4. (~o /\ UpdateLeaseStatus(Key(r))) \/ (o /\ UNCHANGED store)
  BY <1>2, Zenon DEF GiveBack
<1>5. PICK q : Moves(r, q) /\ (o => q.orphaned)
  BY <1>3, RecordedType, SkipMoves
<1> QED BY <1>3, <1>4, <1>5, GivenBackKeeps, LeftKeeps

LEMMA SkipFullKeeps ==
    ASSUME LeaseInv, NEW r \in Requests, SkipFull(r)
    PROVE  LeaseInv'
<1>1. PICK b \in BOOLEAN : b = FALSE
  OBVIOUS
<1>2. PICK o \in BOOLEAN : GiveBack(r, o) /\ (SkipTo(r, FALSE, o) \/ LoopEnds(r, FALSE, o))
  BY Zenon DEF SkipFull
<1>3. /\ SkipTo(r, b, o) \/ LoopEnds(r, b, o)
      /\ UNCHANGED <<feedback, scan>> /\ req[r].pc # "done"
  BY <1>1, <1>2 DEF SkipFull, At
<1>4. (~o /\ UpdateLeaseStatus(Key(r))) \/ (o /\ UNCHANGED store)
  BY <1>2, Zenon DEF GiveBack
<1>5. PICK q : Moves(r, q) /\ (o => q.orphaned)
  BY <1>3, RecordedType, SkipMoves, LoopEndsMoves
<1> QED BY <1>3, <1>4, <1>5, GivenBackKeeps, LeftKeeps

\* An attempt that nobody ends.
LEMMA AbandonedKeeps ==
    ASSUME LeaseInv, NEW r \in Requests, Answer(r, TRUE), UNCHANGED <<store, feedback, scan>>
    PROVE  LeaseInv'
<1>1. PICK o \in BOOLEAN : o = TRUE
  OBVIOUS
<1>2. Answer(r, o)
  BY <1>1
<1>3. PICK q : Moves(r, q) /\ q.orphaned
  BY <1>1, <1>2, RecordedType, AnswerMoves
<1> QED BY <1>3, LeftKeeps

\* An attempt whose feedback is dispatched.
LEMMA ReportedKeeps ==
    ASSUME LeaseInv, NEW r \in Requests, req[r].pc = "attempt", NEW q, Moves(r, q),
           feedback' = feedback \cup {Key(r)}, UNCHANGED <<store, scan>>
    PROVE  LeaseInv'
<1>1. EndsOf(r, {}) /\ Marks
  BY UntouchedOf
<1> QED BY <1>1, MoveKeeps

LEMMA CandidateFailsKeeps ==
    ASSUME LeaseInv, NEW r \in Requests, CandidateFails(r)
    PROVE  LeaseInv'
<1>1. PICK b, o \in BOOLEAN : b = TRUE /\ o = FALSE
  OBVIOUS
<1>2. /\ NextCandidate(r, b, o) \/ LoopEnds(r, b, o)
      /\ feedback' = feedback \cup {Key(r)} /\ UNCHANGED <<store, scan>>
      /\ req[r].pc = "attempt"
  BY <1>1 DEF CandidateFails, At
<1>3. PICK q : Moves(r, q)
  BY <1>2, RecordedType, NextMoves, LoopEndsMoves
<1> QED BY <1>2, <1>3, ReportedKeeps

LEMMA CandidateSucceedsKeeps ==
    ASSUME LeaseInv, NEW r \in Requests, CandidateSucceeds(r)
    PROVE  LeaseInv'
<1>1. PICK o \in BOOLEAN : o = FALSE
  OBVIOUS
<1>2. /\ Answer(r, o)
      /\ feedback' = feedback \cup {Key(r)} /\ UNCHANGED <<store, scan>>
      /\ req[r].pc = "attempt"
  BY <1>1 DEF CandidateSucceeds, At
<1>3. PICK q : Moves(r, q)
  BY <1>2, RecordedType, AnswerMoves
<1> QED BY <1>2, <1>3, ReportedKeeps

-----------------------------------------------------------------------------
(* Leases: feedback and the metrics endpoint. *)

\* Leases end that are lapsed or whose feedback is under way.
LEMMA OutsideKeeps ==
    ASSUME LeaseInv, NEW X, Ends(X), Marks, X \subseteq Ids,
           \A id \in X : Lapsed(id) \/ KeyOf(id) \in feedback,
           req' = req, feedback' \subseteq feedback, scan' \subseteq scan,
           \A id \in Ids : KeyOf(id) \in feedback \ feedback' /\ lease[id].left > -Retention => id \in X
    PROVE  LeaseInv'
<1>0. /\ StoreTypes /\ ReqTypes /\ FilingInv /\ ActiveInv /\ FeedbackInv /\ HeldInv /\ AnsweredInv
  BY DEF LeaseInv
<1>1. StoreTypes' /\ FilingInv' /\ ActiveInv' /\ ScanInv'
  BY EndsKeepStore, EndsKeepScan
<1>2. ReqTypes'
  BY <1>0 DEF ReqTypes, ReqOK
<1>3. FeedbackInv'
  BY <1>0 DEF FeedbackInv
<1>4. HeldInv'
  <2> SUFFICES ASSUME NEW s \in Requests, req[s].pc = "attempt", req[s].fallback = 0,
                      req[s].left > 0
               PROVE  /\ LeaseId(Key(s), req[s].account) \in active'[req[s].account]
                      /\ lease'[LeaseId(Key(s), req[s].account)].left >= req[s].left
    BY DEF HeldInv, Key
  <2>1. Key(s) \in Keys /\ Key(s)[1] = s /\ Key(s)[2] = req[s].attempt /\ req[s].attempt \in Nat
    BY <1>0, KeyFacts
  <2>2. PICK a \in Accounts : a = req[s].account
    BY <1>0, ReqParts
  <2>3. PICK id \in Ids : id = LeaseId(Key(s), a)
    BY <2>1, IdOfKey
  <2>4. id \in active[a] /\ lease[id].left >= req[s].left /\ req[s].left \in Nat
    BY <1>0, <2>2, <2>3, ReqParts DEF HeldInv, ReqState
  <2>5. KeyOf(id) = Key(s)
    BY <2>1, <2>2, <2>3, IdOfKey
  <2>6. Key(s) \notin feedback
    BY <1>0, <2>1 DEF FeedbackInv
  <2>7. lease[id].left \in Int
    BY <1>0 DEF StoreTypes, LeaseState
  <2>8. ~Lapsed(id)
    BY <2>4, <2>7 DEF Lapsed
  <2>9. id \notin X
    BY <2>5, <2>6, <2>8
  <2>10. id \in active'[a] /\ lease'[id].left = lease[id].left
    BY <2>4, <2>9 DEF Ends
  <2> QED BY <2>2, <2>3, <2>4, <2>10
<1>5. AnsweredInv'
  <2> SUFFICES ASSUME NEW a \in Accounts, NEW id \in active'[a], ~Lapsed(id)'
               PROVE  \/ req[id[1]].orphaned
                      \/ KeyOf(id) \in feedback'
                      \/ req[id[1]].pc = "attempt" /\ req[id[1]].attempt = id[2]
    BY DEF AnsweredInv, KeyOf
  <2>1. id \in active[a] /\ id \in Ids /\ id \notin X /\ lease'[id].left = lease[id].left
    BY <1>0 DEF Ends, StoreTypes
  <2>2. ~Lapsed(id)
    BY <2>1 DEF Lapsed
  <2>3. lease[id].left > -Retention
    BY <1>0, <2>1, <2>2, LiveLasts
  <2>4. KeyOf(id) \in feedback => KeyOf(id) \in feedback'
    BY <2>1, <2>3
  <2>5. \/ req[id[1]].orphaned
        \/ KeyOf(id) \in feedback
        \/ req[id[1]].pc = "attempt" /\ req[id[1]].attempt = id[2]
    BY <1>0, <2>1, <2>2 DEF AnsweredInv
  <2> QED BY <2>4, <2>5
<1> QED BY <1>1, <1>2, <1>3, <1>4, <1>5 DEF LeaseInv

LEMMA RecordFeedbackKeeps ==
    ASSUME LeaseInv, NEW k \in feedback, RecordFeedback(k)
    PROVE  LeaseInv'
<1>1. k \in Keys
  BY DEF LeaseInv, ReqTypes
<1>2. /\ UpdateLeaseStatus(k) /\ feedback' = feedback \ {k}
      /\ req' = req /\ scan' = scan
  BY DEF RecordFeedback
<1>3. PICK X : /\ Ends(X) /\ X \subseteq Ids
               /\ \A id \in X : KeyOf(id) = k
               /\ \A id \in Ids : KeyOf(id) = k /\ lease[id].left > -Retention => id \in X
  BY <1>1, <1>2, UpdateEnds
<1>4. Marks
  BY <1>1, <1>2, UpdateEnds
<1>5. \A id \in X : Lapsed(id) \/ KeyOf(id) \in feedback
  BY <1>3
<1>6. \A id \in Ids : KeyOf(id) \in feedback \ feedback' /\ lease[id].left > -Retention => id \in X
  BY <1>2, <1>3
<1> QED BY <1>2, <1>3, <1>4, <1>5, <1>6, OutsideKeeps

LEMMA MarkExpiredKeeps ==
    ASSUME LeaseInv, NEW id \in Ids, MarkExpired(id)
    PROVE  LeaseInv'
<1>1. Ends({id}) /\ Marks /\ Lapsed(id)
  BY MarkExpiredEnds
<1>2. req' = req /\ feedback' = feedback /\ scan' = {}
  BY DEF MarkExpired
<1>3. PICK X : X = {id}
  OBVIOUS
<1>4. Ends(X) /\ X \subseteq Ids /\ \A i \in X : Lapsed(i)
  BY <1>1, <1>3
<1> QED BY <1>1, <1>2, <1>4, OutsideKeeps

LEMMA FeedbackLostKeeps ==
    ASSUME LeaseInv, NEW k \in feedback, FeedbackLost(k)
    PROVE  LeaseInv'
<1>0. /\ StoreTypes /\ ReqTypes /\ FilingInv /\ ActiveInv /\ FeedbackInv /\ HeldInv /\ ScanInv
      /\ AnsweredInv
  BY DEF LeaseInv
<1>1. /\ lease' = lease /\ leaseOf' = leaseOf /\ active' = active /\ marker' = marker
      /\ scan' = scan /\ feedback' = feedback \ {k}
      /\ req' = [req EXCEPT ![k[1]].orphaned = TRUE]
  BY DEF FeedbackLost, store
<1>2. PICK r \in Requests : r = k[1]
  BY <1>0 DEF ReqTypes, Keys
<1>3. PICK q : q = [req[r] EXCEPT !.orphaned = TRUE]
  OBVIOUS
<1>4. req' = [req EXCEPT ![r] = q]
  BY <1>1, <1>2, <1>3
<1>5. /\ req'[r] = q /\ \A s \in Requests : s # r => req'[s] = req[s]
      /\ DOMAIN req' = Requests /\ req' = [s \in Requests |-> req'[s]]
  BY <1>0, <1>4, ReqFacts
<1>6. /\ q \in ReqState /\ q.pc = req[r].pc /\ q.attempt = req[r].attempt
      /\ q.fallback = req[r].fallback /\ q.account = req[r].account /\ q.left = req[r].left
      /\ q.orphaned
  <2>1. PICK o \in BOOLEAN : o = TRUE
    OBVIOUS
  <2>2. q = [req[r] EXCEPT !.orphaned = o]
    BY <1>3, <2>1
  <2>3. req[r] \in ReqState
    BY <1>0, ReqParts
  <2>4. /\ q \in ReqState /\ q.pc = req[r].pc /\ q.attempt = req[r].attempt
        /\ q.fallback = req[r].fallback /\ q.account = req[r].account /\ q.left = req[r].left
        /\ q.orphaned = o
    BY <2>2, <2>3 DEF ReqState
  <2> QED BY <2>1, <2>4
<1>7. \A s \in Requests : /\ req'[s].pc = req[s].pc /\ req'[s].attempt = req[s].attempt
                          /\ req'[s].fallback = req[s].fallback /\ req'[s].left = req[s].left
                          /\ req'[s].account = req[s].account
                          /\ (req[s].orphaned => req'[s].orphaned)
                          /\ Key(s)' = Key(s)
  BY <1>5, <1>6 DEF Key
<1>8. StoreTypes' /\ FilingInv' /\ ActiveInv' /\ ScanInv'
  BY <1>0, <1>1 DEF StoreTypes, FilingInv, ActiveInv, ScanInv, Kept, Filed, Lapsed
<1>9. ReqTypes'
  <2>1. \A s \in Requests : req'[s] \in ReqState
    BY <1>0, <1>5, <1>6, ReqParts
  <2>2. \A s \in Requests : ReqOK(s, req'[s])
    BY <1>0, <1>7, <2>1, ReqParts DEF ReqOK
  <2> QED BY <1>0, <1>1, <1>5, <2>2 DEF ReqTypes, ReqOK
<1>10. FeedbackInv' /\ HeldInv'
  BY <1>0, <1>1, <1>7 DEF FeedbackInv, HeldInv
<1>11. AnsweredInv'
  <2> SUFFICES ASSUME NEW a \in Accounts, NEW id \in active[a], ~Lapsed(id)
               PROVE  \/ req'[id[1]].orphaned
                      \/ KeyOf(id) \in feedback'
                      \/ req'[id[1]].pc = "attempt" /\ req'[id[1]].attempt = id[2]
    BY <1>1 DEF AnsweredInv, KeyOf, Lapsed
  <2>1. \/ req[id[1]].orphaned
        \/ KeyOf(id) \in feedback
        \/ req[id[1]].pc = "attempt" /\ req[id[1]].attempt = id[2]
    BY <1>0 DEF AnsweredInv
  <2>2. id[1] \in Requests /\ KeyOf(id)[1] = id[1]
    BY <1>0, KeyOfId DEF StoreTypes
  <2>3. CASE KeyOf(id) = k
    BY <1>2, <1>5, <1>6, <2>2, <2>3
  <2>4. CASE KeyOf(id) # k
    BY <1>1, <1>7, <2>1, <2>2, <2>4
  <2> QED BY <2>3, <2>4
<1> QED BY <1>8, <1>9, <1>10, <1>11 DEF LeaseInv

LEMMA ScanLeaseKeeps ==
    ASSUME LeaseInv, NEW id \in Ids, ScanLease(id)
    PROVE  LeaseInv'
<1>1. /\ lease' = lease /\ leaseOf' = leaseOf /\ active' = active /\ marker' = marker
      /\ scan' = {id} /\ feedback' = feedback /\ req' = req
      /\ lease[id].status = "pending" /\ Lapsed(id)
  BY DEF ScanLease, store
<1>2. lease[id].left > -Retention
  BY <1>1 DEF LeaseInv, FilingInv
<1>3. ScanInv'
  BY <1>1, <1>2 DEF ScanInv, Lapsed
<1>4. StoreTypes' /\ FilingInv' /\ ActiveInv'
  BY <1>1 DEF LeaseInv, StoreTypes, FilingInv, ActiveInv, Kept, Filed
<1>5. ReqTypes'
  BY <1>1 DEF LeaseInv, ReqTypes, ReqOK
<1>6. FeedbackInv' /\ HeldInv' /\ AnsweredInv'
  BY <1>1 DEF LeaseInv, FeedbackInv, HeldInv, AnsweredInv, Key, Lapsed
<1> QED BY <1>3, <1>4, <1>5, <1>6 DEF LeaseInv

-----------------------------------------------------------------------------
(* Leases: acquiring. *)

LEMMA AcquiredReq ==
    ASSUME LeaseInv, NEW r \in Requests, AcquireLease(r)
    PROVE  /\ req[r].pc = "acquire" /\ req[r].account \in Accounts
           /\ req'[r].pc = "attempt"
           /\ \/ LeaseGranted(r, req[r].account) /\ req'[r].left = TTL
              \/ LeaseExists(r, req[r].account) /\ req'[r].left = 0
           /\ req'[r].attempt = req[r].attempt /\ req'[r].fallback = req[r].fallback
           /\ req'[r].account = req[r].account /\ req'[r].orphaned = req[r].orphaned
           /\ \A s \in Requests : s # r => req'[s] = req[s]
           /\ \A s \in Requests : Key(s)' = Key(s)
           /\ ReqTypes' /\ feedback' = feedback /\ scan' = scan
<1>0. ReqTypes /\ req[r].pc = "acquire" /\ feedback' = feedback /\ scan' = scan
  BY DEF LeaseInv, AcquireLease, At
<1>1. PICK t \in Nat : /\ \/ LeaseGranted(r, req[r].account) /\ t = TTL
                          \/ LeaseExists(r, req[r].account) /\ t = 0
                       /\ req' = [req EXCEPT ![r].pc = "attempt", ![r].left = t]
  <2>1. TTL \in Nat /\ 0 \in Nat
    BY NumbersAssumption
  <2> QED BY <2>1 DEF AcquireLease
<1>2. PICK q : q = [req[r] EXCEPT !.pc = "attempt", !.left = t]
  OBVIOUS
<1>3. req' = [req EXCEPT ![r] = q]
  BY <1>0, <1>1, <1>2 DEF ReqTypes
<1>4. /\ q \in ReqState /\ q.pc = "attempt" /\ q.left = t /\ q.attempt = req[r].attempt
      /\ q.fallback = req[r].fallback /\ q.account = req[r].account
      /\ q.orphaned = req[r].orphaned
  <2>1. req[r] \in ReqState
    BY <1>0, ReqParts
  <2> QED BY <1>2, <2>1 DEF ReqState
<1>5. /\ req'[r] = q /\ \A s \in Requests : s # r => req'[s] = req[s]
      /\ DOMAIN req' = Requests /\ req' = [s \in Requests |-> req'[s]]
  BY <1>0, <1>3, ReqFacts
<1>6. ReqOK(r, q) /\ req[r].account \in Accounts
  BY <1>0, <1>4, ReqParts DEF ReqOK
<1>7. \A s \in Requests : ReqOK(s, req'[s])
  BY <1>0, <1>5, <1>6 DEF ReqTypes
<1>8. ReqTypes'
  BY <1>0, <1>5, <1>7 DEF ReqTypes, ReqOK
<1>9. \A s \in Requests : Key(s)' = Key(s)
  BY <1>4, <1>5 DEF Key
<1> QED BY <1>0, <1>1, <1>4, <1>5, <1>6, <1>8, <1>9

\* A lease that is there already is handed back, and gives no time.
LEMMA ExistsKeeps ==
    ASSUME LeaseInv, NEW r \in Requests, AcquireLease(r), LeaseExists(r, req[r].account),
           req'[r].left = 0
    PROVE  LeaseInv'
<1>0. /\ StoreTypes /\ ReqTypes /\ FilingInv /\ ActiveInv /\ FeedbackInv /\ HeldInv /\ AnsweredInv
  BY DEF LeaseInv
<1>1. /\ req[r].pc = "acquire" /\ req[r].account \in Accounts
      /\ req'[r].pc = "attempt" /\ req'[r].attempt = req[r].attempt
      /\ req'[r].fallback = req[r].fallback /\ req'[r].orphaned = req[r].orphaned
      /\ \A s \in Requests : s # r => req'[s] = req[s]
      /\ \A s \in Requests : Key(s)' = Key(s)
      /\ ReqTypes' /\ feedback' = feedback /\ scan' = scan
  BY AcquiredReq
<1>2. PICK a \in Accounts : a = req[r].account
  BY <1>1
<1>3. PICK X : X = Swept(a)
  OBVIOUS
<1>4. Ends(X) /\ Marks /\ \A id \in X : Lapsed(id)
  BY <1>2, <1>3, ExistsEnds, SweepFacts
<1>5. StoreTypes' /\ FilingInv' /\ ActiveInv' /\ ScanInv'
  BY <1>1, <1>4, EndsKeepStore, EndsKeepScan
<1>7. FeedbackInv'
  BY <1>0, <1>1 DEF FeedbackInv
<1>8. HeldInv'
  <2> SUFFICES ASSUME NEW s \in Requests, req'[s].pc = "attempt", req'[s].fallback = 0,
                      req'[s].left > 0
               PROVE  /\ LeaseId(Key(s)', req'[s].account) \in active'[req'[s].account]
                      /\ lease'[LeaseId(Key(s)', req'[s].account)].left >= req'[s].left
    BY DEF HeldInv
  <2>1. s # r /\ req'[s] = req[s] /\ Key(s)' = Key(s)
    BY <1>1
  <2>2. PICK b \in Accounts : b = req[s].account
    BY <1>0, <2>1, ReqParts
  <2>3. PICK id \in Ids : id = LeaseId(Key(s), b)
    BY <1>0, KeyFacts, IdOfKey
  <2>4. id \in active[b] /\ lease[id].left >= req[s].left /\ req[s].left \in Nat /\ req[s].left > 0
    BY <1>0, <2>1, <2>2, <2>3, ReqParts DEF HeldInv, ReqState
  <2>5. lease[id].left \in Int
    BY <1>0 DEF StoreTypes, LeaseState
  <2>6. id \notin X
    BY <1>4, <2>4, <2>5 DEF Lapsed
  <2>7. id \in active'[b] /\ lease'[id].left = lease[id].left
    BY <1>4, <2>4, <2>6 DEF Ends
  <2> QED BY <2>1, <2>2, <2>3, <2>4, <2>7
<1>9. AnsweredInv'
  <2> SUFFICES ASSUME NEW b \in Accounts, NEW id \in active'[b], ~Lapsed(id)'
               PROVE  \/ req'[id[1]].orphaned
                      \/ KeyOf(id) \in feedback'
                      \/ req'[id[1]].pc = "attempt" /\ req'[id[1]].attempt = id[2]
    BY DEF AnsweredInv, KeyOf
  <2>1. id \in active[b] /\ id \in Ids /\ lease'[id].left = lease[id].left
    BY <1>0, <1>4 DEF Ends, StoreTypes
  <2>2. ~Lapsed(id) /\ id[1] \in Requests
    BY <2>1, KeyOfId DEF Lapsed
  <2>3. \/ req[id[1]].orphaned
        \/ KeyOf(id) \in feedback
        \/ req[id[1]].pc = "attempt" /\ req[id[1]].attempt = id[2]
    BY <1>0, <2>1, <2>2 DEF AnsweredInv
  <2> QED BY <1>1, <2>2, <2>3
<1> QED BY <1>1, <1>5, <1>7, <1>8, <1>9 DEF LeaseInv

\* What granting a lease does to the store: the lapsed leases S of account a
\* end and the new lease id joins its ZSET.
LEMMA GrantedStore ==
    ASSUME LeaseInv, NEW r \in Requests, NEW a \in Accounts, LeaseGranted(r, a),
           NEW id, id = LeaseId(Key(r), a)
    PROVE  /\ Key(r) \in Keys /\ Key(r)[1] = r /\ Key(r)[2] = req[r].attempt
           /\ id \in Ids /\ KeyOf(id) = Key(r) /\ id[1] = r /\ id[2] = req[r].attempt /\ id[3] = a
           /\ ~Kept(Key(r)) /\ ~(lease[id].left > -Retention)
           /\ lease' \in [Ids -> LeaseState]
           /\ lease'[id].status = "pending" /\ lease'[id].left = TTL
           /\ \A i \in Ids : i # id =>
                 /\ lease'[i].left = lease[i].left
                 /\ lease'[i].status \in {lease[i].status, "ended"}
                 /\ i \notin Swept(a) => lease'[i] = lease[i]
           /\ leaseOf' \in [Keys -> Accounts \cup {NoAccount}] /\ leaseOf'[Key(r)] = a
           /\ \A k \in Keys : k # Key(r) => leaseOf'[k] = leaseOf[k]
           /\ active' \in [Accounts -> SUBSET Ids]
           /\ active'[a] = (active[a] \ Swept(a)) \cup {id}
           /\ \A b \in Accounts : b # a => active'[b] = active[b]
           /\ id \notin active[a] \ Swept(a)
<1>0. StoreTypes /\ ReqTypes /\ FilingInv
  BY DEF LeaseInv
<1>1. Key(r) \in Keys /\ Key(r)[1] = r /\ Key(r)[2] = req[r].attempt
  BY <1>0, KeyFacts
<1>2. /\ id \in Ids /\ KeyOf(id) = Key(r) /\ id[1] = r /\ id[2] = req[r].attempt /\ id[3] = a
  BY <1>1, IdOfKey
<1>3. ~Kept(Key(r))
  BY DEF LeaseGranted
<1>4. ~(lease[id].left > -Retention)
  BY <1>0, <1>2, <1>3, AccountsAssumption DEF FilingInv, Kept
<1>5. lease[id].left \in Int /\ Retention \in Nat /\ TTL \in Nat
  BY <1>0, <1>2, NumbersAssumption DEF StoreTypes, LeaseState
<1>6. id \notin active[a] \ Swept(a)
  BY <1>4, <1>5 DEF Swept, Lapsed
<1>7. PICK e : e = Expire(Swept(a))
  OBVIOUS
<1>8. PICK S : S = Swept(a)
  OBVIOUS
<1>9. /\ e \in [Ids -> LeaseState] /\ S \subseteq Ids
      /\ \A i \in Ids : /\ e[i].left = lease[i].left
                        /\ e[i].status \in {lease[i].status, "ended"}
                        /\ i \notin S => e[i] = lease[i]
  BY <1>7, <1>8, SweepFacts
<1>10. /\ lease' = [e EXCEPT ![id] = [status |-> "pending", left |-> TTL]]
       /\ leaseOf' = [leaseOf EXCEPT ![Key(r)] = a]
       /\ active' = [active EXCEPT ![a] = (active[a] \ S) \cup {id}]
  BY <1>7, <1>8 DEF LeaseGranted
<1>11. PICK new : new = [status |-> "pending", left |-> TTL] /\ new \in LeaseState
  <2>1. TTL \in Int
    BY <1>5
  <2>2. [status |-> "pending", left |-> TTL] \in LeaseState
    BY <2>1 DEF LeaseState
  <2> QED BY <2>2
<1>12. /\ lease' \in [Ids -> LeaseState] /\ lease'[id] = new
       /\ \A i \in Ids : i # id => lease'[i] = e[i]
  BY <1>2, <1>9, <1>10, <1>11
<1>13. /\ leaseOf' \in [Keys -> Accounts \cup {NoAccount}] /\ leaseOf'[Key(r)] = a
       /\ \A k \in Keys : k # Key(r) => leaseOf'[k] = leaseOf[k]
  BY <1>0, <1>1, <1>10 DEF StoreTypes
<1>14. /\ active' \in [Accounts -> SUBSET Ids]
       /\ active'[a] = (active[a] \ S) \cup {id}
       /\ \A b \in Accounts : b # a => active'[b] = active[b]
  BY <1>0, <1>2, <1>10 DEF StoreTypes
<1>15. lease'[id].status = "pending" /\ lease'[id].left = TTL
  BY <1>11, <1>12
<1>16. \A i \in Ids : i # id =>
           /\ lease'[i].left = lease[i].left
           /\ lease'[i].status \in {lease[i].status, "ended"}
           /\ i \notin S => lease'[i] = lease[i]
  BY <1>9, <1>12
<1> QED BY <1>1, <1>2, <1>3, <1>4, <1>6, <1>8, <1>12, <1>13, <1>14, <1>15, <1>16

LEMMA GrantedCount ==
    ASSUME LeaseInv, NEW r \in Requests, NEW a \in Accounts, LeaseGranted(r, a)
    PROVE  /\ IsFiniteSet(active'[a]) /\ Cardinality(active'[a]) \in Nat
           /\ Cardinality(active'[a]) <= Max
           /\ marker' = [marker EXCEPT ![a] = [count |-> Cardinality(active'[a]),
                                               left |-> TTL + Retention, zeroed |-> FALSE]]
<1>1. PICK left : left = active[a] \ Swept(a)
  OBVIOUS
<1>2. PICK id : id = LeaseId(Key(r), a)
  OBVIOUS
<1>3. active'[a] = left \cup {id} /\ id \notin left
  BY <1>1, <1>2, GrantedStore
<1>4. IsFiniteSet(left) /\ Cardinality(left) \in Nat /\ Max \in Nat
  BY <1>1, CountType DEF LeaseInv
<1>5. Cardinality(left) < Max
  BY <1>1 DEF LeaseGranted
<1>6. IsFiniteSet(active'[a]) /\ Cardinality(active'[a]) = Cardinality(left) + 1
  BY <1>3, <1>4, FS_AddElement
<1>7. marker' = [marker EXCEPT ![a] = [count |-> Cardinality(left) + 1,
                                       left |-> TTL + Retention, zeroed |-> FALSE]]
  BY <1>1 DEF LeaseGranted, SetMarker
<1>8. Cardinality(active'[a]) \in Nat /\ Cardinality(active'[a]) <= Max
  BY <1>4, <1>5, <1>6
<1> QED BY <1>6, <1>7, <1>8

LEMMA GrantedMarker ==
    ASSUME LeaseInv, NEW r \in Requests, NEW a \in Accounts, LeaseGranted(r, a)
    PROVE  /\ marker' \in [Accounts -> MarkerState]
           /\ marker'[a].count = Cardinality(active'[a]) /\ marker'[a].left = TTL + Retention
           /\ \A b \in Accounts : b # a => marker'[b] = marker[b]
<1>1. marker \in [Accounts -> MarkerState] /\ TTL \in Nat /\ Retention \in Nat
  BY NumbersAssumption DEF LeaseInv, StoreTypes
<1>2. PICK n \in Nat : n = Cardinality(active'[a])
  BY GrantedCount
<1>3. PICK m : m = [count |-> n, left |-> TTL + Retention, zeroed |-> FALSE]
  OBVIOUS
<1>4. m \in MarkerState /\ m.count = n /\ m.left = TTL + Retention
  BY <1>1, <1>3 DEF MarkerState
<1>5. marker' = [marker EXCEPT ![a] = m]
  BY <1>2, <1>3, GrantedCount
<1>6. /\ marker' \in [Accounts -> MarkerState] /\ marker'[a] = m
      /\ \A b \in Accounts : b # a => marker'[b] = marker[b]
  BY <1>1, <1>4, <1>5
<1> QED BY <1>2, <1>4, <1>6

\* What a request may become when it is granted a lease: its attempt runs, or it
\* never learns of the lease and is orphaned.
Obtains(r) ==
    /\ ReqTypes' /\ \A s \in Requests : s # r => req'[s] = req[s]
    /\ req[r].orphaned => req'[r].orphaned
    /\ req'[r].pc # "done" /\ req'[r].fallback = 0 =>
          req[r].fallback = 0 /\ req'[r].attempt >= req[r].attempt
    /\ \/ /\ req'[r].pc = "attempt" /\ req'[r].left = TTL
          /\ req'[r].attempt = req[r].attempt /\ req'[r].account = req[r].account
       \/ req'[r].pc # "attempt" /\ req'[r].orphaned

LEMMA GrantedKeeps ==
    ASSUME LeaseInv, NEW r \in Requests, req[r].pc = "acquire", LeaseGranted(r, req[r].account),
           Obtains(r), feedback' = feedback, scan' = scan
    PROVE  LeaseInv'
<1>0. /\ StoreTypes /\ ReqTypes /\ FilingInv /\ ActiveInv /\ FeedbackInv /\ HeldInv /\ AnsweredInv
      /\ ScanInv /\ Retention \in Nat /\ TTL \in Nat /\ TTL > 0 /\ Retention > 0
  BY NumbersAssumption DEF LeaseInv
<1>1. /\ req[r].account \in Accounts /\ ReqTypes'
      /\ \A s \in Requests : s # r => req'[s] = req[s] /\ Key(s)' = Key(s)
      /\ req[r].orphaned => req'[r].orphaned
  BY <1>0, ReqParts DEF Obtains, Key
<1>2. PICK a \in Accounts : a = req[r].account
  BY <1>1
<1>3. PICK id : id = LeaseId(Key(r), a)
  OBVIOUS
<1>4. PICK S : S = Swept(a)
  OBVIOUS
<1>5. LeaseGranted(r, a) /\ \A i \in S : Lapsed(i) /\ i \in active[a]
  BY <1>2, <1>4, SweepFacts
<1>6. /\ Key(r) \in Keys /\ Key(r)[1] = r /\ Key(r)[2] = req[r].attempt
      /\ id \in Ids /\ KeyOf(id) = Key(r) /\ id[1] = r /\ id[2] = req[r].attempt /\ id[3] = a
      /\ ~Kept(Key(r)) /\ ~(lease[id].left > -Retention)
  BY <1>3, <1>5, GrantedStore
<1>7. /\ lease' \in [Ids -> LeaseState]
      /\ lease'[id].status = "pending" /\ lease'[id].left = TTL
      /\ \A i \in Ids : i # id =>
            /\ lease'[i].left = lease[i].left
            /\ lease'[i].status \in {lease[i].status, "ended"}
            /\ i \notin S => lease'[i] = lease[i]
  BY <1>3, <1>4, <1>5, GrantedStore
<1>8. /\ leaseOf' \in [Keys -> Accounts \cup {NoAccount}] /\ leaseOf'[Key(r)] = a
      /\ \A k \in Keys : k # Key(r) => leaseOf'[k] = leaseOf[k]
      /\ active' \in [Accounts -> SUBSET Ids]
      /\ active'[a] = (active[a] \ S) \cup {id}
      /\ \A b \in Accounts : b # a => active'[b] = active[b]
  BY <1>3, <1>4, <1>5, GrantedStore
<1>9. StoreTypes'
  <2>1. \A i \in Ids : lease'[i].left <= TTL
    BY <1>0, <1>7 DEF StoreTypes
  <2>2. marker' \in [Accounts -> MarkerState]
    BY <1>5, GrantedMarker
  <2> QED BY <1>7, <1>8, <2>1, <2>2 DEF StoreTypes
<1>10. FilingInv'
  <2>1. ASSUME NEW i \in Ids, lease'[i].left > -Retention PROVE leaseOf'[KeyOf(i)] = i[3]
    <3>1. CASE i = id
      BY <1>6, <1>8, <3>1
    <3>2. CASE i # id
      <4>1. leaseOf[KeyOf(i)] = i[3] /\ KeyOf(i) \in Keys /\ i[3] \in Accounts
        BY <1>0, <1>7, <2>1, <3>2, KeyOfId DEF FilingInv
      <4>2. KeyOf(i) # Key(r)
        BY <1>6, <4>1, AccountsAssumption DEF Kept
      <4> QED BY <1>8, <4>1, <4>2
    <3> QED BY <3>1, <3>2
  <2>2. ASSUME NEW k \in Keys, Kept(k)' PROVE lease'[Filed(k)'].left > -Retention
    <3>1. CASE k = Key(r)
      <4>1. Filed(k)' = id
        BY <1>3, <1>8, <3>1 DEF Filed, LeaseId, Key
      <4> QED BY <1>0, <1>7, <4>1
    <3>2. CASE k # Key(r)
      <4>1. leaseOf'[k] = leaseOf[k]
        BY <1>8, <3>2
      <4>2. Kept(k) /\ Filed(k)' = Filed(k)
        BY <2>2, <4>1 DEF Kept, Filed
      <4>3. Filed(k) \in Ids /\ KeyOf(Filed(k)) = k
        BY <1>0, <4>2, KeptFacts
      <4>4. Filed(k) # id
        BY <1>6, <3>2, <4>3
      <4> QED BY <1>0, <1>7, <4>2, <4>3, <4>4 DEF FilingInv
    <3> QED BY <3>1, <3>2
  <2>3. ASSUME NEW i \in Ids, lease'[i].status = "pending" PROVE lease'[i].left > -Retention
    BY <1>0, <1>7, <2>3 DEF FilingInv
  <2> QED BY <2>1, <2>2, <2>3 DEF FilingInv, KeyOf
<1>11. ActiveInv'
  <2> SUFFICES ASSUME NEW b \in Accounts
               PROVE  /\ IsFiniteSet(active'[b]) /\ Cardinality(active'[b]) <= Max
                      /\ \A i \in active'[b] :
                            i[3] = b /\ (lease'[i].left > -Retention => lease'[i].status = "pending")
    BY DEF ActiveInv
  <2>1. CASE b = a
    <3>1. IsFiniteSet(active'[b]) /\ Cardinality(active'[b]) <= Max
      BY <1>5, <2>1, GrantedCount
    <3>2. ASSUME NEW i \in active'[b]
          PROVE  i[3] = b /\ (lease'[i].left > -Retention => lease'[i].status = "pending")
      <4>1. CASE i = id
        BY <1>6, <1>7, <2>1, <4>1
      <4>2. CASE i # id
        <5>1. i \in active[a] /\ i \notin S /\ i \in Ids
          BY <1>0, <1>8, <2>1, <3>2, <4>2 DEF StoreTypes
        <5> QED BY <1>0, <1>7, <2>1, <4>2, <5>1 DEF ActiveInv
      <4> QED BY <4>1, <4>2
    <3> QED BY <3>1, <3>2
  <2>2. CASE b # a
    <3>1. active'[b] = active[b] /\ active[b] \subseteq Ids
      BY <1>0, <1>8, <2>2 DEF StoreTypes
    <3>2. \A i \in active[b] : i[3] = b
      BY <1>0 DEF ActiveInv
    <3>3. \A i \in active[b] : i # id /\ i \notin S
      BY <1>0, <1>5, <1>6, <2>2, <3>2 DEF ActiveInv
    <3>4. \A i \in active[b] : lease'[i] = lease[i]
      BY <1>7, <3>1, <3>3
    <3> QED BY <1>0, <3>1, <3>4 DEF ActiveInv
  <2> QED BY <2>1, <2>2
<1>12. FeedbackInv'
  <2> SUFFICES ASSUME NEW s \in Requests, req'[s].pc # "done", req'[s].fallback = 0,
                      NEW k \in Keys, k[1] = s, k \in feedback
               PROVE  k[2] < req'[s].attempt
    BY DEF FeedbackInv
  <2>1. k[2] \in Nat /\ req[r].attempt \in Nat /\ req'[r].attempt \in Nat
    BY <1>0, <1>1, KeyFacts, NumbersAssumption DEF Keys, Attempts, ReqTypes, ReqOK, ReqState
  <2>2. CASE s # r
    BY <1>0, <1>1, <2>2 DEF FeedbackInv
  <2>3. CASE s = r
    <3>1. req[r].fallback = 0 /\ req'[r].attempt >= req[r].attempt
      BY <2>3 DEF Obtains
    <3>2. k[2] < req[r].attempt
      BY <1>0, <2>3, <3>1 DEF FeedbackInv
    <3> QED BY <2>1, <2>3, <3>1, <3>2
  <2> QED BY <2>2, <2>3
<1>13. HeldInv'
  <2> SUFFICES ASSUME NEW s \in Requests, req'[s].pc = "attempt", req'[s].fallback = 0,
                      req'[s].left > 0
               PROVE  /\ LeaseId(Key(s)', req'[s].account) \in active'[req'[s].account]
                      /\ lease'[LeaseId(Key(s)', req'[s].account)].left >= req'[s].left
    BY DEF HeldInv
  <2>1. CASE s = r
    <3>1. req'[r].left = TTL /\ req'[r].attempt = req[r].attempt /\ req'[r].account = a
      BY <1>2, <2>1 DEF Obtains
    <3>2. Key(r)' = Key(r)
      BY <3>1 DEF Key
    <3> QED BY <1>0, <1>3, <1>7, <1>8, <2>1, <3>1, <3>2
  <2>2. CASE s # r
    <3>1. req'[s] = req[s] /\ Key(s) \in Keys /\ Key(s)[1] = s /\ Key(s)' = Key(s)
      BY <1>0, <1>1, <2>2, KeyFacts
    <3>2. PICK b \in Accounts : b = req[s].account
      BY <1>0, <3>1, ReqParts
    <3>3. PICK i \in Ids : i = LeaseId(Key(s), b)
      BY <3>1, IdOfKey
    <3>4. i \in active[b] /\ lease[i].left >= req[s].left /\ req[s].left \in Nat /\ req[s].left > 0
      BY <1>0, <3>1, <3>2, <3>3, ReqParts DEF HeldInv, ReqState
    <3>5. lease[i].left \in Int
      BY <1>0 DEF StoreTypes, LeaseState
    <3>6. i \notin S
      BY <1>5, <3>4, <3>5 DEF Lapsed
    <3>7. i # id
      BY <1>6, <2>2, <3>1, <3>2, <3>3, IdOfKey
    <3>8. i \in active'[b] /\ lease'[i].left = lease[i].left
      BY <1>7, <1>8, <3>4, <3>6, <3>7
    <3> QED BY <3>1, <3>2, <3>3, <3>4, <3>8
  <2> QED BY <2>1, <2>2
<1>14. ScanInv'
  <2> SUFFICES ASSUME NEW i \in scan PROVE lease'[i].left > -Retention /\ Lapsed(i)'
    BY <1>1 DEF ScanInv
  <2>1. i \in Ids /\ lease[i].left > -Retention /\ Lapsed(i)
    BY <1>0 DEF ScanInv, ReqTypes
  <2>2. i # id
    BY <1>6, <2>1
  <2> QED BY <1>7, <2>1, <2>2 DEF Lapsed
<1>15. AnsweredInv'
  <2> SUFFICES ASSUME NEW b \in Accounts, NEW i \in active'[b], ~Lapsed(i)'
               PROVE  \/ req'[i[1]].orphaned
                      \/ KeyOf(i) \in feedback'
                      \/ req'[i[1]].pc = "attempt" /\ req'[i[1]].attempt = i[2]
    BY DEF AnsweredInv, KeyOf
  <2>1. CASE i = id
    BY <1>6, <2>1 DEF Obtains
  <2>2. CASE i # id
    <3>1. i \in active[b] /\ i \in Ids /\ lease'[i].left = lease[i].left
      BY <1>0, <1>7, <1>8, <2>2 DEF StoreTypes
    <3>2. ~Lapsed(i) /\ i[1] \in Requests
      BY <3>1, KeyOfId DEF Lapsed
    <3>3. \/ req[i[1]].orphaned
          \/ KeyOf(i) \in feedback
          \/ req[i[1]].pc = "attempt" /\ req[i[1]].attempt = i[2]
      BY <1>0, <3>1, <3>2 DEF AnsweredInv
    <3>4. CASE i[1] = r
      BY <1>1, <3>3, <3>4
    <3> QED BY <1>1, <3>2, <3>3, <3>4
  <2> QED BY <2>1, <2>2
<1> QED BY <1>1, <1>9, <1>10, <1>11, <1>12, <1>13, <1>14, <1>15 DEF LeaseInv

LEMMA AcquireLeaseKeeps ==
    ASSUME LeaseInv, NEW r \in Requests, AcquireLease(r)
    PROVE  LeaseInv'
<1>1. \/ LeaseGranted(r, req[r].account) /\ req'[r].left = TTL
      \/ LeaseExists(r, req[r].account) /\ req'[r].left = 0
  BY AcquiredReq
<1>2. CASE LeaseGranted(r, req[r].account) /\ req'[r].left = TTL
  <2>1. req[r].attempt \in Nat
    BY KeyFacts DEF LeaseInv
  <2>2. Obtains(r) /\ req[r].pc = "acquire" /\ feedback' = feedback /\ scan' = scan
    BY <1>2, <2>1, AcquiredReq DEF Obtains
  <2> QED BY <1>2, <2>2, GrantedKeeps
<1> QED BY <1>1, <1>2, ExistsKeeps

\* AcquireLease fails, and the script may have granted a lease nobody knows of.
LEMMA AcquireFailsKeeps ==
    ASSUME LeaseInv, NEW r \in Requests, AcquireFails(r)
    PROVE  LeaseInv'
<1>1. req[r].pc = "acquire" /\ ReqTypes /\ feedback' = feedback /\ scan' = scan
  BY DEF AcquireFails, At, LeaseInv
<1>2. PICK a \in Accounts : a = req[r].account
  BY <1>1, ReqParts
<1>3. PICK o \in BOOLEAN :
         /\ o => LeaseGranted(r, a) \/ LeaseExists(r, a)
         /\ ~o => UNCHANGED store
         /\ \/ req' = [req EXCEPT ![r].pc = "schedule", ![r].orphaned = @ \/ o]
            \/ LoopEnds(r, req[r].recorded, o)
  BY <1>2 DEF AcquireFails
<1>4. PICK b \in BOOLEAN : b = req[r].recorded
  BY RecordedType
<1>5. PICK q : Moves(r, q) /\ (o => q.orphaned)
  <2>1. CASE LoopEnds(r, b, o)
    BY <1>1, <2>1, LoopEndsMoves
  <2>2. CASE req' = [req EXCEPT ![r].pc = "schedule", ![r].orphaned = @ \/ o]
    BY <1>1, <2>2, AgainMoves
  <2> QED BY <1>3, <1>4, <2>1, <2>2
<1>6. CASE ~o
  BY <1>1, <1>3, <1>5, <1>6, UntouchedOf, QuietKeeps
<1>7. CASE LeaseExists(r, a)
  <2>1. EndsOf(r, Swept(a)) /\ Marks
    BY <1>7, ExistsEnds, SweptOf
  <2> QED BY <1>1, <1>5, <2>1, QuietKeeps
<1>8. CASE LeaseGranted(r, a) /\ o
  <2>1. /\ req'[r] = q /\ \A s \in Requests : s # r => req'[s] = req[s]
        /\ DOMAIN req' = Requests /\ req' = [s \in Requests |-> req'[s]]
    BY <1>1, <1>5, ReqFacts DEF Moves
  <2>2. \A s \in Requests : ReqOK(s, req'[s])
    BY <1>1, <1>5, <2>1 DEF ReqTypes, Moves
  <2>3. ReqTypes'
    BY <1>1, <2>1, <2>2 DEF ReqTypes, ReqOK
  <2>4. req[r].attempt \in Nat
    BY <1>1, KeyFacts
  <2>5. Obtains(r)
    BY <1>5, <1>8, <2>1, <2>3, <2>4 DEF Obtains, Moves
  <2> QED BY <1>1, <1>2, <1>8, <2>5, GrantedKeeps
<1> QED BY <1>3, <1>6, <1>7, <1>8

-----------------------------------------------------------------------------
(* Leases: time. *)

\* A lease, and its key, a tick later.
LEMMA TickStore ==
    ASSUME LeaseInv, Tick
    PROVE  /\ lease' \in [Ids -> LeaseState]
           /\ \A id \in Ids : lease[id].left > 1 - Retention =>
                 lease'[id].left = lease[id].left - 1 /\ lease'[id].status = lease[id].status
           /\ \A id \in Ids : ~(lease[id].left > 1 - Retention) =>
                 lease'[id].left = -Retention /\ lease'[id].status = "none"
           /\ leaseOf' \in [Keys -> Accounts \cup {NoAccount}]
           /\ \A k \in Keys : leaseOf'[k] = LeaseOfLater(k)
           /\ active' = active /\ feedback' = feedback /\ scan' = scan
           /\ \A id \in Ids : lease[id].left \in Int
           /\ Retention \in Nat /\ Retention > 0 /\ TTL \in Nat
<1>0. StoreTypes /\ Retention \in Nat /\ Retention > 0 /\ TTL \in Nat
  BY NumbersAssumption DEF LeaseInv
<1>1. \A id \in Ids : lease[id] \in LeaseState /\ lease[id].left \in Int
  BY <1>0 DEF StoreTypes, LeaseState
<1>2. \A id \in Ids : /\ LeaseLater(id) \in LeaseState
                      /\ lease[id].left > 1 - Retention =>
                            /\ LeaseLater(id).left = lease[id].left - 1
                            /\ LeaseLater(id).status = lease[id].status
                      /\ ~(lease[id].left > 1 - Retention) =>
                            LeaseLater(id).left = -Retention /\ LeaseLater(id).status = "none"
  <2> SUFFICES ASSUME NEW id \in Ids
               PROVE  /\ LeaseLater(id) \in LeaseState
                      /\ lease[id].left > 1 - Retention =>
                            /\ LeaseLater(id).left = lease[id].left - 1
                            /\ LeaseLater(id).status = lease[id].status
                      /\ ~(lease[id].left > 1 - Retention) =>
                            LeaseLater(id).left = -Retention /\ LeaseLater(id).status = "none"
    OBVIOUS
  <2>1. CASE lease[id].left > 1 - Retention
    <3>1. PICK n \in Int : n = lease[id].left - 1
      BY <1>1
    <3>2. LeaseLater(id) = [lease[id] EXCEPT !.left = n]
      BY <2>1, <3>1 DEF LeaseLater
    <3>3. lease[id] \in LeaseState
      BY <1>1
    <3>4. LeaseLater(id) \in LeaseState /\ LeaseLater(id).left = n
          /\ LeaseLater(id).status = lease[id].status
      BY <3>2, <3>3 DEF LeaseState
    <3> QED BY <2>1, <3>1, <3>4
  <2>2. CASE ~(lease[id].left > 1 - Retention)
    <3>1. PICK n \in Int : n = -Retention
      BY <1>0
    <3>2. LeaseLater(id) = [status |-> "none", left |-> n]
      BY <2>2, <3>1 DEF LeaseLater, Gone
    <3> QED BY <2>2, <3>1, <3>2 DEF LeaseState
  <2> QED BY <2>1, <2>2
<1>3. lease' = [id \in Ids |-> LeaseLater(id)] /\ leaseOf' = [k \in Keys |-> LeaseOfLater(k)]
      /\ active' = active /\ feedback' = feedback /\ scan' = scan
  BY DEF Tick
<1>4. /\ lease' \in [Ids -> LeaseState] /\ \A id \in Ids : lease'[id] = LeaseLater(id)
  BY <1>2, <1>3
<1>5. \A k \in Keys : LeaseOfLater(k) \in Accounts \cup {NoAccount}
  BY <1>0 DEF LeaseOfLater, StoreTypes
<1>6. /\ leaseOf' \in [Keys -> Accounts \cup {NoAccount}]
      /\ \A k \in Keys : leaseOf'[k] = LeaseOfLater(k)
  BY <1>3, <1>5
<1> QED BY <1>0, <1>1, <1>2, <1>3, <1>4, <1>6

\* A request a tick later has less of its time left and is otherwise the same.
LEMMA TickReq ==
    ASSUME LeaseInv, Tick
    PROVE  /\ ReqTypes'
           /\ \A r \in Requests :
                 /\ req'[r].pc = req[r].pc /\ req'[r].attempt = req[r].attempt
                 /\ req'[r].fallback = req[r].fallback /\ req'[r].account = req[r].account
                 /\ req'[r].orphaned = req[r].orphaned /\ Key(r)' = Key(r)
                 /\ req[r].left \in Nat
                 /\ req'[r].left > 0 => req'[r].left = req[r].left - 1 /\ req[r].left > 1
<1>0. ReqTypes /\ feedback' = feedback /\ scan' = scan
  BY TickStore DEF LeaseInv
<1>1. req' = [r \in Requests |-> [req[r] EXCEPT !.left = IF req[r].left > 0 THEN req[r].left - 1 ELSE 0]]
  BY DEF Tick
<1>2. ASSUME NEW r \in Requests
      PROVE  /\ req'[r] \in ReqState
             /\ req'[r].pc = req[r].pc /\ req'[r].attempt = req[r].attempt
             /\ req'[r].fallback = req[r].fallback /\ req'[r].account = req[r].account
             /\ req'[r].orphaned = req[r].orphaned
             /\ req[r].left \in Nat
             /\ req'[r].left > 0 => req'[r].left = req[r].left - 1 /\ req[r].left > 1
  <2>1. req[r] \in ReqState /\ req[r].left \in Nat
    BY <1>0, ReqParts DEF ReqState
  <2>2. PICK n \in Nat : n = IF req[r].left > 0 THEN req[r].left - 1 ELSE 0
    BY <2>1
  <2>3. req'[r] = [req[r] EXCEPT !.left = n]
    BY <1>1, <2>2
  <2>4. /\ req'[r] \in ReqState /\ req'[r].left = n
        /\ req'[r].pc = req[r].pc /\ req'[r].attempt = req[r].attempt
        /\ req'[r].fallback = req[r].fallback /\ req'[r].account = req[r].account
        /\ req'[r].orphaned = req[r].orphaned
    BY <2>1, <2>3 DEF ReqState
  <2> QED BY <2>1, <2>2, <2>4
<1>3. \A r \in Requests : Key(r)' = Key(r)
  BY <1>2 DEF Key
<1>4. \A r \in Requests : ReqOK(r, req'[r])
  BY <1>0, <1>2, ReqParts DEF ReqOK
<1>5. DOMAIN req' = Requests /\ req' = [r \in Requests |-> req'[r]]
  BY <1>1
<1>6. ReqTypes'
  BY <1>0, <1>4, <1>5 DEF ReqTypes, ReqOK
<1> QED BY <1>2, <1>3, <1>6

LEMMA TickMarker ==
    ASSUME LeaseInv, Tick
    PROVE  /\ marker' \in [Accounts -> MarkerState]
           /\ \A a \in Accounts : marker[a].left \in Int /\ marker[a].count \in Int
           /\ \A a \in Accounts : marker[a].left > 1 =>
                 /\ marker'[a].left = marker[a].left - 1 /\ marker'[a].count = marker[a].count
                 /\ marker'[a].zeroed = marker[a].zeroed
           /\ \A a \in Accounts : ~(marker[a].left > 1) => marker'[a].count = 0 /\ marker'[a].left = 0
<1>1. \A a \in Accounts : marker[a] \in MarkerState /\ marker[a].left \in Int /\ marker[a].count \in Int
  BY DEF LeaseInv, StoreTypes, MarkerState
<1>2. ASSUME NEW a \in Accounts
      PROVE  /\ MarkerLater(a) \in MarkerState
             /\ marker[a].left > 1 =>
                   /\ MarkerLater(a).left = marker[a].left - 1 /\ MarkerLater(a).count = marker[a].count
                   /\ MarkerLater(a).zeroed = marker[a].zeroed
             /\ ~(marker[a].left > 1) => MarkerLater(a).count = 0 /\ MarkerLater(a).left = 0
  <2>1. CASE marker[a].left > 1
    <3>1. PICK n \in Int : n = marker[a].left - 1
      BY <1>1
    <3>2. MarkerLater(a) = [marker[a] EXCEPT !.left = n]
      BY <2>1, <3>1 DEF MarkerLater
    <3>3. marker[a] \in MarkerState
      BY <1>1
    <3>4. /\ MarkerLater(a) \in MarkerState /\ MarkerLater(a).left = n
          /\ MarkerLater(a).count = marker[a].count /\ MarkerLater(a).zeroed = marker[a].zeroed
      BY <3>2, <3>3 DEF MarkerState
    <3> QED BY <2>1, <3>1, <3>4
  <2>2. CASE ~(marker[a].left > 1)
    <3>1. MarkerLater(a) = Unmarked
      BY <2>2 DEF MarkerLater
    <3>2. Unmarked \in MarkerState /\ Unmarked.count = 0 /\ Unmarked.left = 0
      BY DEF Unmarked, MarkerState
    <3> QED BY <2>2, <3>1, <3>2
  <2> QED BY <2>1, <2>2
<1>3. marker' = [a \in Accounts |-> MarkerLater(a)]
  BY DEF Tick
<1>4. marker' \in [Accounts -> MarkerState] /\ \A a \in Accounts : marker'[a] = MarkerLater(a)
  BY <1>2, <1>3
<1> QED BY <1>1, <1>2, <1>4

LEMMA TickKeeps ==
    ASSUME LeaseInv, Tick
    PROVE  LeaseInv'
<1>0. /\ StoreTypes /\ ReqTypes /\ FilingInv /\ ActiveInv /\ FeedbackInv /\ HeldInv /\ AnsweredInv
      /\ ScanInv
  BY DEF LeaseInv
<1>1. /\ lease' \in [Ids -> LeaseState]
      /\ \A id \in Ids : lease[id].left > 1 - Retention =>
            lease'[id].left = lease[id].left - 1 /\ lease'[id].status = lease[id].status
      /\ \A id \in Ids : ~(lease[id].left > 1 - Retention) =>
            lease'[id].left = -Retention /\ lease'[id].status = "none"
      /\ leaseOf' \in [Keys -> Accounts \cup {NoAccount}]
      /\ \A k \in Keys : leaseOf'[k] = LeaseOfLater(k)
      /\ active' = active /\ feedback' = feedback /\ scan' = scan
      /\ \A id \in Ids : lease[id].left \in Int
      /\ Retention \in Nat /\ Retention > 0 /\ TTL \in Nat
  BY TickStore
<1>2. /\ ReqTypes'
      /\ \A r \in Requests :
            /\ req'[r].pc = req[r].pc /\ req'[r].attempt = req[r].attempt
            /\ req'[r].fallback = req[r].fallback /\ req'[r].account = req[r].account
            /\ req'[r].orphaned = req[r].orphaned /\ Key(r)' = Key(r)
            /\ req[r].left \in Nat
            /\ req'[r].left > 0 => req'[r].left = req[r].left - 1 /\ req[r].left > 1
  BY TickReq
<1>3. \A k \in Keys : Kept(k)' => /\ Kept(k) /\ Filed(k)' = Filed(k) /\ leaseOf'[k] = leaseOf[k]
                                  /\ lease[Filed(k)].left > 1 - Retention
  BY <1>1 DEF Kept, Filed, LeaseOfLater
<1>4. StoreTypes'
  <2>1. \A id \in Ids : lease'[id].left <= TTL
    BY <1>0, <1>1 DEF StoreTypes
  <2>2. marker' \in [Accounts -> MarkerState]
    BY TickMarker
  <2> QED BY <1>0, <1>1, <2>1, <2>2 DEF StoreTypes
<1>5. FilingInv'
  <2>1. ASSUME NEW i \in Ids, lease'[i].left > -Retention PROVE leaseOf'[KeyOf(i)] = i[3]
    <3>1. lease[i].left > 1 - Retention /\ lease[i].left > -Retention
      BY <1>1, <2>1
    <3>2. leaseOf[KeyOf(i)] = i[3] /\ KeyOf(i) \in Keys /\ i[3] \in Accounts
          /\ i = LeaseId(KeyOf(i), i[3])
      BY <1>0, <3>1, KeyOfId DEF FilingInv
    <3>3. Kept(KeyOf(i)) /\ Filed(KeyOf(i)) = i
      BY <3>2, AccountsAssumption DEF Kept, Filed
    <3>4. LeaseOfLater(KeyOf(i)) = leaseOf[KeyOf(i)]
      BY <3>1, <3>3 DEF LeaseOfLater
    <3> QED BY <1>1, <3>2, <3>4
  <2>2. ASSUME NEW k \in Keys, Kept(k)' PROVE lease'[Filed(k)'].left > -Retention
    <3>1. Kept(k) /\ Filed(k)' = Filed(k) /\ lease[Filed(k)].left > 1 - Retention
      BY <1>3, <2>2
    <3>2. Filed(k) \in Ids
      BY <1>0, <3>1, KeptFacts
    <3> QED BY <1>1, <3>1, <3>2
  <2>3. ASSUME NEW i \in Ids, lease'[i].status = "pending" PROVE lease'[i].left > -Retention
    BY <1>1, <2>3
  <2> QED BY <2>1, <2>2, <2>3 DEF FilingInv, KeyOf
<1>6. ActiveInv'
  <2>1. \A a \in Accounts : active[a] \subseteq Ids
    BY <1>0 DEF StoreTypes
  <2>2. \A i \in Ids : lease'[i].left > -Retention =>
           lease[i].left > -Retention /\ lease'[i].status = lease[i].status
    BY <1>1
  <2> QED BY <1>0, <1>1, <2>1, <2>2 DEF ActiveInv
<1>7. FeedbackInv'
  BY <1>0, <1>1, <1>2, <1>3 DEF FeedbackInv
<1>8. HeldInv'
  <2> SUFFICES ASSUME NEW s \in Requests, req[s].pc = "attempt", req[s].fallback = 0,
                      req'[s].left > 0
               PROVE  /\ LeaseId(Key(s), req[s].account) \in active[req[s].account]
                      /\ lease'[LeaseId(Key(s), req[s].account)].left >= req'[s].left
    BY <1>1, <1>2 DEF HeldInv
  <2>1. req'[s].left = req[s].left - 1 /\ req[s].left > 1 /\ req[s].left \in Nat
    BY <1>2
  <2>2. PICK b \in Accounts : b = req[s].account
    BY <1>0, ReqParts
  <2>3. PICK i \in Ids : i = LeaseId(Key(s), b)
    BY <1>0, KeyFacts, IdOfKey
  <2>4. i \in active[b] /\ lease[i].left >= req[s].left
    BY <1>0, <2>1, <2>2, <2>3 DEF HeldInv
  <2>5. lease'[i].left = lease[i].left - 1
    BY <1>1, <2>1, <2>4
  <2>6. lease'[i].left >= req'[s].left
    BY <1>1, <2>1, <2>4, <2>5
  <2> QED BY <2>2, <2>3, <2>4, <2>6
<1>9. ScanInv'
  <2> SUFFICES ASSUME NEW i \in scan PROVE lease'[i].left > -Retention /\ Lapsed(i)'
    BY <1>1 DEF ScanInv
  <2>1. i \in Ids /\ Lapsed(i) /\ lease[i].left > 1 - Retention
    BY <1>0 DEF ScanInv, ReqTypes, Tick
  <2> QED BY <1>1, <2>1 DEF Lapsed
<1>10. AnsweredInv'
  <2> SUFFICES ASSUME NEW b \in Accounts, NEW i \in active[b], ~Lapsed(i)'
               PROVE  \/ req'[i[1]].orphaned
                      \/ KeyOf(i) \in feedback
                      \/ req'[i[1]].pc = "attempt" /\ req'[i[1]].attempt = i[2]
    BY <1>1 DEF AnsweredInv, KeyOf
  <2>1. i \in Ids /\ i[1] \in Requests
    BY <1>0, KeyOfId DEF StoreTypes
  <2>2. ~Lapsed(i)
    BY <1>1, <2>1 DEF Lapsed
  <2>3. \/ req[i[1]].orphaned
        \/ KeyOf(i) \in feedback
        \/ req[i[1]].pc = "attempt" /\ req[i[1]].attempt = i[2]
    BY <1>0, <2>2 DEF AnsweredInv
  <2> QED BY <1>2, <2>1, <2>3
<1> QED BY <1>2, <1>4, <1>5, <1>6, <1>7, <1>8, <1>9, <1>10 DEF LeaseInv

-----------------------------------------------------------------------------
(* Leases: the invariant holds. *)

LEMMA LeaseInvInit == Init => LeaseInv
<1> SUFFICES ASSUME Init PROVE LeaseInv
  OBVIOUS
<1>0. Retention \in Nat /\ Retention > 0 /\ TTL \in Nat /\ Max \in Nat
  BY NumbersAssumption
<1>1. /\ lease = [id \in Ids |-> Gone] /\ leaseOf = [k \in Keys |-> NoAccount]
      /\ active = [a \in Accounts |-> {}] /\ marker = [a \in Accounts |-> Unmarked]
      /\ req = [r \in Requests |-> Idle] /\ feedback = {} /\ scan = {}
  BY DEF Init
<1>2. PICK n \in Int : n = -Retention
  BY <1>0
<1>3. Gone = [status |-> "none", left |-> n]
  BY <1>2 DEF Gone
<1>4. Gone \in LeaseState /\ Gone.status = "none" /\ Gone.left = n
  BY <1>3 DEF LeaseState
<1>5. Unmarked \in MarkerState
  BY DEF Unmarked, MarkerState
<1>6. Idle \in ReqState /\ Idle.attempt = 1 /\ Idle.pc = "schedule" /\ ~Idle.orphaned
  BY DEF Idle, ReqState
<1>7. \A id \in Ids : lease[id] = Gone
  BY <1>1
<1>8. StoreTypes
  <2>1. \A id \in Ids : lease[id].left <= TTL
    BY <1>0, <1>2, <1>4, <1>7
  <2> QED BY <1>1, <1>4, <1>5, <2>1 DEF StoreTypes
<1>9. ReqTypes
  <2>1. \A r \in Requests : ReqOK(r, Idle)
    BY <1>6, NumbersAssumption DEF ReqOK
  <2> QED BY <1>1, <2>1 DEF ReqTypes
<1>10. \A k \in Keys : ~Kept(k)
  BY <1>1 DEF Kept
<1>11. FilingInv
  <2>1. \A id \in Ids : ~(lease[id].left > -Retention) /\ lease[id].status # "pending"
    BY <1>0, <1>2, <1>4, <1>7
  <2> QED BY <1>10, <2>1 DEF FilingInv
<1>12. ActiveInv
  BY <1>0, <1>1, FS_EmptySet DEF ActiveInv
<1>13. FeedbackInv /\ ScanInv /\ AnsweredInv
  BY <1>1, <1>10 DEF FeedbackInv, ScanInv, AnsweredInv
<1>14. HeldInv
  BY <1>1, <1>6 DEF HeldInv
<1> QED BY <1>8, <1>9, <1>11, <1>12, <1>13, <1>14 DEF LeaseInv

LEMMA LeaseStutter ==
    ASSUME LeaseInv, UNCHANGED vars
    PROVE  LeaseInv'
<1>1. /\ lease' = lease /\ leaseOf' = leaseOf /\ active' = active /\ marker' = marker
      /\ scan' = scan /\ feedback' = feedback /\ req' = req
  BY DEF vars
<1>2. StoreTypes' /\ FilingInv' /\ ActiveInv'
  BY <1>1 DEF LeaseInv, StoreTypes, FilingInv, ActiveInv, Kept, Filed
<1>3. ReqTypes'
  BY <1>1 DEF LeaseInv, ReqTypes, ReqOK
<1>4. FeedbackInv' /\ HeldInv' /\ AnsweredInv' /\ ScanInv'
  BY <1>1 DEF LeaseInv, FeedbackInv, HeldInv, AnsweredInv, ScanInv, Key, Lapsed
<1> QED BY <1>2, <1>3, <1>4 DEF LeaseInv

LEMMA LeaseInvNext == LeaseInv /\ [Next]_vars => LeaseInv'
<1> SUFFICES ASSUME LeaseInv, [Next]_vars PROVE LeaseInv'
  OBVIOUS
<1>1. ASSUME NEW r \in Requests, Step(r) PROVE LeaseInv'
  BY <1>1, ScheduleKeeps, NoneAvailableKeeps, AcquireFullKeeps, AcquireLeaseKeeps, SkipOpenKeeps,
     SkipFullKeeps, CandidateFailsKeeps, CandidateSucceedsKeeps DEF Step
<1>2. ASSUME NEW r \in Requests, AcquireFails(r) \/ DecisionFails(r) PROVE LeaseInv'
  BY <1>2, AcquireFailsKeeps, DecisionFailsKeeps
<1>3. ASSUME NEW r \in Requests, ThrottleCanceled(r) \/ Crash(r) PROVE LeaseInv'
  BY <1>3, AbandonedKeeps DEF ThrottleCanceled, Crash
<1>4. ASSUME NEW k \in feedback, RecordFeedback(k) \/ FeedbackLost(k) PROVE LeaseInv'
  BY <1>4, RecordFeedbackKeeps, FeedbackLostKeeps
<1>5. ASSUME NEW id \in Ids, ScanLease(id) \/ MarkExpired(id) PROVE LeaseInv'
  BY <1>5, ScanLeaseKeeps, MarkExpiredKeeps
<1>6. CASE Tick
  BY <1>6, TickKeeps
<1>7. CASE UNCHANGED vars
  BY <1>7, LeaseStutter
<1> QED BY <1>1, <1>2, <1>3, <1>4, <1>5, <1>6, <1>7 DEF Next

LEMMA LeaseInvariant == Spec => []LeaseInv
  BY LeaseInvInit, LeaseInvNext, PTL DEF Spec

\* No account serves more requests at once than its MaxConcurrency within their
\* leases, and the lease of a running attempt is in the account's ZSET whatever
\* late feedback, sweep, expiry or metrics scrape did meanwhile.
THEOREM AccountCapacityHeld == Spec => []CapacityHeld
<1>1. LeaseInv => CapacityHeld
  <2> SUFFICES ASSUME LeaseInv, NEW a \in Accounts
               PROVE  /\ \A r \in Using(a) : LeaseId(Key(r), a) \in active[a]
                      /\ Cardinality(Using(a)) <= Max
    BY DEF CapacityHeld
  <2>1. \A r \in Using(a) : LeaseId(Key(r), a) \in active[a]
    BY DEF Using, LeaseInv, HeldInv
  <2>2. PICK f : f = [r \in Using(a) |-> LeaseId(Key(r), a)]
    OBVIOUS
  <2>3. f \in Injection(Using(a), active[a])
    <3>1. f \in [Using(a) -> active[a]]
      BY <2>1, <2>2
    <3>2. \A r \in Using(a) : f[r][1] = r
      BY <2>2, KeyFacts, IdOfKey DEF Using, LeaseInv
    <3>3. \A r, s \in Using(a) : f[r] = f[s] => r = s
      BY <3>2
    <3> QED BY <3>1, <3>3 DEF Injection, IsInjective
  <2>4. IsFiniteSet(active[a]) /\ Cardinality(active[a]) <= Max /\ Max \in Nat
        /\ Cardinality(active[a]) \in Nat
    BY CountType DEF LeaseInv
  <2>5. IsFiniteSet(Using(a)) /\ Cardinality(Using(a)) <= Cardinality(active[a])
    BY <2>3, <2>4, FS_Injection
  <2>6. Cardinality(Using(a)) \in Nat
    BY <2>5, FS_CardinalityType
  <2> QED BY <2>1, <2>4, <2>5, <2>6
<1> QED BY LeaseInvariant, <1>1, PTL

\* Once a request is answered and its feedback has run, none of its leases
\* occupies an account, unless one was left to lapse by a crash, a lost feedback,
\* a canceled sleep, a release that failed or an AcquireLease whose reply was lost.
THEOREM AnsweredRequestsSettled == Spec => []LeaseSettled
<1>1. LeaseInv => LeaseSettled
  <2> SUFFICES ASSUME LeaseInv, NEW r \in Requests, req[r].pc = "done", ~req[r].orphaned,
                      \A k \in feedback : k[1] # r,
                      NEW a \in Accounts, NEW id \in active[a], id[1] = r, ~Lapsed(id)
               PROVE  FALSE
    BY DEF LeaseSettled
  <2>1. KeyOf(id) \notin feedback
    BY KeyOfId DEF LeaseInv, StoreTypes
  <2> QED BY <2>1 DEF LeaseInv, AnsweredInv
<1> QED BY LeaseInvariant, <1>1, PTL

-----------------------------------------------------------------------------
(* Leases: the markers. *)

LEMMA GrantedKeepsMarkers ==
    ASSUME LeaseInv, MarkerInv, NEW r \in Requests, NEW a \in Accounts, LeaseGranted(r, a)
    PROVE  MarkerInv'
<1> SUFFICES ASSUME NEW b \in Accounts
             PROVE  /\ \A i \in active'[b] : ~Lapsed(i)' => lease'[i].left <= marker'[b].left
                    /\ marker'[b].zeroed \/ marker'[b].count >= Cardinality(Live(b)')
  BY DEF MarkerInv
<1>1. PICK id : id = LeaseId(Key(r), a)
  OBVIOUS
<1>2. PICK S : S = Swept(a)
  OBVIOUS
<1>3. /\ id \in Ids /\ id[3] = a
      /\ lease' \in [Ids -> LeaseState] /\ lease'[id].left = TTL
      /\ \A i \in Ids : i # id => lease'[i].left = lease[i].left
      /\ active'[a] = (active[a] \ S) \cup {id}
      /\ \A c \in Accounts : c # a => active'[c] = active[c]
  BY <1>1, <1>2, GrantedStore
<1>4. /\ marker'[a].count = Cardinality(active'[a]) /\ marker'[a].left = TTL + Retention
      /\ \A c \in Accounts : c # a => marker'[c] = marker[c]
  BY GrantedMarker
<1>5. /\ TTL \in Nat /\ Retention \in Nat /\ StoreTypes /\ ActiveInv
      /\ \A i \in Ids : lease[i].left <= TTL /\ lease[i].left \in Int
  BY NumbersAssumption DEF LeaseInv, StoreTypes, LeaseState
<1>6. CASE b = a
  <2>1. active'[a] \subseteq Ids
    BY <1>3, <1>5 DEF StoreTypes
  <2>2. \A i \in active'[a] : lease'[i].left <= marker'[a].left
    BY <1>3, <1>4, <1>5, <2>1
  <2>3. IsFiniteSet(active'[a]) /\ Cardinality(active'[a]) \in Nat
    BY GrantedCount
  <2>4. Live(a)' \subseteq active'[a]
    BY DEF Live
  <2>5. Cardinality(Live(a)') <= Cardinality(active'[a]) /\ Cardinality(Live(a)') \in Nat
    BY <2>3, <2>4, FS_Subset, FS_CardinalityType
  <2> QED BY <1>4, <1>6, <2>2, <2>3, <2>5
<1>7. CASE b # a
  <2>1. active'[b] = active[b] /\ marker'[b] = marker[b] /\ active[b] \subseteq Ids
    BY <1>3, <1>4, <1>5, <1>7 DEF StoreTypes
  <2>2. \A i \in active[b] : i # id
    BY <1>3, <1>5, <1>7 DEF ActiveInv
  <2>3. \A i \in active[b] : lease'[i].left = lease[i].left /\ Lapsed(i)' = Lapsed(i)
    BY <1>3, <2>1, <2>2 DEF Lapsed
  <2>4. Live(b)' = Live(b)
    BY <2>1, <2>3 DEF Live
  <2> QED BY <2>1, <2>3, <2>4 DEF MarkerInv
<1> QED BY <1>6, <1>7

LEMMA TickKeepsMarkers ==
    ASSUME LeaseInv, MarkerInv, Tick
    PROVE  MarkerInv'
<1> SUFFICES ASSUME NEW a \in Accounts
             PROVE  /\ \A i \in active'[a] : ~Lapsed(i)' => lease'[i].left <= marker'[a].left
                    /\ marker'[a].zeroed \/ marker'[a].count >= Cardinality(Live(a)')
  BY DEF MarkerInv
<1>1. /\ active' = active /\ active[a] \subseteq Ids
      /\ \A i \in active[a] : lease[i].left \in Int
      /\ \A i \in active[a] : ~Lapsed(i)' => lease'[i].left = lease[i].left - 1 /\ ~Lapsed(i)
  <2>1. /\ active' = active /\ active[a] \subseteq Ids
        /\ \A i \in active[a] : lease[i].left \in Int
        /\ Retention \in Nat /\ Retention > 0
    BY TickStore DEF LeaseInv, StoreTypes
  <2> SUFFICES ASSUME NEW i \in active[a], ~Lapsed(i)'
               PROVE  lease'[i].left = lease[i].left - 1 /\ ~Lapsed(i)
    BY <2>1
  <2>2. i \in Ids /\ lease[i].left \in Int
    BY <2>1
  <2>3. CASE lease[i].left > 1 - Retention
    <3>1. lease'[i].left = lease[i].left - 1
      BY <2>2, <2>3, TickStore
    <3> QED BY <2>2, <3>1 DEF Lapsed
  <2>4. CASE ~(lease[i].left > 1 - Retention)
    <3>1. lease'[i].left = -Retention
      BY <2>2, <2>4, TickStore
    <3> QED BY <2>1, <3>1 DEF Lapsed
  <2> QED BY <2>3, <2>4
<1>2. Live(a)' \subseteq Live(a) /\ Live(a) \subseteq active[a]
  BY <1>1 DEF Live
<1>3. \A i \in active[a] : ~Lapsed(i) => lease[i].left <= marker[a].left
  BY DEF MarkerInv
<1>4. CASE marker[a].left > 1
  <2>1. /\ marker'[a].left = marker[a].left - 1 /\ marker'[a].count = marker[a].count
        /\ marker'[a].zeroed = marker[a].zeroed
        /\ marker[a].left \in Int /\ marker[a].count \in Int
    BY <1>4, TickMarker
  <2>2. \A i \in active'[a] : ~Lapsed(i)' => lease'[i].left <= marker'[a].left
    BY <1>1, <1>3, <2>1
  <2>3. IsFiniteSet(Live(a)) /\ Cardinality(Live(a)) \in Nat
    BY <1>2, CountType DEF LeaseInv
  <2>4. Cardinality(Live(a)') <= Cardinality(Live(a)) /\ Cardinality(Live(a)') \in Nat
    BY <1>2, <2>3, FS_Subset, FS_CardinalityType
  <2>5. marker[a].zeroed \/ marker[a].count >= Cardinality(Live(a))
    BY DEF MarkerInv
  <2>6. marker[a].count >= Cardinality(Live(a)) => marker'[a].count >= Cardinality(Live(a)')
    BY <2>1, <2>3, <2>4
  <2> QED BY <2>1, <2>2, <2>5, <2>6
<1>5. CASE ~(marker[a].left > 1)
  <2>1. marker'[a].count = 0 /\ marker'[a].left = 0 /\ marker[a].left \in Int
    BY <1>5, TickMarker
  <2>2. \A i \in active[a] : Lapsed(i)'
    BY <1>1, <1>3, <1>5, <2>1 DEF Lapsed
  <2>3. Live(a)' = {}
    BY <1>1, <2>2 DEF Live
  <2>4. Cardinality(Live(a)') = 0
    BY <2>3, FS_EmptySet
  <2> QED BY <1>1, <2>1, <2>2, <2>4
<1> QED BY <1>4, <1>5

LEMMA MarkerInit == Init => MarkerInv
<1> SUFFICES ASSUME Init, NEW a \in Accounts
             PROVE  active[a] = {} /\ marker[a].count >= Cardinality(Live(a))
  BY DEF MarkerInv
<1>1. active[a] = {} /\ marker[a] = Unmarked
  BY DEF Init
<1>2. Live(a) = {}
  BY <1>1 DEF Live
<1>3. Unmarked.count = 0
  BY DEF Unmarked
<1> QED BY <1>1, <1>2, <1>3, FS_EmptySet

LEMMA MarkerNext == TTL <= Retention /\ LeaseInv /\ MarkerInv /\ [Next]_vars => MarkerInv'
<1> SUFFICES ASSUME TTL <= Retention, LeaseInv, MarkerInv, [Next]_vars PROVE MarkerInv'
  OBVIOUS
<1>0. StoreTypes /\ ReqTypes /\ ActiveInv
  BY DEF LeaseInv
<1>1. CASE UNCHANGED store
  BY <1>0, <1>1, UntouchedEnds, EndsKeepMarkers
<1>2. ASSUME NEW k \in Keys, UpdateLeaseStatus(k) PROVE MarkerInv'
  <2>1. PICK X : Ends(X)
    BY <1>2, UpdateEnds
  <2>2. Marks
    BY <1>2, UpdateEnds
  <2> QED BY <2>1, <2>2, EndsKeepMarkers
<1>3. ASSUME NEW r \in Requests, AcquireFull(r) \/ AcquireLease(r) \/ AcquireFails(r) PROVE MarkerInv'
  <2>1. req[r].pc = "acquire"
    BY <1>3 DEF AcquireFull, AcquireLease, AcquireFails, At
  <2>2. PICK a \in Accounts : a = req[r].account
    BY <1>0, <2>1, ReqParts
  <2>3. LeaseFull(r, a) \/ LeaseExists(r, a) \/ LeaseGranted(r, a) \/ UNCHANGED store
    BY <1>3, <2>2 DEF AcquireFull, AcquireLease, AcquireFails
  <2> QED BY <1>1, <2>3, FullEnds, ExistsEnds, EndsKeepMarkers, GrantedKeepsMarkers
<1>4. ASSUME NEW r \in Requests, Step(r) PROVE MarkerInv'
  <2>1. Key(r) \in Keys
    BY <1>0, KeyFacts
  <2>2. CASE Schedule(r) \/ NoneAvailable(r) \/ CandidateFails(r) \/ CandidateSucceeds(r)
    BY <1>1, <2>2 DEF Schedule, NoneAvailable, CandidateFails, CandidateSucceeds
  <2>3. CASE SkipOpen(r) \/ SkipFull(r)
    BY <1>1, <1>2, <2>1, <2>3 DEF SkipOpen, SkipFull, GiveBack
  <2> QED BY <1>3, <1>4, <2>2, <2>3 DEF Step
<1>5. ASSUME NEW r \in Requests, DecisionFails(r) \/ ThrottleCanceled(r) \/ Crash(r) PROVE MarkerInv'
  <2>1. Key(r) \in Keys
    BY <1>0, KeyFacts
  <2> QED BY <1>1, <1>2, <1>5, <2>1 DEF DecisionFails, ThrottleCanceled, Crash
<1>6. ASSUME NEW k \in feedback, RecordFeedback(k) \/ FeedbackLost(k) PROVE MarkerInv'
  <2>1. k \in Keys
    BY <1>0 DEF ReqTypes
  <2> QED BY <1>1, <1>2, <1>6, <2>1 DEF RecordFeedback, FeedbackLost
<1>7. ASSUME NEW id \in Ids, ScanLease(id) \/ MarkExpired(id) PROVE MarkerInv'
  <2>1. CASE ScanLease(id)
    BY <1>1, <2>1 DEF ScanLease
  <2>2. CASE MarkExpired(id)
    BY <2>2, MarkExpiredEnds, EndsKeepMarkers
  <2> QED BY <1>7, <2>1, <2>2
<1>8. CASE Tick
  BY <1>8, TickKeepsMarkers
<1>9. CASE UNCHANGED vars
  BY <1>1, <1>9 DEF vars, store
<1> QED BY <1>3, <1>4, <1>5, <1>6, <1>7, <1>8, <1>9 DEF Next

\* The marker the scheduler reads never hides a live lease, unless the metrics
\* endpoint set it to zero last: updateLeaseScript keeps it for the retention
\* time (five minutes), which is not shorter than a lease's TTL (30 seconds).
THEOREM MarkerHidesNoLease ==
    ASSUME TTL <= Retention
    PROVE  Spec => []MarkerCovers
<1>1. LeaseInv /\ MarkerInv => MarkerCovers
  BY DEF MarkerInv, MarkerCovers, Live, Concurrency
<1>2. LeaseInv /\ MarkerInv /\ [Next]_vars => MarkerInv'
  BY MarkerNext
<1> QED BY LeaseInvariant, MarkerInit, <1>1, <1>2, PTL DEF Spec

-----------------------------------------------------------------------------
(* The circuit breaker. *)

\* A probe that is not back is outstanding or lost, so no caller that asks is
\* one already; and the counter never exceeds the places there are.
ProbesOut ==
    /\ probes \subseteq outstanding \cup abandoned
    /\ halfOpenInflight <= MaxHalfOpenRequests

BreakerInv == BreakerTypeOK /\ InflightAccounted /\ ProbesOut /\ BackoffBounded

LEMMA FiniteCallers ==
  ASSUME NEW S, S \subseteq Callers
  PROVE  IsFiniteSet(S) /\ Cardinality(S) \in Nat
  BY CallersAssumption, FS_Subset, FS_CardinalityType

LEMMA AddCaller ==
  ASSUME NEW S, S \subseteq Callers, NEW c \in Callers, c \notin S
  PROVE  Cardinality(S \cup {c}) = Cardinality(S) + 1
  BY FiniteCallers, FS_AddElement

LEMMA RemoveCaller ==
  ASSUME NEW S, S \subseteq Callers, NEW c \in S
  PROVE  Cardinality(S \ {c}) = Cardinality(S) - 1
  BY FiniteCallers, FS_RemoveElement

LEMMA BreakerInvInit == BreakerInit => BreakerInv
  BY ThresholdAssumption, TimeoutAssumption
  DEF BreakerInit, BreakerInv, BreakerTypeOK, InflightAccounted, ProbesOut, BackoffBounded

\* What the counter and the period become decides the accounting.
LEMMA Accounting ==
  ASSUME NEW i \in Int, NEW P, P \subseteq Callers, NEW n \in Nat,
         i <= MaxHalfOpenRequests, i = Cardinality(P) - n
  PROVE  Cardinality(P) <= MaxHalfOpenRequests + n
  BY FiniteCallers, ThresholdAssumption

\* A caller that is let in during half-open is a new probe and takes a place.
LEMMA AllowKeeps ==
  ASSUME BreakerInv, NEW c \in Callers, Allow(c)
  PROVE  BreakerInv'
<1>0. /\ c \notin outstanding /\ c \notin abandoned /\ c \notin probes /\ probes \subseteq Callers
      /\ outstanding' = outstanding \cup {c} /\ abandoned' = abandoned
      /\ halfOpenInflight \in Int /\ staleReturns \in Nat
  BY DEF Allow, AllowClosed, AllowOpen, AllowHalfOpen, MayAsk, BreakerInv, BreakerTypeOK, ProbesOut
<1>2. BreakerTypeOK'
  <2>1. /\ outstanding' \cap abandoned' = {} /\ outstanding' \subseteq Callers
        /\ abandoned' \subseteq Callers /\ probes' \subseteq Callers /\ staleReturns' \in Nat
    BY DEF Allow, AllowClosed, AllowOpen, AllowHalfOpen, MayAsk, BreakerInv, BreakerTypeOK, period
  <2>2. healthy' \in BOOLEAN
    BY Zenon DEF Allow, AllowClosed, AllowOpen, AllowHalfOpen, BreakerInv, BreakerTypeOK
  <2>3. /\ state' \in {"closed", "open", "half-open"} /\ halfOpenInflight' \in Int
        /\ consecutiveSuccesses' \in 0..SuccessThreshold
        /\ consecutiveFailures' \in 0..FailureThreshold
        /\ timeLeft' \in 0..MaxTimeout /\ currentTimeout' \in 1..MaxTimeout
    BY ThresholdAssumption
    DEF Allow, AllowClosed, AllowOpen, AllowHalfOpen, BreakerInv, BreakerTypeOK, counts, timer
  <2> QED
    BY <2>1, <2>2, <2>3 DEF BreakerTypeOK
<1>3. InflightAccounted' /\ ProbesOut'
  <2>1. CASE AllowClosed(c)
    BY <2>1, <1>0 DEF AllowClosed, BreakerInv, InflightAccounted, ProbesOut, period
  <2>2. CASE AllowOpen(c)
    <3>1. Cardinality({c}) = 1
      BY FS_Singleton
    <3> QED
      BY <2>2, <3>1, <1>0, ThresholdAssumption DEF AllowOpen, InflightAccounted, ProbesOut
  <2>3. CASE AllowHalfOpen(c)
    <3>1. Cardinality(probes \cup {c}) = Cardinality(probes) + 1 /\ Cardinality(probes) \in Nat
      BY <1>0, AddCaller, FiniteCallers
    <3>2. /\ state' = "half-open" /\ halfOpenInflight' = halfOpenInflight + 1
          /\ halfOpenInflight' <= MaxHalfOpenRequests
          /\ probes' = probes \cup {c} /\ staleReturns' = staleReturns
          /\ halfOpenInflight = Cardinality(probes) - staleReturns
      BY <2>3, <1>0, ThresholdAssumption DEF AllowHalfOpen, BreakerInv, InflightAccounted
    <3>3. ProbesOut'
      BY <3>2, <1>0 DEF BreakerInv, ProbesOut
    <3> QED
      BY <3>1, <3>2, <3>3, <1>0, ThresholdAssumption DEF InflightAccounted
  <2> QED
    BY <2>1, <2>2, <2>3 DEF Allow
<1>4. BackoffBounded'
  BY DEF Allow, AllowClosed, AllowOpen, AllowHalfOpen, BreakerInv, BackoffBounded, timer
<1> QED
  BY <1>2, <1>3, <1>4 DEF BreakerInv

\* A caller that comes back is no longer outstanding, and no longer a probe.
LEMMA ReturnsFacts ==
  ASSUME BreakerInv, NEW c \in Callers, Returns(c), NEW ends, PeriodAfter(c, ends)
  PROVE  /\ outstanding' \subseteq Callers /\ abandoned' \subseteq Callers
         /\ outstanding' \cap abandoned' = {} /\ healthy' \in BOOLEAN
         /\ probes' \subseteq Callers /\ staleReturns' \in Nat
         /\ probes' \subseteq outstanding' \cup abandoned'
<1>1. /\ c \in outstanding /\ outstanding \subseteq Callers /\ abandoned \subseteq Callers
      /\ outstanding' = outstanding \ {c} /\ abandoned' = abandoned
      /\ outstanding \cap abandoned = {} /\ healthy' = healthy /\ healthy \in BOOLEAN
  BY DEF Returns, BreakerInv, BreakerTypeOK
<1>2. /\ probes' = {} \/ probes' = probes \ {c}
      /\ probes \subseteq Callers /\ probes \subseteq outstanding \cup abandoned
      /\ staleReturns \in Nat /\ staleReturns' \in {0, staleReturns, staleReturns + 1}
  BY DEF PeriodAfter, BreakerInv, BreakerTypeOK, ProbesOut
<1> QED
  BY <1>1, <1>2

\* Counted or not, a caller that comes back during half-open takes one off
\* the counter: a probe leaves the probes, another one is a stale return.
LEMMA PlaceGivenBack ==
  ASSUME BreakerInv, NEW c \in Callers, state = "half-open", PeriodAfter(c, FALSE)
  PROVE  halfOpenInflight - 1 = Cardinality(probes') - staleReturns'
<1>1. /\ halfOpenInflight = Cardinality(probes) - staleReturns /\ staleReturns \in Nat
      /\ probes \subseteq Callers /\ Cardinality(probes) \in Nat
  BY FiniteCallers DEF BreakerInv, InflightAccounted, BreakerTypeOK
<1>2. CASE c \in probes
  <2>1. Cardinality(probes \ {c}) = Cardinality(probes) - 1
    BY <1>1, <1>2, RemoveCaller
  <2>2. probes' = probes \ {c} /\ staleReturns' = staleReturns
    BY <1>2 DEF PeriodAfter
  <2> QED
    BY <1>1, <2>1, <2>2
<1>3. CASE c \notin probes
  <2>1. probes' = probes /\ staleReturns' = staleReturns + 1
    BY <1>3 DEF PeriodAfter
  <2> QED
    BY <1>1, <2>1
<1> QED
  BY <1>2, <1>3

\* A successful caller gives a place back, and closing resets the backoff.
LEMMA SuccessKeeps ==
  ASSUME BreakerInv, NEW c \in Callers, recordSuccess(c)
  PROVE  BreakerInv'
<1> DEFINE succ == UpTo(consecutiveSuccesses + 1, SuccessThreshold)
           closes == state = "half-open" /\ succ >= SuccessThreshold
<1>1. /\ consecutiveSuccesses' = succ /\ consecutiveFailures' = 0
      /\ state' = IF closes THEN "closed" ELSE state
      /\ currentTimeout' = IF closes THEN Timeout ELSE currentTimeout
      /\ halfOpenInflight' = IF closes THEN 0
                             ELSE IF state = "half-open" THEN halfOpenInflight - 1
                             ELSE halfOpenInflight
      /\ PeriodAfter(c, closes)
      /\ timeLeft' = timeLeft /\ Returns(c)
  BY DEF recordSuccess
<1>2. succ \in 0..SuccessThreshold
  BY ThresholdAssumption DEF UpTo, BreakerInv, BreakerTypeOK
<1>3. BreakerTypeOK'
  <2>1. halfOpenInflight' \in Int
    BY <1>1 DEF BreakerInv, BreakerTypeOK
  <2>2. state' \in {"closed", "open", "half-open"} /\ currentTimeout' \in 1..MaxTimeout
    BY <1>1, TimeoutAssumption DEF BreakerInv, BreakerTypeOK
  <2> QED
    BY <1>1, <1>2, <2>1, <2>2, ReturnsFacts, ThresholdAssumption DEF BreakerInv, BreakerTypeOK
<1> HIDE DEF succ
<1>4. InflightAccounted' /\ ProbesOut'
  <2>1. /\ probes' \subseteq outstanding' \cup abandoned' /\ probes' \subseteq Callers /\ staleReturns' \in Nat
        /\ halfOpenInflight \in Int /\ halfOpenInflight <= MaxHalfOpenRequests
        /\ (state # "half-open" => halfOpenInflight = 0)
    BY <1>1, ReturnsFacts DEF BreakerInv, BreakerTypeOK, ProbesOut, InflightAccounted
  <2>2. CASE closes
    BY <1>1, <2>1, <2>2, ThresholdAssumption DEF InflightAccounted, ProbesOut
  <2>3. CASE ~closes /\ state = "half-open"
    <3>1. /\ halfOpenInflight' = halfOpenInflight - 1 /\ state' = "half-open" /\ PeriodAfter(c, FALSE)
      BY <1>1, <2>3 DEF PeriodAfter
    <3>2. halfOpenInflight' = Cardinality(probes') - staleReturns'
      BY <2>3, <3>1, PlaceGivenBack
    <3>3. halfOpenInflight' <= MaxHalfOpenRequests /\ halfOpenInflight' \in Int
      BY <2>1, <3>1, ThresholdAssumption
    <3>4. Cardinality(probes') <= MaxHalfOpenRequests + staleReturns'
      BY <2>1, <3>2, <3>3, Accounting
    <3> QED
      BY <2>1, <3>1, <3>2, <3>3, <3>4 DEF InflightAccounted, ProbesOut
  <2>4. CASE state # "half-open"
    BY <1>1, <2>1, <2>4 DEF InflightAccounted, ProbesOut
  <2> QED
    BY <2>2, <2>3, <2>4
<1>5. BackoffBounded'
  BY <1>1, TimeoutAssumption DEF BreakerInv, BackoffBounded
<1> QED
  BY <1>3, <1>4, <1>5 DEF BreakerInv

\* A failure that trips ends half-open; one that does not trip comes when
\* nothing is counted.
LEMMA FailureKeeps ==
  ASSUME BreakerInv, NEW c \in Callers, recordFailure(c)
  PROVE  BreakerInv'
<1> DEFINE fails == UpTo(consecutiveFailures + 1, FailureThreshold)
           backoff == IF state = "half-open" THEN UpTo(currentTimeout * 2, MaxTimeout)
                      ELSE currentTimeout
           trips == state = "half-open" \/ (state = "closed" /\ fails >= FailureThreshold)
<1>1. /\ consecutiveFailures' = fails /\ consecutiveSuccesses' = 0
      /\ currentTimeout' = backoff
      /\ state' = IF trips THEN "open" ELSE state
      /\ timeLeft' = IF trips THEN backoff ELSE timeLeft
      /\ halfOpenInflight' = IF trips THEN 0 ELSE halfOpenInflight
      /\ PeriodAfter(c, trips)
      /\ Returns(c)
  BY DEF recordFailure
<1>2. fails \in 0..FailureThreshold
  BY ThresholdAssumption DEF UpTo, BreakerInv, BreakerTypeOK
<1>3. backoff \in Timeout..MaxTimeout /\ (state # "half-open" => backoff = currentTimeout)
  BY TimeoutAssumption DEF UpTo, BreakerInv, BreakerTypeOK, BackoffBounded
<1>4. BreakerTypeOK'
  <2>1. state' \in {"closed", "open", "half-open"} /\ halfOpenInflight' \in Int
    BY <1>1 DEF BreakerInv, BreakerTypeOK
  <2>2. timeLeft' \in 0..MaxTimeout /\ currentTimeout' \in 1..MaxTimeout
    BY <1>1, <1>3, TimeoutAssumption DEF BreakerInv, BreakerTypeOK
  <2> QED
    BY <1>1, <1>2, <2>1, <2>2, ReturnsFacts, ThresholdAssumption DEF BreakerTypeOK
<1>5. InflightAccounted' /\ ProbesOut'
  <2>1. /\ probes' \subseteq outstanding' \cup abandoned'
        /\ (state # "half-open" => halfOpenInflight = 0)
    BY <1>1, ReturnsFacts DEF BreakerInv, InflightAccounted
  <2> QED
    BY <1>1, <2>1, ThresholdAssumption DEF InflightAccounted, ProbesOut
<1>6. BackoffBounded'
  BY <1>1, <1>3 DEF BreakerInv, BackoffBounded
<1> QED
  BY <1>4, <1>5, <1>6 DEF BreakerInv

\* A panic moves a caller from outstanding to abandoned; a probe stays one.
LEMMA PanicKeeps ==
  ASSUME BreakerInv, NEW c \in Callers, Panic(c)
  PROVE  BreakerInv'
<1>1. /\ c \in outstanding /\ c \notin abandoned
      /\ outstanding \subseteq Callers /\ abandoned \subseteq Callers
      /\ outstanding' = outstanding \ {c} /\ abandoned' = abandoned \cup {c}
      /\ outstanding' \cap abandoned' = {}
  BY DEF Panic, BreakerInv, BreakerTypeOK
<1>2. ProbesOut'
  BY <1>1 DEF Panic, BreakerInv, ProbesOut, period
<1>3. BreakerTypeOK'
  <2>1. outstanding' \subseteq Callers /\ abandoned' \subseteq Callers /\ healthy' = healthy
    BY <1>1 DEF Panic
  <2> QED
    BY <1>1, <2>1 DEF Panic, BreakerInv, BreakerTypeOK, counts, timer, period
<1> QED
  BY <1>2, <1>3 DEF Panic, BreakerInv, InflightAccounted, BackoffBounded, timer, period

\* Every step of the specification preserves the invariant.
LEMMA BreakerInvNext == BreakerInv /\ [BreakerNext]_breakerVars => BreakerInv'
<1> SUFFICES ASSUME BreakerInv, [BreakerNext]_breakerVars PROVE BreakerInv'
  OBVIOUS
<1>1. ASSUME NEW c \in Callers, Allow(c) \/ Done(c) \/ Panic(c) PROVE BreakerInv'
  BY <1>1, AllowKeeps, SuccessKeeps, FailureKeeps, PanicKeeps DEF Done
<1>2. CASE Reset
  BY <1>2, ThresholdAssumption, TimeoutAssumption
  DEF Reset, BreakerInv, BreakerTypeOK, InflightAccounted, ProbesOut, BackoffBounded
<1>3. CASE BreakerTick
  <2>1. BreakerTypeOK'
    BY <1>3, TimeoutAssumption DEF BreakerTick, BreakerInv, BreakerTypeOK, counts, period
  <2> QED
    BY <1>3, <2>1 DEF BreakerTick, BreakerInv, InflightAccounted, ProbesOut, BackoffBounded, period
<1>4. CASE HealthChanges
  BY <1>4 DEF HealthChanges, BreakerInv, BreakerTypeOK, InflightAccounted, ProbesOut, BackoffBounded, counts, timer, period
<1>5. CASE UNCHANGED breakerVars
  BY <1>5 DEF breakerVars, BreakerInv, BreakerTypeOK, InflightAccounted, ProbesOut, BackoffBounded, counts, timer, period
<1> QED
  BY <1>1, <1>2, <1>3, <1>4, <1>5 DEF BreakerNext

LEMMA BreakerInvariant == BreakerSpec => []BreakerInv
  BY BreakerInvInit, BreakerInvNext, PTL DEF BreakerSpec

\* Type correctness of the breaker: counters within their thresholds and
\* timers within MaxTimeout.
THEOREM BreakerTypes == BreakerSpec => []BreakerTypeOK
<1>1. BreakerInv => BreakerTypeOK
  BY DEF BreakerInv
<1> QED
  BY BreakerInvariant, <1>1, PTL

\* The half-open counter is the number of probes not back, less the stale done
\* callbacks of the period, for any number of callers, places, panics and
\* trips; so those callbacks, and nothing else, let probes in beyond the limit.
THEOREM ProbesAccounted == BreakerSpec => []InflightAccounted
<1>1. BreakerInv => InflightAccounted
  BY DEF BreakerInv
<1> QED
  BY BreakerInvariant, <1>1, PTL

\* The backoff of a re-tripping breaker stays within Timeout and MaxTimeout
\* and is forgotten whenever the breaker is closed.
THEOREM BreakerBackoff == BreakerSpec => []BackoffBounded
<1>1. BreakerInv => BackoffBounded
  BY DEF BreakerInv
<1> QED
  BY BreakerInvariant, <1>1, PTL
=============================================================================
