------------------------- MODULE EventDeliveryProofs -------------------------
(***************************************************************************)
(* Proofs about EventDelivery, for any events, processes, listings and     *)
(* faults.                                                                 *)
(***************************************************************************)
EXTENDS EventDelivery, FiniteSetTheorems, WellFoundedInduction, TLAPS

\* Passes whose handler may still succeed for e, or fail and free its record.
Working(e) == {d \in Dispatchers : pass[d].pc \in {"handle", "compensate", "failed"} /\ Ev(d) = e}

\* One more claim on a record with this status is possible.
Open(status) == IF status \in {"absent", "failed"} THEN 1 ELSE 0
Free(e) == Open(inbox[e])

\* Successes so far, those still possible from the passes at work, and the next
\* claim: together at most one, and one for each start without a claim.
ClaimsBounded ==
    \A e \in Events : handled[e] + Cardinality(Working(e)) + Free(e) <= 1 + unclaimed[e]

\* A pass that is about to record or publish a success has had one.
PassHandled ==
    \A d \in Dispatchers : pass[d].pc \in {"processed", "publish"} => handled[Ev(d)] > 0

\* Without a lost lock one pass runs, and nobody changes a record under it.
AloneUnderLock ==
    ~lost => /\ \A d \in Dispatchers : pass[d].pc # "idle" => leader = d
             /\ \A d \in Dispatchers : pass[d].pc = "reclaim" => inbox[Ev(d)] = "failed"
             /\ \A d \in Dispatchers : pass[d].pc # "refind"
             /\ \A e \in Events : unclaimed[e] = 0

DeliveryInv == TypeOK /\ ClaimsBounded /\ PublishedHandled /\ PassHandled /\ AloneUnderLock

-----------------------------------------------------------------------------
LEMMA LeastEvent ==
  ASSUME NEW S, S \subseteq Events, S # {}
  PROVE  \E e \in S : \A f \in S : e <= f
<1>1. S \subseteq Nat
  BY EventsAssumption
<1> DEFINE LT == {p \in Nat \X Nat : p[1] < p[2]}
<1>2. IsWellFoundedOn(LT, Nat)
  <2>1. LT = OpToRel(<, Nat)
    BY Zenon DEF OpToRel
  <2> QED
    BY <2>1, NatLessThanWellFounded, Zenon
<1> HIDE DEF LT
<1>3. PICK e \in S : \A f \in S : ~(<<f, e>> \in LT)
  BY <1>1, <1>2, WFMin
<1>4. ASSUME NEW f \in S PROVE e <= f
  <2>1. e \in Nat /\ f \in Nat /\ ~(<<f, e>> \in LT)
    BY <1>1, <1>3
  <2>2. ~(f < e)
    BY <2>1 DEF LT
  <2> QED
    BY <2>1, <2>2
<1> QED
  BY <1>3, <1>4

\* The event a listing is at.
Head(S) == CHOOSE e \in S : \A f \in S : e <= f

LEMMA EvIsHead == \A d : Ev(d) = Head(pass[d].listed)
  BY DEF Ev, Head

LEMMA EvListed ==
  ASSUME TypeOK, NEW d \in Dispatchers, pass[d].listed # {}
  PROVE  Ev(d) \in pass[d].listed /\ Ev(d) \in Events
<1>1. pass[d].listed \subseteq Events
  BY DEF TypeOK
<1> QED
  BY <1>1, LeastEvent DEF Ev

Passes == [pc : Running \cup {"idle"}, listed : SUBSET Events]

\* The part of TypeOK about passes, and the rest.
PassTypes ==
    /\ pass \in [Dispatchers -> Passes]
    /\ \A d \in Dispatchers : pass[d].pc \notin {"idle", "next"} => pass[d].listed # {}

TableTypes ==
    /\ outbox \in [Events -> {"absent", "pending", "failed", "published"}]
    /\ due \in [Events -> BOOLEAN]
    /\ inbox \in [Events -> {"absent", "pending", "processed", "failed"}]

EffectTypes ==
    /\ accrued \subseteq Orders /\ compensated \subseteq Orders
    /\ handled \in [Events -> Nat] /\ unclaimed \in [Events -> Nat]
    /\ everFailed \subseteq Events

MiscTypes ==
    /\ leader \in Dispatchers \cup {Nobody}
    /\ lost \in BOOLEAN
    /\ failures \in Nat /\ faults \in Nat

LEMMA TypeParts == TypeOK <=> PassTypes /\ TableTypes /\ EffectTypes /\ MiscTypes
  BY DEF TypeOK, PassTypes, Passes, TableTypes, EffectTypes, MiscTypes

\* Only the pass of d is at another place.
OnlyPass(d) == \A c \in Dispatchers : c # d => pass'[c] = pass[c]

LEMMA GotoFacts ==
  ASSUME TypeOK, NEW d \in Dispatchers, NEW place \in Running, pass[d].listed # {}, Goto(d, place)
  PROVE  /\ PassTypes' /\ OnlyPass(d)
         /\ pass'[d].pc = place /\ pass'[d].listed = pass[d].listed /\ Ev(d)' = Ev(d)
<1>1. pass \in [Dispatchers -> Passes]
  BY TypeParts DEF PassTypes
<1>2. pass' = [pass EXCEPT ![d] = [pass[d] EXCEPT !.pc = place]]
  BY DEF Goto
<1>3. /\ [pass[d] EXCEPT !.pc = place] \in Passes
      /\ [pass[d] EXCEPT !.pc = place].pc = place
      /\ [pass[d] EXCEPT !.pc = place].listed = pass[d].listed
  BY <1>1 DEF Passes
<1>4. /\ pass' \in [Dispatchers -> Passes] /\ OnlyPass(d)
      /\ pass'[d] = [pass[d] EXCEPT !.pc = place]
  BY <1>1, <1>2, <1>3 DEF OnlyPass
<1>5. pass'[d].pc = place /\ pass'[d].listed = pass[d].listed
  BY <1>3, <1>4
<1>6. PassTypes'
  BY <1>4, <1>5, TypeParts DEF PassTypes, OnlyPass
<1>7. Ev(d)' = Head(pass'[d].listed)
  BY DEF Ev, Head
<1> QED
  BY <1>4, <1>5, <1>6, <1>7, EvIsHead

\* A pass is given a new place and listing.
LEMMA ResetFacts ==
  ASSUME TypeOK, NEW d \in Dispatchers, NEW place \in {"idle", "next"}, NEW S \in SUBSET Events,
         pass' = [pass EXCEPT ![d] = [pc |-> place, listed |-> S]]
  PROVE  PassTypes' /\ OnlyPass(d) /\ pass'[d].pc = place
<1>1. pass \in [Dispatchers -> Passes]
  BY TypeParts DEF PassTypes
<1>2. [pc |-> place, listed |-> S] \in Passes
  BY DEF Passes, Running
<1>3. /\ pass' \in [Dispatchers -> Passes] /\ OnlyPass(d)
      /\ pass'[d] = [pc |-> place, listed |-> S]
  BY <1>1, <1>2 DEF OnlyPass
<1> QED
  BY <1>3, TypeParts DEF PassTypes, OnlyPass

LEMMA NextFacts ==
  ASSUME TypeOK, NEW d \in Dispatchers, NextEvent(d)
  PROVE  PassTypes' /\ OnlyPass(d) /\ pass'[d].pc = "next"
<1>1. pass[d].listed \subseteq Events
  BY DEF TypeOK
<1>2. pass[d].listed \ {Ev(d)} \in SUBSET Events
  BY <1>1
<1>3. pass' = [pass EXCEPT ![d] = [pc |-> "next", listed |-> pass[d].listed \ {Ev(d)}]]
  BY DEF NextEvent
<1> QED
  BY <1>2, <1>3, ResetFacts

LEMMA EndFacts ==
  ASSUME TypeOK, NEW d \in Dispatchers, EndPass(d)
  PROVE  /\ PassTypes' /\ OnlyPass(d) /\ pass'[d].pc = "idle"
         /\ leader' \in Dispatchers \cup {Nobody}
<1>1. pass' = [pass EXCEPT ![d] = [pc |-> "idle", listed |-> {}]]
  BY DEF EndPass, NoPass
<1>2. leader' \in Dispatchers \cup {Nobody}
  BY DEF EndPass, TypeOK
<1>3. {} \in SUBSET Events /\ "idle" \in {"idle", "next"}
  OBVIOUS
<1>4. PassTypes' /\ OnlyPass(d) /\ pass'[d].pc = "idle"
  BY <1>1, <1>3, ResetFacts
<1> QED
  BY <1>2, <1>4

-----------------------------------------------------------------------------
(* Counting the passes at work. *)

Counts(d, e) == IF d \in Working(e) THEN 1 ELSE 0

LEMMA WorkingFinite ==
  ASSUME NEW e
  PROVE  /\ IsFiniteSet(Working(e)) /\ Cardinality(Working(e)) \in Nat
         /\ IsFiniteSet(Working(e)') /\ Cardinality(Working(e)') \in Nat
<1>1. Working(e) \subseteq Dispatchers /\ Working(e)' \subseteq Dispatchers
  BY DEF Working
<1> QED
  BY <1>1, DispatchersAssumption, FS_Subset, FS_CardinalityType

LEMMA WorkCount ==
  ASSUME NEW d \in Dispatchers, OnlyPass(d), NEW e
  PROVE  Cardinality(Working(e)') = Cardinality(Working(e)) - Counts(d, e) + Counts(d, e)'
<1>1. ASSUME NEW c \in Dispatchers, c # d
      PROVE  c \in Working(e)' <=> c \in Working(e)
  <2>1. pass'[c] = pass[c]
    BY <1>1 DEF OnlyPass
  <2>2. Ev(c)' = Head(pass'[c].listed)
    BY DEF Ev, Head
  <2>3. Ev(c)' = Ev(c)
    BY <2>1, <2>2, EvIsHead
  <2> QED
    BY <2>1, <2>3 DEF Working
<1>2. Working(e)' \ {d} = Working(e) \ {d}
  <2>1. Working(e) \subseteq Dispatchers /\ Working(e)' \subseteq Dispatchers
    BY DEF Working
  <2> QED
    BY <1>1, <2>1
<1>3. /\ Cardinality(Working(e) \ {d}) = Cardinality(Working(e)) - Counts(d, e)
      /\ Cardinality(Working(e)' \ {d}) = Cardinality(Working(e)') - Counts(d, e)'
  <2>1. /\ Cardinality(Working(e) \ {d}) =
             IF d \in Working(e) THEN Cardinality(Working(e)) - 1 ELSE Cardinality(Working(e))
        /\ Cardinality(Working(e)' \ {d}) =
             IF d \in Working(e)' THEN Cardinality(Working(e)') - 1 ELSE Cardinality(Working(e)')
    BY WorkingFinite, FS_RemoveElement
  <2> QED
    BY <2>1, WorkingFinite DEF Counts
<1>4. Counts(d, e) \in {0, 1} /\ Counts(d, e)' \in {0, 1}
  BY DEF Counts
<1> QED
  BY <1>2, <1>3, <1>4, WorkingFinite

\* A step of d's pass, or the start of one, preserves the invariant if it takes
\* from what is still possible for an event what it adds to it.
LEMMA StepKeeps ==
  ASSUME DeliveryInv, TypeOK', NEW d \in Dispatchers, OnlyPass(d), lost' = lost,
         \A e \in Events : handled'[e] >= handled[e],
         \A e \in Events : handled'[e] + Counts(d, e)' + Free(e)' + unclaimed[e]
                           <= handled[e] + Counts(d, e) + Free(e) + unclaimed'[e],
         \A e \in Events : outbox'[e] = "published" \/ inbox'[e] = "processed" =>
             outbox[e] = "published" \/ inbox[e] = "processed" \/ handled'[e] > 0,
         pass'[d].pc \in {"processed", "publish"} => handled'[Ev(d)'] > 0,
         pass[d].pc # "idle" \/ leader = Nobody,
         ~lost => /\ pass'[d].pc # "idle" => leader' = d
                  /\ pass'[d].pc = "reclaim" => inbox'[Ev(d)'] = "failed"
                  /\ pass'[d].pc # "refind"
                  /\ unclaimed' = unclaimed
  PROVE  DeliveryInv'
<1>0. TypeOK /\ ClaimsBounded /\ PublishedHandled /\ PassHandled /\ AloneUnderLock
  BY DEF DeliveryInv
<1>1. ClaimsBounded'
  <2> SUFFICES ASSUME NEW e \in Events
               PROVE  handled'[e] + Cardinality(Working(e)') + Free(e)' <= 1 + unclaimed'[e]
    BY DEF ClaimsBounded
  <2>1. /\ handled[e] \in Nat /\ unclaimed[e] \in Nat /\ handled'[e] \in Nat /\ unclaimed'[e] \in Nat
        /\ Cardinality(Working(e)) \in Nat /\ Cardinality(Working(e)') \in Nat
        /\ Free(e) \in Nat /\ Free(e)' \in Nat
        /\ Counts(d, e) \in Nat /\ Counts(d, e)' \in Nat
    BY <1>0, WorkingFinite DEF TypeOK, Free, Open, Counts
  <2>2. handled[e] + Cardinality(Working(e)) + Free(e) <= 1 + unclaimed[e]
    BY <1>0 DEF ClaimsBounded
  <2>3. Cardinality(Working(e)') = Cardinality(Working(e)) - Counts(d, e) + Counts(d, e)'
    BY WorkCount
  <2>4. handled'[e] + Counts(d, e)' + Free(e)' + unclaimed[e]
        <= handled[e] + Counts(d, e) + Free(e) + unclaimed'[e]
    OBVIOUS
  <2> QED
    BY <2>1, <2>2, <2>3, <2>4
<1>2. PublishedHandled'
  <2>1. \A e \in Events : handled[e] \in Nat /\ handled'[e] \in Nat
    BY <1>0 DEF TypeOK
  <2> QED
    BY <1>0, <2>1 DEF PublishedHandled
<1>3. PassHandled'
  <2> SUFFICES ASSUME NEW c \in Dispatchers, c # d, pass'[c].pc \in {"processed", "publish"}
               PROVE  handled'[Ev(c)'] > 0
    BY DEF PassHandled
  <2>1. pass'[c] = pass[c]
    BY DEF OnlyPass
  <2>2. Ev(c)' = Head(pass'[c].listed)
    BY DEF Ev, Head
  <2>3. Ev(c)' = Ev(c)
    BY <2>1, <2>2, EvIsHead
  <2>4. pass[c].listed # {}
    BY <1>0, <2>1 DEF TypeOK
  <2>5. Ev(c) \in Events
    BY <1>0, <2>4, EvListed
  <2>6. handled[Ev(c)] > 0
    BY <1>0, <2>1 DEF PassHandled
  <2>7. handled[Ev(c)] \in Nat /\ handled'[Ev(c)] \in Nat /\ handled'[Ev(c)] >= handled[Ev(c)]
    BY <1>0, <2>5 DEF TypeOK
  <2> QED
    BY <2>3, <2>6, <2>7
<1>4. AloneUnderLock'
  <2> SUFFICES ASSUME ~lost PROVE AloneUnderLock'
    BY DEF AloneUnderLock
  <2>1. ASSUME NEW c \in Dispatchers, c # d PROVE pass'[c].pc = "idle"
    <3>1. leader # c
      BY <1>0, <2>1, DispatchersAssumption DEF AloneUnderLock
    <3>2. pass[c].pc = "idle"
      BY <1>0, <3>1 DEF AloneUnderLock
    <3> QED
      BY <2>1, <3>2 DEF OnlyPass
  <2>2. \A e \in Events : unclaimed'[e] = 0
    BY <1>0 DEF AloneUnderLock
  <2> QED
    BY <2>1, <2>2 DEF AloneUnderLock
<1> QED
  BY <1>1, <1>2, <1>3, <1>4 DEF DeliveryInv

LEMMA NextTypes == PassTypes' /\ TableTypes' /\ EffectTypes' /\ MiscTypes' => TypeOK'
  BY DEF TypeOK, PassTypes, Passes, TableTypes, EffectTypes, MiscTypes

Busy(pc) == IF pc \in {"handle", "compensate", "failed"} THEN 1 ELSE 0

LEMMA CountsAre ==
  ASSUME NEW d \in Dispatchers, NEW e
  PROVE  /\ Counts(d, e) = IF Ev(d) = e THEN Busy(pass[d].pc) ELSE 0
         /\ Counts(d, e)' = IF Ev(d)' = e THEN Busy(pass'[d].pc) ELSE 0
  BY DEF Counts, Working, Busy

\* A step of d's pass that stays with its event.
LEMMA GotoKeeps ==
  ASSUME DeliveryInv, NEW d \in Dispatchers, NEW place \in Running,
         pass[d].pc # "idle", pass[d].listed # {}, Goto(d, place),
         TableTypes', EffectTypes', MiscTypes',
         lost' = lost, leader' = leader, outbox' = outbox,
         \A f \in Events : f # Ev(d) =>
             handled'[f] = handled[f] /\ inbox'[f] = inbox[f] /\ unclaimed'[f] = unclaimed[f],
         handled'[Ev(d)] >= handled[Ev(d)],
         handled'[Ev(d)] + Busy(place) + Open(inbox'[Ev(d)]) + unclaimed[Ev(d)]
            <= handled[Ev(d)] + Busy(pass[d].pc) + Open(inbox[Ev(d)]) + unclaimed'[Ev(d)],
         inbox'[Ev(d)] = "processed" => inbox[Ev(d)] = "processed" \/ handled'[Ev(d)] > 0,
         place \in {"processed", "publish"} => handled'[Ev(d)] > 0,
         ~lost => /\ place = "reclaim" => inbox'[Ev(d)] = "failed"
                  /\ place # "refind"
                  /\ unclaimed' = unclaimed
  PROVE  DeliveryInv'
<1>0. TypeOK /\ AloneUnderLock
  BY DEF DeliveryInv
<1>1. /\ PassTypes' /\ OnlyPass(d)
      /\ pass'[d].pc = place /\ Ev(d)' = Ev(d)
  BY <1>0, GotoFacts
<1>2. TypeOK'
  BY <1>1, NextTypes
<1>3. PICK x \in Events : x = Ev(d)
  BY <1>0, EvListed
<1>6. Ev(d) = x /\ Ev(d)' = x
  BY <1>1, <1>3
<1>7. \A e \in Events : handled[e] \in Nat /\ handled'[e] \in Nat /\ unclaimed[e] \in Nat
                         /\ unclaimed'[e] \in Nat
  BY <1>0, <1>2 DEF TypeOK
<1>8. \A e \in Events : handled'[e] >= handled[e]
  BY <1>6, <1>7
<1>9. ASSUME NEW e \in Events
      PROVE  handled'[e] + Counts(d, e)' + Free(e)' + unclaimed[e]
             <= handled[e] + Counts(d, e) + Free(e) + unclaimed'[e]
  <2>1. CASE e = x
    <3>1. Counts(d, e) = Busy(pass[d].pc) /\ Counts(d, e)' = Busy(place)
      BY <1>1, <1>6, <2>1, CountsAre
    <3>2. handled'[x] + Busy(place) + Open(inbox'[x]) + unclaimed[x]
            <= handled[x] + Busy(pass[d].pc) + Open(inbox[x]) + unclaimed'[x]
      BY <1>6
    <3> QED
      BY <2>1, <3>1, <3>2 DEF Free
  <2>2. CASE e # x
    <3>1. Counts(d, e) = 0 /\ Counts(d, e)' = 0
      BY <1>6, <2>2, CountsAre
    <3>2. inbox'[e] = inbox[e] /\ handled'[e] = handled[e] /\ unclaimed'[e] = unclaimed[e]
      BY <1>6, <2>2
    <3>3. Free(e)' = Free(e) /\ Free(e) \in Nat
      BY <3>2 DEF Free, Open
    <3> QED
      BY <1>7, <3>1, <3>2, <3>3
  <2> QED
    BY <2>1, <2>2
<1>10. \A e \in Events : outbox'[e] = "published" \/ inbox'[e] = "processed" =>
             outbox[e] = "published" \/ inbox[e] = "processed" \/ handled'[e] > 0
  BY <1>6
<1>11. pass'[d].pc \in {"processed", "publish"} => handled'[Ev(d)'] > 0
  BY <1>1
<1>12. ~lost => /\ pass'[d].pc # "idle" => leader' = d
                /\ pass'[d].pc = "reclaim" => inbox'[Ev(d)'] = "failed"
                /\ pass'[d].pc # "refind"
                /\ unclaimed' = unclaimed
  BY <1>0, <1>1 DEF AloneUnderLock
<1> QED
  BY <1>1, <1>2, <1>8, <1>9, <1>10, <1>11, <1>12, StepKeeps

\* A step that takes d's pass to its next event, to its end or to its start.
LEMMA LeaveKeeps ==
  ASSUME DeliveryInv, NEW d \in Dispatchers, PassTypes', OnlyPass(d),
         pass'[d].pc \in {"idle", "next"},
         TableTypes', EffectTypes', MiscTypes',
         lost' = lost, inbox' = inbox, handled' = handled, unclaimed' = unclaimed,
         \A e \in Events : outbox'[e] = "published" => outbox[e] = "published" \/ handled[e] > 0,
         pass[d].pc # "idle" \/ leader = Nobody,
         ~lost => (pass'[d].pc # "idle" => leader' = d)
  PROVE  DeliveryInv'
<1>0. TypeOK
  BY DEF DeliveryInv
<1>1. TypeOK'
  BY NextTypes
<1>2. ASSUME NEW e \in Events
      PROVE  /\ handled'[e] >= handled[e]
             /\ handled'[e] + Counts(d, e)' + Free(e)' + unclaimed[e]
                <= handled[e] + Counts(d, e) + Free(e) + unclaimed'[e]
  <2>1. Counts(d, e)' = 0 /\ Counts(d, e) \in Nat
    BY CountsAre DEF Busy
  <2>2. Free(e)' = Free(e) /\ Free(e) \in Nat
    BY DEF Free, Open
  <2>3. handled[e] \in Nat /\ unclaimed[e] \in Nat
    BY <1>0 DEF TypeOK
  <2> QED
    BY <2>1, <2>2, <2>3
<1> QED
  BY <1>1, <1>2, StepKeeps

-----------------------------------------------------------------------------
(* The steps of a pass. *)

\* The event a pass is at, and what the invariant says of it.
LEMMA AtEvent ==
  ASSUME DeliveryInv, NEW d \in Dispatchers, pass[d].listed # {}
  PROVE  /\ Ev(d) \in Events
         /\ handled[Ev(d)] \in Nat /\ unclaimed[Ev(d)] \in Nat
         /\ inbox[Ev(d)] = "processed" => handled[Ev(d)] > 0
         /\ pass[d].pc \in {"processed", "publish"} => handled[Ev(d)] > 0
         /\ TableTypes /\ EffectTypes /\ MiscTypes
<1>1. TypeOK /\ PublishedHandled /\ PassHandled
  BY DEF DeliveryInv
<1>2. Ev(d) \in Events
  BY <1>1, EvListed
<1>3. TableTypes /\ EffectTypes /\ MiscTypes
  BY <1>1, TypeParts
<1> QED
  BY <1>1, <1>2, <1>3 DEF PublishedHandled, PassHandled, EffectTypes

LEMMA ListedAt ==
  ASSUME DeliveryInv, NEW d \in Dispatchers, pass[d].pc \notin {"idle", "next"}
  PROVE  pass[d].listed # {}
  BY DEF DeliveryInv, TypeOK

LEMMA StartKeeps ==
  ASSUME DeliveryInv, NEW d \in Dispatchers, Start(d)
  PROVE  DeliveryInv'
<1>1. TypeOK /\ TableTypes /\ EffectTypes /\ MiscTypes
  BY TypeParts DEF DeliveryInv
<1>2. PICK S \in ListDispatchableOutbox : pass' = [pass EXCEPT ![d] = [pc |-> "next", listed |-> S]]
  BY DEF Start
<1>3. S \in SUBSET Events /\ "next" \in {"idle", "next"}
  BY <1>2 DEF ListDispatchableOutbox, Dispatchable
<1>4. PassTypes' /\ OnlyPass(d) /\ pass'[d].pc = "next"
  BY <1>1, <1>2, <1>3, ResetFacts
<1>5. /\ leader = Nobody /\ leader' = d /\ lost' = lost /\ outbox' = outbox /\ inbox' = inbox
      /\ handled' = handled /\ unclaimed' = unclaimed
      /\ UNCHANGED <<due, accrued, compensated, everFailed, failures, faults>>
  BY DEF Start, tables, effects, history, bounds
<1>6. TableTypes' /\ EffectTypes' /\ MiscTypes'
  BY <1>1, <1>5 DEF TableTypes, EffectTypes, MiscTypes
<1> QED
  BY <1>4, <1>5, <1>6, LeaveKeeps

\* The ends of a pass: at the end of the listing, or by a fault.
LEMMA EndKeeps ==
  ASSUME DeliveryInv, NEW d \in Dispatchers, pass[d].pc # "idle", EndPass(d),
         UNCHANGED <<tables, effects, history>>, failures' \in Nat, faults' \in Nat
  PROVE  DeliveryInv'
<1>1. TypeOK /\ TableTypes /\ EffectTypes /\ MiscTypes
  BY TypeParts DEF DeliveryInv
<1>2. /\ PassTypes' /\ OnlyPass(d) /\ pass'[d].pc = "idle"
      /\ leader' \in Dispatchers \cup {Nobody}
  BY <1>1, EndFacts
<1>3. /\ lost' = lost /\ outbox' = outbox /\ inbox' = inbox
      /\ handled' = handled /\ unclaimed' = unclaimed
      /\ UNCHANGED <<due, accrued, compensated, everFailed>>
  BY DEF tables, effects, history
<1>4. TableTypes' /\ EffectTypes' /\ MiscTypes'
  BY <1>1, <1>2, <1>3 DEF TableTypes, EffectTypes, MiscTypes
<1> QED
  BY <1>2, <1>3, <1>4, LeaveKeeps

LEMMA PassEndsKeep ==
  ASSUME DeliveryInv, NEW d \in Dispatchers, Finish(d) \/ OutboxError(d) \/ Crash(d)
  PROVE  DeliveryInv'
<1>1. failures \in Nat /\ faults \in Nat
  BY DEF DeliveryInv, TypeOK
<1>2. CASE Finish(d)
  <2>1. pass[d].pc # "idle" /\ EndPass(d) /\ UNCHANGED <<tables, effects, history, failures, faults>>
    BY <1>2 DEF Finish, At, bounds
  <2> QED
    BY <1>1, <2>1, EndKeeps
<1>3. CASE OutboxError(d) \/ Crash(d)
  <2>1. /\ pass[d].pc # "idle" /\ EndPass(d) /\ UNCHANGED <<tables, effects, history, failures>>
        /\ faults' = faults + 1
    BY <1>3 DEF OutboxError, Crash, At, Fault
  <2> QED
    BY <1>1, <2>1, EndKeeps
<1> QED
  BY <1>2, <1>3

\* The ends of an event: published, marked for a retry, or left to its claimer.
LEMMA NextEventKeeps ==
  ASSUME DeliveryInv, NEW d \in Dispatchers, pass[d].pc # "idle", NextEvent(d),
         TableTypes', EffectTypes', MiscTypes',
         lost' = lost, leader' = leader, inbox' = inbox, handled' = handled, unclaimed' = unclaimed,
         \A e \in Events : outbox'[e] = "published" => outbox[e] = "published" \/ handled[e] > 0
  PROVE  DeliveryInv'
<1>1. TypeOK /\ AloneUnderLock
  BY DEF DeliveryInv
<1>2. PassTypes' /\ OnlyPass(d) /\ pass'[d].pc = "next"
  BY <1>1, NextFacts
<1>3. ~lost => leader = d
  BY <1>1 DEF AloneUnderLock
<1> QED
  BY <1>2, <1>3, LeaveKeeps

LEMMA MarkOutboxPublishedKeeps ==
  ASSUME DeliveryInv, NEW d \in Dispatchers, MarkOutboxPublished(d)
  PROVE  DeliveryInv'
<1>1. pass[d].pc = "publish" /\ pass[d].listed # {}
  BY ListedAt DEF MarkOutboxPublished, At
<1>2. PICK e \in Events : e = Ev(d)
  BY <1>1, AtEvent
<1>3. handled[e] > 0 /\ TableTypes /\ EffectTypes /\ MiscTypes
  BY <1>1, <1>2, AtEvent
<1>4. /\ outbox' = IF outbox[e] \in {"pending", "failed"} THEN [outbox EXCEPT ![e] = "published"] ELSE outbox
      /\ due' = [due EXCEPT ![e] = FALSE]
      /\ NextEvent(d)
      /\ UNCHANGED <<inbox, leader, accrued, compensated, handled, unclaimed, everFailed, lost, failures, faults>>
  BY <1>2 DEF MarkOutboxPublished, effects, history, bounds
<1>5. TableTypes' /\ EffectTypes' /\ MiscTypes'
  BY <1>3, <1>4 DEF TableTypes, EffectTypes, MiscTypes
<1>6. \A f \in Events : outbox'[f] = "published" => outbox[f] = "published" \/ handled[f] > 0
  BY <1>3, <1>4 DEF TableTypes
<1> QED
  BY <1>1, <1>4, <1>5, <1>6, NextEventKeeps

LEMMA MarkOutboxFailedKeeps ==
  ASSUME DeliveryInv, NEW d \in Dispatchers, MarkOutboxFailed(d)
  PROVE  DeliveryInv'
<1>1. pass[d].pc = "retry" /\ pass[d].listed # {}
  BY ListedAt DEF MarkOutboxFailed, At
<1>2. PICK e \in Events : e = Ev(d)
  BY <1>1, AtEvent
<1>3. TableTypes /\ EffectTypes /\ MiscTypes
  BY <1>1, AtEvent
<1>4. /\ outbox' = [outbox EXCEPT ![e] = "failed"]
      /\ due' = [due EXCEPT ![e] = FALSE]
      /\ everFailed' = everFailed \cup {e}
      /\ NextEvent(d)
      /\ UNCHANGED <<inbox, leader, accrued, compensated, handled, unclaimed, lost, failures, faults>>
  BY <1>2 DEF MarkOutboxFailed, effects, bounds
<1>5. TableTypes' /\ EffectTypes' /\ MiscTypes'
  BY <1>3, <1>4 DEF TableTypes, EffectTypes, MiscTypes
<1>6. \A f \in Events : outbox'[f] = "published" => outbox[f] = "published" \/ handled[f] > 0
  BY <1>3, <1>4 DEF TableTypes
<1> QED
  BY <1>1, <1>4, <1>5, <1>6, NextEventKeeps

\* A statement on the inbox record of the event at hand, or none.
LEMMA RecordKeeps ==
  ASSUME DeliveryInv, NEW d \in Dispatchers, NEW place \in Running, NEW e \in Events, e = Ev(d),
         NEW status \in {"absent", "pending", "processed", "failed"},
         pass[d].pc # "idle", pass[d].listed # {}, Goto(d, place),
         inbox' = [inbox EXCEPT ![e] = status],
         UNCHANGED <<outbox, due, leader, effects, history>>, failures' \in Nat, faults' \in Nat,
         Busy(place) + Open(status) <= Busy(pass[d].pc) + Open(inbox[e]),
         status = "processed" => inbox[e] = "processed" \/ pass[d].pc = "processed",
         place = "publish" => inbox[e] = "processed" \/ pass[d].pc = "processed",
         place # "processed",
         ~lost => (place = "reclaim" => status = "failed") /\ place # "refind"
  PROVE  DeliveryInv'
<1>1. /\ handled[e] \in Nat /\ unclaimed[e] \in Nat
      /\ inbox[e] = "processed" => handled[e] > 0
      /\ pass[d].pc \in {"processed", "publish"} => handled[e] > 0
      /\ TableTypes /\ EffectTypes /\ MiscTypes
  BY AtEvent
<1>2. /\ lost' = lost /\ leader' = leader /\ outbox' = outbox /\ due' = due
      /\ handled' = handled /\ unclaimed' = unclaimed
      /\ accrued' = accrued /\ compensated' = compensated /\ everFailed' = everFailed
  BY DEF effects, history
<1>3. TableTypes' /\ EffectTypes' /\ MiscTypes'
  BY <1>1, <1>2 DEF TableTypes, EffectTypes, MiscTypes
<1>4. inbox'[e] = status /\ \A f \in Events : f # e => inbox'[f] = inbox[f]
  BY <1>1 DEF TableTypes
<1>5. \A f \in Events : f # Ev(d) =>
         handled'[f] = handled[f] /\ inbox'[f] = inbox[f] /\ unclaimed'[f] = unclaimed[f]
  BY <1>2, <1>4
<1>6. handled'[Ev(d)] >= handled[Ev(d)]
  BY <1>1, <1>2
<1>7. handled'[Ev(d)] + Busy(place) + Open(inbox'[Ev(d)]) + unclaimed[Ev(d)]
      <= handled[Ev(d)] + Busy(pass[d].pc) + Open(inbox[Ev(d)]) + unclaimed'[Ev(d)]
  <2>1. /\ Busy(place) \in Nat /\ Busy(pass[d].pc) \in Nat
        /\ Open(status) \in Nat /\ Open(inbox[e]) \in Nat
    BY DEF Busy, Open
  <2>2. handled[e] + Busy(place) + Open(status) + unclaimed[e]
        <= handled[e] + Busy(pass[d].pc) + Open(inbox[e]) + unclaimed[e]
    BY <1>1, <2>1
  <2> QED
    BY <1>2, <1>4, <2>2
<1>8. inbox'[Ev(d)] = "processed" => inbox[Ev(d)] = "processed" \/ handled'[Ev(d)] > 0
  BY <1>1, <1>2, <1>4
<1>9. place \in {"processed", "publish"} => handled'[Ev(d)] > 0
  BY <1>1, <1>2
<1>10. ~lost => /\ place = "reclaim" => inbox'[Ev(d)] = "failed"
                /\ place # "refind"
                /\ unclaimed' = unclaimed
  BY <1>2, <1>4
<1> QED
  BY <1>2, <1>3, <1>5, <1>6, <1>7, <1>8, <1>9, <1>10, GotoKeeps

LEMMA RecordInboxKeeps ==
  ASSUME DeliveryInv, NEW d \in Dispatchers, RecordInbox(d)
  PROVE  DeliveryInv'
<1>1. pass[d].pc = "next" /\ pass[d].listed # {}
  BY DEF RecordInbox, At
<1>2. PICK e \in Events : e = Ev(d)
  BY <1>1, AtEvent
<1>3. TableTypes /\ EffectTypes /\ MiscTypes
  BY <1>1, AtEvent
<1>4. /\ inbox[e] \in {"absent", "pending", "processed", "failed"}
      /\ inbox = [inbox EXCEPT ![e] = inbox[e]]
      /\ failures \in Nat /\ faults \in Nat
  BY <1>3 DEF TableTypes, MiscTypes
<1>5. UNCHANGED <<outbox, due, leader, effects, history>> /\ failures' = failures /\ faults' = faults
  BY DEF RecordInbox, bounds
<1>6. \/ inbox[e] = "absent" /\ inbox' = [inbox EXCEPT ![e] = "pending"] /\ Goto(d, "handle")
      \/ inbox[e] = "failed" /\ inbox' = inbox /\ Goto(d, "reclaim")
      \/ inbox[e] \notin {"absent", "failed"} /\ inbox' = inbox /\ Existing(d, inbox[e])
  BY <1>2 DEF RecordInbox
<1>7. CASE inbox[e] = "absent" /\ inbox' = [inbox EXCEPT ![e] = "pending"] /\ Goto(d, "handle")
  <2>1. /\ Busy("handle") + Open("pending") <= Busy(pass[d].pc) + Open(inbox[e])
        /\ "handle" \in Running /\ "pending" \in {"absent", "pending", "processed", "failed"}
    BY <1>1, <1>7 DEF Busy, Open, Running
  <2> QED
    BY <1>1, <1>2, <1>4, <1>5, <1>7, <2>1, RecordKeeps
<1>8. CASE inbox[e] = "failed" /\ inbox' = inbox /\ Goto(d, "reclaim")
  <2>1. Busy("reclaim") + Open("failed") <= Busy(pass[d].pc) + Open(inbox[e]) /\ "reclaim" \in Running
    BY <1>1, <1>8 DEF Busy, Open, Running
  <2>2. inbox' = [inbox EXCEPT ![e] = "failed"]
    BY <1>4, <1>8
  <2> QED
    BY <1>1, <1>2, <1>4, <1>5, <1>8, <2>1, <2>2, RecordKeeps
<1>9. CASE inbox[e] = "processed" /\ inbox' = inbox /\ Existing(d, inbox[e])
  <2>1. Busy("publish") + Open("processed") <= Busy(pass[d].pc) + Open(inbox[e]) /\ "publish" \in Running
    BY <1>1, <1>9 DEF Busy, Open, Running
  <2>2. Goto(d, "publish")
    BY <1>9, Zenon DEF Existing
  <2>3. inbox' = [inbox EXCEPT ![e] = "processed"]
    BY <1>4, <1>9
  <2> QED
    BY <1>1, <1>2, <1>4, <1>5, <1>9, <2>1, <2>2, <2>3, RecordKeeps
<1>10. CASE inbox[e] = "pending" /\ inbox' = inbox /\ Existing(d, inbox[e])
  <2>1. "pending" # "processed" /\ "pending" # "failed"
    OBVIOUS
  <2>2. NextEvent(d)
    BY <1>10, <2>1, Zenon DEF Existing
  <2>3. /\ TableTypes' /\ EffectTypes' /\ MiscTypes' /\ outbox' = outbox /\ lost' = lost
        /\ leader' = leader /\ handled' = handled /\ unclaimed' = unclaimed
    BY <1>3, <1>5, <1>10 DEF TableTypes, EffectTypes, MiscTypes, effects, history
  <2> QED
    BY <1>1, <1>10, <2>2, <2>3, NextEventKeeps
<1> QED
  BY <1>4, <1>6, <1>7, <1>8, <1>9, <1>10

LEMMA ReclaimKeeps ==
  ASSUME DeliveryInv, NEW d \in Dispatchers, Reclaim(d)
  PROVE  DeliveryInv'
<1>1. pass[d].pc = "reclaim" /\ pass[d].listed # {}
  BY ListedAt DEF Reclaim, At
<1>2. PICK e \in Events : e = Ev(d)
  BY <1>1, AtEvent
<1>3. TableTypes /\ EffectTypes /\ MiscTypes
  BY <1>1, AtEvent
<1>4. /\ inbox[e] \in {"absent", "pending", "processed", "failed"}
      /\ inbox = [inbox EXCEPT ![e] = inbox[e]]
      /\ failures \in Nat /\ faults \in Nat
  BY <1>3 DEF TableTypes, MiscTypes
<1>5. UNCHANGED <<outbox, due, leader, effects, history>> /\ failures' = failures /\ faults' = faults
  BY DEF Reclaim, bounds
<1>6. CASE inbox[e] = "failed"
  <2>1. inbox' = [inbox EXCEPT ![e] = "pending"] /\ Goto(d, "handle")
    BY <1>2, <1>6 DEF Reclaim
  <2>2. /\ Busy("handle") + Open("pending") <= Busy(pass[d].pc) + Open(inbox[e])
        /\ "handle" \in Running /\ "pending" \in {"absent", "pending", "processed", "failed"}
    BY <1>1, <1>6 DEF Busy, Open, Running
  <2> QED
    BY <1>1, <1>2, <1>4, <1>5, <2>1, <2>2, RecordKeeps
<1>7. CASE inbox[e] # "failed"
  <2>1. inbox' = inbox /\ Goto(d, "refind")
    BY <1>2, <1>7 DEF Reclaim
  <2>2. Busy("refind") + Open(inbox[e]) <= Busy(pass[d].pc) + Open(inbox[e]) /\ "refind" \in Running
    BY <1>1 DEF Busy, Open, Running
  <2>3. lost
    BY <1>1, <1>2, <1>7 DEF DeliveryInv, AloneUnderLock
  <2>4. inbox' = [inbox EXCEPT ![e] = inbox[e]]
    BY <1>4, <2>1
  <2> QED
    BY <1>1, <1>2, <1>4, <1>5, <2>1, <2>2, <2>3, <2>4, RecordKeeps
<1> QED
  BY <1>6, <1>7

LEMMA RefindKeeps ==
  ASSUME DeliveryInv, NEW d \in Dispatchers, Refind(d)
  PROVE  DeliveryInv'
<1>1. pass[d].pc = "refind" /\ pass[d].listed # {}
  BY ListedAt DEF Refind, At
<1>2. PICK e \in Events : e = Ev(d)
  BY <1>1, AtEvent
<1>3. /\ handled[e] \in Nat /\ unclaimed[e] \in Nat
      /\ TableTypes /\ EffectTypes /\ MiscTypes
  BY <1>1, <1>2, AtEvent
<1>4. /\ inbox[e] \in {"absent", "pending", "processed", "failed"}
      /\ inbox = [inbox EXCEPT ![e] = inbox[e]]
      /\ failures \in Nat /\ faults \in Nat
  BY <1>3 DEF TableTypes, MiscTypes
<1>5. /\ Existing(d, inbox[e])
      /\ unclaimed' = IF inbox[e] = "failed" THEN [unclaimed EXCEPT ![e] = @ + 1] ELSE unclaimed
      /\ UNCHANGED <<outbox, due, inbox, leader, effects, everFailed, lost>>
      /\ failures' = failures /\ faults' = faults
  BY <1>2 DEF Refind, tables, bounds
<1>6. CASE inbox[e] = "processed"
  <2>1. Busy("publish") + Open("processed") <= Busy(pass[d].pc) + Open(inbox[e]) /\ "publish" \in Running
    BY <1>1, <1>6 DEF Busy, Open, Running
  <2>2. Goto(d, "publish")
    BY <1>5, <1>6, Zenon DEF Existing
  <2>3. inbox' = [inbox EXCEPT ![e] = "processed"] /\ UNCHANGED history
    BY <1>4, <1>5, <1>6 DEF history
  <2> QED
    BY <1>1, <1>2, <1>4, <1>5, <1>6, <2>1, <2>2, <2>3, RecordKeeps
<1>7. CASE inbox[e] \in {"absent", "pending"}
  <2>1. inbox[e] # "processed" /\ inbox[e] # "failed"
    BY <1>7
  <2>2. NextEvent(d)
    BY <1>5, <2>1, Zenon DEF Existing
  <2>3. /\ TableTypes' /\ EffectTypes' /\ MiscTypes' /\ outbox' = outbox /\ lost' = lost
        /\ leader' = leader /\ handled' = handled /\ unclaimed' = unclaimed
    BY <1>3, <1>5, <2>1 DEF TableTypes, EffectTypes, MiscTypes, effects
  <2> QED
    BY <1>1, <1>5, <2>2, <2>3, NextEventKeeps
<1>8. CASE inbox[e] = "failed"
  <2>1. Goto(d, "handle")
    <3>1. "failed" # "processed"
      OBVIOUS
    <3> QED
      BY <1>5, <1>8, <3>1, Zenon DEF Existing
  <2>2. /\ handled' = handled /\ lost' = lost /\ leader' = leader /\ outbox' = outbox
        /\ inbox' = inbox /\ unclaimed' = [unclaimed EXCEPT ![e] = @ + 1]
        /\ UNCHANGED <<due, accrued, compensated, everFailed>>
    BY <1>5, <1>8 DEF effects
  <2>3. /\ unclaimed'[e] = unclaimed[e] + 1
        /\ \A f \in Events : f # e => unclaimed'[f] = unclaimed[f]
        /\ unclaimed' \in [Events -> Nat]
    BY <1>3, <2>2 DEF EffectTypes
  <2>4. TableTypes' /\ EffectTypes' /\ MiscTypes'
    BY <1>3, <1>5, <2>2, <2>3 DEF TableTypes, EffectTypes, MiscTypes
  <2>5. Busy("handle") = 1 /\ Busy(pass[d].pc) = 0 /\ Open(inbox[e]) = 1 /\ "handle" \in Running
    BY <1>1, <1>8 DEF Busy, Open, Running
  <2>6. lost
    BY <1>1 DEF DeliveryInv, AloneUnderLock
  <2>7. handled'[e] + Busy("handle") + Open(inbox'[e]) + unclaimed[e]
        <= handled[e] + Busy(pass[d].pc) + Open(inbox[e]) + unclaimed'[e]
    BY <1>3, <2>2, <2>3, <2>5
  <2>8. handled'[e] >= handled[e]
    BY <1>3, <2>2
  <2> QED
    BY <1>1, <1>2, <2>1, <2>2, <2>3, <2>4, <2>5, <2>6, <2>7, <2>8, GotoKeeps
<1> QED
  BY <1>4, <1>6, <1>7, <1>8

\* The handler succeeds, whatever it wrote to the ledgers.
LEMMA SucceedsKeeps ==
  ASSUME DeliveryInv, NEW d \in Dispatchers, pass[d].pc \in {"handle", "compensate"}, Succeeds(d),
         accrued' \subseteq Orders, compensated' \subseteq Orders,
         UNCHANGED <<tables, leader, history, bounds>>
  PROVE  DeliveryInv'
<1>1. pass[d].listed # {} /\ pass[d].pc # "idle"
  BY ListedAt
<1>2. PICK e \in Events : e = Ev(d)
  BY <1>1, AtEvent
<1>3. /\ handled[e] \in Nat /\ unclaimed[e] \in Nat
      /\ TableTypes /\ EffectTypes /\ MiscTypes
  BY <1>1, <1>2, AtEvent
<1>4. /\ handled' = [handled EXCEPT ![e] = @ + 1] /\ Goto(d, "processed")
      /\ UNCHANGED <<outbox, due, inbox, leader, unclaimed, everFailed, lost, failures, faults>>
  BY <1>2 DEF Succeeds, tables, history, bounds
<1>5. /\ handled'[e] = handled[e] + 1
      /\ \A f \in Events : f # e => handled'[f] = handled[f]
      /\ handled' \in [Events -> Nat]
  BY <1>3, <1>4 DEF EffectTypes
<1>6. TableTypes' /\ EffectTypes' /\ MiscTypes'
  BY <1>3, <1>4, <1>5 DEF TableTypes, EffectTypes, MiscTypes
<1>7. Busy("processed") = 0 /\ Busy(pass[d].pc) = 1 /\ "processed" \in Running /\ Open(inbox[e]) \in Nat
  BY DEF Busy, Running, Open
<1>8. /\ handled'[e] >= handled[e] /\ handled'[e] > 0
      /\ handled'[e] + Busy("processed") + Open(inbox'[e]) + unclaimed[e]
         <= handled[e] + Busy(pass[d].pc) + Open(inbox[e]) + unclaimed'[e]
  BY <1>3, <1>4, <1>5, <1>7
<1> QED
  BY <1>1, <1>2, <1>4, <1>5, <1>6, <1>7, <1>8, GotoKeeps

LEMMA HandleKeeps ==
  ASSUME DeliveryInv, NEW d \in Dispatchers, Handle(d)
  PROVE  DeliveryInv'
<1>1. accrued \subseteq Orders /\ compensated \subseteq Orders
  BY DEF DeliveryInv, TypeOK
<1>2. ASSUME pass[d].pc \in {"handle", "compensate"} PROVE Order[Ev(d)] \in Orders
  <2>1. pass[d].listed # {}
    BY <1>2, ListedAt
  <2> QED
    BY <2>1, AtEvent DEF Orders
<1>3. CASE AccrueRebate(d)
  <2>1. /\ pass[d].pc = "handle" /\ accrued' \in {accrued, accrued \cup {Order[Ev(d)]}} /\ Succeeds(d)
        /\ UNCHANGED <<tables, leader, compensated, history, bounds>>
    BY <1>3 DEF AccrueRebate, At
  <2> QED
    BY <1>1, <1>2, <2>1, SucceedsKeeps
<1>4. CASE CompensateRefund(d)
  <2>1. /\ pass[d].pc = "compensate" /\ compensated' = compensated \cup {Order[Ev(d)]} /\ Succeeds(d)
        /\ UNCHANGED <<tables, leader, accrued, history, bounds>>
    BY <1>4 DEF CompensateRefund, At
  <2> QED
    BY <1>1, <1>2, <2>1, SucceedsKeeps
<1>5. CASE Notify(d)
  <2>1. /\ pass[d].pc = "handle" /\ Succeeds(d)
        /\ UNCHANGED <<tables, leader, accrued, compensated, history, bounds>>
    BY <1>5 DEF Notify, At
  <2> QED
    BY <1>1, <2>1, SucceedsKeeps
<1>6. CASE ListLedgers(d)
  <2>1. /\ pass[d].pc = "handle"
        /\ UNCHANGED <<tables, leader, accrued, compensated, history, bounds>>
        /\ Succeeds(d) \/ (Goto(d, "compensate") /\ handled' = handled)
    BY <1>6 DEF ListLedgers, At
  <2>2. CASE Succeeds(d)
    BY <1>1, <2>1, <2>2, SucceedsKeeps
  <2>3. CASE Goto(d, "compensate") /\ handled' = handled
    <3>1. pass[d].listed # {} /\ pass[d].pc # "idle"
      BY <2>1, ListedAt
    <3>2. PICK e \in Events : e = Ev(d)
      BY <3>1, AtEvent
    <3>3. TableTypes /\ MiscTypes
      BY <3>1, AtEvent
    <3>4. /\ inbox[e] \in {"absent", "pending", "processed", "failed"}
          /\ inbox' = [inbox EXCEPT ![e] = inbox[e]]
          /\ failures' \in Nat /\ faults' \in Nat
          /\ UNCHANGED <<outbox, due, leader, effects, history>>
      BY <2>1, <2>3, <3>3 DEF TableTypes, MiscTypes, tables, effects, bounds
    <3>5. /\ Busy("compensate") + Open(inbox[e]) <= Busy(pass[d].pc) + Open(inbox[e])
          /\ "compensate" \in Running
      BY <2>1 DEF Busy, Open, Running
    <3> QED
      BY <2>3, <3>1, <3>2, <3>4, <3>5, RecordKeeps
  <2> QED
    BY <2>1, <2>2, <2>3
<1> QED
  BY <1>3, <1>4, <1>5, <1>6 DEF Handle

LEMMA HandlerFailsKeeps ==
  ASSUME DeliveryInv, NEW d \in Dispatchers, HandlerFails(d)
  PROVE  DeliveryInv'
<1>1. pass[d].listed # {} /\ pass[d].pc # "idle" /\ pass[d].pc \in {"handle", "compensate"}
  BY ListedAt DEF HandlerFails, At
<1>2. PICK e \in Events : e = Ev(d)
  BY <1>1, AtEvent
<1>3. /\ handled[e] \in Nat /\ unclaimed[e] \in Nat
      /\ TableTypes /\ EffectTypes /\ MiscTypes
  BY <1>1, <1>2, AtEvent
<1>4. /\ Goto(d, "failed") /\ failures' = failures + 1
      /\ UNCHANGED <<outbox, due, inbox, leader, handled, unclaimed, everFailed, lost, faults>>
  BY DEF HandlerFails, tables, history
<1>5. accrued' \subseteq Orders /\ compensated' \subseteq Orders
  <2>1. Order[e] \in Orders /\ accrued \subseteq Orders /\ compensated \subseteq Orders
    BY <1>2, <1>3 DEF Orders, EffectTypes
  <2>2. /\ accrued' = accrued \/ accrued' = accrued \cup {Order[e]}
        /\ compensated' = compensated \/ compensated' = compensated \cup {Order[e]}
    BY <1>2 DEF HandlerFails
  <2> QED
    BY <2>1, <2>2
<1>6. TableTypes' /\ EffectTypes' /\ MiscTypes'
  BY <1>3, <1>4, <1>5 DEF TableTypes, EffectTypes, MiscTypes
<1>7. Busy("failed") = 1 /\ Busy(pass[d].pc) = 1 /\ "failed" \in Running /\ Open(inbox[e]) \in Nat
  BY <1>1 DEF Busy, Running, Open
<1>8. /\ handled'[e] >= handled[e]
      /\ handled'[e] + Busy("failed") + Open(inbox'[e]) + unclaimed[e]
         <= handled[e] + Busy(pass[d].pc) + Open(inbox[e]) + unclaimed'[e]
  BY <1>3, <1>4, <1>7
<1> QED
  BY <1>1, <1>2, <1>4, <1>6, <1>7, <1>8, GotoKeeps

LEMMA MarkInboxProcessedKeeps ==
  ASSUME DeliveryInv, NEW d \in Dispatchers, MarkInboxProcessed(d)
  PROVE  DeliveryInv'
<1>1. pass[d].pc = "processed" /\ pass[d].listed # {}
  BY ListedAt DEF MarkInboxProcessed, At
<1>2. PICK e \in Events : e = Ev(d)
  BY <1>1, AtEvent
<1>3. MiscTypes
  BY <1>1, AtEvent
<1>4. /\ inbox' = [inbox EXCEPT ![e] = "processed"] /\ Goto(d, "publish")
      /\ failures' \in Nat /\ faults' \in Nat
      /\ UNCHANGED <<outbox, due, leader, effects, history>>
  BY <1>2, <1>3 DEF MarkInboxProcessed, MiscTypes, bounds
<1>5. Busy("publish") + Open("processed") <= Busy(pass[d].pc) + Open(inbox[e]) /\ "publish" \in Running
  BY <1>1 DEF Busy, Open, Running
<1> QED
  BY <1>1, <1>2, <1>4, <1>5, RecordKeeps

LEMMA MarkInboxFailedKeeps ==
  ASSUME DeliveryInv, NEW d \in Dispatchers, MarkInboxFailed(d)
  PROVE  DeliveryInv'
<1>1. pass[d].pc = "failed" /\ pass[d].listed # {}
  BY ListedAt DEF MarkInboxFailed, At
<1>2. PICK e \in Events : e = Ev(d)
  BY <1>1, AtEvent
<1>3. MiscTypes
  BY <1>1, AtEvent
<1>4. /\ inbox' = [inbox EXCEPT ![e] = "failed"] /\ Goto(d, "retry")
      /\ failures' \in Nat /\ faults' \in Nat
      /\ UNCHANGED <<outbox, due, leader, effects, history>>
  BY <1>2, <1>3 DEF MarkInboxFailed, MiscTypes, bounds
<1>5. Busy("retry") + Open("failed") <= Busy(pass[d].pc) + Open(inbox[e]) /\ "retry" \in Running
  BY <1>1 DEF Busy, Open, Running
<1> QED
  BY <1>1, <1>2, <1>4, <1>5, RecordKeeps

LEMMA InboxErrorKeeps ==
  ASSUME DeliveryInv, NEW d \in Dispatchers, InboxError(d)
  PROVE  DeliveryInv'
<1>1. pass[d].pc \in {"next", "reclaim", "refind", "processed", "failed"} /\ pass[d].listed # {}
  BY DEF InboxError
<1>2. PICK e \in Events : e = Ev(d)
  BY <1>1, AtEvent
<1>3. TableTypes /\ MiscTypes
  BY <1>1, AtEvent
<1>4. PICK status : /\ inbox' = [inbox EXCEPT ![e] = status]
                    /\ \/ status = inbox[e]
                       \/ status = "processed" /\ pass[d].pc = "processed"
                       \/ status = "failed" /\ pass[d].pc = "failed"
                       \/ status = "pending"
  <2>1. CASE inbox' = inbox
    <3>1. inbox' = [inbox EXCEPT ![e] = inbox[e]]
      BY <1>3, <2>1 DEF TableTypes
    <3> QED
      BY <3>1
  <2>2. CASE inbox' = [inbox EXCEPT ![e] = InboxWrite(d)]
    <3>1. \/ InboxWrite(d) = inbox[e]
          \/ InboxWrite(d) = "processed" /\ pass[d].pc = "processed"
          \/ InboxWrite(d) = "failed" /\ pass[d].pc = "failed"
          \/ InboxWrite(d) = "pending"
      <4>1. CASE pass[d].pc = "processed"
        BY <4>1, Zenon DEF InboxWrite, At
      <4>2. CASE pass[d].pc = "failed"
        <5>1. "failed" # "processed"
          OBVIOUS
        <5> QED
          BY <4>2, <5>1, Zenon DEF InboxWrite, At
      <4>3. CASE pass[d].pc # "processed" /\ pass[d].pc # "failed"
        BY <1>2, <4>3, Zenon DEF InboxWrite, At
      <4> QED
        BY <4>1, <4>2, <4>3
    <3> QED
      BY <2>2, <3>1
  <2> QED
    BY <1>2, <2>1, <2>2 DEF InboxError
<1>5. /\ status \in {"absent", "pending", "processed", "failed"}
      /\ failures' \in Nat /\ faults' \in Nat /\ Goto(d, "retry")
      /\ UNCHANGED <<outbox, due, leader, effects, history>>
  BY <1>3, <1>4 DEF InboxError, Fault, TableTypes, MiscTypes
<1>6. /\ Busy("retry") + Open(status) <= Busy(pass[d].pc) + Open(inbox[e])
      /\ "retry" \in Running
  BY <1>4 DEF Busy, Open, Running
<1>7. status = "processed" => inbox[e] = "processed" \/ pass[d].pc = "processed"
  BY <1>4
<1> QED
  BY <1>1, <1>2, <1>4, <1>5, <1>6, <1>7, RecordKeeps

-----------------------------------------------------------------------------
(* Steps that leave the passes alone. *)

LEMMA TablesKeep ==
  ASSUME DeliveryInv, TypeOK',
         UNCHANGED <<pass, inbox, handled, unclaimed>>,
         ~lost' => ~lost /\ leader' = leader,
         \A e \in Events : outbox'[e] = "published" => outbox[e] = "published"
  PROVE  DeliveryInv'
<1>0. TypeOK /\ ClaimsBounded /\ PublishedHandled /\ PassHandled /\ AloneUnderLock
  BY DEF DeliveryInv
<1>1. \A d : Ev(d)' = Ev(d)
  BY DEF Ev
<1>2. \A e : Working(e)' = Working(e) /\ Free(e)' = Free(e)
  BY <1>1 DEF Working, Free
<1>3. ClaimsBounded'
  BY <1>0, <1>2 DEF ClaimsBounded
<1>4. PublishedHandled' /\ PassHandled'
  BY <1>0, <1>1 DEF PublishedHandled, PassHandled
<1>5. AloneUnderLock'
  BY <1>0, <1>1 DEF AloneUnderLock
<1> QED
  BY <1>3, <1>4, <1>5 DEF DeliveryInv

LEMMA OthersKeep ==
  ASSUME DeliveryInv, (\E e \in Events : Enqueue(e) \/ RetryDue(e))
                      \/ (\E d \in Dispatchers : LockLost(d)) \/ UNCHANGED vars
  PROVE  DeliveryInv'
<1>0. TypeOK
  BY DEF DeliveryInv
<1>1. ASSUME NEW e \in Events, Enqueue(e) PROVE DeliveryInv'
  <2>1. /\ outbox' = [outbox EXCEPT ![e] = "pending"]
        /\ UNCHANGED <<due, inbox, leader, pass, accrued, compensated, handled, unclaimed,
                       everFailed, lost, failures, faults>>
    BY <1>1 DEF Enqueue, effects, history, bounds
  <2>2. TypeOK' /\ \A f \in Events : outbox'[f] = "published" => outbox[f] = "published"
    BY <1>0, <2>1 DEF TypeOK
  <2> QED
    BY <2>1, <2>2, TablesKeep
<1>2. ASSUME NEW e \in Events, RetryDue(e) PROVE DeliveryInv'
  <2>1. /\ due' = [due EXCEPT ![e] = TRUE]
        /\ UNCHANGED <<outbox, inbox, leader, pass, accrued, compensated, handled, unclaimed,
                       everFailed, lost, failures, faults>>
    BY <1>2 DEF RetryDue, effects, history, bounds
  <2>2. TypeOK'
    BY <1>0, <2>1 DEF TypeOK
  <2> QED
    BY <2>1, <2>2, TablesKeep
<1>3. ASSUME NEW d \in Dispatchers, LockLost(d) PROVE DeliveryInv'
  <2>1. /\ lost' = TRUE /\ leader' = Nobody /\ faults' = faults + 1
        /\ UNCHANGED <<outbox, due, inbox, pass, accrued, compensated, handled, unclaimed,
                       everFailed, failures>>
    BY <1>3 DEF LockLost, Fault, tables, effects
  <2>2. TypeOK'
    BY <1>0, <2>1 DEF TypeOK
  <2> QED
    BY <2>1, <2>2, TablesKeep
<1>4. CASE UNCHANGED vars
  <2>1. UNCHANGED <<outbox, due, inbox, leader, pass, accrued, compensated, handled, unclaimed,
                    everFailed, lost, failures, faults>>
    BY <1>4 DEF vars, tables, effects, history, bounds
  <2>2. TypeOK'
    BY <1>0, <2>1 DEF TypeOK
  <2> QED
    BY <2>1, <2>2, TablesKeep
<1> QED
  BY <1>1, <1>2, <1>3, <1>4

-----------------------------------------------------------------------------
LEMMA DeliveryInvInit == Init => DeliveryInv
<1> SUFFICES ASSUME Init PROVE DeliveryInv
  OBVIOUS
<1>1. TypeOK
  <2>1. pass = [d \in Dispatchers |-> [pc |-> "idle", listed |-> {}]]
    BY DEF Init, NoPass
  <2>2. PassTypes
    BY <2>1 DEF PassTypes, Passes
  <2>3. TableTypes /\ EffectTypes /\ MiscTypes
    BY DEF Init, TableTypes, EffectTypes, MiscTypes
  <2> QED
    BY <2>2, <2>3, TypeParts
<1>2. \A d \in Dispatchers : pass[d].pc = "idle"
  BY DEF Init, NoPass
<1>3. ClaimsBounded
  <2> SUFFICES ASSUME NEW e \in Events
               PROVE  handled[e] + Cardinality(Working(e)) + Free(e) <= 1 + unclaimed[e]
    BY DEF ClaimsBounded
  <2>1. Working(e) = {}
    BY <1>2 DEF Working
  <2>2. Cardinality(Working(e)) = 0
    BY <2>1, FS_EmptySet
  <2>3. handled[e] = 0 /\ unclaimed[e] = 0 /\ Free(e) = 1
    BY DEF Init, Free, Open
  <2> QED
    BY <2>2, <2>3
<1>4. PublishedHandled
  BY DEF Init, PublishedHandled
<1>5. PassHandled /\ AloneUnderLock
  <2>1. \A e \in Events : unclaimed[e] = 0
    BY DEF Init
  <2> QED
    BY <1>2, <2>1 DEF PassHandled, AloneUnderLock
<1> QED
  BY <1>1, <1>3, <1>4, <1>5 DEF DeliveryInv

LEMMA DeliveryInvNext == DeliveryInv /\ [Next]_vars => DeliveryInv'
<1> SUFFICES ASSUME DeliveryInv, [Next]_vars PROVE DeliveryInv'
  OBVIOUS
<1>1. CASE (\E e \in Events : Enqueue(e) \/ RetryDue(e)) \/ UNCHANGED vars
  BY <1>1, OthersKeep
<1>2. ASSUME NEW d \in Dispatchers, Start(d) \/ Step(d) \/ HandlerFails(d) PROVE DeliveryInv'
  BY <1>2, StartKeeps, RecordInboxKeeps, ReclaimKeeps, RefindKeeps, HandleKeeps,
     MarkInboxProcessedKeeps, MarkInboxFailedKeeps, MarkOutboxPublishedKeeps,
     MarkOutboxFailedKeeps, PassEndsKeep, HandlerFailsKeeps DEF Step
<1>3. ASSUME NEW d \in Dispatchers, InboxError(d) \/ OutboxError(d) \/ Crash(d) \/ LockLost(d)
      PROVE  DeliveryInv'
  BY <1>3, InboxErrorKeeps, PassEndsKeep, OthersKeep
<1> QED
  BY <1>1, <1>2, <1>3 DEF Next

\* What the invariant says of the properties of the runs.
LEMMA DeliveryInvImplies ==
  DeliveryInv => TypeOK /\ PublishedHandled /\ HandledBound /\ OnceUnderLock
<1> SUFFICES ASSUME DeliveryInv PROVE TypeOK /\ PublishedHandled /\ HandledBound /\ OnceUnderLock
  OBVIOUS
<1>0. TypeOK /\ PublishedHandled /\ ClaimsBounded /\ AloneUnderLock
  BY DEF DeliveryInv
<1>1. ASSUME NEW e \in Events PROVE handled[e] <= 1 + unclaimed[e]
  <2>1. /\ handled[e] \in Nat /\ unclaimed[e] \in Nat /\ Cardinality(Working(e)) \in Nat
        /\ Free(e) \in Nat
    BY <1>0, WorkingFinite DEF TypeOK, Free, Open
  <2>2. handled[e] + Cardinality(Working(e)) + Free(e) <= 1 + unclaimed[e]
    BY <1>0 DEF ClaimsBounded
  <2> QED
    BY <2>1, <2>2
<1>2. HandledBound
  BY <1>1 DEF HandledBound
<1>3. OnceUnderLock
  BY <1>0, <1>1 DEF OnceUnderLock, AloneUnderLock
<1> QED
  BY <1>0, <1>2, <1>3

LEMMA DeliveryInvHolds == Spec => []DeliveryInv
  BY DeliveryInvInit, DeliveryInvNext, PTL DEF Spec

\* An event is published, or its inbox record marked processed, only after its
\* handler succeeded, for any workers, listings, failures and crashes.
THEOREM PublishedEventsWereHandled == Spec => []PublishedHandled
  BY DeliveryInvHolds, DeliveryInvImplies, PTL

\* The inbox lets a handler succeed once, and once more for each time a pass
\* started it on a failed record it had not claimed.
THEOREM InboxBoundsHandlers == Spec => []HandledBound
  BY DeliveryInvHolds, DeliveryInvImplies, PTL

\* Without a lost lock connection the leader gate and the inbox together
\* deliver each event at most once.
THEOREM GateDeliversOnce == Spec => []OnceUnderLock
  BY DeliveryInvHolds, DeliveryInvImplies, PTL

\* The outbox, the inbox and the passes stay within their types.
THEOREM DeliveryTypes == Spec => []TypeOK
  BY DeliveryInvHolds, DeliveryInvImplies, PTL

-----------------------------------------------------------------------------
(* The rebate of a refunded order. *)

\* No pass will handle e any more: its record is claimed or processed, and
\* nobody is at work on it.
Settled(e) == inbox[e] \in {"pending", "processed"} /\ Working(e) = {}

\* Events are written in the order of their ids, only written ones are listed,
\* and one marked failed is in the history of failures.
OutboxInOrder ==
    /\ \A d \in Dispatchers : \A e \in pass[d].listed : outbox[e] # "absent"
    /\ \A e, f \in Events : outbox[e] # "absent" /\ f < e => outbox[f] # "absent"
    /\ \A e \in Events : outbox[e] = "failed" => e \in everFailed

\* What comes before an event of a listing is listed with it, settled, or has
\* failed.
ListedInOrder ==
    \A d \in Dispatchers : \A r \in pass[d].listed, p \in Events :
        p < r /\ p \notin everFailed => p \in pass[d].listed \/ Settled(p)

\* The payments of r's order are written before it, and none of them failed.
PaidFirst(r) == \A p \in Payments(Order[r]) : p < r /\ p \notin everFailed

\* A refund that nothing let overtake its payment was handled after the payment
\* was settled, and took the rebate there was.
RefundSettled ==
    \A r \in Events :
        Kind[r] = "refunded" /\ handled[r] > 0 /\ PaidFirst(r)
        => /\ \A p \in Payments(Order[r]) : Settled(p)
           /\ Order[r] \in accrued => Order[r] \in compensated

RebateInv == DeliveryInv /\ OutboxInOrder /\ (~lost => ListedInOrder /\ RefundSettled)

\* Without a lost lock, an event that was handled is settled.
LEMMA HandledSettled ==
  ASSUME DeliveryInv, ~lost, NEW e \in Events, handled[e] > 0
  PROVE  Settled(e)
<1>1. /\ handled[e] \in Nat /\ inbox[e] \in {"absent", "pending", "processed", "failed"}
      /\ Cardinality(Working(e)) \in Nat /\ IsFiniteSet(Working(e)) /\ Free(e) \in Nat
  BY WorkingFinite DEF DeliveryInv, TypeOK, Free, Open
<1>2. handled[e] + Cardinality(Working(e)) + Free(e) <= 1
  BY DEF DeliveryInv, ClaimsBounded, AloneUnderLock
<1>3. Cardinality(Working(e)) = 0 /\ Free(e) = 0
  BY <1>1, <1>2
<1>4. Working(e) = {}
  BY <1>1, <1>3, FS_EmptySet
<1>5. inbox[e] \notin {"absent", "failed"}
  BY <1>3 DEF Free, Open
<1> QED
  BY <1>1, <1>4, <1>5 DEF Settled

\* The passes of the others stay out of a settled event.
LEMMA SettledStays ==
  ASSUME NEW d \in Dispatchers, OnlyPass(d), NEW e \in Events, Settled(e),
         inbox'[e] \in {"pending", "processed"}, d \notin Working(e)'
  PROVE  Settled(e)'
<1>1. ASSUME NEW c \in Working(e)' PROVE c \in Working(e)
  <2>1. c \in Dispatchers /\ c # d /\ pass'[c].pc \in {"handle", "compensate", "failed"} /\ Ev(c)' = e
    BY <1>1 DEF Working
  <2>2. pass'[c] = pass[c]
    BY <2>1 DEF OnlyPass
  <2>3. Ev(c)' = Head(pass'[c].listed)
    BY DEF Ev, Head
  <2>4. Ev(c) = e
    BY <2>1, <2>2, <2>3, EvIsHead
  <2> QED
    BY <2>1, <2>2, <2>4 DEF Working
<1> QED
  BY <1>1 DEF Settled

\* The event a pass is at comes first in its listing.
LEMMA EvFirst ==
  ASSUME DeliveryInv, NEW d \in Dispatchers, pass[d].listed # {}
  PROVE  Ev(d) \in Events /\ Ev(d) \in pass[d].listed /\ \A f \in pass[d].listed : Ev(d) <= f
<1>1. pass[d].listed \subseteq Events
  BY DEF DeliveryInv, TypeOK
<1>2. \E e \in pass[d].listed : \A f \in pass[d].listed : e <= f
  BY <1>1, LeastEvent
<1>3. Ev(d) \in pass[d].listed /\ \A f \in pass[d].listed : Ev(d) <= f
  BY <1>2 DEF Ev
<1> QED
  BY <1>1, <1>3

\* A step of d's pass, told by what it does to settled events, to its listing
\* and to the ledgers.
LEMMA RebateStep ==
  ASSUME RebateInv, DeliveryInv', NEW d \in Dispatchers, OnlyPass(d),
         lost' = lost, everFailed \subseteq everFailed',
         \A e \in Events : outbox'[e] = "absent" <=> outbox[e] = "absent",
         \A e \in Events : outbox'[e] = "failed" => outbox[e] = "failed" \/ e \in everFailed',
         pass'[d].listed \subseteq pass[d].listed,
         ~lost => \A e \in Events : Settled(e) =>
             inbox'[e] \in {"pending", "processed"} /\ d \notin Working(e)',
         ~lost => \/ pass'[d].listed = {}
                  \/ \A p \in pass[d].listed \ pass'[d].listed : p \in everFailed' \/ Settled(p)',
         compensated \subseteq compensated',
         \A r \in Events : handled'[r] > 0 => handled[r] > 0 \/
             /\ pass[d].listed # {} /\ r = Ev(d)
             /\ Kind[r] = "refunded" => Order[r] \notin accrued' \/ Order[r] \in compensated',
         \/ accrued' = accrued
         \/ \E q \in Events : Kind[q] = "paid" /\ ~Settled(q) /\ accrued' \subseteq accrued \cup {Order[q]}
  PROVE  RebateInv'
<1>1. DeliveryInv /\ OutboxInOrder /\ (~lost => ListedInOrder /\ RefundSettled)
  BY DEF RebateInv
<1>2. \A c \in Dispatchers : pass'[c].listed \subseteq pass[c].listed /\ pass[c].listed \subseteq Events
  BY <1>1 DEF OnlyPass, DeliveryInv, TypeOK
<1>3. OutboxInOrder'
  <2>1. \A c \in Dispatchers : \A e \in pass'[c].listed : outbox'[e] # "absent"
    BY <1>1, <1>2 DEF OutboxInOrder
  <2>2. \A e, f \in Events : outbox'[e] # "absent" /\ f < e => outbox'[f] # "absent"
    BY <1>1 DEF OutboxInOrder
  <2>3. \A e \in Events : outbox'[e] = "failed" => e \in everFailed'
    BY <1>1 DEF OutboxInOrder
  <2> QED
    BY <2>1, <2>2, <2>3 DEF OutboxInOrder
<1>4. ASSUME ~lost PROVE ListedInOrder' /\ RefundSettled'
  <2>1. \A e \in Events : Settled(e) => Settled(e)'
    BY <1>4, SettledStays
  <2>2. ListedInOrder'
    <3> SUFFICES ASSUME NEW c \in Dispatchers, NEW r \in pass'[c].listed, NEW p \in Events,
                        p < r, p \notin everFailed', p \notin pass'[c].listed
                 PROVE  Settled(p)'
      BY DEF ListedInOrder
    <3>1. r \in pass[c].listed /\ p \notin everFailed
      BY <1>2
    <3>2. p \in pass[c].listed \/ Settled(p)
      BY <1>1, <1>4, <3>1 DEF ListedInOrder
    <3>3. CASE c = d
      BY <1>4, <2>1, <3>2, <3>3
    <3>4. CASE c # d
      BY <2>1, <3>2, <3>4 DEF OnlyPass
    <3> QED
      BY <3>3, <3>4
  <2>3. RefundSettled'
    <3> SUFFICES ASSUME NEW r \in Events, Kind[r] = "refunded", handled'[r] > 0, PaidFirst(r)'
                 PROVE  /\ \A p \in Payments(Order[r]) : Settled(p)'
                        /\ Order[r] \in accrued' => Order[r] \in compensated'
      BY DEF RefundSettled, Payments
    <3>1. PaidFirst(r)
      BY DEF PaidFirst, Payments
    <3>2. \A p \in Payments(Order[r]) : Settled(p)
      <4>1. CASE handled[r] > 0
        BY <1>1, <1>4, <3>1, <4>1 DEF RefundSettled
      <4>2. CASE ~(handled[r] > 0)
        <5>1. pass[d].listed # {} /\ r = Ev(d)
          BY <4>2
        <5>2. r \in pass[d].listed /\ \A f \in pass[d].listed : r <= f
          BY <1>1, <5>1, EvFirst
        <5>3. ASSUME NEW p \in Payments(Order[r]) PROVE Settled(p)
          <6>1. p \in Events /\ p < r /\ p \notin everFailed
            BY <3>1 DEF PaidFirst, Payments
          <6>2. p \notin pass[d].listed
            BY <5>2, <6>1, EventsAssumption
          <6> QED
            BY <1>1, <1>4, <5>2, <6>1, <6>2 DEF ListedInOrder
        <5> QED
          BY <5>3
      <4> QED
        BY <4>1, <4>2
    <3>3. Order[r] \in accrued' => Order[r] \in accrued
      <4>1. ASSUME NEW q \in Events, Kind[q] = "paid", ~Settled(q), accrued' \subseteq accrued \cup {Order[q]}
            PROVE  Order[r] \in accrued' => Order[r] \in accrued
        <5>1. Order[r] # Order[q]
          BY <3>2, <4>1 DEF Payments
        <5> QED
          BY <4>1, <5>1
      <4> QED
        BY <4>1
    <3>4. \A p \in Payments(Order[r]) : Settled(p)'
      BY <2>1, <3>2 DEF Payments
    <3>5. CASE handled[r] > 0
      BY <1>1, <1>4, <3>1, <3>3, <3>4, <3>5 DEF RefundSettled
    <3>6. CASE ~(handled[r] > 0)
      BY <3>4, <3>6
    <3> QED
      BY <3>5, <3>6
  <2> QED
    BY <2>2, <2>3
<1> QED
  BY <1>3, <1>4 DEF RebateInv

\* A step that stays with its event.
LEMMA RebateGoto ==
  ASSUME RebateInv, DeliveryInv', NEW d \in Dispatchers, pass[d].listed # {},
         NEW place \in Running, Goto(d, place),
         UNCHANGED <<outbox, everFailed, lost>>,
         \A f \in Events : f # Ev(d) => inbox'[f] = inbox[f],
         ~lost /\ Settled(Ev(d)) => /\ inbox'[Ev(d)] \in {"pending", "processed"}
                                    /\ place \notin {"handle", "compensate", "failed"},
         compensated \subseteq compensated',
         \A r \in Events : handled'[r] > 0 => handled[r] > 0 \/
             /\ r = Ev(d)
             /\ Kind[r] = "refunded" => Order[r] \notin accrued' \/ Order[r] \in compensated',
         \/ accrued' = accrued
         \/ \E q \in Events : Kind[q] = "paid" /\ ~Settled(q) /\ accrued' \subseteq accrued \cup {Order[q]}
  PROVE  RebateInv'
<1>1. TypeOK
  BY DEF RebateInv, DeliveryInv
<1>2. OnlyPass(d) /\ pass'[d].pc = place /\ pass'[d].listed = pass[d].listed /\ Ev(d)' = Ev(d)
  BY <1>1, GotoFacts
<1>3. ~lost => \A e \in Events : Settled(e) =>
         inbox'[e] \in {"pending", "processed"} /\ d \notin Working(e)'
  <2> SUFFICES ASSUME ~lost, NEW e \in Events, Settled(e)
               PROVE  inbox'[e] \in {"pending", "processed"} /\ d \notin Working(e)'
    OBVIOUS
  <2>1. CASE e = Ev(d)
    BY <2>1, <1>2 DEF Working
  <2>2. CASE e # Ev(d)
    BY <2>2, <1>2 DEF Working, Settled
  <2> QED
    BY <2>1, <2>2
<1> QED
  BY <1>2, <1>3, RebateStep

\* A pass leaves its event behind, as settled or failed.
LEMMA RebateNextEvent ==
  ASSUME RebateInv, DeliveryInv', NEW d \in Dispatchers, pass[d].listed # {},
         NextEvent(d), lost' = lost, everFailed \subseteq everFailed',
         UNCHANGED <<inbox, accrued, compensated, handled>>,
         \A e \in Events : outbox'[e] = "absent" <=> outbox[e] = "absent",
         \A e \in Events : outbox'[e] = "failed" => outbox[e] = "failed" \/ e \in everFailed',
         ~lost => Ev(d) \in everFailed' \/ Settled(Ev(d))
  PROVE  RebateInv'
<1>1. TypeOK /\ DeliveryInv /\ pass \in [Dispatchers -> Passes]
  BY TypeParts DEF RebateInv, DeliveryInv, PassTypes
<1>2. OnlyPass(d) /\ pass'[d].pc = "next"
  BY <1>1, NextFacts
<1>3. pass'[d].listed = pass[d].listed \ {Ev(d)}
  BY <1>1 DEF NextEvent
<1>4. \A e : d \notin Working(e)'
  BY <1>2 DEF Working
<1>5. \A e \in Events : Settled(e) => Settled(e)'
  <2> SUFFICES ASSUME NEW e \in Events, Settled(e) PROVE Settled(e)'
    OBVIOUS
  <2>1. inbox'[e] \in {"pending", "processed"}
    BY DEF Settled
  <2> QED
    BY <1>2, <1>4, <2>1, SettledStays
<1>6. Ev(d) \in Events
  BY <1>1, EvFirst
<1>7. ~lost => \A p \in pass[d].listed \ pass'[d].listed : p \in everFailed' \/ Settled(p)'
  BY <1>3, <1>5, <1>6
<1>8. ~lost => \A e \in Events : Settled(e) =>
         inbox'[e] \in {"pending", "processed"} /\ d \notin Working(e)'
  BY <1>4 DEF Settled
<1> QED
  BY <1>2, <1>3, <1>7, <1>8, RebateStep

\* A pass ends.
LEMMA RebateEnd ==
  ASSUME RebateInv, DeliveryInv', NEW d \in Dispatchers, EndPass(d),
         UNCHANGED <<tables, effects, history>>
  PROVE  RebateInv'
<1>1. TypeOK /\ pass \in [Dispatchers -> Passes]
  BY TypeParts DEF RebateInv, DeliveryInv, PassTypes
<1>2. OnlyPass(d) /\ pass'[d].pc = "idle"
  BY <1>1, EndFacts
<1>3. pass'[d].listed = {}
  BY <1>1 DEF EndPass, NoPass
<1>4. UNCHANGED <<outbox, inbox, accrued, compensated, handled, everFailed, lost>>
  BY DEF tables, effects, history
<1>5. \A e : d \notin Working(e)'
  BY <1>2 DEF Working
<1>6. ~lost => \A e \in Events : Settled(e) =>
         inbox'[e] \in {"pending", "processed"} /\ d \notin Working(e)'
  BY <1>4, <1>5 DEF Settled
<1> QED
  BY <1>2, <1>3, <1>4, <1>6, RebateStep

\* A pass lists the first dispatchable events: what is written before one of
\* them is listed with it, was published, or has failed.
LEMMA RebateStart ==
  ASSUME RebateInv, DeliveryInv', NEW d \in Dispatchers, Start(d)
  PROVE  RebateInv'
<1>1. /\ TypeOK /\ DeliveryInv /\ OutboxInOrder /\ (~lost => ListedInOrder /\ RefundSettled)
      /\ pass \in [Dispatchers -> Passes]
  BY TypeParts DEF RebateInv, DeliveryInv, PassTypes
<1>2. PICK S \in ListDispatchableOutbox : pass' = [pass EXCEPT ![d] = [pc |-> "next", listed |-> S]]
  BY DEF Start
<1>3. /\ S \subseteq Dispatchable /\ S \in SUBSET Events
      /\ \A e \in S, f \in Dispatchable \ S : e < f
  BY DEF ListDispatchableOutbox, Dispatchable
<1>4. OnlyPass(d) /\ pass'[d].pc = "next" /\ pass'[d].listed = S
  <2>1. "next" \in {"idle", "next"}
    OBVIOUS
  <2>2. OnlyPass(d) /\ pass'[d].pc = "next"
    BY <1>1, <1>2, <1>3, <2>1, ResetFacts
  <2> QED
    BY <2>2, <1>1, <1>2
<1>5. UNCHANGED <<outbox, inbox, accrued, compensated, handled, everFailed, lost>>
  BY DEF Start, tables, effects, history
<1>6. \A e \in S : outbox[e] # "absent"
  BY <1>3 DEF Dispatchable
<1>7. OutboxInOrder'
  BY <1>1, <1>4, <1>5, <1>6 DEF OutboxInOrder, OnlyPass
<1>8. \A e \in Events : Settled(e) => Settled(e)'
  <2> SUFFICES ASSUME NEW e \in Events, Settled(e) PROVE Settled(e)'
    OBVIOUS
  <2>1. inbox'[e] \in {"pending", "processed"} /\ d \notin Working(e)'
    BY <1>4, <1>5 DEF Settled, Working
  <2> QED
    BY <1>4, <2>1, SettledStays
<1>9. ASSUME ~lost PROVE ListedInOrder'
  <2> SUFFICES ASSUME NEW c \in Dispatchers, NEW r \in pass'[c].listed, NEW p \in Events,
                      p < r, p \notin everFailed, p \notin pass'[c].listed
               PROVE  Settled(p)'
    BY <1>5 DEF ListedInOrder
  <2>1. CASE c # d
    <3>1. pass'[c] = pass[c]
      BY <1>4, <2>1 DEF OnlyPass
    <3> QED
      BY <1>1, <1>8, <1>9, <3>1 DEF ListedInOrder
  <2>2. CASE c = d
    <3>1. r \in S /\ p \notin S /\ r \in Events
      BY <1>3, <1>4, <2>2
    <3>2. outbox[p] # "absent"
      BY <1>1, <1>6, <3>1 DEF OutboxInOrder
    <3>3. p \notin Dispatchable
      <4>1. p \in Nat /\ r \in Nat
        BY <3>1, EventsAssumption
      <4> QED
        BY <1>3, <3>1, <4>1
    <3>4. outbox[p] # "failed"
      BY <1>1 DEF OutboxInOrder
    <3>5. outbox[p] = "published"
      BY <1>1, <3>2, <3>3, <3>4 DEF TypeOK, Dispatchable
    <3>6. handled[p] > 0
      BY <1>1, <3>5 DEF DeliveryInv, PublishedHandled
    <3> QED
      BY <1>1, <1>8, <1>9, <3>6, HandledSettled
  <2> QED
    BY <2>1, <2>2
<1>10. ASSUME ~lost PROVE RefundSettled'
  BY <1>1, <1>5, <1>8, <1>10 DEF RefundSettled, PaidFirst, Payments
<1> QED
  BY <1>5, <1>7, <1>9, <1>10 DEF RebateInv

\* Steps outside a pass.
LEMMA RebateOutside ==
  ASSUME RebateInv, DeliveryInv', \/ \E e \in Events : Enqueue(e) \/ RetryDue(e)
                                  \/ \E d \in Dispatchers : LockLost(d)
                                  \/ UNCHANGED vars
  PROVE  RebateInv'
<1>1. TypeOK /\ OutboxInOrder /\ (~lost => ListedInOrder /\ RefundSettled)
  BY DEF RebateInv, DeliveryInv
<1>2. /\ UNCHANGED <<inbox, pass, accrued, compensated, handled, everFailed>>
      /\ lost' \/ lost' = lost
      /\ outbox' = outbox \/ \E e \in Events : Enqueue(e)
  BY DEF Enqueue, RetryDue, LockLost, vars, tables, effects, history
<1>3. OutboxInOrder'
  <2>1. CASE outbox' = outbox
    BY <1>1, <1>2, <2>1 DEF OutboxInOrder
  <2>2. ASSUME NEW e \in Events, Enqueue(e) PROVE OutboxInOrder'
    <3>1. /\ outbox' = [outbox EXCEPT ![e] = "pending"]
          /\ outbox \in [Events -> {"absent", "pending", "failed", "published"}]
          /\ \A f \in Events : f < e => outbox[f] # "absent"
      BY <1>1, <2>2 DEF Enqueue, TypeOK
    <3>2. \A f \in Events : outbox'[f] = IF f = e THEN "pending" ELSE outbox[f]
      BY <3>1
    <3>3. \A c \in Dispatchers : pass[c].listed \subseteq Events
      BY <1>1 DEF TypeOK
    <3> QED
      BY <1>1, <1>2, <3>1, <3>2, <3>3 DEF OutboxInOrder
  <2> QED
    BY <1>2, <2>1, <2>2
<1>4. \A e : Settled(e)' <=> Settled(e)
  <2>1. \A d : Ev(d)' = Ev(d)
    BY <1>2 DEF Ev
  <2> QED
    BY <1>2, <2>1 DEF Settled, Working
<1>5. ASSUME ~lost' PROVE ListedInOrder' /\ RefundSettled'
  BY <1>1, <1>2, <1>4, <1>5 DEF ListedInOrder, RefundSettled, PaidFirst, Payments
<1> QED
  BY <1>3, <1>5 DEF RebateInv

\* The event of a pass at work on it is not settled.
LEMMA AtWork ==
  ASSUME NEW d \in Dispatchers, pass[d].pc \in {"handle", "compensate", "failed"}
  PROVE  ~Settled(Ev(d))
  BY DEF Settled, Working

\* What inboxHandler makes of a record, by its status.
LEMMA ExistingCases ==
  ASSUME NEW d, NEW status, Existing(d, status)
  PROVE  \/ status = "processed" /\ Goto(d, "publish")
         \/ status = "failed" /\ Goto(d, "handle")
         \/ status \notin {"processed", "failed"} /\ NextEvent(d)
<1>1. CASE status = "processed"
  BY <1>1, Zenon DEF Existing
<1>2. CASE status = "failed"
  <2>1. "failed" # "processed"
    OBVIOUS
  <2> QED
    BY <1>2, <2>1, Zenon DEF Existing
<1>3. CASE status # "processed" /\ status # "failed"
  BY <1>3, Zenon DEF Existing
<1> QED
  BY <1>1, <1>2, <1>3

\* A record claimed by nobody alive is passed over, and settled.
LEMMA RebateRecordInbox ==
  ASSUME RebateInv, DeliveryInv', NEW d \in Dispatchers, RecordInbox(d)
  PROVE  RebateInv'
<1>1. /\ DeliveryInv /\ TypeOK /\ pass[d].listed # {} /\ pass[d].pc = "next"
      /\ UNCHANGED <<outbox, accrued, compensated, handled, everFailed, lost>>
  BY DEF RebateInv, DeliveryInv, RecordInbox, At, effects, history
<1>2. PICK e \in Events : e = Ev(d)
  BY <1>1, EvFirst
<1>3. CASE inbox[e] = "absent" /\ inbox' = [inbox EXCEPT ![e] = "pending"] /\ Goto(d, "handle")
  <2>1. ~Settled(e) /\ (\A f \in Events : f # e => inbox'[f] = inbox[f]) /\ "handle" \in Running
    BY <1>3 DEF Settled, Running
  <2> QED
    BY <1>1, <1>2, <1>3, <2>1, RebateGoto
<1>4. CASE inbox[e] = "failed" /\ inbox' = inbox /\ Goto(d, "reclaim")
  <2>1. ~Settled(e) /\ "reclaim" \in Running
    BY <1>4 DEF Settled, Running
  <2> QED
    BY <1>1, <1>2, <1>4, <2>1, RebateGoto
<1>5. CASE inbox[e] = "processed" /\ inbox' = inbox /\ Goto(d, "publish")
  <2>1. "publish" \in Running
    BY DEF Running
  <2> QED
    BY <1>1, <1>2, <1>5, <2>1, RebateGoto
<1>6. CASE inbox[e] \notin {"absent", "failed", "processed"} /\ inbox' = inbox /\ NextEvent(d)
  <2>1. inbox[e] = "pending"
    BY <1>1, <1>6 DEF TypeOK
  <2>2. ASSUME ~lost PROVE Settled(e)
    <3>1. ASSUME NEW c \in Working(e) PROVE FALSE
      <4>1. c \in Dispatchers /\ pass[c].pc # "idle" /\ pass[c].pc # "next"
        BY <3>1 DEF Working
      <4>2. leader = c /\ leader = d
        BY <1>1, <2>2, <4>1 DEF DeliveryInv, AloneUnderLock
      <4> QED
        BY <1>1, <4>1, <4>2
    <3> QED
      BY <2>1, <3>1 DEF Settled
  <2> QED
    BY <1>1, <1>2, <1>6, <2>2, RebateNextEvent
<1>7. \/ inbox[e] = "absent" /\ inbox' = [inbox EXCEPT ![e] = "pending"] /\ Goto(d, "handle")
      \/ inbox[e] = "failed" /\ inbox' = inbox /\ Goto(d, "reclaim")
      \/ inbox[e] \notin {"absent", "failed"} /\ inbox' = inbox /\ Existing(d, inbox[e])
  BY <1>2 DEF RecordInbox
<1>8. ASSUME inbox[e] \notin {"absent", "failed"}, inbox' = inbox, Existing(d, inbox[e])
      PROVE  \/ inbox[e] = "processed" /\ inbox' = inbox /\ Goto(d, "publish")
             \/ inbox[e] \notin {"absent", "failed", "processed"} /\ inbox' = inbox /\ NextEvent(d)
  BY <1>8, ExistingCases
<1> QED
  BY <1>3, <1>4, <1>5, <1>6, <1>7, <1>8

\* A record to reclaim is a failed one, not settled.
LEMMA RebateReclaim ==
  ASSUME RebateInv, DeliveryInv', NEW d \in Dispatchers, Reclaim(d)
  PROVE  RebateInv'
<1>1. /\ DeliveryInv /\ TypeOK /\ pass[d].pc = "reclaim"
      /\ UNCHANGED <<outbox, accrued, compensated, handled, everFailed, lost>>
  BY DEF RebateInv, DeliveryInv, Reclaim, At, effects, history
<1>2. pass[d].listed # {}
  BY <1>1, ListedAt
<1>3. PICK e \in Events : e = Ev(d)
  BY <1>1, <1>2, EvFirst
<1>4. ~lost => inbox[e] = "failed"
  BY <1>1, <1>3 DEF DeliveryInv, AloneUnderLock
<1>5. ~lost => ~Settled(e)
  BY <1>4 DEF Settled
<1>6. \A f \in Events : f # e => inbox'[f] = inbox[f]
  BY <1>3 DEF Reclaim
<1>7. PICK place \in Running : Goto(d, place)
  BY DEF Reclaim, Running
<1> QED
  BY <1>1, <1>2, <1>3, <1>5, <1>6, <1>7, RebateGoto

\* A claim is only lost to another pass after a lost lock.
LEMMA RebateRefind ==
  ASSUME RebateInv, DeliveryInv', NEW d \in Dispatchers, Refind(d)
  PROVE  RebateInv'
<1>1. /\ DeliveryInv /\ pass[d].pc = "refind" /\ Existing(d, inbox[Ev(d)])
      /\ UNCHANGED <<outbox, inbox, accrued, compensated, handled, everFailed, lost>>
  BY DEF RebateInv, Refind, At, tables, effects
<1>2. lost /\ pass[d].listed # {}
  BY <1>1, ListedAt DEF DeliveryInv, AloneUnderLock
<1>3. "publish" \in Running /\ "handle" \in Running
  BY DEF Running
<1>4. CASE Goto(d, "publish")
  BY <1>1, <1>2, <1>3, <1>4, RebateGoto
<1>5. CASE Goto(d, "handle")
  BY <1>1, <1>2, <1>3, <1>5, RebateGoto
<1>6. CASE NextEvent(d)
  BY <1>1, <1>2, <1>6, RebateNextEvent
<1> QED
  BY <1>1, <1>4, <1>5, <1>6, ExistingCases

\* The handler of the event at hand succeeds.
LEMMA RebateSucceeds ==
  ASSUME RebateInv, DeliveryInv', NEW d \in Dispatchers,
         pass[d].pc \in {"handle", "compensate"}, Succeeds(d),
         UNCHANGED <<tables, leader, history, bounds>>,
         compensated \subseteq compensated',
         Kind[Ev(d)] = "refunded" => Order[Ev(d)] \notin accrued' \/ Order[Ev(d)] \in compensated',
         \/ accrued' = accrued
         \/ Kind[Ev(d)] = "paid" /\ accrued' \subseteq accrued \cup {Order[Ev(d)]}
  PROVE  RebateInv'
<1>1. /\ DeliveryInv /\ TypeOK /\ UNCHANGED <<outbox, inbox, everFailed, lost>>
      /\ handled' = [handled EXCEPT ![Ev(d)] = @ + 1] /\ Goto(d, "processed")
  BY DEF RebateInv, DeliveryInv, Succeeds, tables, history
<1>2. pass[d].listed # {}
  BY <1>1, ListedAt
<1>3. PICK e \in Events : e = Ev(d)
  BY <1>1, <1>2, EvFirst
<1>4. ~Settled(e)
  BY <1>3, AtWork
<1>5. \A r \in Events : r # e => handled'[r] = handled[r]
  BY <1>1, <1>3 DEF TypeOK
<1>6. \A r \in Events : handled'[r] > 0 => handled[r] > 0 \/
             /\ r = Ev(d)
             /\ Kind[r] = "refunded" => Order[r] \notin accrued' \/ Order[r] \in compensated'
  BY <1>3, <1>5
<1>7. \/ accrued' = accrued
      \/ \E q \in Events : Kind[q] = "paid" /\ ~Settled(q) /\ accrued' \subseteq accrued \cup {Order[q]}
  BY <1>3, <1>4
<1>8. "processed" \in Running
  BY DEF Running
<1> QED
  BY <1>1, <1>2, <1>3, <1>4, <1>6, <1>7, <1>8, RebateGoto

\* The affiliate handlers: a rebate is only accrued for a payment at hand, and
\* a refund looks for it after the payment was settled.
LEMMA RebateHandle ==
  ASSUME RebateInv, DeliveryInv', NEW d \in Dispatchers, Handle(d)
  PROVE  RebateInv'
<1>1. CASE AccrueRebate(d)
  <2>1. /\ pass[d].pc = "handle" /\ Kind[Ev(d)] = "paid" /\ Succeeds(d)
        /\ accrued' \in {accrued, accrued \cup {Order[Ev(d)]}}
        /\ UNCHANGED <<tables, leader, compensated, history, bounds>>
    BY <1>1 DEF AccrueRebate, At
  <2> QED
    BY <2>1, RebateSucceeds
<1>2. CASE CompensateRefund(d)
  <2>1. /\ pass[d].pc = "compensate" /\ Succeeds(d)
        /\ compensated' = compensated \cup {Order[Ev(d)]}
        /\ UNCHANGED <<tables, leader, accrued, history, bounds>>
    BY <1>2 DEF CompensateRefund, At
  <2> QED
    BY <2>1, RebateSucceeds
<1>3. CASE Notify(d)
  <2>1. /\ pass[d].pc = "handle" /\ Kind[Ev(d)] = "notice" /\ Succeeds(d)
        /\ UNCHANGED <<tables, leader, accrued, compensated, history, bounds>>
    BY <1>3 DEF Notify, At
  <2> QED
    BY <2>1, RebateSucceeds
<1>4. CASE ListLedgers(d)
  <2>1. /\ pass[d].pc = "handle"
        /\ UNCHANGED <<tables, leader, accrued, compensated, history, bounds>>
        /\ \/ Order[Ev(d)] \in accrued /\ Goto(d, "compensate") /\ handled' = handled
           \/ Order[Ev(d)] \notin accrued /\ Succeeds(d)
    BY <1>4 DEF ListLedgers, At
  <2>2. CASE Order[Ev(d)] \notin accrued /\ Succeeds(d)
    BY <2>1, <2>2, RebateSucceeds
  <2>3. CASE Goto(d, "compensate") /\ handled' = handled
    <3>1. UNCHANGED <<outbox, inbox, everFailed, lost>> /\ DeliveryInv
      BY <2>1 DEF tables, history, RebateInv
    <3>2. pass[d].listed # {} /\ ~Settled(Ev(d)) /\ "compensate" \in Running
      BY <2>1, <3>1, ListedAt, AtWork DEF Running
    <3> QED
      BY <2>1, <2>3, <3>1, <3>2, RebateGoto
  <2> QED
    BY <2>1, <2>2, <2>3
<1> QED
  BY <1>1, <1>2, <1>3, <1>4 DEF Handle

\* A failing handler may have written its entry in the ledger, for an event that
\* is not settled.
LEMMA RebateHandlerFails ==
  ASSUME RebateInv, DeliveryInv', NEW d \in Dispatchers, HandlerFails(d)
  PROVE  RebateInv'
<1>1. /\ DeliveryInv /\ TypeOK /\ Goto(d, "failed")
      /\ UNCHANGED <<outbox, inbox, handled, everFailed, lost>>
  BY DEF RebateInv, DeliveryInv, HandlerFails, tables, history
<1>2. pass[d].pc \in {"handle", "compensate"}
  BY DEF HandlerFails, At
<1>3. pass[d].listed # {} /\ "failed" \in Running
  BY <1>1, <1>2, ListedAt DEF Running
<1>4. PICK e \in Events : e = Ev(d)
  BY <1>1, <1>3, EvFirst
<1>5. ~Settled(e)
  BY <1>2, <1>4, AtWork
<1>6. compensated \subseteq compensated'
  BY DEF HandlerFails
<1>7. \/ accrued' = accrued
      \/ \E q \in Events : Kind[q] = "paid" /\ ~Settled(q) /\ accrued' \subseteq accrued \cup {Order[q]}
  <2>1. accrued' = accrued \/ (Kind[e] = "paid" /\ accrued' = accrued \cup {Order[e]})
    BY <1>4 DEF HandlerFails
  <2> QED
    BY <1>5, <2>1
<1> QED
  BY <1>1, <1>3, <1>4, <1>5, <1>6, <1>7, RebateGoto

\* The marks on the inbox record.
LEMMA RebateInboxSteps ==
  ASSUME RebateInv, DeliveryInv', NEW d \in Dispatchers,
         MarkInboxProcessed(d) \/ MarkInboxFailed(d)
  PROVE  RebateInv'
<1>1. /\ DeliveryInv /\ TypeOK
      /\ UNCHANGED <<outbox, accrued, compensated, handled, everFailed, lost>>
  BY DEF RebateInv, DeliveryInv, MarkInboxProcessed, MarkInboxFailed, effects, history
<1>2. pass[d].pc \in {"processed", "failed"}
  BY DEF MarkInboxProcessed, MarkInboxFailed, At
<1>3. pass[d].listed # {} /\ {"failed", "publish", "retry"} \subseteq Running
  BY <1>1, <1>2, ListedAt DEF Running
<1>4. PICK e \in Events : e = Ev(d)
  BY <1>1, <1>3, EvFirst
<1>5. CASE MarkInboxProcessed(d)
  <2>1. Goto(d, "publish") /\ inbox' = [inbox EXCEPT ![e] = "processed"]
    BY <1>4, <1>5 DEF MarkInboxProcessed
  <2>2. inbox'[e] = "processed" /\ \A f \in Events : f # e => inbox'[f] = inbox[f]
    BY <1>1, <2>1 DEF TypeOK
  <2> QED
    BY <1>1, <1>3, <1>4, <2>1, <2>2, RebateGoto
<1>6. CASE MarkInboxFailed(d)
  <2>1. ~Settled(e) /\ Goto(d, "retry") /\ inbox' = [inbox EXCEPT ![e] = "failed"]
    BY <1>4, <1>6, AtWork DEF MarkInboxFailed, At
  <2>2. \A f \in Events : f # e => inbox'[f] = inbox[f]
    BY <1>1, <2>1 DEF TypeOK
  <2> QED
    BY <1>1, <1>3, <1>4, <2>1, <2>2, RebateGoto
<1> QED
  BY <1>5, <1>6

\* A failed statement on the inbox unsettles no event.
LEMMA RebateInboxError ==
  ASSUME RebateInv, DeliveryInv', NEW d \in Dispatchers, InboxError(d)
  PROVE  RebateInv'
<1>1. /\ DeliveryInv /\ TypeOK /\ pass[d].listed # {} /\ Goto(d, "retry")
      /\ pass[d].pc \in {"next", "reclaim", "refind", "processed", "failed"}
      /\ UNCHANGED <<outbox, accrued, compensated, handled, everFailed, lost>>
  BY DEF RebateInv, DeliveryInv, InboxError, effects, history
<1>2. PICK e \in Events : e = Ev(d)
  BY <1>1, EvFirst
<1>3. inbox' = inbox \/ inbox' = [inbox EXCEPT ![e] = InboxWrite(d)]
  BY <1>2 DEF InboxError
<1>4. \A f \in Events : f # e => inbox'[f] = inbox[f]
  BY <1>1, <1>3 DEF TypeOK
<1>5. ASSUME ~lost, Settled(e) PROVE inbox'[e] \in {"pending", "processed"}
  <2>1. inbox[e] \in {"pending", "processed"} /\ pass[d].pc # "failed"
    BY <1>2, <1>5, AtWork DEF Settled
  <2>2. InboxWrite(d) \in {"pending", "processed", inbox[e]}
    <3>1. CASE pass[d].pc = "processed"
      <4>1. InboxWrite(d) = "processed"
        BY <3>1, Zenon DEF InboxWrite, At
      <4> QED
        BY <4>1
    <3>2. CASE pass[d].pc # "processed" /\ pass[d].pc # "failed"
      <4>1. InboxWrite(d) = "pending" \/ InboxWrite(d) = inbox[e]
        BY <1>2, <3>2, Zenon DEF InboxWrite, At
      <4> QED
        BY <4>1
    <3> QED
      BY <2>1, <3>1, <3>2
  <2> QED
    BY <1>1, <1>3, <2>1, <2>2 DEF TypeOK
<1>6. "retry" \in Running
  BY DEF Running
<1> QED
  BY <1>1, <1>2, <1>4, <1>5, <1>6, RebateGoto

\* The marks on the outbox row.
LEMMA RebateOutboxSteps ==
  ASSUME RebateInv, DeliveryInv', NEW d \in Dispatchers,
         MarkOutboxPublished(d) \/ MarkOutboxFailed(d)
  PROVE  RebateInv'
<1>1. /\ DeliveryInv /\ TypeOK /\ OutboxInOrder /\ NextEvent(d)
      /\ UNCHANGED <<inbox, accrued, compensated, handled, lost>>
  BY DEF RebateInv, DeliveryInv, MarkOutboxPublished, MarkOutboxFailed, effects, history
<1>2. pass[d].pc \in {"publish", "retry"}
  BY DEF MarkOutboxPublished, MarkOutboxFailed, At
<1>3. pass[d].listed # {}
  BY <1>1, <1>2, ListedAt
<1>4. PICK e \in Events : e = Ev(d)
  BY <1>1, <1>3, EvFirst
<1>5. outbox[e] # "absent"
  BY <1>1, <1>3, <1>4, EvFirst DEF OutboxInOrder
<1>6. CASE MarkOutboxPublished(d)
  <2>1. /\ everFailed' = everFailed
        /\ outbox' = outbox \/ outbox' = [outbox EXCEPT ![e] = "published"]
    BY <1>4, <1>6 DEF MarkOutboxPublished, history
  <2>2. /\ \A f \in Events : outbox'[f] = "absent" <=> outbox[f] = "absent"
        /\ \A f \in Events : outbox'[f] = "failed" => outbox[f] = "failed"
    BY <1>1, <1>5, <2>1 DEF TypeOK
  <2>3. handled[e] > 0
    BY <1>1, <1>3, <1>4, <1>6, AtEvent DEF MarkOutboxPublished, At
  <2>4. ~lost => Settled(e)
    BY <1>1, <2>3, HandledSettled
  <2> QED
    BY <1>1, <1>3, <1>4, <2>1, <2>2, <2>4, RebateNextEvent
<1>7. CASE MarkOutboxFailed(d)
  <2>1. /\ everFailed' = everFailed \cup {e}
        /\ outbox' = [outbox EXCEPT ![e] = "failed"]
    BY <1>4, <1>7 DEF MarkOutboxFailed
  <2>2. /\ \A f \in Events : outbox'[f] = "absent" <=> outbox[f] = "absent"
        /\ \A f \in Events : outbox'[f] = "failed" => outbox[f] = "failed" \/ f \in everFailed'
    BY <1>1, <1>5, <2>1 DEF TypeOK
  <2> QED
    BY <1>1, <1>3, <1>4, <2>1, <2>2, RebateNextEvent
<1> QED
  BY <1>6, <1>7

\* The three ends of a pass.
LEMMA RebateEnds ==
  ASSUME RebateInv, DeliveryInv', NEW d \in Dispatchers,
         Finish(d) \/ OutboxError(d) \/ Crash(d)
  PROVE  RebateInv'
<1>1. EndPass(d) /\ UNCHANGED <<tables, effects, history>>
  BY DEF Finish, OutboxError, Crash
<1> QED
  BY <1>1, RebateEnd

\* Nothing is written, listed or handled at first.
LEMMA RebateInvInit == Init => RebateInv
<1> SUFFICES ASSUME Init PROVE RebateInv
  OBVIOUS
<1>1. DeliveryInv
  BY DeliveryInvInit
<1>2. \A d \in Dispatchers : pass[d].listed = {}
  BY DEF Init, NoPass
<1>3. \A e \in Events : outbox[e] = "absent" /\ handled[e] = 0
  BY DEF Init
<1> QED
  BY <1>1, <1>2, <1>3 DEF RebateInv, OutboxInOrder, ListedInOrder, RefundSettled

\* Every step preserves the invariant.
LEMMA RebateInvNext == RebateInv /\ [Next]_vars => RebateInv'
<1> SUFFICES ASSUME RebateInv, [Next]_vars PROVE RebateInv'
  OBVIOUS
<1>1. DeliveryInv'
  BY DeliveryInvNext DEF RebateInv
<1>2. CASE \/ \E e \in Events : Enqueue(e) \/ RetryDue(e)
           \/ \E d \in Dispatchers : LockLost(d)
           \/ UNCHANGED vars
  BY <1>1, <1>2, RebateOutside
<1>3. ASSUME NEW d \in Dispatchers, Start(d) \/ Step(d) \/ HandlerFails(d) PROVE RebateInv'
  BY <1>1, <1>3, RebateStart, RebateRecordInbox, RebateReclaim, RebateRefind, RebateHandle,
     RebateHandlerFails, RebateInboxSteps, RebateOutboxSteps, RebateEnds DEF Step
<1>4. ASSUME NEW d \in Dispatchers, InboxError(d) \/ OutboxError(d) \/ Crash(d) PROVE RebateInv'
  BY <1>1, <1>4, RebateInboxError, RebateEnds
<1> QED
  BY <1>2, <1>3, <1>4 DEF Next

\* Without a lost lock connection a handled refund takes the rebate of its order,
\* unless the payment's event was written after it or failed once: the listing
\* hands the payment to a pass before its refund, and a payment the pass leaves
\* behind unfinished is never handled later.
THEOREM RefundTakesRebate == Spec => []RebateCompensated
<1>1. RebateInv => RebateCompensated
  BY DEF RebateInv, RefundSettled, PaidFirst, RebateCompensated
<1> QED
  BY RebateInvInit, RebateInvNext, <1>1, PTL DEF Spec
=============================================================================
