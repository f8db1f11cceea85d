-------------------------- MODULE UsageSettlement --------------------------
(***************************************************************************)
(* What usage charging promises, with no workers, batches, retries or      *)
(* transactions: successful usage is incurred once, settled at most once   *)
(* by a step that takes exactly its cost from the balance of the user who  *)
(* incurred it, and nothing else moves a balance but credits and, where    *)
(* there are administrators, adjustments to a non-negative amount.         *)
(***************************************************************************)
EXTENDS Integers, Functions

CONSTANTS Users, Adjustable

VARIABLES incurred,  \* usage id -> [user, cost]
          settled,   \* ids already taken from a balance
          balance

vars == <<incurred, settled, balance>>

Cost(S) == SumFunction([r \in S |-> incurred[r].cost])

Init ==
    /\ incurred = <<>>
    /\ settled = {}
    /\ balance \in [Users -> Int]

\* New usage appears; what was incurred before stays as it was.
Incur ==
    /\ DOMAIN incurred \subseteq DOMAIN incurred'
    /\ \A r \in DOMAIN incurred : incurred'[r] = incurred[r]
    /\ UNCHANGED <<settled, balance>>

\* Some unsettled usage of one user is settled against its balance.
Settle(u, S) ==
    /\ S # {}
    /\ S \subseteq DOMAIN incurred \ settled
    /\ \A r \in S : incurred[r].user = u
    /\ settled' = settled \cup S
    /\ balance' = [balance EXCEPT ![u] = @ - Cost(S)]
    /\ UNCHANGED incurred

Credit(u) ==
    /\ balance'[u] > balance[u]
    /\ balance' = [balance EXCEPT ![u] = balance'[u]]
    /\ UNCHANGED <<incurred, settled>>

\* An administrator's write of an absolute, non-negative balance.  The write
\* may be computed from a balance that has been settled since, so it may undo
\* what settlement took: no more is promised of it here.
Adjust(u) ==
    /\ Adjustable
    /\ balance'[u] >= 0
    /\ balance' = [balance EXCEPT ![u] = balance'[u]]
    /\ UNCHANGED <<incurred, settled>>

Next ==
    \/ Incur
    \/ \E u \in Users : \E S \in SUBSET (DOMAIN incurred \ settled) : Settle(u, S)
    \/ \E u \in Users : Credit(u) \/ Adjust(u)

Spec == Init /\ [][Next]_vars
=============================================================================
