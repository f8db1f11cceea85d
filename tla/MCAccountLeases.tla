-------------------------- MODULE MCAccountLeases --------------------------
(* Small instance of AccountLeases for TLC.                                *)
EXTENDS AccountLeases

\* One request has a fallback model.
TwoAndOne == [r \in Requests |-> IF r = "r1" THEN 2 ELSE 1]
OneFallback == [r \in Requests |-> IF r = "r1" THEN 1 ELSE 0]
=============================================================================
