--------------------------- MODULE MCIdempotency ---------------------------
(* Instance: two requests with one body and one with another.            *)
EXTENDS Idempotency

Bodies(r) == IF r = "other" THEN "b" ELSE "a"
HashMixed == [r \in Requests |-> Bodies(r)]
=============================================================================
