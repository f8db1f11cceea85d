--------------------------- MODULE MCRateLimiter ---------------------------
(***************************************************************************)
(* Small instances of RateLimiter for TLC.  Attempts cost the same and so  *)
(* are interchangeable.                                                    *)
(***************************************************************************)
EXTENDS RateLimiter, TLC

\* Three attempts fit the request counter and two the token counter, so the
\* third is refused by one of them while the other has room.
Limits == ("rpm" :> 3) @@ ("tpm" :> 4)
Costs == [a \in Attempts |-> ("rpm" :> 1) @@ ("tpm" :> 2)]
\* The account admits two dispatches at once, its group one.
LeaseLimits == (1 :> 2) @@ (2 :> 1)

AttemptSymmetry == Permutations(Attempts)
=============================================================================
