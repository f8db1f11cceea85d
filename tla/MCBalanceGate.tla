--------------------------- MODULE MCBalanceGate ---------------------------
(***************************************************************************)
(* Small instances of BalanceGate for TLC.                                 *)
(***************************************************************************)
EXTENDS BalanceGate, TLC

\* Requests 2 and 3 fit the balance one at a time but not together; request 1
\* fits beside either.
Estimates == (1 :> 1) @@ (2 :> 2) @@ (3 :> 2)
TwoEstimates == (1 :> 2) @@ (2 :> 2)
=============================================================================
