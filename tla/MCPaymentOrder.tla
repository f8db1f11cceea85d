--------------------------- MODULE MCPaymentOrder ---------------------------
(***************************************************************************)
(* Small instances of PaymentOrder for TLC.                                *)
(***************************************************************************)
EXTENDS PaymentOrder, TLC

JobSymmetry == Permutations(Jobs)
=============================================================================
