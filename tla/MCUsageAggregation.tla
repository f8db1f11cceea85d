------------------------- MODULE MCUsageAggregation -------------------------
(***************************************************************************)
(* Small instances of UsageAggregation for TLC.                            *)
(***************************************************************************)
EXTENDS UsageAggregation, TLC

\* Both rows belong to user 1; their costs tell them apart.
SameOwner == (1 :> 1) @@ (2 :> 1)
TwoCosts == (1 :> 1) @@ (2 :> 2)
=============================================================================
