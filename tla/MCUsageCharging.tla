-------------------------- MODULE MCUsageCharging --------------------------
(***************************************************************************)
(* Small instances of UsageCharging for TLC.                               *)
(***************************************************************************)
EXTENDS UsageCharging
=============================================================================
