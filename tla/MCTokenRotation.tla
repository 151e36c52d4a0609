-------------------------- MODULE MCTokenRotation --------------------------
(***************************************************************************)
(* Instances of TokenRotation for TLC.  Tokens and runs are                *)
(* interchangeable; no symmetry is used, because liveness is checked.      *)
(***************************************************************************)
EXTENDS TokenRotation
=============================================================================
