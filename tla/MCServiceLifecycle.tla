------------------------- MODULE MCServiceLifecycle -------------------------
(***************************************************************************)
(* Instances of ServiceLifecycle for TLC.  Listeners and users are         *)
(* interchangeable; no symmetry is used, because liveness is checked.      *)
(***************************************************************************)
EXTENDS ServiceLifecycle
=============================================================================
