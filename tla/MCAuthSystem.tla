--------------------------- MODULE MCAuthSystem ---------------------------
(***************************************************************************)
(* The instance of AuthSystem for TLC, all of whose constants are model    *)
(* values or given in the configuration.  Its run checks liveness, so no   *)
(* symmetry is used.                                                       *)
(***************************************************************************)
EXTENDS AuthSystem, TLC
=============================================================================
