---------------------------- MODULE MCLoginGuard ----------------------------
(***************************************************************************)
(* The instance of LoginGuard for TLC.  Its run checks liveness, so that   *)
(* the symmetry of the tasks is not used.                                  *)
(***************************************************************************)
EXTENDS LoginGuard, TLC
=============================================================================
