--------------------------- MODULE MCRegistration ---------------------------
(***************************************************************************)
(* Instances of Registration for TLC.  Runs, names and e-mails are         *)
(* interchangeable; symmetry is used in the runs without liveness only.    *)
(***************************************************************************)
EXTENDS Registration, TLC

Symmetry == Permutations(Runs) \cup Permutations(Names) \cup Permutations(Mails)
=============================================================================
