----------------------------- MODULE MCRpcCalls -----------------------------
(***************************************************************************)
(* Instances of RpcCalls for TLC.  Calls and correlation ids are           *)
(* interchangeable; symmetry is used in the runs without liveness only.    *)
(***************************************************************************)
EXTENDS RpcCalls, TLC

Symmetry == Permutations(Calls) \cup Permutations(Ids)
=============================================================================
