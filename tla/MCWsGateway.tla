----------------------------- MODULE MCWsGateway -----------------------------
(***************************************************************************)
(* Instances of WsGateway for TLC.  Sockets and events are                 *)
(* interchangeable; no symmetry is used, because liveness is checked.      *)
(***************************************************************************)
EXTENDS WsGateway
=============================================================================
