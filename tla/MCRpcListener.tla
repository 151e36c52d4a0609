--------------------------- MODULE MCRpcListener ---------------------------
(***************************************************************************)
(* Instances of RpcListener for TLC: the messages, one of each kind that   *)
(* _on_message tells apart.                                                *)
(***************************************************************************)
EXTENDS RpcListener, TLC

NotJson       == {"malformed"}
NotRepairable == {"invalid"}
OneOfEachKind == {"ordinary"} \cup NotJson \cup NotRepairable
=============================================================================
