------------------------------ MODULE MCRpcPool ------------------------------
(* RpcPool with the heavier endpoint second in the list. *)
EXTENDS RpcPool

Weights == <<50, 100>>
==============================================================================
