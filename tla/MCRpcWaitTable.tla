-------------------------- MODULE MCRpcWaitTable ---------------------------
(* Instances of RpcWaitTable for TLC. *)
EXTENDS RpcWaitTable
=============================================================================
