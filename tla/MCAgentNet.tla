----------------------------- MODULE MCAgentNet -----------------------------
(* Instances of AgentNet for TLC. *)
EXTENDS AgentNet
=============================================================================
