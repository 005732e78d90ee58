---------------------------- MODULE MCAgentTwins ----------------------------
(* Instances of AgentTwins for TLC: two and three copies of one agent. *)
EXTENDS AgentTwins

Two   == 1..2
Three == 1..3
=============================================================================
