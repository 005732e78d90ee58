----------------------------- MODULE MCTriState -----------------------------
(* Instances of TriStateOutput for TLC. *)
EXTENDS TriStateOutput
=============================================================================
