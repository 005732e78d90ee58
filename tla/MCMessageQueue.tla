-------------------------- MODULE MCMessageQueue ---------------------------
(* Instances of MessageQueue for TLC. *)
EXTENDS MessageQueue

CONSTANTS a, b, c, d, e

FiveMsgs  == {a, b, c, d, e}
MixedPrio == a :> 0 @@ b :> 1 @@ c :> 1 @@ d :> 0 @@ e :> 2
=============================================================================
