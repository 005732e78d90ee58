--------------------------- MODULE MCPowerControl ---------------------------
EXTENDS PowerControl

(* Two loads that take more than they say.                                *)
MCLoad     == <<6, 4>>
MCNominal  == <<3, 3>>
MCPriority == <<1, 0>>

Set(a, S, v) == [op |-> a, controls |-> S, value |-> v]
MCCommands == {Set("mode", {1}, "OFF"), Set("mode", {2}, "ON"), Set("priority", {1}, 1000),
               Set("status", {1}, "OFF"), Set("nominalload", {2}, 4), Set("reset", {1}, "OFF"),
               Set("reset", {1, 2}, "OFF"), Set("scheduler", {}, "OFF"), Set("threshold", {}, 5)}
=============================================================================
