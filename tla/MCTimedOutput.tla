--------------------------- MODULE MCTimedOutput ----------------------------
(* Instances of TimedOutput for TLC. *)
EXTENDS TimedOutput

CONSTANTS lamp, boiler

Scenario(outputs, cmds, sets, edges, delay, waitfor) ==
    [outputs |-> outputs, cmds |-> cmds, sets |-> sets, edges |-> edges,
     delay |-> delay, waitfor |-> waitfor]

(* Two outputs and three commands; or one command, and an input whose pin  *)
(* has edges: one that bounces, one that does not, and one without delay.  *)
MCScenarios ==
    {Scenario({lamp, boiler}, 3, 0, 0, 1, 1),
     Scenario({lamp}, 1, 0, 3, 1, 0),
     Scenario({}, 0, 1, 4, 1, 1),
     Scenario({}, 0, 1, 3, 0, 1)}
=============================================================================
