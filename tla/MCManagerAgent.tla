--------------------------- MODULE MCManagerAgent ---------------------------
EXTENDS ManagerAgent, TLC

(* A day of four units; the last one is the minute after 23:59:00.  DAY    *)
(* lists two different things, MANUAL always the same.                     *)
Period(f, t, e) == [from |-> f, to |-> t, event |-> e]
MCPlan == "OFF" :> <<Period(0, 2, {})>>
          @@ "MANUAL" :> <<Period(0, 2, {"ALL"})>>
          @@ "DAY" :> <<Period(1, 1, {}), Period(1, 2, {"ALL"})>>

Prog(p)        == [op |-> "setprogram", prog |-> p]
Status(v)      == [op |-> "rulestatus", val |-> v]
Actions(v)     == [op |-> "setactions", val |-> v]
Validity(f, t) == [op |-> "validity", from |-> f, to |-> t]

(* Commands to the programme engine, with a rule that follows it.  The     *)
(* agent starts for the first time, or OFF with DAY put aside; one command *)
(* is enough to meet a file system that fails in every call of a handler.  *)
FollowsDay(cmds, n, c, s, d) ==
    [mode |-> "program_timed", program |-> "DAY", from |-> 1, to |-> 2,
     cmds |-> {Prog(p) : p \in cmds}, maxCmds |-> n, cur |-> c, swp |-> s, disk |-> d]

(* Commands to the rule and its actions; one range wraps over midnight.    *)
Timed(cmds) ==
    [mode |-> "timed", program |-> "ALL", from |-> 1, to |-> 2,
     cmds |-> cmds, maxCmds |-> 2, cur |-> Missing, swp |-> "", disk |-> "works"]

MCConfigurations ==
    {FollowsDay({"_SWITCH", "_ON", "DAY", "none"}, 2, Missing, "", "works"),
     FollowsDay({"_SWITCH", "MANUAL", "OFF"}, 2, "OFF", "DAY", "works"),
     FollowsDay({"_SWITCH", "MANUAL"}, 1, "OFF", "DAY", "fails"),
     Timed({Status("ON"), Status("OFF"), Actions("ON"), Actions("OFF")}),
     Timed({Validity(2, 3), Validity(3, 1), Validity(4, 4)})}
=============================================================================
