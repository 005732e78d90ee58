----------------------------- MODULE NetPeriods -----------------------------
(***************************************************************************)
(* What AgentTwins and AgentNet have in common: both are about the threads *)
(* of send_status and recv_status, count time in periods of send_wait and  *)
(* run on a network that loses datagrams.                                  *)
(***************************************************************************)
EXTENDS Integers

CONSTANTS validityTime,   \* in periods
          MaxLosses       \* bound: datagrams lost

ASSUME PeriodsAssumption == {validityTime, MaxLosses} \subseteq Nat

VARIABLE nlosses   \* datagrams lost
=============================================================================
