------------------------------ MODULE RpcCall -------------------------------
(***************************************************************************)
(* What a synchronous command promises to its HTTP client, without tags,   *)
(* tables, queues or threads: a call is opened, is settled once, by an     *)
(* answer to that very call or by its timeout, and then returns what       *)
(* settled it.  Whatever comes later (a late answer, a second complaint)   *)
(* changes nothing.                                                        *)
(***************************************************************************)
EXTENDS Integers

CONSTANT MaxCalls

Calls      == 1..MaxCalls
NONE       == [kind |-> "none", call |-> 0]
Answer(k)  == [kind |-> "answer", call |-> k]
Timeout(k) == [kind |-> "timeout", call |-> k]

VARIABLES opened,     \* the calls made so far
          settled,    \* settled[k]: what decided call k, or NONE
          returned    \* the calls that returned

vars == <<opened, settled, returned>>

Init ==
    /\ opened = {}
    /\ settled = [k \in Calls |-> NONE]
    /\ returned = {}

Open ==
    /\ \E k \in Calls \ opened : opened' = opened \cup {k}
    /\ UNCHANGED <<settled, returned>>

Undecided == {k \in opened : settled[k] = NONE}

AnswerOne ==
    /\ \E k \in Undecided : settled' = [settled EXCEPT ![k] = Answer(k)]
    /\ UNCHANGED <<opened, returned>>

(* One look at the clock may settle several calls.                         *)
TimeoutSome ==
    /\ \E S \in SUBSET Undecided :
          settled' = [k \in Calls |-> IF k \in S THEN Timeout(k) ELSE settled[k]]
    /\ UNCHANGED <<opened, returned>>

Return ==
    /\ \E k \in opened \ returned :
          /\ settled[k] # NONE
          /\ returned' = returned \cup {k}
    /\ UNCHANGED <<opened, settled>>

Next == Open \/ AnswerOne \/ TimeoutSome \/ Return

Spec == Init /\ [][Next]_vars
=============================================================================
