------------------------------- MODULE Timer --------------------------------
(***************************************************************************)
(* BBDevices/Timer.cpp: the vector of timed conditions of the Timer        *)
(* thread.  A condition is [sub, key, wait, expired]: the subtype and the  *)
(* value of the wait message that started it, the seconds left (a due one  *)
(* may have less than none) and whether its "wait end" has been emitted.   *)
(***************************************************************************)
EXTENDS Integers, SequencesExt

TimedCondition(sub, key, duration) ==
    [sub |-> sub, key |-> key, wait |-> duration, expired |-> FALSE]

(* isEqual; the type is "wait" for every condition.                        *)
IsEqual(c, tc) == c.sub = tc.sub /\ c.key = tc.key

(* update(period) on every condition that has not expired.                 *)
UpdateAll(condition, period) ==
    [i \in DOMAIN condition |->
        IF condition[i].expired THEN condition[i]
        ELSE [condition[i] EXCEPT !.wait = @ - period]]

(* The conditions whose message() is due, and what message() does to them. *)
IsDue(c) == c.wait <= 0 /\ ~c.expired
DueKeys(condition) == [i \in DOMAIN SelectSeq(condition, IsDue) |->
                          SelectSeq(condition, IsDue)[i].key]
ExpireDue(condition) ==
    [i \in DOMAIN condition |-> IF IsDue(condition[i])
                                THEN [condition[i] EXCEPT !.expired = TRUE]
                                ELSE condition[i]]

(* startTimer: restart the equal condition, or add one at the end.         *)
StartTimer(condition, tc) ==
    LET i == SelectInSeq(condition, LAMBDA c : IsEqual(c, tc))
    IN IF i > 0 THEN [condition EXCEPT ![i] = tc] ELSE Append(condition, tc)

(* resetTimer: "found = true" stands outside the if, so only the first     *)
(* element of the vector is ever looked at.                                *)
ResetTimer(condition, tc) ==
    IF condition # <<>> /\ IsEqual(condition[1], tc)
    THEN [condition EXCEPT ![1].wait = 0]
    ELSE condition
=============================================================================
