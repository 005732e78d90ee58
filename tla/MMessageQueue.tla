--------------------------- MODULE MMessageQueue ---------------------------
(***************************************************************************)
(* minilibs/MMessageQueue.h: the queue through which every thread of a HAT *)
(* agent receives its messages.  A queue is a sequence of records that     *)
(* have at least a field "priority"; the operators are the vector updates  *)
(* made under the queue's mutex.                                           *)
(***************************************************************************)
EXTENDS Integers, SequencesExt

(* Mutant of Highest: ">=" in the loop of receive().                       *)
HighestLast(q) ==
    CHOOSE r \in DOMAIN q :
        \A i \in DOMAIN q : /\ q[i].priority <= q[r].priority
                            /\ i > r => q[i].priority < q[r].priority

(* The loop of receive(): the first element among those of the highest     *)
(* priority.                                                               *)
Highest(q) ==
    CHOOSE r \in DOMAIN q :
        \A i \in DOMAIN q : /\ q[i].priority <= q[r].priority
                            /\ i < r => q[i].priority < q[r].priority

(* The loop of purge(): the first element among those of the lowest        *)
(* priority.                                                               *)
Lowest(q) ==
    CHOOSE n \in DOMAIN q :
        \A i \in DOMAIN q : /\ q[i].priority >= q[n].priority
                            /\ i < n => q[i].priority > q[n].priority

(* purge(): a queue of maxlength 0 is unbounded.                           *)
Purge(q, maxlength) ==
    IF maxlength = 0 \/ maxlength >= Len(q) THEN q ELSE RemoveAt(q, Lowest(q))

(* send(): push_back, then purge.                                          *)
Enqueue(q, m, maxlength) == Purge(Append(q, m), maxlength)

(* What receive() returns from a non-empty queue.                          *)
Received(q) == q[Highest(q)]

(* Mutant of Remaining: the erase forgets the offset r.                    *)
RemainingTail(q) == Tail(q)

(* What receive() leaves in the queue.                                     *)
Remaining(q) == RemoveAt(q, Highest(q))
=============================================================================
