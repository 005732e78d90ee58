--------------------------- MODULE MessageQueue ----------------------------
(***************************************************************************)
(* The life of one MMessageQueue between any number of sending threads and *)
(* the one thread that receives from it (an ObserverThread, or the HTTP    *)
(* thread that waits on its RpcEntry).                                     *)
(*                                                                         *)
(* send() runs under the mutex, so it is one step whichever thread calls   *)
(* it.  receive() gives the mutex up inside cond.wait, so it is two: going *)
(* to sleep on an empty queue, and resuming.  The test before cond.wait is *)
(* an "if" (line 78), so a thread that resumes does not look at the size   *)
(* again.                                                                  *)
(***************************************************************************)
EXTENDS MMessageQueue

CONSTANTS Msgs,        \* the messages that are sent, each once
          Priority,    \* Priority[m] is the priority field of m
          MaxLength,   \* maxlength of the queue, 0 for an unbounded one
          Spurious     \* whether cond.wait may return without a notify_one

ASSUME QueueAssumption ==
    /\ Priority \in [Msgs -> Nat]
    /\ MaxLength \in Nat
    /\ Spurious \in BOOLEAN

VARIABLES queue,       \* the vector
          consumer,    \* where the receiving thread is
          sent,        \* the messages sent so far, in order (history)
          got,         \* the messages receive() returned, in order (history)
          purged       \* the messages purge() erased (history)

vars == <<queue, consumer, sent, got, purged>>

Ids(q) == {q[i].id : i \in DOMAIN q}

-----------------------------------------------------------------------------
Init ==
    /\ queue = <<>>
    /\ consumer = "working"
    /\ sent = <<>>
    /\ got = <<>>
    /\ purged = {}

(* Mutant of Send: the notify_one is missing.                              *)
SendSilently(m) ==
    /\ m \notin Range(sent)
    /\ LET msg   == [id |-> m, priority |-> Priority[m]]
           after == Enqueue(queue, msg, MaxLength)
       IN /\ queue' = after
          /\ purged' = purged \cup ((Ids(queue) \cup {m}) \ Ids(after))
    /\ sent' = Append(sent, m)
    /\ UNCHANGED <<consumer, got>>

(* send(m): push_back, purge, notify_one.  A notification wakes the        *)
(* receiver if it sleeps and is forgotten otherwise.                       *)
Send(m) ==
    /\ m \notin Range(sent)
    /\ LET msg   == [id |-> m, priority |-> Priority[m]]
           after == Enqueue(queue, msg, MaxLength)
       IN /\ queue' = after
          /\ purged' = purged \cup ((Ids(queue) \cup {m}) \ Ids(after))
    /\ sent' = Append(sent, m)
    /\ consumer' = IF consumer = "waiting" THEN "woken" ELSE consumer
    /\ UNCHANGED got

(* The end of receive(): copy the chosen element, erase it, return it.     *)
Take ==
    /\ queue # <<>>
    /\ got' = Append(got, Received(queue).id)
    /\ queue' = Remaining(queue)
    /\ consumer' = "working"
    /\ UNCHANGED <<sent, purged>>

(* receive() on a queue that is not empty.                                 *)
ReceiveNow == consumer = "working" /\ Take

(* receive() on an empty queue goes to sleep in cond.wait.                 *)
ReceiveWait ==
    /\ consumer = "working"
    /\ queue = <<>>
    /\ consumer' = "waiting"
    /\ UNCHANGED <<queue, sent, got, purged>>

(* cond.wait returns without a notify_one, as condition variables may.     *)
SpuriousWakeup ==
    /\ Spurious
    /\ consumer = "waiting"
    /\ consumer' = "woken"
    /\ UNCHANGED <<queue, sent, got, purged>>

(* cond.wait has the mutex again and receive() goes on.  On an empty       *)
(* vector reading element 0 and erasing begin() are undefined behaviour:   *)
(* what the thread does from there is not constrained, and no further step *)
(* of it is modelled.                                                      *)
ReadNothing ==
    /\ queue = <<>>
    /\ consumer' = "undefined"
    /\ UNCHANGED <<queue, sent, got, purged>>

Resume == consumer = "woken" /\ (Take \/ ReadNothing)

Next ==
    \/ \E m \in Msgs : Send(m)
    \/ ReceiveNow
    \/ ReceiveWait
    \/ SpuriousWakeup
    \/ Resume

Spec == Init /\ [][Next]_vars

(* The receiving thread is scheduled as long as it can run.                *)
Fairness == WF_vars(ReceiveNow) /\ WF_vars(ReceiveWait) /\ WF_vars(Resume)

FairSpec == Spec /\ Fairness
-----------------------------------------------------------------------------
(* Every message handed to send() is in exactly one place: in the vector,  *)
(* returned once by receive(), or erased by purge().                       *)
Conservation ==
    /\ Range(sent) = Ids(queue) \cup Range(got) \cup purged
    /\ Ids(queue) \cap Range(got) = {}
    /\ purged \cap (Ids(queue) \cup Range(got)) = {}
    /\ Len(sent) = Len(queue) + Len(got) + Cardinality(purged)

(* Messages of the same priority leave the queue, to the receiver or to    *)
(* purge(), in the order in which they were sent: while one is still in    *)
(* the vector no later one of its priority has gone.                       *)
NoOvertaking ==
    \A i, j \in DOMAIN sent :
        /\ i < j
        /\ Priority[sent[i]] = Priority[sent[j]]
        /\ sent[i] \in Ids(queue)
        => sent[j] \in Ids(queue)

(* Every message sent is received, or gave way to another one, unless      *)
(* receive() has gone on with an empty vector.                             *)
Delivered ==
    \A m \in Msgs :
        (m \in Range(sent)) ~> (m \in Range(got) \cup purged \/ consumer = "undefined")
=============================================================================
