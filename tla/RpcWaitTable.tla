---------------------------- MODULE RpcWaitTable ----------------------------
(***************************************************************************)
(* The synchronous commands of an agent.  An HTTP thread that serves       *)
(* /cmdw or /setw (CmdRoute::exec) registers a call in the RpcWaitTable,   *)
(* publishes the command as a message and blocks on the queue of its       *)
(* entry.  The device threads that handle the command answer with          *)
(* hsrv::rpcNotify, which looks the entry up by tag; the Trigger thread    *)
(* posts a complaint to every entry older than RPC_TIMEOUT.                *)
(*                                                                         *)
(* An RpcEntry is named by the number of the call that allocated it.       *)
(* "pending" is a vector with push_back at the end, so its order is the    *)
(* order of these numbers and a set of numbers is enough.  The queue of an *)
(* entry carries messages of equal priority, so it is first-in first-out   *)
(* (NoOvertaking of MessageQueue).                                         *)
(*                                                                         *)
(* Time is kept as the age of a call in seconds, saturating just above     *)
(* RPC_TIMEOUT: the code only compares rtime + RPC_TIMEOUT < ctime.        *)
(***************************************************************************)
EXTENDS Integers, Sequences

CONSTANTS Callers,     \* the HTTP threads
          MAXTAG,      \* tags run from 0 to MAXTAG
          RPC_TIMEOUT,
          MaxCalls,    \* bound: how many calls are registered
          MaxAnswers,  \* bound: how many times the devices answer one command
          MaxQueued    \* bound: messages in a queue when a complaint is added

ASSUME RpcAssumption ==
    /\ MAXTAG \in Nat
    /\ RPC_TIMEOUT \in Nat
    /\ MaxCalls \in Nat
    /\ MaxAnswers \in Nat
    /\ MaxQueued \in Nat \ {0}

Calls    == 1..MaxCalls
NONE     == [kind |-> "none", call |-> 0]
NO_ENTRY == [kind |-> "no_entry", call |-> 0]

(* What ends up in a waiting_queue: the answer a device gives to the       *)
(* command of a call, or the message of mkComplain.                        *)
Reply         == [kind : {"answer", "timeout"}, call : Calls]
Answer(k)     == [kind |-> "answer", call |-> k]
mkComplain(k) == [kind |-> "timeout", call |-> k]

VARIABLES
    tagSequence,   \* the next tag
    ncalls,        \* how many entries were allocated
    pending,       \* the entries in the table
    tag,           \* tag[k]: the tag of entry k
    age,           \* age[k]: the seconds since rtime of entry k
    queue,         \* queue[k]: the waiting_queue of entry k
    pc,            \* pc[t]: where HTTP thread t is in CmdRoute::exec
    call,          \* call[t]: the call thread t is serving, 0 without a tag
    entry,         \* entry[t]: the entry on whose queue thread t waits
    answer,        \* answer[t]: what receive() returned to thread t
    inflight,      \* the commands the device threads have not finished
    nanswers,      \* nanswers[k]: how many answers an unfinished command k got
    overdue,       \* the calls checkTimeOut finds too old for its ctime
    trigger,       \* whether the Trigger thread is inside checkTimeOut
    status,        \* AgentConf::status
    result         \* result[k]: what the last wait() for call k returned

table   == <<tagSequence, ncalls, pending, tag>>
threads == <<pc, call, entry, answer>>
device  == <<inflight, nanswers>>
clock   == <<overdue, trigger>>
vars    == <<table, age, queue, threads, device, clock, status, result>>

TableOK ==
    /\ tagSequence \in 0..MAXTAG
    /\ ncalls \in 0..MaxCalls
    /\ pending \subseteq 1..ncalls
    /\ tag \in [Calls -> 0..MAXTAG]

EntriesOK ==
    /\ age \in [Calls -> 0..(RPC_TIMEOUT + 1)]
    /\ queue \in [Calls -> Seq(Reply)]
    /\ result \in [0..MaxCalls -> Reply \cup {NONE, NO_ENTRY}]

ThreadsOK ==
    /\ pc \in [Callers -> {"idle", "registered", "notified", "waiting", "clearing"}]
    /\ call \in [Callers -> 0..ncalls]
    /\ entry \in [Callers -> 0..ncalls]
    /\ answer \in [Callers -> Reply \cup {NONE}]

OthersOK ==
    /\ inflight \subseteq 1..ncalls
    /\ nanswers \in [Calls -> 0..MaxAnswers]
    /\ overdue \subseteq 1..ncalls
    /\ trigger \in {"sleeping", "checking"}
    /\ status \in {"ON", "OFF"}

TypeOK == TableOK /\ EntriesOK /\ ThreadsOK /\ OthersOK
-----------------------------------------------------------------------------
Init ==
    /\ tagSequence = 0
    /\ ncalls = 0
    /\ pending = {}
    /\ tag = [k \in Calls |-> 0]
    /\ age = [k \in Calls |-> 0]
    /\ queue = [k \in Calls |-> <<>>]
    /\ pc = [t \in Callers |-> "idle"]
    /\ call = [t \in Callers |-> 0]
    /\ entry = [t \in Callers |-> 0]
    /\ answer = [t \in Callers |-> NONE]
    /\ inflight = {}
    /\ nanswers = [k \in Calls |-> 0]
    /\ overdue = {}
    /\ trigger = "sleeping"
    /\ status = "ON"
    /\ result = [k \in 0..MaxCalls |-> NONE]

(* Mutant of NextTag: a wrap one tag early.                                *)
NextTagEarly(seq) == IF seq + 1 >= MAXTAG THEN 0 ELSE seq + 1

(* getTag: the tag after the last one is 0 again.                          *)
NextTag(seq) == IF seq + 1 > MAXTAG THEN 0 ELSE seq + 1

(* The first pending entry with tag g, for the loops of signal and         *)
(* getEntry.                                                               *)
IsFirst(k, g) ==
    /\ k \in pending
    /\ tag[k] = g
    /\ \A j \in pending : tag[j] = g => k <= j

(* Fewer than MAXTAG + 1 calls are registered during the life of one call: *)
(* no entry in the table and no command at a device is as old as the tag   *)
(* about to be reused.  With RPC_TIMEOUT = 20 and MAXTAG = 1000000 this    *)
(* leaves out 50000 calls per second.                                      *)
TagWindow == \A k \in pending \cup inflight : ncalls + 1 - k <= MAXTAG

(* CmdRoute::exec on a known subject: callRegister, under the mutex.       *)
callRegister(t) ==
    /\ pc[t] = "idle"
    /\ ncalls < MaxCalls
    /\ TagWindow
    /\ ncalls' = ncalls + 1
    /\ pending' = pending \cup {ncalls + 1}
    /\ tag' = [tag EXCEPT ![ncalls + 1] = tagSequence]
    /\ tagSequence' = NextTag(tagSequence)
    /\ call' = [call EXCEPT ![t] = ncalls + 1]
    /\ pc' = [pc EXCEPT ![t] = "registered"]
    /\ UNCHANGED <<age, queue, entry, answer, device, clock, status, result>>

(* CmdRoute::exec on a subject that check_subject does not know: nothing   *)
(* is registered or published, and wait is called with an empty tag.       *)
unknownSubject(t) ==
    /\ pc[t] = "idle"
    /\ call' = [call EXCEPT ![t] = 0]
    /\ pc' = [pc EXCEPT ![t] = "notified"]
    /\ UNCHANGED <<table, age, queue, entry, answer, device, clock, status, result>>

(* SubjectSet::notify hands the command to the device threads; while the   *)
(* agent is OFF the message is dropped and nobody will answer.             *)
notify(t) ==
    /\ pc[t] = "registered"
    /\ inflight' = IF status = "ON" THEN inflight \cup {call[t]} ELSE inflight
    /\ pc' = [pc EXCEPT ![t] = "notified"]
    /\ UNCHANGED <<table, age, queue, call, entry, answer, nanswers, clock,
                   status, result>>

(* wait(tag): getEntry, under the mutex, then the caller owns the pointer. *)
getEntry(t) ==
    /\ pc[t] = "notified"
    /\ call[t] # 0
    /\ \E k \in pending :
          /\ IsFirst(k, tag[call[t]])
          /\ entry' = [entry EXCEPT ![t] = k]
          /\ pc' = [pc EXCEPT ![t] = "waiting"]
    /\ UNCHANGED <<table, age, queue, call, answer, device, clock, status, result>>

(* wait(tag) without an entry returns the message error/no_entry.          *)
noEntry(t) ==
    /\ pc[t] = "notified"
    /\ call[t] # 0 => \A k \in pending : tag[k] # tag[call[t]]
    /\ result' = [result EXCEPT ![call[t]] = NO_ENTRY]
    /\ pc' = [pc EXCEPT ![t] = "idle"]
    /\ call' = [call EXCEPT ![t] = 0]
    /\ UNCHANGED <<table, age, queue, entry, answer, device, clock, status>>

(* Mutant of receive: the newest message wins.                             *)
receiveNewest(t) ==
    /\ pc[t] = "waiting"
    /\ queue[entry[t]] # <<>>
    /\ answer' = [answer EXCEPT ![t] = queue[entry[t]][Len(queue[entry[t]])]]
    /\ queue' = [queue EXCEPT ![entry[t]] = Tail(@)]
    /\ pc' = [pc EXCEPT ![t] = "clearing"]
    /\ UNCHANGED <<table, age, call, entry, device, clock, status, result>>

(* waiting_queue.receive() returns the oldest message of the queue.        *)
receive(t) ==
    /\ pc[t] = "waiting"
    /\ queue[entry[t]] # <<>>
    /\ answer' = [answer EXCEPT ![t] = Head(queue[entry[t]])]
    /\ queue' = [queue EXCEPT ![entry[t]] = Tail(@)]
    /\ pc' = [pc EXCEPT ![t] = "clearing"]
    /\ UNCHANGED <<table, age, call, entry, device, clock, status, result>>

(* Mutant of clearEntry: returns before the erase.                         *)
clearEntryKeeping(t) ==
    /\ pc[t] = "clearing"
    /\ result' = [result EXCEPT ![call[t]] = answer[t]]
    /\ pc' = [pc EXCEPT ![t] = "idle"]
    /\ call' = [call EXCEPT ![t] = 0]
    /\ entry' = [entry EXCEPT ![t] = 0]
    /\ answer' = [answer EXCEPT ![t] = NONE]
    /\ UNCHANGED <<table, age, queue, device, clock, status>>

(* clearEntry takes the entry out of the table and wait() returns.  What   *)
(* is left in its queue can no longer be reached, and the locals of the    *)
(* request are gone.                                                       *)
clearEntry(t) ==
    /\ pc[t] = "clearing"
    /\ pending' = pending \ {entry[t]}
    /\ queue' = [queue EXCEPT ![entry[t]] = <<>>]
    /\ result' = [result EXCEPT ![call[t]] = answer[t]]
    /\ pc' = [pc EXCEPT ![t] = "idle"]
    /\ call' = [call EXCEPT ![t] = 0]
    /\ entry' = [entry EXCEPT ![t] = 0]
    /\ answer' = [answer EXCEPT ![t] = NONE]
    /\ UNCHANGED <<tagSequence, ncalls, tag, age, device, clock, status>>

(* hsrv::rpcNotify by the thread that handles command k: signal finds the  *)
(* first entry with the tag of the command and posts the answer there.     *)
signal(k) ==
    /\ k \in inflight
    /\ nanswers[k] < MaxAnswers
    /\ nanswers' = [nanswers EXCEPT ![k] = @ + 1]
    /\ queue' = [j \in Calls |-> IF IsFirst(j, tag[k])
                                 THEN Append(queue[j], Answer(k))
                                 ELSE queue[j]]
    /\ UNCHANGED <<table, age, threads, inflight, clock, status, result>>

(* A device thread is done with command k, with or without an answer.      *)
deviceDone(k) ==
    /\ k \in inflight
    /\ inflight' = inflight \ {k}
    /\ nanswers' = [nanswers EXCEPT ![k] = 0]
    /\ UNCHANGED <<table, age, queue, threads, clock, status, result>>

(* Mutant of checkTimeOutRead: a limit that is never reached.              *)
checkTimeOutNever ==
    /\ trigger = "sleeping"
    /\ trigger' = "checking"
    /\ overdue' = {k \in pending : age[k] > RPC_TIMEOUT + 1}
    /\ UNCHANGED <<table, age, queue, threads, device, status, result>>

(* checkTimeOut reads the time before it takes the mutex ...               *)
checkTimeOutRead ==
    /\ trigger = "sleeping"
    /\ trigger' = "checking"
    /\ overdue' = {k \in pending : age[k] > RPC_TIMEOUT}
    /\ UNCHANGED <<table, age, queue, threads, device, status, result>>

(* Mutant of checkTimeOut: it also erases what has timed out.              *)
checkTimeOutErasing ==
    /\ trigger = "checking"
    /\ pending' = pending \ overdue
    /\ queue' = [k \in Calls |-> IF k \in pending \cap overdue
                                 THEN Append(queue[k], mkComplain(k))
                                 ELSE queue[k]]
    /\ trigger' = "sleeping"
    /\ overdue' = {}
    /\ UNCHANGED <<tagSequence, ncalls, tag, age, threads, device, status, result>>

(* ... and then posts a complaint to every entry that is still in the      *)
(* table and was too old at that time.  The trigger check_rpc_timeout is   *)
(* never armed again once it has expired, so Trigger::exec repeats this at *)
(* every cycle, and an entry may get several complaints.                   *)
checkTimeOut ==
    /\ trigger = "checking"
    /\ \A k \in pending \cap overdue : Len(queue[k]) < MaxQueued
    /\ queue' = [k \in Calls |-> IF k \in pending \cap overdue
                                 THEN Append(queue[k], mkComplain(k))
                                 ELSE queue[k]]
    /\ trigger' = "sleeping"
    /\ overdue' = {}
    /\ UNCHANGED <<table, age, threads, device, status, result>>

(* A second passes.                                                        *)
Tick ==
    /\ \E k \in pending : age[k] <= RPC_TIMEOUT
    /\ age' = [k \in Calls |->
                 IF k \in pending /\ age[k] <= RPC_TIMEOUT THEN age[k] + 1 ELSE age[k]]
    /\ UNCHANGED <<table, queue, threads, device, clock, status, result>>

(* AgentConf::setStatus, called by the network threads.                    *)
setStatus ==
    /\ status' = IF status = "ON" THEN "OFF" ELSE "ON"
    /\ UNCHANGED <<table, age, queue, threads, device, clock, result>>

Caller(t) ==
    \/ callRegister(t)
    \/ unknownSubject(t)
    \/ notify(t)
    \/ getEntry(t)
    \/ noEntry(t)
    \/ receive(t)
    \/ clearEntry(t)

Next ==
    \/ \E t \in Callers : Caller(t)
    \/ \E k \in Calls : signal(k)
    \/ \E k \in Calls : deviceDone(k)
    \/ checkTimeOutRead
    \/ checkTimeOut
    \/ Tick
    \/ setStatus

Spec == Init /\ [][Next]_vars

(* A request that has begun is carried through by its HTTP thread, the     *)
(* clock advances, and the Trigger thread keeps calling checkTimeOut.      *)
(* Nothing is assumed of the devices, which need not answer at all.        *)
Fairness ==
    /\ \A t \in Callers :
          /\ WF_vars(notify(t))
          /\ WF_vars(getEntry(t))
          /\ WF_vars(noEntry(t))
          /\ WF_vars(receive(t))
          /\ WF_vars(clearEntry(t))
    /\ WF_vars(checkTimeOutRead)
    /\ WF_vars(checkTimeOut)
    /\ WF_vars(Tick)

FairSpec == Spec /\ Fairness
-----------------------------------------------------------------------------
(* wait() never gives a caller the answer to somebody else's command, or   *)
(* somebody else's timeout, although entries and answers are matched by    *)
(* tags that are used again after MAXTAG.                                  *)
OwnAnswer ==
    \A k \in Calls : result[k].kind \in {"answer", "timeout"} => result[k].call = k

(* A command that was registered is never reported as no_entry: its entry  *)
(* cannot leave the table before its caller has waited on it.              *)
RegisteredCallHasEntry == \A k \in Calls : result[k] # NO_ENTRY

(* clearEntry finds its entry: if it were gone the loop would run to the   *)
(* end of the vector and dereference end().                                *)
ClearsPresentEntry ==
    \A t \in Callers : pc[t] = "clearing" => entry[t] \in pending

(* A caller is told "timed_out" only when its own call is older than       *)
(* RPC_TIMEOUT, although checkTimeOut looks at the clock before it locks   *)
(* the table.                                                              *)
TimeoutOnlyWhenDue ==
    \A k \in Calls : result[k].kind = "timeout" => age[k] > RPC_TIMEOUT

(* Every entry of the table belongs to a request still being served, so    *)
(* the table cannot grow beyond the number of HTTP threads.                *)
PendingIsServed ==
    \A k \in pending : \E t \in Callers : call[t] = k /\ pc[t] # "idle"

(* Every registered call returns to its HTTP client, even when the command *)
(* was dropped because the agent is OFF or no device answers.              *)
EveryCallReturns == \A k \in Calls : (k \in pending) ~> (result[k] # NONE)
-----------------------------------------------------------------------------
(* What has decided call k: what wait() returned, or will return because   *)
(* the caller already has it or because it is first in the queue.          *)
Settled(k) ==
    IF result[k] # NONE THEN result[k]
    ELSE IF \E t \in Callers : call[t] = k /\ pc[t] = "clearing"
         THEN answer[CHOOSE t \in Callers : call[t] = k /\ pc[t] = "clearing"]
         ELSE IF queue[k] # <<>> THEN Head(queue[k]) ELSE NONE

Abstract == INSTANCE RpcCall
            WITH opened   <- 1..ncalls,
                 settled  <- [k \in Calls |-> Settled(k)],
                 returned <- {k \in Calls : result[k] # NONE}

(* The table implements RpcCall: the first of answer and timeout to reach  *)
(* the entry's queue decides the call for good, and late answers, second   *)
(* answers and repeated complaints are without effect.                     *)
ImplementsRpcCall == Abstract!Spec
=============================================================================
