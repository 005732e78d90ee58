------------------------------ MODULE AgentNet ------------------------------
(***************************************************************************)
(* The table of peers of one agent.  Peers multicast announcements with    *)
(* their ip and the subjects they observe.  The thread of recv_status      *)
(* keeps foreign_agents, and for each peer in it an ObserverTCP: an object *)
(* registered in SubjectSet under the subjects the peer observes, with a   *)
(* queue and a dispatcher thread that sends what is queued to the peer's   *)
(* address.  A silent peer is dropped after validityTime.                  *)
(*                                                                         *)
(* The other threads of the agent call SubjectSet::notify between any two  *)
(* steps of recv_status; each call of SubjectSet is one step, because it   *)
(* holds the mutex.  The copies of this very agent are the business of     *)
(* AgentTwins, and the status is ON here.                                  *)
(*                                                                         *)
(* As in AgentTwins time is counted in periods in which every running peer *)
(* announces itself and announcements are received or lost.                *)
(***************************************************************************)
EXTENDS NetPeriods, FiniteSets, SequencesExt

CONSTANTS Peers,
          Ips,
          mysubjects,     \* the subjects this agent exports
          Foreign,        \* subjects it does not
          MaxObservers,   \* bound: ObserverTCP objects alive at a time
          MaxEvents,      \* bound: events published
          MaxChanges      \* bound: changes of a peer's ip or subjects

ASSUME NetAssumption ==
    /\ mysubjects \cap Foreign = {}
    /\ "none" \notin Ips
    /\ {MaxObservers, MaxEvents, MaxChanges} \subseteq Nat

Objects == 1..MaxObservers
NoEntry == [ip |-> "none", age |-> 0]

VARIABLES
    running,        \* the peers that run
    peer,           \* peer[a]: what peer a announces: ip and observe
    announced,      \* the peers that announced themselves in this period
    net,            \* announcements on their way
    foreign_agents, \* foreign_agents[a]: ip and age of the timestamp, or NoEntry
    tcp_observers,  \* tcp_observers[a]: the object of peer a, 0 if none
    observer,       \* observer[k]: peer, ip, observes and dispatcher of object k
    queue,          \* queue[k]: input_queue of object k
    blocked,        \* objects whose dispatcher is inside cond.wait, or has died there
    subjects,       \* subjects[s]: the observers SubjectSet has under s
    pc,             \* where the thread of recv_status is
    msg,            \* the announcement it works on
    todo,           \* subjects ObserverTCP::start has not registered yet
    tokill,         \* expired peers check_expired has not dropped yet
    last,           \* last[a]: the last announcement accepted from a (history)
    nevents, nchanges

world    == <<running, peer, announced, net>>
table    == <<foreign_agents, tcp_observers>>
objects  == <<observer, queue, blocked, subjects>>
thread   == <<pc, msg, todo, tokill, last>>
counters == <<nevents, nchanges, nlosses>>
vars     == <<world, table, objects, thread, counters>>

Nobody       == [agent |-> "none", ip |-> "none", observe |-> {}]
NoObserver   == [agent |-> "none", ip |-> "none", observes |-> {}, dispatcher |-> "none"]

-----------------------------------------------------------------------------
Init ==
    /\ running = Peers
    /\ peer \in [Peers -> [ip : Ips, observe : {mysubjects}]]
    /\ announced = {}
    /\ net = {}
    /\ foreign_agents = [a \in Peers |-> NoEntry]
    /\ tcp_observers = [a \in Peers |-> 0]
    /\ observer = [k \in Objects |-> NoObserver]
    /\ queue = [k \in Objects |-> <<>>]
    /\ blocked = {}
    /\ subjects = [s \in mysubjects |-> {}]
    /\ pc = "poll"
    /\ msg = Nobody
    /\ todo = {}
    /\ tokill = {}
    /\ last = [a \in Peers |-> Nobody]
    /\ nevents = 0 /\ nchanges = 0 /\ nlosses = 0

(* evFilter: what of the peer's list this agent exports.                   *)
evFilter(observe) == observe \cap mysubjects

(* The ObserverTCP the thread is replacing or removing.                    *)
Victim == IF pc \in {"kill", "killed"} THEN CHOOSE a \in tokill : TRUE ELSE msg.agent

(* Mutant of recv_status: a new ip only sets the timestamp.                *)
recvKeepsIp ==
    /\ pc = "poll"
    /\ \E m \in net :
          LET entry == foreign_agents[m.agent]
          IN /\ net' = net \ {m}
             /\ msg' = m
             /\ IF evFilter(m.observe) = {}
                THEN pc' = "check" /\ UNCHANGED <<foreign_agents, last>>
                ELSE /\ last' = [last EXCEPT ![m.agent] = m]
                     /\ pc' = IF entry = NoEntry THEN "activate" ELSE "check"
                     /\ foreign_agents' =
                           IF entry = NoEntry
                           THEN [foreign_agents EXCEPT ![m.agent] = [ip |-> m.ip, age |-> 0]]
                           ELSE [foreign_agents EXCEPT ![m.agent].age = 0]
    /\ UNCHANGED <<running, peer, announced, tcp_observers, objects, todo, tokill, counters>>

(* recv_status reads an announcement and calls update().  A peer that      *)
(* observes nothing of ours is ignored, even if it is in the table; a new  *)
(* one gets an entry and an observer; a changed ip replaces the observer;  *)
(* otherwise only the timestamp is set.  (update() also means to replace   *)
(* the observer when the list of subjects has changed, but it compares the *)
(* fields "events", which no announcement has.)                            *)
recv_status ==
    /\ pc = "poll"
    /\ \E m \in net :
          LET entry == foreign_agents[m.agent]
          IN /\ net' = net \ {m}
             /\ msg' = m
             /\ IF evFilter(m.observe) = {}
                THEN pc' = "check" /\ UNCHANGED <<foreign_agents, last>>
                ELSE /\ last' = [last EXCEPT ![m.agent] = m]
                     /\ pc' = IF entry = NoEntry THEN "activate"
                              ELSE IF entry.ip # m.ip THEN "stop" ELSE "check"
                     /\ foreign_agents' =
                           IF entry = NoEntry \/ entry.ip = m.ip
                           THEN [foreign_agents EXCEPT ![m.agent] = [ip |-> m.ip, age |-> 0]]
                           ELSE foreign_agents
    /\ UNCHANGED <<running, peer, announced, tcp_observers, objects, todo, tokill, counters>>

(* recvMsg returns without a message after check_wait seconds.             *)
recvTimeout ==
    /\ pc = "poll"
    /\ pc' = "check"
    /\ UNCHANGED <<world, table, objects, msg, todo, tokill, last, counters>>

(* Mutant of stopObserver: the dispatcher is killed on the spot.           *)
stopObserverNow ==
    /\ pc \in {"stop", "kill"}
    /\ observer' = [observer EXCEPT ![tcp_observers[Victim]].dispatcher = "dead"]
    /\ pc' = IF pc = "stop" THEN "remove" ELSE "killed"
    /\ UNCHANGED <<world, table, queue, blocked, subjects, msg, todo, tokill, last, counters>>

(* disactivateObserverTCP: stop() interrupts the dispatcher ...            *)
stopObserver ==
    /\ pc \in {"stop", "kill"}
    /\ observer' = [observer EXCEPT ![tcp_observers[Victim]].dispatcher =
                      IF @ = "running" THEN "interrupted" ELSE @]
    /\ pc' = IF pc = "stop" THEN "remove" ELSE "killed"
    /\ UNCHANGED <<world, table, queue, blocked, subjects, msg, todo, tokill, last, counters>>

(* SubjectSet::remove_observer takes it from every list.                   *)
Without(k) == [s \in mysubjects |-> subjects[s] \ {k}]

(* Mutant of removeObserver: only the map is updated.                      *)
removeFromMap ==
    /\ pc = "remove"
    /\ tcp_observers' = [tcp_observers EXCEPT ![Victim] = 0]
    /\ foreign_agents' = [foreign_agents EXCEPT ![Victim].ip = msg.ip]
    /\ pc' = "activate"
    /\ UNCHANGED <<world, objects, msg, todo, tokill, last, counters>>

(* ... then it is removed from SubjectSet and from the map, and update()   *)
(* notes the new ip.                                                       *)
removeObserver ==
    /\ pc = "remove"
    /\ subjects' = Without(tcp_observers[Victim])
    /\ tcp_observers' = [tcp_observers EXCEPT ![Victim] = 0]
    /\ foreign_agents' = [foreign_agents EXCEPT ![Victim].ip = msg.ip]
    /\ pc' = "activate"
    /\ UNCHANGED <<world, observer, queue, blocked, msg, todo, tokill, last, counters>>

(* Objects that can stand for a new one.                                   *)
Free == {k \in Objects : /\ observer[k].dispatcher \in {"none", "dead"}
                         /\ \A s \in mysubjects : k \notin subjects[s]
                         /\ \A a \in Peers : tcp_observers[a] # k}

(* mkTcpObserverXML, then activateObserverTCP: a new object takes its      *)
(* address and subjects from the file and starts its dispatcher.           *)
activateObserver ==
    /\ pc = "activate"
    /\ Free # {}
    /\ LET k == CHOOSE k \in Free : TRUE
       IN /\ observer' = [observer EXCEPT ![k] =
                            [agent |-> msg.agent, ip |-> msg.ip,
                             observes |-> evFilter(msg.observe), dispatcher |-> "running"]]
          /\ queue' = [queue EXCEPT ![k] = <<>>] /\ blocked' = blocked \ {k}
          /\ tcp_observers' = [tcp_observers EXCEPT ![msg.agent] = k]
    /\ todo' = evFilter(msg.observe)
    /\ pc' = "register"
    /\ UNCHANGED <<world, foreign_agents, subjects, msg, tokill, last, counters>>

(* ObserverTCP::start calls SubjectSet::add_observer for each subject; at  *)
(* the end update() sets the timestamp.                                    *)
addObserver ==
    /\ pc = "register"
    /\ \E s \in todo :
          /\ subjects' = [subjects EXCEPT ![s] = @ \cup {tcp_observers[msg.agent]}]
          /\ todo' = todo \ {s}
    /\ pc' = IF todo' = {} THEN "check" ELSE pc
    /\ foreign_agents' = IF todo' = {} THEN [foreign_agents EXCEPT ![msg.agent].age = 0]
                                       ELSE foreign_agents
    /\ UNCHANGED <<world, tcp_observers, observer, queue, blocked, msg, tokill, last, counters>>

(* Mutant of check_expired: the age is never looked at.                    *)
checkNothing ==
    /\ pc = "check"
    /\ tokill' = {}
    /\ pc' = "poll"
    /\ UNCHANGED <<world, table, objects, msg, todo, last, counters>>

(* check_expired collects the peers whose timestamp is too old.            *)
check_expired ==
    /\ pc = "check"
    /\ tokill' = {a \in Peers : /\ foreign_agents[a] # NoEntry
                                /\ foreign_agents[a].age > validityTime}
    /\ pc' = IF tokill' = {} THEN "poll" ELSE "kill"
    /\ UNCHANGED <<world, table, objects, msg, todo, last, counters>>

(* The rest of disactivateObserverTCP for an expired peer, and the erase   *)
(* of its entry.                                                           *)
kill ==
    /\ pc = "killed"
    /\ subjects' = Without(tcp_observers[Victim])
    /\ tcp_observers' = [tcp_observers EXCEPT ![Victim] = 0]
    /\ foreign_agents' = [foreign_agents EXCEPT ![Victim] = NoEntry]
    /\ tokill' = tokill \ {Victim}
    /\ pc' = IF tokill' = {} THEN "poll" ELSE "kill"
    /\ UNCHANGED <<world, observer, queue, blocked, msg, todo, last, counters>>

(* Another thread publishes an event: SubjectSet::notify puts it into the  *)
(* queue of every observer of the subject.                                 *)
notify(s) ==
    /\ nevents < MaxEvents
    /\ nevents' = nevents + 1
    /\ queue' = [k \in Objects |-> IF k \in subjects[s] THEN Append(queue[k], nevents + 1)
                                                        ELSE queue[k]]
    /\ UNCHANGED <<world, table, observer, blocked, subjects, thread, nchanges, nlosses>>

(* ObserverTCP::dispatcher calls receive(), which waits if the queue is    *)
(* empty.  (MessageQueue has the wake-ups for nothing.)                    *)
wait(k) ==
    /\ observer[k].dispatcher \in {"running", "interrupted"}
    /\ queue[k] = <<>> /\ k \notin blocked
    /\ blocked' = blocked \cup {k}
    /\ UNCHANGED <<world, table, observer, queue, subjects, thread, counters>>

(* It takes an event, at once or woken by it, and sends it.  Nothing here  *)
(* looks at an interruption, unless it was waiting.                        *)
dispatch(k) ==
    /\ queue[k] # <<>>
    /\ \/ observer[k].dispatcher = "running"
       \/ observer[k].dispatcher = "interrupted" /\ k \notin blocked
    /\ queue' = [queue EXCEPT ![k] = Tail(@)]
    /\ blocked' = blocked \ {k}
    /\ UNCHANGED <<world, table, observer, subjects, thread, counters>>

(* cond.wait throws an interruption on entering and on leaving, in the     *)
(* second case even if an event has just been queued, which is then lost.  *)
interrupted(k) ==
    /\ observer[k].dispatcher = "interrupted" /\ k \in blocked
    /\ observer' = [observer EXCEPT ![k].dispatcher = "dead"]
    /\ UNCHANGED <<world, table, queue, blocked, subjects, thread, counters>>

(* The peers: send_status of each, its changes, its end.                   *)
announce(a) ==
    /\ a \in running \ announced
    /\ announced' = announced \cup {a}
    /\ net' = net \cup {[agent |-> a, ip |-> peer[a].ip, observe |-> peer[a].observe]}
    /\ UNCHANGED <<running, peer, table, objects, thread, counters>>

change(a) ==
    /\ nchanges < MaxChanges
    /\ nchanges' = nchanges + 1
    /\ \/ /\ \E i \in Ips \ {peer[a].ip} : peer' = [peer EXCEPT ![a].ip = i]
          /\ UNCHANGED running
       \/ /\ \E o \in SUBSET (mysubjects \cup Foreign) \ {peer[a].observe} :
                peer' = [peer EXCEPT ![a].observe = o]
          /\ UNCHANGED running
       \/ running' = running \ {a} /\ UNCHANGED peer
    /\ UNCHANGED <<announced, net, table, objects, thread, nevents, nlosses>>

lose(m) ==
    /\ nlosses < MaxLosses
    /\ nlosses' = nlosses + 1
    /\ net' = net \ {m}
    /\ UNCHANGED <<running, peer, announced, table, objects, thread, nevents, nchanges>>

(* A period is over.                                                       *)
Period ==
    /\ running \subseteq announced
    /\ net = {}
    /\ pc = "poll"
    /\ announced' = {}
    /\ foreign_agents' = [a \in Peers |->
                            IF foreign_agents[a] = NoEntry \/ foreign_agents[a].age > validityTime
                            THEN foreign_agents[a]
                            ELSE [foreign_agents[a] EXCEPT !.age = @ + 1]]
    /\ UNCHANGED <<running, peer, net, tcp_observers, objects, thread, counters>>

NetThread ==
    \/ recv_status
    \/ stopObserver
    \/ removeObserver
    \/ activateObserver
    \/ addObserver
    \/ check_expired
    \/ kill

Dispatcher(k) == wait(k) \/ dispatch(k) \/ interrupted(k)

Next ==
    \/ NetThread
    \/ recvTimeout
    \/ \E s \in mysubjects : notify(s)
    \/ \E k \in Objects : Dispatcher(k)
    \/ \E a \in Peers : announce(a) \/ change(a)
    \/ \E m \in net : lose(m)
    \/ Period

Spec == Init /\ [][Next]_vars

(* Threads are scheduled, poll() times out after check_wait, an            *)
(* announcement that is not lost is read at last although poll() may time  *)
(* out before it comes, running peers announce themselves and time passes. *)
Fairness ==
    /\ WF_vars(NetThread)
    /\ SF_vars(recv_status)
    /\ SF_vars(recvTimeout)
    /\ \A k \in Objects : WF_vars(Dispatcher(k))
    /\ \A a \in Peers : WF_vars(announce(a))
    /\ SF_vars(Period)

FairSpec == Spec /\ Fairness
-----------------------------------------------------------------------------
(* foreign_agents and tcp_observers have the same peers whenever the       *)
(* thread waits for a message, and events go to the address that the peer  *)
(* gave in the last announcement accepted from it.                         *)
ObserversMatchTable ==
    pc = "poll" =>
        \A a \in Peers :
            IF foreign_agents[a] = NoEntry THEN tcp_observers[a] = 0
            ELSE /\ tcp_observers[a] # 0
                 /\ observer[tcp_observers[a]].ip = foreign_agents[a].ip
                 /\ foreign_agents[a].ip = last[a].ip

(* An event goes to each peer once, through an observer that still sends: *)
(* SubjectSet never has two observers of one peer, none that is no longer  *)
(* in tcp_observers, and, except between stop() and remove_observer, none  *)
(* whose queue nobody reads.                                               *)
RegisteredIsServed ==
    \A s \in mysubjects, k \in Objects :
        k \in subjects[s] =>
            /\ tcp_observers[observer[k].agent] = k
            /\ observer[k].dispatcher = "running" \/ pc \in {"remove", "killed"}

(* What has been queued for a peer is sent in the end, even when its       *)
(* observer is stopped: a dispatcher at work empties its queue first.  Only*)
(* one that is interrupted while it waits dies with an event in its queue  *)
(* (MMessageQueue.h:78-79, ObserverTCP.cpp:22-31, 62-69).                  *)
QueuedIsSent ==
    \A k \in Objects :
        []<>(queue[k] = <<>> \/ (observer[k].dispatcher = "dead" /\ k \in blocked))

(* A peer that no longer runs is dropped from the table and from           *)
(* SubjectSet.                                                             *)
SilentIsDropped ==
    \A a \in Peers :
        <>[](a \notin running) => <>[](foreign_agents[a] = NoEntry /\ tcp_observers[a] = 0)

(* A peer that runs, observes something of ours and stays where it is, is  *)
(* connected at its address.                                               *)
RunningIsConnected ==
    \A a \in Peers :
        <>[](a \in running /\ evFilter(peer[a].observe) # {})
            => <>[](tcp_observers[a] # 0 /\ observer[tcp_observers[a]].ip = peer[a].ip)
=============================================================================
