--------------------------- MODULE AgentNetProofs ---------------------------
(***************************************************************************)
(* Proofs about the table of peers, for any peers, addresses, subjects,    *)
(* validityTime and any number of observers, events, changes and losses;   *)
(* and, in the second part, about the copies of one agent.                 *)
(***************************************************************************)
EXTENDS AgentNet, AgentTwins, TLAPS

Announcement == [agent : Peers, ip : Ips, observe : SUBSET (mysubjects \cup Foreign)]
Entry        == [ip : Ips, age : Nat]
Dispatching  == {"none", "running", "interrupted", "dead"}
ObserverTCP  == [agent : Peers \cup {"none"}, ip : Ips \cup {"none"},
                 observes : SUBSET mysubjects, dispatcher : Dispatching]

WorldOK ==
    /\ peer \in [Peers -> [ip : Ips, observe : SUBSET (mysubjects \cup Foreign)]]
    /\ net \subseteq Announcement

TableOK ==
    /\ foreign_agents \in [Peers -> Entry \cup {NoEntry}]
    /\ tcp_observers \in [Peers -> Nat]
    /\ last \in [Peers -> Announcement \cup {Nobody}]

ObjectsOK ==
    /\ observer \in [Objects -> ObserverTCP]
    /\ subjects \in [mysubjects -> SUBSET Objects]

ThreadOK ==
    /\ pc \in {"poll", "check", "stop", "remove", "activate", "register", "kill", "killed"}
    /\ msg \in Announcement \cup {Nobody}
    /\ todo \subseteq mysubjects
    /\ tokill \subseteq Peers

TypeOK == WorldOK /\ TableOK /\ ObjectsOK /\ ThreadOK

(* What the thread works on while update() replaces or adds an observer ...*)
MsgInv ==
    pc \in {"stop", "remove", "activate", "register"} =>
        /\ msg \in Announcement
        /\ evFilter(msg.observe) # {}
        /\ last[msg.agent] = msg
        /\ foreign_agents[msg.agent] # NoEntry
        /\ pc \in {"activate", "register"} => foreign_agents[msg.agent].ip = msg.ip

(* ... and while check_expired drops the peers it has found.               *)
KillInv ==
    pc \in {"kill", "killed"} =>
        tokill # {} /\ \A a \in tokill : foreign_agents[a] # NoEntry

(* The peer whose observer has been stopped and is still registered.       *)
Leaving(a) == pc \in {"remove", "killed"} /\ a = Victim

(* A peer of the table has its own observer, at its address and working,   *)
(* but for the one the thread is working on.                               *)
EntryInv ==
    \A a \in Peers :
        /\ tcp_observers[a] = 0 <=>
              foreign_agents[a] = NoEntry \/ (pc = "activate" /\ a = msg.agent)
        /\ foreign_agents[a] # NoEntry =>
              foreign_agents[a].ip = last[a].ip \/ (pc \in {"stop", "remove"} /\ a = msg.agent)

ObserverInv ==
    \A a \in Peers : tcp_observers[a] # 0 =>
        /\ tcp_observers[a] \in Objects
        /\ observer[tcp_observers[a]].agent = a
        /\ observer[tcp_observers[a]].ip = foreign_agents[a].ip
        /\ observer[tcp_observers[a]].dispatcher = "running" \/ Leaving(a)

SubjectInv ==
    \A s \in mysubjects, k \in Objects :
        k \in subjects[s] =>
            observer[k].agent \in Peers /\ tcp_observers[observer[k].agent] = k

IInv == TypeOK /\ MsgInv /\ KillInv /\ EntryInv /\ ObserverInv /\ SubjectInv
-----------------------------------------------------------------------------
(* The peer of the observer that is being removed is in the table.         *)
LEMMA VictimIsKnown ==
    ASSUME IInv, pc \in {"stop", "remove", "kill", "killed"}
    PROVE  /\ Victim \in Peers
           /\ foreign_agents[Victim] # NoEntry
           /\ tcp_observers[Victim] \in Objects
           /\ pc \in {"stop", "remove"} => Victim = msg.agent
           /\ pc \in {"kill", "killed"} => Victim \in tokill
<1>1. CASE pc \in {"stop", "remove"}
  <2>1. Victim = msg.agent
    BY <1>1 DEF Victim
  <2>2. msg.agent \in Peers /\ foreign_agents[msg.agent] # NoEntry
    BY <1>1 DEF IInv, MsgInv, Announcement
  <2>3. tcp_observers[msg.agent] # 0
    BY <1>1, <2>2 DEF IInv, EntryInv
  <2> QED
    BY <1>1, <2>1, <2>2, <2>3 DEF IInv, ObserverInv
<1>2. CASE pc \in {"kill", "killed"}
  <2>1. Victim \in tokill
    BY <1>2 DEF IInv, KillInv, Victim
  <2>2. Victim \in Peers /\ foreign_agents[Victim] # NoEntry
    BY <1>2, <2>1 DEF IInv, KillInv, TypeOK, ThreadOK
  <2>3. tcp_observers[Victim] # 0
    BY <1>2, <2>2 DEF IInv, EntryInv
  <2> QED
    BY <1>2, <2>1, <2>2, <2>3 DEF IInv, ObserverInv
<1> QED
  BY <1>1, <1>2

(* A step that leaves thread, table, observers and subjects alone.         *)
LEMMA Elsewhere ==
    ASSUME IInv, WorldOK', UNCHANGED <<table, observer, subjects, thread>>
    PROVE  IInv'
<1> USE DEF table, thread
<1>1. TypeOK'
  BY DEF IInv, TypeOK, TableOK, ObjectsOK, ThreadOK
<1>2. MsgInv' /\ KillInv'
  BY DEF IInv, MsgInv, KillInv
<1>3. EntryInv'
  BY DEF IInv, EntryInv
<1>4. Victim' = Victim
  BY DEF Victim
<1>5. ObserverInv'
  BY <1>4 DEF IInv, ObserverInv, Leaving
<1>6. SubjectInv'
  BY DEF IInv, SubjectInv
<1> QED
  BY <1>1, <1>2, <1>3, <1>5, <1>6 DEF IInv

(* recv_status keeps the invariant.                                        *)
LEMMA RecvStep ==
    ASSUME IInv, recv_status
    PROVE  IInv'
<1>1. PICK m \in net : LET entry == foreign_agents[m.agent]
                       IN /\ net' = net \ {m}
                          /\ msg' = m
                          /\ IF evFilter(m.observe) = {}
                             THEN pc' = "check" /\ UNCHANGED <<foreign_agents, last>>
                             ELSE /\ last' = [last EXCEPT ![m.agent] = m]
                                  /\ pc' = IF entry = NoEntry THEN "activate"
                                           ELSE IF entry.ip # m.ip THEN "stop" ELSE "check"
                                  /\ foreign_agents' =
                                        IF entry = NoEntry \/ entry.ip = m.ip
                                        THEN [foreign_agents EXCEPT
                                                 ![m.agent] = [ip |-> m.ip, age |-> 0]]
                                        ELSE foreign_agents
  BY DEF recv_status
<1>2. /\ pc = "poll" /\ m \in Announcement /\ m.agent \in Peers /\ m.ip \in Ips
      /\ UNCHANGED <<peer, tcp_observers, observer, subjects, todo, tokill>>
      /\ [ip |-> m.ip, age |-> 0] # NoEntry
  BY NetAssumption DEF NetAssumption, IInv, TypeOK, WorldOK, Announcement, recv_status,
     objects, NoEntry
<1>3. TypeOK'
  <2>1. WorldOK' /\ ObjectsOK' /\ ThreadOK'
    BY <1>1, <1>2 DEF IInv, TypeOK, WorldOK, ObjectsOK, ThreadOK
  <2>2. [ip |-> m.ip, age |-> 0] \in Entry
    BY <1>2 DEF Entry
  <2>3. TableOK'
    BY <1>1, <1>2, <2>2 DEF IInv, TypeOK, TableOK
  <2> QED
    BY <2>1, <2>3 DEF TypeOK
<1>4. ASSUME evFilter(m.observe) = {}
      PROVE  IInv'
  <2>1. pc' = "check" /\ UNCHANGED <<foreign_agents, last>>
    BY <1>1, <1>4
  <2>2. MsgInv' /\ KillInv' /\ EntryInv'
    BY <1>2, <2>1 DEF IInv, MsgInv, KillInv, EntryInv
  <2>3. ObserverInv' /\ SubjectInv'
    BY <1>2, <2>1 DEF IInv, ObserverInv, SubjectInv, Leaving
  <2> QED
    BY <1>3, <2>2, <2>3 DEF IInv
<1>5. ASSUME evFilter(m.observe) # {}
      PROVE  IInv'
  <2> DEFINE e == foreign_agents[m.agent]
  <2>1. /\ last' = [last EXCEPT ![m.agent] = m] /\ msg' = m
        /\ pc' = IF e = NoEntry THEN "activate" ELSE IF e.ip # m.ip THEN "stop" ELSE "check"
        /\ foreign_agents' = IF e = NoEntry \/ e.ip = m.ip
                             THEN [foreign_agents EXCEPT ![m.agent] = [ip |-> m.ip, age |-> 0]]
                             ELSE foreign_agents
    BY <1>1, <1>5
  <2>2. last \in [Peers -> Announcement \cup {Nobody}]
        /\ foreign_agents \in [Peers -> Entry \cup {NoEntry}]
    BY DEF IInv, TypeOK, TableOK
  <2>3. /\ last'[m.agent] = m
        /\ foreign_agents'[m.agent] # NoEntry
        /\ pc' # "stop" => foreign_agents'[m.agent].ip = m.ip
        /\ e # NoEntry => foreign_agents'[m.agent].ip = e.ip
        /\ \A a \in Peers : a # m.agent => /\ last'[a] = last[a]
                                           /\ foreign_agents'[a] = foreign_agents[a]
    BY <1>2, <2>1, <2>2
  <2>4. MsgInv'
    BY <1>2, <1>5, <2>1, <2>3 DEF MsgInv
  <2>5. KillInv'
    BY <2>1 DEF KillInv
  <2>6. EntryInv'
    BY <1>2, <2>1, <2>3 DEF IInv, EntryInv
  <2>7. ASSUME NEW a \in Peers, tcp_observers[a] # 0
        PROVE  foreign_agents'[a].ip = foreign_agents[a].ip
    BY <1>2, <2>3, <2>7 DEF IInv, EntryInv
  <2>8. ObserverInv'
    BY <1>2, <2>7 DEF IInv, ObserverInv, Leaving
  <2>9. SubjectInv'
    BY <1>2 DEF IInv, SubjectInv
  <2> QED
    BY <1>3, <2>4, <2>5, <2>6, <2>8, <2>9 DEF IInv
<1> QED
  BY <1>4, <1>5

(* stopObserver keeps the invariant.                                       *)
LEMMA StopStep ==
    ASSUME IInv, stopObserver
    PROVE  IInv'
<1> DEFINE k == tcp_observers[Victim]
<1>1. /\ pc \in {"stop", "kill"} /\ pc' = IF pc = "stop" THEN "remove" ELSE "killed"
      /\ UNCHANGED <<peer, net, foreign_agents, tcp_observers, subjects, msg, todo, tokill, last>>
  BY DEF stopObserver, world, table
<1>2. /\ Victim \in Peers /\ k \in Objects /\ Victim' = Victim
      /\ pc = "stop" => Victim = msg.agent
  BY <1>1, VictimIsKnown DEF Victim
<1>3. /\ observer' \in [Objects -> ObserverTCP]
      /\ \A j \in Objects : /\ observer'[j].agent = observer[j].agent
                            /\ observer'[j].ip = observer[j].ip
                            /\ j # k => observer'[j] = observer[j]
  <2>1. observer \in [Objects -> ObserverTCP]
    BY DEF IInv, TypeOK, ObjectsOK
  <2>2. observer' = [observer EXCEPT ![k].dispatcher = IF @ = "running" THEN "interrupted" ELSE @]
    BY DEF stopObserver
  <2> HIDE DEF k
  <2> QED
    BY <1>2, <2>1, <2>2 DEF ObserverTCP, Dispatching
<1>4. TypeOK'
  BY <1>1, <1>3 DEF IInv, TypeOK, WorldOK, TableOK, ObjectsOK, ThreadOK
<1>5. MsgInv'
  BY <1>1 DEF IInv, MsgInv
<1>6. KillInv' /\ EntryInv'
  BY <1>1 DEF IInv, KillInv, EntryInv
<1>7. ObserverInv'
  BY <1>1, <1>2, <1>3 DEF IInv, ObserverInv, Leaving
<1>8. SubjectInv'
  BY <1>1, <1>3 DEF IInv, SubjectInv
<1> QED
  BY <1>4, <1>5, <1>6, <1>7, <1>8 DEF IInv

(* removeObserver keeps the invariant.                                     *)
LEMMA RemoveStep ==
    ASSUME IInv, removeObserver
    PROVE  IInv'
<1> DEFINE v == msg.agent
           k == tcp_observers[v]
<1>1. /\ pc = "remove" /\ pc' = "activate"
      /\ UNCHANGED <<peer, net, observer, msg, todo, tokill, last>>
  BY DEF removeObserver, world
<1>2. Victim = v /\ v \in Peers /\ foreign_agents[v] # NoEntry /\ k \in Objects
  BY <1>1, VictimIsKnown
<1>3. /\ subjects' = [s \in mysubjects |-> subjects[s] \ {k}]
      /\ tcp_observers' = [tcp_observers EXCEPT ![v] = 0]
      /\ foreign_agents' = [foreign_agents EXCEPT ![v].ip = msg.ip]
  BY <1>2 DEF removeObserver, Without
<1>4. /\ tcp_observers \in [Peers -> Nat] /\ msg \in Announcement /\ msg.ip \in Ips
      /\ foreign_agents \in [Peers -> Entry \cup {NoEntry}] /\ last[v] = msg
      /\ evFilter(msg.observe) # {}
  BY <1>1 DEF IInv, TypeOK, TableOK, MsgInv, Announcement
<1>5. /\ foreign_agents'[v] \in Entry /\ foreign_agents'[v].ip = msg.ip
      /\ \A a \in Peers : a # v => foreign_agents'[a] = foreign_agents[a]
      /\ foreign_agents' \in [Peers -> Entry \cup {NoEntry}]
  <2> HIDE DEF v
  <2>1. foreign_agents[v] \in Entry
    BY <1>2, <1>4
  <2>2. foreign_agents' = [foreign_agents EXCEPT ![v] = [@ EXCEPT !.ip = msg.ip]]
    BY <1>3
  <2>3. [foreign_agents[v] EXCEPT !.ip = msg.ip] \in Entry
        /\ [foreign_agents[v] EXCEPT !.ip = msg.ip].ip = msg.ip
    BY <2>1, <1>4 DEF Entry
  <2> QED
    BY <2>3, <2>2, <1>2, <1>4
<1>6. foreign_agents'[v] # NoEntry
  BY <1>5, NetAssumption DEF NetAssumption, Entry, NoEntry
<1>7. tcp_observers'[v] = 0 /\ \A a \in Peers : a # v => tcp_observers'[a] = tcp_observers[a]
  BY <1>2, <1>3, <1>4
<1>8. TypeOK'
  <2>1. tcp_observers' \in [Peers -> Nat]
    BY <1>3, <1>4
  <2> QED
    BY <1>1, <1>3, <1>5, <2>1 DEF IInv, TypeOK, WorldOK, TableOK, ObjectsOK, ThreadOK
<1>9. MsgInv' /\ KillInv'
  BY <1>1, <1>4, <1>5, <1>6 DEF MsgInv, KillInv
<1>10. EntryInv'
  BY <1>1, <1>4, <1>5, <1>6, <1>7 DEF IInv, EntryInv
<1>11. ObserverInv'
  BY <1>1, <1>2, <1>5, <1>7 DEF IInv, ObserverInv, Leaving
<1>12. SubjectInv'
  BY <1>1, <1>2, <1>3, <1>7 DEF IInv, SubjectInv, ObserverInv
<1> QED
  BY <1>8, <1>9, <1>10, <1>11, <1>12 DEF IInv

(* activateObserver keeps the invariant.                                   *)
LEMMA ActivateStep ==
    ASSUME IInv, activateObserver
    PROVE  IInv'
<1> DEFINE v == msg.agent
           o == [agent |-> v, ip |-> msg.ip, observes |-> evFilter(msg.observe),
                 dispatcher |-> "running"]
<1>1. /\ pc = "activate" /\ pc' = "register" /\ todo' = evFilter(msg.observe)
      /\ UNCHANGED <<peer, net, foreign_agents, subjects, msg, tokill, last>>
  BY DEF activateObserver, world
<1>2. PICK k \in Free : /\ observer' = [observer EXCEPT ![k] = o]
                        /\ tcp_observers' = [tcp_observers EXCEPT ![v] = k]
  BY DEF activateObserver
<1>3. /\ k \in Objects /\ k \in Nat /\ k # 0
      /\ \A s \in mysubjects : k \notin subjects[s]
      /\ \A a \in Peers : tcp_observers[a] # k
  BY NetAssumption DEF NetAssumption, Free, Objects
<1>4. /\ msg \in Announcement /\ v \in Peers /\ foreign_agents[v] # NoEntry
      /\ foreign_agents[v].ip = msg.ip /\ evFilter(msg.observe) # {} /\ last[v] = msg
      /\ tcp_observers[v] = 0
  BY <1>1 DEF IInv, MsgInv, EntryInv, Announcement
<1>5. /\ tcp_observers \in [Peers -> Nat] /\ observer \in [Objects -> ObserverTCP]
      /\ o \in ObserverTCP /\ evFilter(msg.observe) \subseteq mysubjects
  BY <1>4 DEF IInv, TypeOK, TableOK, ObjectsOK, ObserverTCP, Dispatching, Announcement, evFilter
<1>6. /\ tcp_observers'[v] = k /\ \A a \in Peers : a # v => tcp_observers'[a] = tcp_observers[a]
      /\ tcp_observers' \in [Peers -> Nat]
  BY <1>2, <1>3, <1>4, <1>5
<1>7. /\ observer'[k] = o /\ \A j \in Objects : j # k => observer'[j] = observer[j]
      /\ observer' \in [Objects -> ObserverTCP]
  <2> HIDE DEF o
  <2> QED
    BY <1>2, <1>3, <1>5
<1>8. TypeOK'
  BY <1>1, <1>5, <1>6, <1>7 DEF IInv, TypeOK, WorldOK, TableOK, ObjectsOK, ThreadOK
<1>9. MsgInv' /\ KillInv'
  BY <1>1, <1>4 DEF MsgInv, KillInv
<1>10. EntryInv'
  BY <1>1, <1>3, <1>4, <1>6 DEF IInv, EntryInv
<1>11. ASSUME NEW a \in Peers, tcp_observers'[a] # 0
       PROVE  /\ tcp_observers'[a] \in Objects
              /\ observer'[tcp_observers'[a]].agent = a
              /\ observer'[tcp_observers'[a]].ip = foreign_agents'[a].ip
              /\ observer'[tcp_observers'[a]].dispatcher = "running"
  <2>1. CASE a = v
    BY <1>1, <1>3, <1>4, <1>6, <1>7, <2>1
  <2>2. CASE a # v
    BY <1>1, <1>3, <1>6, <1>7, <1>11, <2>2 DEF IInv, ObserverInv, Leaving
  <2> QED
    BY <2>1, <2>2
<1>12. ObserverInv'
  BY <1>11 DEF ObserverInv
<1>13. SubjectInv'
  <2>1. ASSUME NEW s \in mysubjects, NEW j \in Objects, j \in subjects'[s]
        PROVE  observer'[j].agent \in Peers /\ tcp_observers'[observer'[j].agent] = j
    <3>1. j # k /\ j \in subjects[s] /\ j # 0
      BY <1>1, <1>3, <2>1, NetAssumption DEF NetAssumption, Objects
    <3>2. observer[j].agent \in Peers /\ tcp_observers[observer[j].agent] = j
      BY <3>1 DEF IInv, SubjectInv
    <3>3. observer'[j] = observer[j] /\ observer[j].agent # v
      BY <1>4, <1>7, <3>1, <3>2
    <3> QED
      BY <1>6, <3>2, <3>3
  <2> QED
    BY <2>1 DEF SubjectInv
<1> QED
  BY <1>8, <1>9, <1>10, <1>12, <1>13 DEF IInv

(* addObserver keeps the invariant.                                        *)
LEMMA AddStep ==
    ASSUME IInv, addObserver
    PROVE  IInv'
<1> DEFINE v == msg.agent
           k == tcp_observers[v]
<1>1. /\ pc = "register" /\ pc' \in {"register", "check"}
      /\ UNCHANGED <<peer, net, tcp_observers, observer, msg, tokill, last>>
  BY DEF addObserver, world
<1>2. PICK s \in todo : /\ subjects' = [subjects EXCEPT ![s] = @ \cup {k}]
                        /\ todo' = todo \ {s}
  BY DEF addObserver
<1>3. \/ foreign_agents' = foreign_agents
      \/ foreign_agents' = [foreign_agents EXCEPT ![v].age = 0]
  BY DEF addObserver
<1>4. /\ msg \in Announcement /\ v \in Peers /\ foreign_agents[v] # NoEntry
      /\ foreign_agents[v].ip = msg.ip /\ evFilter(msg.observe) # {} /\ last[v] = msg
      /\ tcp_observers[v] # 0
  BY <1>1 DEF IInv, MsgInv, EntryInv, Announcement
<1>5. k \in Objects /\ observer[k].agent = v /\ s \in mysubjects
  BY <1>4 DEF IInv, ObserverInv, TypeOK, ThreadOK
<1>6. /\ foreign_agents' \in [Peers -> Entry \cup {NoEntry}]
      /\ \A a \in Peers : foreign_agents'[a].ip = foreign_agents[a].ip
      /\ \A a \in Peers : foreign_agents'[a] = NoEntry <=> foreign_agents[a] = NoEntry
  <2> HIDE DEF v
  <2>1. foreign_agents \in [Peers -> Entry \cup {NoEntry}]
    BY DEF IInv, TypeOK, TableOK
  <2>2. CASE foreign_agents' = [foreign_agents EXCEPT ![v].age = 0]
    <3>1. foreign_agents[v] \in Entry
      BY <1>4, <2>1
    <3>2. /\ [foreign_agents[v] EXCEPT !.age = 0] \in Entry
          /\ [foreign_agents[v] EXCEPT !.age = 0].ip = foreign_agents[v].ip
      BY <3>1 DEF Entry
    <3>3. [foreign_agents[v] EXCEPT !.age = 0] # NoEntry
      BY <3>2, NetAssumption DEF NetAssumption, Entry, NoEntry
    <3>4. /\ foreign_agents' = [foreign_agents EXCEPT ![v] = [@ EXCEPT !.age = 0]]
      BY <2>2
    <3> QED
      BY <1>4, <2>1, <3>2, <3>3, <3>4
  <2> QED
    BY <1>3, <2>1, <2>2
<1>7. TypeOK'
  <2>1. subjects' \in [mysubjects -> SUBSET Objects]
    BY <1>2, <1>5 DEF IInv, TypeOK, ObjectsOK
  <2>2. ThreadOK' /\ TableOK' /\ WorldOK'
    BY <1>1, <1>2, <1>6 DEF IInv, TypeOK, TableOK, ThreadOK, WorldOK
  <2> QED
    BY <1>1, <2>1, <2>2 DEF IInv, TypeOK, ObjectsOK
<1>8. MsgInv' /\ KillInv'
  BY <1>1, <1>4, <1>6 DEF MsgInv, KillInv
<1>9. EntryInv'
  BY <1>1, <1>6 DEF IInv, EntryInv
<1>10. ObserverInv'
  BY <1>1, <1>6 DEF IInv, ObserverInv, Leaving
<1>11. SubjectInv'
  <2>1. subjects \in [mysubjects -> SUBSET Objects]
    BY DEF IInv, TypeOK, ObjectsOK
  <2>2. ASSUME NEW r \in mysubjects, NEW j \in Objects, j \in subjects'[r]
        PROVE  j = k \/ j \in subjects[r]
    BY <1>2, <1>5, <2>1, <2>2
  <2> QED
    BY <1>1, <1>4, <1>5, <2>2 DEF IInv, SubjectInv
<1> QED
  BY <1>7, <1>8, <1>9, <1>10, <1>11 DEF IInv

(* check_expired keeps the invariant.                                      *)
LEMMA CheckStep ==
    ASSUME IInv, check_expired
    PROVE  IInv'
<1>1. /\ pc = "check" /\ pc' = IF tokill' = {} THEN "poll" ELSE "kill"
      /\ tokill' = {a \in Peers : /\ foreign_agents[a] # NoEntry
                                  /\ foreign_agents[a].age > validityTime}
      /\ UNCHANGED <<peer, net, foreign_agents, tcp_observers, observer, subjects, msg, todo, last>>
  BY DEF check_expired, world, table, objects
<1>2. TypeOK'
  BY <1>1 DEF IInv, TypeOK, WorldOK, TableOK, ObjectsOK, ThreadOK
<1>3. MsgInv' /\ KillInv'
  BY <1>1 DEF MsgInv, KillInv
<1>4. EntryInv'
  BY <1>1 DEF IInv, EntryInv
<1>5. ObserverInv'
  BY <1>1 DEF IInv, ObserverInv, Leaving
<1>6. SubjectInv'
  BY <1>1 DEF IInv, SubjectInv
<1> QED
  BY <1>2, <1>3, <1>4, <1>5, <1>6 DEF IInv

(* kill keeps the invariant.                                               *)
LEMMA KillStep ==
    ASSUME IInv, kill
    PROVE  IInv'
<1> DEFINE v == Victim
           k == tcp_observers[v]
<1>1. /\ pc = "killed" /\ pc' = IF tokill' = {} THEN "poll" ELSE "kill"
      /\ UNCHANGED <<peer, net, observer, msg, todo, last>>
  BY DEF kill, world
<1>2. v \in Peers /\ v \in tokill /\ k \in Objects
  BY <1>1, VictimIsKnown
<1>3. /\ subjects' = [s \in mysubjects |-> subjects[s] \ {k}]
      /\ tcp_observers' = [tcp_observers EXCEPT ![v] = 0]
      /\ foreign_agents' = [foreign_agents EXCEPT ![v] = NoEntry]
      /\ tokill' = tokill \ {v}
  BY DEF kill, Without
<1>4. /\ tcp_observers \in [Peers -> Nat] /\ tokill \subseteq Peers
      /\ foreign_agents \in [Peers -> Entry \cup {NoEntry}]
  BY DEF IInv, TypeOK, TableOK, ThreadOK
<1> HIDE DEF v
<1>5. /\ tcp_observers'[v] = 0 /\ foreign_agents'[v] = NoEntry
      /\ \A a \in Peers : a # v => /\ tcp_observers'[a] = tcp_observers[a]
                                   /\ foreign_agents'[a] = foreign_agents[a]
  BY <1>2, <1>3, <1>4
<1>6. TypeOK'
  BY <1>1, <1>3, <1>4 DEF IInv, TypeOK, WorldOK, TableOK, ObjectsOK, ThreadOK
<1>7. MsgInv' /\ KillInv'
  BY <1>1, <1>3, <1>4, <1>5 DEF IInv, MsgInv, KillInv
<1>8. EntryInv'
  BY <1>1, <1>5 DEF IInv, EntryInv
<1>9. ObserverInv'
  BY <1>1, <1>5 DEF IInv, ObserverInv, Leaving, v
<1>10. SubjectInv'
  BY <1>1, <1>2, <1>3, <1>5 DEF IInv, SubjectInv, ObserverInv
<1> QED
  BY <1>6, <1>7, <1>8, <1>9, <1>10 DEF IInv

(* The end of an interrupted dispatcher keeps the invariant: no dispatcher *)
(* that a peer of the table needs is interrupted.                          *)
LEMMA InterruptedStep ==
    ASSUME IInv, NEW k \in Objects, interrupted(k)
    PROVE  IInv'
<1>1. /\ observer[k].dispatcher = "interrupted"
      /\ UNCHANGED <<peer, net, foreign_agents, tcp_observers, subjects, pc, msg, todo, tokill, last>>
  BY DEF interrupted, world, table, thread
<1>2. observer \in [Objects -> ObserverTCP]
  BY DEF IInv, TypeOK, ObjectsOK
<1>3. /\ observer' \in [Objects -> ObserverTCP]
      /\ \A j \in Objects : /\ observer'[j].agent = observer[j].agent
                            /\ observer'[j].ip = observer[j].ip
                            /\ j # k => observer'[j] = observer[j]
  BY <1>2 DEF interrupted, ObserverTCP, Dispatching
<1>4. TypeOK'
  BY <1>1, <1>3 DEF IInv, TypeOK, WorldOK, TableOK, ObjectsOK, ThreadOK
<1>5. MsgInv' /\ KillInv'
  BY <1>1 DEF IInv, MsgInv, KillInv
<1>6. EntryInv'
  BY <1>1 DEF IInv, EntryInv
<1>7. Victim' = Victim
  BY <1>1 DEF Victim
<1>8. ASSUME NEW a \in Peers, tcp_observers[a] # 0
      PROVE  /\ tcp_observers[a] \in Objects
             /\ observer'[tcp_observers[a]].agent = a
             /\ observer'[tcp_observers[a]].ip = foreign_agents[a].ip
             /\ observer'[tcp_observers[a]].dispatcher = "running" \/ Leaving(a)
  <2>1. /\ tcp_observers[a] \in Objects
        /\ observer[tcp_observers[a]].agent = a
        /\ observer[tcp_observers[a]].ip = foreign_agents[a].ip
        /\ observer[tcp_observers[a]].dispatcher = "running" \/ Leaving(a)
    BY <1>8 DEF IInv, ObserverInv
  <2>2. tcp_observers[a] = k => Leaving(a)
    BY <1>1, <2>1
  <2> QED
    BY <1>3, <2>1, <2>2
<1>9. ObserverInv'
  BY <1>1, <1>7, <1>8 DEF ObserverInv, Leaving
<1>10. SubjectInv'
  BY <1>1, <1>3 DEF IInv, SubjectInv
<1> QED
  BY <1>4, <1>5, <1>6, <1>9, <1>10 DEF IInv

(* The other threads and the peers touch nothing the invariant is about.   *)
LEMMA WorldStep ==
    ASSUME IInv,
           \/ \E s \in mysubjects : notify(s)
           \/ \E k \in Objects : wait(k) \/ dispatch(k)
           \/ \E a \in Peers : announce(a) \/ change(a)
           \/ \E m \in net : lose(m)
           \/ UNCHANGED vars
    PROVE  IInv'
<1> DEFINE Subject == mysubjects \cup Foreign
<1>1. peer \in [Peers -> [ip : Ips, observe : SUBSET Subject]] /\ net \subseteq Announcement
  BY DEF IInv, TypeOK, WorldOK
<1>2. ASSUME NEW s \in mysubjects, notify(s)
      PROVE  IInv'
  BY <1>2, Elsewhere DEF notify, IInv, TypeOK, WorldOK, world
<1>3. ASSUME NEW k \in Objects, wait(k) \/ dispatch(k)
      PROVE  IInv'
  BY <1>3, Elsewhere DEF wait, dispatch, IInv, TypeOK, WorldOK, world
<1>4. ASSUME NEW a \in Peers, announce(a)
      PROVE  IInv'
  <2>1. [agent |-> a, ip |-> peer[a].ip, observe |-> peer[a].observe] \in Announcement
    BY <1>1 DEF Announcement
  <2>2. WorldOK'
    BY <1>1, <1>4, <2>1 DEF announce, WorldOK
  <2> QED
    BY <1>4, <2>2, Elsewhere DEF announce, objects
<1>5. ASSUME NEW a \in Peers, change(a)
      PROVE  IInv'
  <2> DEFINE P == [Peers -> [ip : Ips, observe : SUBSET Subject]]
  <2>1. ASSUME NEW i \in Ips, peer' = [peer EXCEPT ![a].ip = i]
        PROVE  peer' \in P
    BY <1>1, <2>1
  <2>2. ASSUME NEW o \in SUBSET Subject, peer' = [peer EXCEPT ![a].observe = o]
        PROVE  peer' \in P
    BY <1>1, <2>2
  <2>3. peer' \in P
    BY <1>1, <1>5, <2>1, <2>2 DEF change
  <2>4. WorldOK'
    BY <1>1, <1>5, <2>3 DEF change, WorldOK
  <2> QED
    BY <1>5, <2>4, Elsewhere DEF change, objects
<1>6. ASSUME NEW m \in net, lose(m)
      PROVE  IInv'
  <2>1. WorldOK'
    BY <1>1, <1>6 DEF lose, WorldOK
  <2> QED
    BY <1>6, <2>1, Elsewhere DEF lose, objects
<1>7. ASSUME UNCHANGED vars
      PROVE  IInv'
  BY <1>7, Elsewhere DEF vars, world, objects, IInv, TypeOK, WorldOK
<1> QED
  BY <1>2, <1>3, <1>4, <1>5, <1>6, <1>7

(* A poll() without a message keeps the invariant.                         *)
LEMMA TimeoutStep ==
    ASSUME IInv, recvTimeout
    PROVE  IInv'
<1>1. /\ pc = "poll" /\ pc' = "check"
      /\ UNCHANGED <<peer, net, foreign_agents, tcp_observers, observer, subjects,
                     msg, todo, tokill, last>>
  BY DEF recvTimeout, world, table, objects
<1>2. TypeOK'
  BY <1>1 DEF IInv, TypeOK, WorldOK, TableOK, ObjectsOK, ThreadOK
<1>3. MsgInv' /\ KillInv'
  BY <1>1 DEF MsgInv, KillInv
<1>4. EntryInv'
  BY <1>1 DEF IInv, EntryInv
<1>5. ObserverInv'
  BY <1>1 DEF IInv, ObserverInv, Leaving
<1>6. SubjectInv'
  BY <1>1 DEF IInv, SubjectInv
<1> QED
  BY <1>2, <1>3, <1>4, <1>5, <1>6 DEF IInv

(* Entries grow older and keep their address.                              *)
LEMMA PeriodStep ==
    ASSUME IInv, Period
    PROVE  IInv'
<1> DEFINE aged(e) == IF e = NoEntry \/ e.age > validityTime THEN e ELSE [e EXCEPT !.age = @ + 1]
<1>1. /\ pc = "poll" /\ foreign_agents' = [a \in Peers |-> aged(foreign_agents[a])]
      /\ UNCHANGED <<peer, net, tcp_observers, observer, subjects, pc, msg, todo, tokill, last>>
  BY DEF Period, objects, thread
<1>2. ASSUME NEW e \in Entry \cup {NoEntry}
      PROVE  /\ aged(e) \in Entry \cup {NoEntry}
             /\ aged(e) = NoEntry <=> e = NoEntry
             /\ aged(e).ip = e.ip
  <2>1. CASE e = NoEntry \/ e.age > validityTime
    BY <1>2, <2>1
  <2>2. CASE ~ (e = NoEntry \/ e.age > validityTime)
    <3>1. e \in Entry /\ aged(e) = [e EXCEPT !.age = @ + 1]
      BY <1>2, <2>2
    <3>2. aged(e) \in Entry /\ aged(e).ip = e.ip
      BY <3>1 DEF Entry
    <3>3. aged(e) # NoEntry
      BY <3>2, NetAssumption DEF NetAssumption, Entry, NoEntry
    <3> QED
      BY <2>2, <3>2, <3>3
  <2> QED
    BY <2>1, <2>2
<1> HIDE DEF aged
<1>3. foreign_agents \in [Peers -> Entry \cup {NoEntry}]
  BY DEF IInv, TypeOK, TableOK
<1>4. /\ foreign_agents' \in [Peers -> Entry \cup {NoEntry}]
      /\ \A a \in Peers : /\ foreign_agents'[a] = NoEntry <=> foreign_agents[a] = NoEntry
                          /\ foreign_agents'[a].ip = foreign_agents[a].ip
  BY <1>1, <1>2, <1>3
<1>5. TypeOK'
  BY <1>1, <1>4 DEF IInv, TypeOK, WorldOK, TableOK, ObjectsOK, ThreadOK
<1>6. MsgInv' /\ KillInv'
  BY <1>1 DEF MsgInv, KillInv
<1>7. EntryInv'
  BY <1>1, <1>4 DEF IInv, EntryInv
<1>8. ObserverInv'
  BY <1>1, <1>4 DEF IInv, ObserverInv, Leaving
<1>9. SubjectInv'
  BY <1>1 DEF IInv, SubjectInv
<1> QED
  BY <1>5, <1>6, <1>7, <1>8, <1>9 DEF IInv

(* The invariant holds at the start: no peer is in the table.              *)
LEMMA InitIInv == Init => IInv
<1> SUFFICES ASSUME Init PROVE IInv
  OBVIOUS
<1>1. TypeOK
  <2>1. WorldOK /\ ThreadOK
    BY DEF Init, WorldOK, ThreadOK
  <2>2. TableOK
    BY DEF Init, TableOK
  <2>3. NoObserver \in ObserverTCP
    BY DEF NoObserver, ObserverTCP, Dispatching
  <2>4. ObjectsOK
    BY <2>3 DEF Init, ObjectsOK
  <2> QED
    BY <2>1, <2>2, <2>4 DEF TypeOK
<1>2. MsgInv /\ KillInv /\ EntryInv
  BY DEF Init, MsgInv, KillInv, EntryInv
<1>3. ObserverInv /\ SubjectInv
  BY DEF Init, ObserverInv, SubjectInv
<1> QED
  BY <1>1, <1>2, <1>3 DEF IInv

(* Every step keeps the invariant.                                         *)
LEMMA NextIInv == IInv /\ [Next]_vars => IInv'
<1> SUFFICES ASSUME IInv, [Next]_vars PROVE IInv'
  OBVIOUS
<1>1. CASE NetThread
  BY <1>1, RecvStep, StopStep, RemoveStep, ActivateStep, AddStep, CheckStep, KillStep DEF NetThread
<1>2. CASE recvTimeout
  BY <1>2, TimeoutStep
<1>3. CASE \E k \in Objects : Dispatcher(k)
  BY <1>3, InterruptedStep, WorldStep DEF Dispatcher
<1>4. CASE Period
  BY <1>4, PeriodStep
<1> QED
  BY <1>1, <1>2, <1>3, <1>4, WorldStep DEF Next

(* IInv is an invariant of the agent's table of peers.                     *)
THEOREM Inductive == Spec => []IInv
<1> QED
  BY InitIInv, NextIInv, PTL DEF Spec

(* Whenever the thread of recv_status waits for a message, the peers of    *)
(* foreign_agents are those of tcp_observers, each at the address of the   *)
(* last announcement accepted from it.                                     *)
THEOREM TableMatchesObservers == Spec => []ObserversMatchTable
<1>1. ASSUME IInv, pc = "poll", NEW a \in Peers
      PROVE  IF foreign_agents[a] = NoEntry THEN tcp_observers[a] = 0
             ELSE /\ tcp_observers[a] # 0
                  /\ observer[tcp_observers[a]].ip = foreign_agents[a].ip
                  /\ foreign_agents[a].ip = last[a].ip
  <2>1. EntryInv /\ ObserverInv
    BY <1>1 DEF IInv
  <2> QED
    BY <1>1, <2>1 DEF EntryInv, ObserverInv
<1>2. IInv => ObserversMatchTable
  BY <1>1 DEF ObserversMatchTable
<1> QED
  BY <1>2, Inductive, PTL

(* SubjectSet never has two observers of one peer, nor one that is not in  *)
(* tcp_observers, and only between stop() and remove_observer one whose    *)
(* dispatcher no longer works.                                             *)
THEOREM RegisteredAreServed == Spec => []RegisteredIsServed
<1>1. ASSUME IInv, NEW s \in mysubjects, NEW k \in Objects, k \in subjects[s]
      PROVE  /\ tcp_observers[observer[k].agent] = k
             /\ observer[k].dispatcher = "running" \/ pc \in {"remove", "killed"}
  <2>1. observer[k].agent \in Peers /\ tcp_observers[observer[k].agent] = k
    BY <1>1 DEF IInv, SubjectInv
  <2>2. k # 0
    BY NetAssumption DEF NetAssumption, Objects
  <2>3. observer[k].dispatcher = "running" \/ Leaving(observer[k].agent)
    BY <1>1, <2>1, <2>2 DEF IInv, ObserverInv
  <2> QED
    BY <2>1, <2>3 DEF Leaving
<1>2. IInv => RegisteredIsServed
  BY <1>1 DEF RegisteredIsServed
<1> QED
  BY <1>2, Inductive, PTL

-----------------------------------------------------------------------------
(* The copies of one agent, for any set of copies, any positive            *)
(* validityTime and any number of crashes and losses.                      *)
CopiesOK ==
    /\ up \subseteq Twins /\ heard \subseteq Twins
    /\ mystatus \in [Twins -> {"active", "waiting"}]
    /\ silence \in [Twins -> Nat]
    /\ status \in [Twins -> {"ON", "OFF"}]
    /\ send \in [Twins -> {"test", "activate", "switch", "announce", "sleep"}]
    /\ recv \in [Twins -> {"poll", "demote", "switch"}]
    /\ datagrams \in [Twins -> SUBSET Twins]
    /\ doubled \in [Twins -> 0..2]

(* The copy with the greatest ip is never asked to stand down, so it never *)
(* takes over either.                                                      *)
GreatestInv ==
    \A i \in up : (\A j \in Twins : j <= i) =>
        /\ status[i] = "ON" /\ mystatus[i] = "active"
        /\ recv[i] = "poll"
        /\ send[i] \notin {"activate", "switch"}

(* A copy that heard a greater one in this period.                         *)
HeardInv == \A i \in heard : i \in up /\ silence[i] = 0

(* A copy that was ON at the end of the last period although it had heard  *)
(* a greater one has no reason to take over in this one, so that what it   *)
(* hears in this one switches it OFF for good.                             *)
DoubledInv ==
    \A i \in up : doubled[i] # 0 =>
        /\ doubled[i] = 1
        /\ silence[i] <= 1
        /\ send[i] \notin {"activate", "switch"}
        /\ i \in heard => recv[i] \in {"demote", "switch"} \/ status[i] = "OFF"

CopiesInv == CopiesOK /\ GreatestInv /\ HeardInv /\ DoubledInv /\ DoubleIsShort
-----------------------------------------------------------------------------
(* The variables keep their types.                                         *)
LEMMA CopiesOKStep == CopiesOK /\ [TwinsNext]_twinsVars => CopiesOK'
<1> SUFFICES ASSUME CopiesOK, [TwinsNext]_twinsVars
             PROVE  CopiesOK'
  OBVIOUS
<1> USE PeriodsAssumption, TwinsAssumption DEF PeriodsAssumption, TwinsAssumption, CopiesOK, local, threads, twinsCounters
<1>1. ASSUME NEW i \in Twins, testStatus(i)
      PROVE  CopiesOK'
  BY <1>1 DEF testStatus
<1>2. ASSUME NEW i \in Twins, activate(i)
      PROVE  CopiesOK'
  BY <1>2 DEF activate
<1>3. ASSUME NEW i \in Twins, switchON(i)
      PROVE  CopiesOK'
  BY <1>3 DEF switchON, setStatus
<1>4. ASSUME NEW i \in Twins, announceStatus(i)
      PROVE  CopiesOK'
  BY <1>4 DEF announceStatus
<1>5. ASSUME NEW i \in Twins, NEW j \in Twins, recvStatus(i, j)
      PROVE  CopiesOK'
  BY <1>5 DEF recvStatus
<1>6. ASSUME NEW i \in Twins, demote(i)
      PROVE  CopiesOK'
  BY <1>6 DEF demote
<1>7. ASSUME NEW i \in Twins, switchOFF(i)
      PROVE  CopiesOK'
  BY <1>7 DEF switchOFF, setStatus
<1>8. ASSUME NEW i \in Twins, NEW j \in Twins, loseStatus(i, j)
      PROVE  CopiesOK'
  BY <1>8 DEF loseStatus
<1>9. ASSUME NEW i \in Twins, crash(i)
      PROVE  CopiesOK'
  BY <1>9 DEF crash
<1>10. ASSUME NEW i \in Twins, Start(i)
      PROVE  CopiesOK'
  BY <1>10 DEF Start, setStatus
<1>11. CASE TwinsPeriod
  BY <1>11 DEF TwinsPeriod
<1>12. CASE UNCHANGED twinsVars
  BY <1>12 DEF twinsVars
<1> QED
  BY <1>1, <1>2, <1>3, <1>4, <1>5, <1>6, <1>7, <1>8, <1>9, <1>10, <1>11, <1>12
  DEF TwinsNext, Sender, Receiver

(* Only a greater ip makes a copy stand down, and the greatest hears none. *)
LEMMA GreatestStep == CopiesOK /\ GreatestInv /\ [TwinsNext]_twinsVars => GreatestInv'
<1> SUFFICES ASSUME CopiesOK, GreatestInv, [TwinsNext]_twinsVars
             PROVE  GreatestInv'
  OBVIOUS
<1> USE PeriodsAssumption, TwinsAssumption DEF PeriodsAssumption, TwinsAssumption, CopiesOK, GreatestInv, local, threads, twinsCounters
<1>1. ASSUME NEW i \in Twins, testStatus(i)
      PROVE  GreatestInv'
  BY <1>1 DEF testStatus
<1>2. ASSUME NEW i \in Twins, activate(i)
      PROVE  GreatestInv'
  BY <1>2 DEF activate
<1>3. ASSUME NEW i \in Twins, switchON(i)
      PROVE  GreatestInv'
  BY <1>3 DEF switchON, setStatus
<1>4. ASSUME NEW i \in Twins, announceStatus(i)
      PROVE  GreatestInv'
  BY <1>4 DEF announceStatus
<1>5. ASSUME NEW i \in Twins, NEW j \in Twins, recvStatus(i, j)
      PROVE  GreatestInv'
  BY <1>5 DEF recvStatus
<1>6. ASSUME NEW i \in Twins, demote(i)
      PROVE  GreatestInv'
  BY <1>6 DEF demote
<1>7. ASSUME NEW i \in Twins, switchOFF(i)
      PROVE  GreatestInv'
  BY <1>7 DEF switchOFF, setStatus
<1>8. ASSUME NEW i \in Twins, NEW j \in Twins, loseStatus(i, j)
      PROVE  GreatestInv'
  BY <1>8 DEF loseStatus
<1>9. ASSUME NEW i \in Twins, crash(i)
      PROVE  GreatestInv'
  BY <1>9 DEF crash
<1>10. ASSUME NEW i \in Twins, Start(i)
      PROVE  GreatestInv'
  BY <1>10 DEF Start, setStatus
<1>11. CASE TwinsPeriod
  BY <1>11 DEF TwinsPeriod
<1>12. CASE UNCHANGED twinsVars
  BY <1>12 DEF twinsVars
<1> QED
  BY <1>12, <1>11, <1>10, <1>9, <1>8, <1>7, <1>6, <1>5, <1>4, <1>3, <1>2, <1>1
  DEF TwinsNext, Sender, Receiver

(* What a copy has heard resets its clock, and only time advances it.      *)
LEMMA HeardStep == CopiesOK /\ HeardInv /\ [TwinsNext]_twinsVars => HeardInv'
<1> SUFFICES ASSUME CopiesOK, HeardInv, [TwinsNext]_twinsVars
             PROVE  HeardInv'
  OBVIOUS
<1> USE PeriodsAssumption, TwinsAssumption DEF PeriodsAssumption, TwinsAssumption, CopiesOK, HeardInv, local, threads, twinsCounters
<1>1. ASSUME NEW i \in Twins, testStatus(i) \/ activate(i) \/ switchON(i) \/ announceStatus(i)
      PROVE  HeardInv'
  BY <1>1 DEF testStatus, activate, switchON, announceStatus
<1>2. ASSUME NEW i \in Twins, NEW j \in Twins, recvStatus(i, j)
      PROVE  HeardInv'
  BY <1>2 DEF recvStatus
<1>3. ASSUME NEW i \in Twins, demote(i) \/ switchOFF(i)
      PROVE  HeardInv'
  BY <1>3 DEF demote, switchOFF
<1>4. ASSUME NEW i \in Twins, NEW j \in Twins, loseStatus(i, j)
      PROVE  HeardInv'
  BY <1>4 DEF loseStatus
<1>5. ASSUME NEW i \in Twins, crash(i)
      PROVE  HeardInv'
  BY <1>5 DEF crash
<1>6. ASSUME NEW i \in Twins, Start(i)
      PROVE  HeardInv'
  BY <1>6 DEF Start
<1>7. CASE TwinsPeriod
  BY <1>7 DEF TwinsPeriod
<1>8. CASE UNCHANGED twinsVars
  BY <1>8 DEF twinsVars
<1> QED
  BY <1>8, <1>7, <1>6, <1>5, <1>4, <1>3, <1>2, <1>1 DEF TwinsNext, Sender, Receiver

(* The history of doubled periods.                                         *)
LEMMA DoubledStep ==
    ASSUME CopiesOK, HeardInv, DoubledInv, DoubleIsShort, [TwinsNext]_twinsVars
    PROVE  DoubledInv' /\ DoubleIsShort'
<1> USE PeriodsAssumption, TwinsAssumption DEF PeriodsAssumption, TwinsAssumption, CopiesOK, DoubledInv, local, threads, twinsCounters
<1>a. ASSUME UNCHANGED doubled
      PROVE  DoubleIsShort'
  BY <1>a DEF DoubleIsShort
<1>1. ASSUME NEW i \in Twins, testStatus(i)
      PROVE  DoubledInv' /\ DoubleIsShort'
  BY <1>1, <1>a DEF testStatus
<1>2. ASSUME NEW i \in Twins, activate(i)
      PROVE  DoubledInv' /\ DoubleIsShort'
  BY <1>2, <1>a DEF activate
<1>3. ASSUME NEW i \in Twins, switchON(i)
      PROVE  DoubledInv' /\ DoubleIsShort'
  BY <1>3, <1>a DEF switchON, setStatus
<1>4. ASSUME NEW i \in Twins, announceStatus(i)
      PROVE  DoubledInv' /\ DoubleIsShort'
  BY <1>4, <1>a DEF announceStatus
<1>5. ASSUME NEW i \in Twins, NEW j \in Twins, recvStatus(i, j)
      PROVE  DoubledInv' /\ DoubleIsShort'
  BY <1>5, <1>a DEF recvStatus
<1>6. ASSUME NEW i \in Twins, demote(i)
      PROVE  DoubledInv' /\ DoubleIsShort'
  BY <1>6, <1>a DEF demote
<1>7. ASSUME NEW i \in Twins, switchOFF(i)
      PROVE  DoubledInv' /\ DoubleIsShort'
  BY <1>7, <1>a DEF switchOFF, setStatus
<1>8. ASSUME NEW i \in Twins, NEW j \in Twins, loseStatus(i, j)
      PROVE  DoubledInv' /\ DoubleIsShort'
  BY <1>8, <1>a DEF loseStatus
<1>9. ASSUME NEW i \in Twins, crash(i)
      PROVE  DoubledInv' /\ DoubleIsShort'
  BY <1>9, <1>a DEF crash
<1>10. ASSUME NEW i \in Twins, Start(i)
      PROVE  DoubledInv' /\ DoubleIsShort'
  BY <1>10 DEF Start, setStatus, HeardInv, DoubleIsShort
<1>11. CASE TwinsPeriod
  <2>1. ASSUME NEW i \in Twins, doubled'[i] # 0
        PROVE  i \in heard /\ i \in up /\ silence[i] = 0 /\ doubled[i] = 0
    <3>1. i \in heard /\ status[i] = "ON"
      BY <1>11, <2>1 DEF TwinsPeriod
    <3>2. i \in up /\ silence[i] = 0
      BY <3>1 DEF HeardInv
    <3>3. recv[i] = "poll"
      BY <1>11, <3>2 DEF TwinsPeriod
    <3> QED
      BY <3>1, <3>2, <3>3
  <2>2. ASSUME NEW i \in Twins, doubled'[i] # 0
        PROVE  doubled'[i] = 1 /\ silence'[i] = 1 /\ send'[i] = "test" /\ i \notin heard'
    BY <1>11, <2>1, <2>2 DEF TwinsPeriod
  <2>3. up' \subseteq Twins
    BY <1>11 DEF TwinsPeriod
  <2> QED
    BY <2>3, <2>2 DEF DoubleIsShort
<1>12. CASE UNCHANGED twinsVars
  BY <1>12, <1>a DEF twinsVars
<1> QED
  BY <1>12, <1>11, <1>10, <1>9, <1>8, <1>7, <1>6, <1>5, <1>4, <1>3, <1>2, <1>1
  DEF TwinsNext, Sender, Receiver
-----------------------------------------------------------------------------
(* The inductive invariant holds of every reachable state.                 *)
THEOREM CopiesInductive == TwinsSpec => []CopiesInv
<1>1. TwinsInit => CopiesInv
  BY PeriodsAssumption, TwinsAssumption DEF PeriodsAssumption, TwinsAssumption, TwinsInit, CopiesInv, CopiesOK, GreatestInv, HeardInv,
     DoubledInv, DoubleIsShort
<1>2. CopiesInv /\ [TwinsNext]_twinsVars => CopiesInv'
  BY DoubledStep, HeardStep, GreatestStep, CopiesOKStep DEF CopiesInv
<1> QED
  BY <1>1, <1>2, PTL DEF TwinsSpec

(* The copy with the greatest ip never stands by, however many copies      *)
(* there are and whatever is lost, crashes or starts again.                *)
THEOREM GreatestAlwaysServes == TwinsSpec => []GreatestServes
<1>1. CopiesInv => GreatestServes
  BY DEF CopiesInv, GreatestInv, GreatestServes
<1> QED
  BY <1>1, CopiesInductive, PTL

(* A copy that keeps hearing a greater one is ON at the end of at most one *)
(* period in a row, for every validityTime.                                *)
THEOREM DoublesAreShort == TwinsSpec => []DoubleIsShort
<1>1. CopiesInv => DoubleIsShort
  BY DEF CopiesInv
<1> QED
  BY <1>1, CopiesInductive, PTL
=============================================================================
