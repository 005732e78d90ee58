------------------------- MODULE PushServiceProofs --------------------------
(***************************************************************************)
(* Proofs about the push service, for any number of clients, descriptors,  *)
(* registrations and events.  Sockets says that descriptors, connections   *)
(* and the one that do_register builds belong together; AnswerInv what the *)
(* thread that waits for an answer may rely on; SignalInv how far          *)
(* notifyEvent has come.                                                   *)
(***************************************************************************)
EXTENDS PushService, SequenceTheorems, FiniteSetTheorems, TLAPS

PushConnection == [fd : Fds \cup {NoFd}, events : {"empty", "filled"}, ttl : Int,
                   session : Sessions \cup {None}]

TypeOK ==
    /\ client \in [Sessions -> {"idle", "waiting", "running", "gone", "reset"}]
    /\ inbox \in [Sessions -> Seq(Lines)]
    /\ peer \in [Fds -> Sessions \cup {None}]
    /\ connections \in Seq(PushConnection)
    /\ new \in Seq(PushConnection)
    /\ pi \in Nat \ {0} /\ si \in Nat \ {0}
    /\ got \in Seq(Sessions)

(* What do_register is building is not in the vector yet.                  *)
Building ==
    /\ rpc \in {"accept", "page"} => Len(new) = 0
    /\ rpc \in {"read", "insert", "push"} => Len(new) = 1
    /\ rpc = "read" => new[1].fd # NoFd
    /\ rpc \in {"accept", "read", "insert", "push", "page", "dead"}
    /\ Len(new) = 1 =>
          /\ new[1].ttl = maxttl
          /\ new[1].fd = NoFd => new[1].session = None /\ new[1].events = "empty"
          /\ new[1].fd # NoFd =>
                /\ new[1].session \in Sessions /\ peer[new[1].fd] = new[1].session
                /\ \A i \in 1 .. Len(connections) : connections[i].fd # new[1].fd

(* A session has been accepted at most once.                               *)
Accepted ==
    \A f, g \in Fds : peer[f] # None =>
        /\ client[peer[f]] \in {"running", "gone", "reset"}
        /\ peer[f] = peer[g] => f = g

(* do_poll is at a connection of the vector, and reads from a real one.    *)
InRange ==
    /\ ppc \in {"send", "wait", "fill"} => pi <= Len(connections)
    /\ ppc \in {"wait", "fill"} => connections[pi].fd # NoFd

Sockets == OwnSocket /\ Building /\ Accepted /\ InRange

(* Only one of the three threads changes or signals the vector.            *)
Locked ==
    /\ rpc = "push" <=> mutexsignal = "register"
    /\ ppc = "erase" <=> mutexsignal = "poll"
    /\ spc = "notify" <=> mutexsignal = "signal"

(* A prompt client that do_poll waits for owes an answer or has sent one.  *)
AnswerInv ==
    LET s == connections[pi].session
    IN  ppc = "wait" /\ s \in Prompt /\ client[s] = "running" =>
            s \in asked \/ inbox[s] # <<>>

(* The events already written went to connections before si; what is owed  *)
(* was written or is still to come.                                        *)
SignalInv ==
    spc # "dead" =>
    /\ spc = "receive" => si = 1 /\ got = <<>>
    /\ spc \in {"receive", "notify"}
    /\ IsInjective(got)
    /\ \A k \in 1 .. Len(got) :
          \E i \in 1 .. Len(connections) : i < si /\ connections[i].session = got[k]
    /\ spc = "notify" => \A s \in owed :
          \/ \E k \in 1 .. Len(got) : got[k] = s
          \/ \E i \in 1 .. Len(connections) :
                i >= si /\ connections[i].events = "filled" /\ connections[i].session = s

IInv == TypeOK /\ Sockets /\ Locked /\ AnsweringStays /\ AnswerInv /\ SignalInv
-----------------------------------------------------------------------------
(* A set of natural numbers that is not empty has a least element: its     *)
(* initial segments are finite, and strict inclusion is well-founded.      *)
LEMMA MinIn ==
    ASSUME NEW S \in SUBSET Nat, S # {}
    PROVE  Min(S) \in S /\ \A y \in S : Min(S) =< y
<1> DEFINE T == {0 .. (x - 1) : x \in S}
           R == StrictSubsetOrdering(Nat)
<1>1. T \subseteq FiniteSubsetsOf(Nat)
  <2>1. \A x \in S : IsFiniteSet(0 .. (x - 1))
    BY FS_Interval
  <2> QED
    BY <2>1 DEF FiniteSubsetsOf
<1>2. T # {}
  OBVIOUS
<1>3. PICK m \in T : \A t \in T : ~ (<<t, m>> \in R)
  <2>1. IsWellFoundedOn(R, FiniteSubsetsOf(Nat))
    BY FS_StrictSubsetOrderingWellFounded
  <2> HIDE DEF T, R
  <2> QED
    BY <1>1, <1>2, <2>1, WFMin
<1>4. PICK x \in S : m = 0 .. (x - 1)
  BY <1>3
<1>5. \A y \in S : x =< y
  <2> SUFFICES ASSUME NEW y \in S, ~ (x =< y)
               PROVE  FALSE
    OBVIOUS
  <2>1. 0 .. (y - 1) \subseteq 0 .. (x - 1) /\ 0 .. (y - 1) # 0 .. (x - 1)
    <3>1. x \in Nat /\ y \in Nat /\ y < x
      OBVIOUS
    <3>2. y \in 0 .. (x - 1) /\ y \notin 0 .. (y - 1)
      BY <3>1
    <3> QED
      BY <3>1, <3>2
  <2>2. <<0 .. (y - 1), 0 .. (x - 1)>> \in R
    BY <2>1 DEF StrictSubsetOrdering
  <2> QED
    BY <1>3, <1>4, <2>2
<1> QED
  BY <1>5 DEF Min

(* Erasing an element keeps the others, in their order.                    *)
LEMMA RemoveAtProperties ==
    ASSUME NEW S, NEW s \in Seq(S), NEW n \in 1 .. Len(s)
    PROVE  /\ RemoveAt(s, n) \in Seq(S)
           /\ Len(RemoveAt(s, n)) = Len(s) - 1
           /\ \A i \in 1 .. Len(s) - 1 :
                 RemoveAt(s, n)[i] = IF i < n THEN s[i] ELSE s[i + 1]
<1> DEFINE a == SubSeq(s, 1, n - 1)
           b == SubSeq(s, n + 1, Len(s))
<1>1. /\ a \in Seq(S) /\ Len(a) = n - 1
      /\ \A i \in 1 .. n - 1 : a[i] = s[i]
  <2>1. \A i \in 1 .. n - 1 : s[i] \in S
    OBVIOUS
  <2> QED
    BY <2>1, SubSeqProperties
<1>2. /\ b \in Seq(S) /\ Len(b) = Len(s) - n
      /\ \A i \in 1 .. Len(s) - n : b[i] = s[n + i]
  <2>1. \A i \in n + 1 .. Len(s) : s[i] \in S
    OBVIOUS
  <2> QED
    BY <2>1, SubSeqProperties
<1> HIDE DEF a, b
<1>3. /\ a \o b \in Seq(S)
      /\ Len(a \o b) = Len(a) + Len(b)
      /\ \A i \in 1 .. Len(a) + Len(b) :
            (a \o b)[i] = IF i <= Len(a) THEN a[i] ELSE b[i - Len(a)]
  BY <1>1, <1>2, ConcatProperties
<1>4. RemoveAt(s, n) = a \o b
  BY DEF RemoveAt, a, b
<1>5. RemoveAt(s, n) \in Seq(S) /\ Len(RemoveAt(s, n)) = Len(s) - 1
  <2>1. Len(a) + Len(b) = Len(s) - 1
    BY <1>1, <1>2
  <2>2. a \o b \in Seq(S) /\ Len(a \o b) = Len(s) - 1
    BY <1>3, <2>1
  <2> QED
    BY <1>4, <2>2
<1>6. ASSUME NEW i \in 1 .. Len(s) - 1
      PROVE  RemoveAt(s, n)[i] = IF i < n THEN s[i] ELSE s[i + 1]
  <2>1. i \in 1 .. Len(a) + Len(b)
    BY <1>1, <1>2
  <2>2. (a \o b)[i] = IF i <= Len(a) THEN a[i] ELSE b[i - Len(a)]
    BY <1>3, <2>1
  <2>3. CASE i < n
    <3>1. i <= Len(a) /\ a[i] = s[i]
      BY <1>1, <2>3
    <3> QED
      BY <1>4, <2>2, <2>3, <3>1
  <2>4. CASE ~ (i < n)
    <3>1. i - Len(a) \in 1 .. Len(s) - n /\ ~ (i <= Len(a)) /\ n + (i - Len(a)) = i + 1
      BY <1>1, <2>4
    <3>2. b[i - Len(a)] = s[i + 1]
      BY <1>2, <3>1
    <3> QED
      BY <1>4, <2>2, <2>4, <3>1, <3>2
  <2> QED
    BY <2>3, <2>4
<1> QED
  BY <1>5, <1>6

(* What OwnSocket says of one connection, and of two.                      *)
LEMMA SocketFacts ==
    ASSUME TypeOK
    PROVE  OwnSocket <=>
              /\ \A i \in 1 .. Len(connections) :
                    /\ connections[i].fd = NoFd =>
                          connections[i].session = None /\ connections[i].events = "empty"
                    /\ connections[i].fd # NoFd =>
                          /\ connections[i].session \in Sessions
                          /\ peer[connections[i].fd] = connections[i].session
              /\ \A i, j \in 1 .. Len(connections) :
                    connections[i].fd # NoFd /\ i # j => connections[i].fd # connections[j].fd
<1>1. DOMAIN connections = 1 .. Len(connections)
  BY DEF TypeOK
<1> QED
  BY <1>1 DEF OwnSocket

(* The steps of do_poll that may change an element of the vector: they     *)
(* keep its descriptor and its client, and leave the others alone.         *)
Touch == AYAsend \/ IAAreceive \/ getRegistration

(* Such a step leaves the descriptors and the sessions where they are.     *)
LEMMA TouchKeepsSockets ==
    ASSUME TypeOK, InRange, Touch
    PROVE  /\ connections' \in Seq(PushConnection)
           /\ Len(connections') = Len(connections)
           /\ \A i \in 1 .. Len(connections) :
                 /\ connections'[i].fd = connections[i].fd
                 /\ connections'[i].session = connections[i].session
                 /\ connections[i].fd = NoFd => connections'[i].events = connections[i].events
                 /\ i # pi => connections'[i] = connections[i]
           /\ pi \in 1 .. Len(connections)
<1> USE DEF TypeOK
<1>1. pi \in 1 .. Len(connections)
  <2>1. ppc \in {"send", "wait", "fill"}
    BY DEF Touch, AYAsend, IAAreceive, getRegistration
  <2>2. pi <= Len(connections)
    BY <2>1 DEF InRange
  <2>3. pi \in Nat \ {0} /\ Len(connections) \in Nat
    OBVIOUS
  <2> QED
    BY <2>2, <2>3
<1>2. ASSUME NEW c \in PushConnection,
             c.fd = connections[pi].fd, c.session = connections[pi].session,
             connections[pi].fd # NoFd \/ c.events = connections[pi].events,
             connections' = [connections EXCEPT ![pi] = c]
      PROVE  /\ connections' \in Seq(PushConnection)
             /\ Len(connections') = Len(connections)
             /\ \A i \in 1 .. Len(connections) :
                 /\ connections'[i].fd = connections[i].fd
                 /\ connections'[i].session = connections[i].session
                 /\ connections[i].fd = NoFd => connections'[i].events = connections[i].events
                 /\ i # pi => connections'[i] = connections[i]
  BY <1>1, <1>2, ExceptSeq
<1>6. connections[pi] \in PushConnection
  BY <1>1
<1> USE DEF PushConnection
<1>3. CASE AYAsend
  <2>1. CASE SendFailed
    <3> DEFINE c == [connections[pi] EXCEPT !.ttl = -1]
    <3>1. -1 \in Int
      OBVIOUS
    <3>2. /\ c \in PushConnection /\ c.fd = connections[pi].fd /\ c.session = connections[pi].session
          /\ c.events = connections[pi].events
      BY <1>6, <3>1
    <3>3. connections' = [connections EXCEPT ![pi] = c]
      BY <2>1 DEF SendFailed
    <3> HIDE DEF c, TypeOK, PushConnection
    <3> QED
      BY <1>1, <1>2, <3>2, <3>3
  <2>2. CASE UNCHANGED connections
    BY <1>1, <2>2
  <2> QED
    BY <1>3, <2>1, <2>2 DEF AYAsend
<1>4. CASE IAAreceive
  <2>4. connections[pi].fd # NoFd
    BY <1>4 DEF InRange, IAAreceive
  <2>0. PICK l \in Received(peer[connections[pi].fd]) :
           connections' = [connections EXCEPT ![pi] =
              [connections[pi] EXCEPT !.ttl = TtlAfter(l, connections[pi].ttl),
                                      !.events = IF l = "devices" THEN "empty"
                                                                  ELSE connections[pi].events]]
    BY <1>4 DEF IAAreceive
  <2> DEFINE t == TtlAfter(l, connections[pi].ttl)
             e == IF l = "devices" THEN "empty" ELSE connections[pi].events
             c == [connections[pi] EXCEPT !.ttl = t, !.events = e]
  <2>1. t \in Int /\ e \in {"empty", "filled"}
    BY <1>6, PushAssumption DEF TtlAfter
  <2>2. connections' = [connections EXCEPT ![pi] = c]
    BY <2>0
  <2> HIDE DEF t, e
  <2>3. c \in PushConnection /\ c.fd = connections[pi].fd /\ c.session = connections[pi].session
    BY <1>6, <2>1
  <2> HIDE DEF c, TypeOK, PushConnection
  <2> QED
    BY <1>1, <1>2, <2>2, <2>3, <2>4
<1>5. CASE getRegistration
  <2> DEFINE c == [connections[pi] EXCEPT !.events = "filled"]
  <2>1. c \in PushConnection /\ c.fd = connections[pi].fd /\ c.session = connections[pi].session
    BY <1>6
  <2>2. connections' = [connections EXCEPT ![pi] = c]
    BY <1>5 DEF getRegistration
  <2>3. connections[pi].fd # NoFd
    BY <1>5 DEF InRange, getRegistration
  <2> HIDE DEF c, TypeOK, PushConnection
  <2> QED
    BY <1>1, <1>2, <2>1, <2>2, <2>3
<1> QED
  BY <1>1, <1>3, <1>4, <1>5 DEF Touch

(* What accept builds: a descriptor that was free.                         *)
LEMMA AcceptProperties ==
    ASSUME TypeOK, NEW s \in Sessions, Accept(s)
    PROVE  \E fd \in Fds :
              /\ peer[fd] = None
              /\ peer' = [peer EXCEPT ![fd] = s]
              /\ new' = <<[fd |-> fd, events |-> "empty", ttl |-> maxttl, session |-> s]>>
              /\ client' = [client EXCEPT ![s] = "running"]
              /\ client[s] = "waiting" /\ rpc = "accept" /\ rpc' = "read"
<1>1. Free \in SUBSET Nat /\ Free # {}
  BY PushAssumption DEF Accept, Free
<1>2. Min(Free) \in Free
  BY <1>1, MinIn
<1>3. Min(Free) \in Fds /\ peer[Min(Free)] = None
  BY <1>2 DEF Free
<1> QED
  BY <1>3 DEF Accept

(* What clearExpired does to the vector: nothing, or one element goes.     *)
LEMMA EraseProperties ==
    ASSUME TypeOK, Erase
    PROVE  \/ UNCHANGED <<connections, peer>>
           \/ \E n \in 1 .. Len(connections) :
                 /\ Close(connections[n].fd)
                 /\ connections' \in Seq(PushConnection)
                 /\ Len(connections') = Len(connections) - 1
                 /\ \A i \in 1 .. Len(connections) - 1 :
                       connections'[i] = IF i < n THEN connections[i] ELSE connections[i + 1]
<1> DEFINE expired == {i \in DOMAIN connections : connections[i].ttl <= 0}
           n == Min(expired)
<1>1. CASE expired = {}
  BY <1>1 DEF Erase
<1>2. CASE expired # {}
  <2>1. DOMAIN connections = 1 .. Len(connections)
    BY DEF TypeOK
  <2>2. expired \in SUBSET Nat
    BY <2>1
  <2>3. n \in expired
    BY <1>2, <2>2, MinIn
  <2>4. n \in 1 .. Len(connections)
    BY <2>1, <2>3
  <2>5. /\ Close(connections[n].fd)
        /\ connections' = RemoveAt(connections, n)
    BY <1>2 DEF Erase
  <2> HIDE DEF n
  <2>6. connections \in Seq(PushConnection)
    BY DEF TypeOK
  <2>7. /\ RemoveAt(connections, n) \in Seq(PushConnection)
        /\ Len(RemoveAt(connections, n)) = Len(connections) - 1
        /\ \A i \in 1 .. Len(connections) - 1 :
              RemoveAt(connections, n)[i] = IF i < n THEN connections[i] ELSE connections[i + 1]
    BY <2>4, <2>6, RemoveAtProperties
  <2> QED
    BY <2>4, <2>5, <2>7
<1> QED
  BY <1>1, <1>2

(* What clientInsert does to the vector.                                   *)
LEMMA InsertProperties ==
    ASSUME TypeOK, Len(new) = 1, Insert
    PROVE  /\ new[1] \in PushConnection
           /\ connections' \in Seq(PushConnection)
           /\ Len(connections') = Len(connections) + 1
           /\ \A i \in 1 .. Len(connections) : connections'[i] = connections[i]
           /\ connections'[Len(connections) + 1] = new[1]
<1>1. connections \in Seq(PushConnection) /\ new \in Seq(PushConnection) /\ new[1] \in PushConnection
  <2>1. connections \in Seq(PushConnection) /\ new \in Seq(PushConnection)
    BY DEF TypeOK
  <2>2. 1 \in 1 .. Len(new)
    OBVIOUS
  <2> QED
    BY <2>1, <2>2, ElementOfSeq
<1>2. connections' = connections \o new
  BY DEF Insert
<1>3. /\ connections \o new \in Seq(PushConnection)
      /\ Len(connections \o new) = Len(connections) + Len(new)
      /\ \A i \in 1 .. Len(connections) + Len(new) :
            (connections \o new)[i] = IF i <= Len(connections) THEN connections[i]
                                                               ELSE new[i - Len(connections)]
  BY <1>1, ConcatProperties
<1>4. Len(connections) \in Nat
  BY <1>1
<1>5. /\ Len(connections') = Len(connections) + 1
      /\ connections' \in Seq(PushConnection)
  BY <1>2, <1>3
<1>6. ASSUME NEW i \in 1 .. Len(connections)
      PROVE  connections'[i] = connections[i]
  <2>1. i \in 1 .. Len(connections) + Len(new) /\ i <= Len(connections)
    BY <1>4
  <2>2. (connections \o new)[i] = connections[i]
    BY <1>3, <2>1
  <2> QED
    BY <1>2, <2>2
<1>7. connections'[Len(connections) + 1] = new[1]
  <2>1. Len(connections) + 1 \in 1 .. Len(connections) + Len(new)
    BY <1>4
  <2>2. ~ (Len(connections) + 1 <= Len(connections)) /\ (Len(connections) + 1) - Len(connections) = 1
    BY <1>4
  <2> QED
    BY <1>2, <1>3, <2>1, <2>2
<1> QED
  BY <1>1, <1>5, <1>6, <1>7
-----------------------------------------------------------------------------
(* The invariant holds before the first client comes.                      *)
LEMMA InitIInv == Init => IInv
<1> SUFFICES ASSUME Init
             PROVE  IInv
  OBVIOUS
<1> USE DEF Init
<1>1. TypeOK
  BY DEF TypeOK
<1>2. Sockets /\ Locked
  BY DEF Sockets, OwnSocket, Building, Accepted, InRange, Locked, None
<1>3. AnsweringStays /\ AnswerInv
  BY DEF AnsweringStays, AnswerInv
<1>4. SignalInv
  BY DEF SignalInv, IsInjective
<1> QED
  BY <1>1, <1>2, <1>3, <1>4 DEF IInv

(* An element of the vector has its type.                                  *)
LEMMA ElementType ==
    ASSUME TypeOK, NEW i \in 1 .. Len(connections)
    PROVE  /\ connections[i] \in PushConnection
           /\ connections[i].fd \in Fds \cup {NoFd}
           /\ connections[i].session \in Sessions \cup {None}
           /\ connections[i].ttl \in Int /\ connections[i].events \in {"empty", "filled"}
<1>1. connections[i] \in PushConnection
  BY ElementOfSeq DEF TypeOK
<1> QED
  BY <1>1 DEF PushConnection

(* Reading empties an inbox.                                               *)
LEMMA ReadType ==
    ASSUME TypeOK, NEW s, Read(s)
    PROVE  inbox' \in [Sessions -> Seq(Lines)]
<1>1. <<>> \in Seq(Lines)
  BY EmptySeq
<1> QED
  BY <1>1 DEF TypeOK, Read

(* Types.                                                                  *)
LEMMA TypeOKStep ==
    ASSUME IInv, [Next]_vars
    PROVE  TypeOK'
<1>1. TypeOK /\ InRange /\ OwnSocket /\ Building
  BY DEF IInv, Sockets
<1> USE DEF TypeOK
<1>2. ASSUME NEW s \in Sessions,
             Connect(s) \/ Send(s) \/ Answer(s) \/ Disappear(s) \/ Reset(s)
      PROVE  TypeOK'
  <2>1. CASE Connect(s)
    BY <1>1, <2>1 DEF Connect, register, poll, signal, served, counters
  <2>2. CASE Send(s)
    <3>1. Append(inbox[s], "devices") \in Seq(Lines)
      BY <1>1 DEF Lines
    <3> QED
      BY <1>1, <2>2, <3>1 DEF Send, register, poll, signal, served
  <2>3. CASE Answer(s)
    <3>1. Append(inbox[s], "IAA") \in Seq(Lines)
      BY <1>1 DEF Lines
    <3> QED
      BY <1>1, <2>3, <3>1 DEF Answer, register, poll, signal, served
  <2>4. CASE Disappear(s)
    BY <1>1, <2>4 DEF Disappear, register, poll, signal, served
  <2>5. CASE Reset(s)
    BY <1>1, <2>5 DEF Reset, register, poll, signal, served, counters
  <2> QED
    BY <1>2, <2>5, <2>4, <2>3, <2>2, <2>1
<1>3. CASE Event
  BY <1>1, <1>3 DEF Event, clients, register, poll, signal, served
<1>4. ASSUME NEW s \in Sessions, Accept(s)
      PROVE  TypeOK'
  <2>1. PICK fd \in Fds :
              /\ peer' = [peer EXCEPT ![fd] = s]
              /\ new' = <<[fd |-> fd, events |-> "empty", ttl |-> maxttl, session |-> s]>>
              /\ client' = [client EXCEPT ![s] = "running"]
    BY <1>1, <1>4, AcceptProperties
  <2>2. [fd |-> fd, events |-> "empty", ttl |-> maxttl, session |-> s] \in PushConnection
    BY PushAssumption DEF PushConnection
  <2>3. new' \in Seq(PushConnection)
    BY <2>1, <2>2
  <2> QED
    BY <1>1, <1>4, <2>1, <2>3 DEF Accept, poll, signal, served
<1>5. CASE ReadRegistration
  <2>1. Len(new) = 1 /\ new[1] \in PushConnection
    <3>1. Len(new) = 1 /\ new \in Seq(PushConnection)
      BY <1>1, <1>5 DEF Building, ReadRegistration
    <3>2. 1 \in 1 .. Len(new)
      BY <3>1
    <3> QED
      BY <3>1, <3>2, ElementOfSeq
  <2>2. PICK e \in {"empty", "filled"} : new' = <<[new[1] EXCEPT !.events = e]>>
    BY <1>5, <2>1 DEF ReadRegistration, PushConnection
  <2>3. [new[1] EXCEPT !.events = e] \in PushConnection
    BY <2>1 DEF PushConnection
  <2>4. new' \in Seq(PushConnection)
    BY <2>2, <2>3
  <2>5. inbox' \in [Sessions -> Seq(Lines)]
    BY <1>1, <1>5, ReadType DEF ReadRegistration
  <2> QED
    BY <1>1, <1>5, <2>4, <2>5 DEF ReadRegistration, poll, signal, served
<1>6. CASE InsertLock
  BY <1>1, <1>6 DEF InsertLock, clients, poll, signal, served
<1>7. CASE Insert
  <2>1. Len(new) = 1
    BY <1>1, <1>7 DEF Building, Insert
  <2>2. connections' \in Seq(PushConnection)
    BY <1>1, <1>7, <2>1, InsertProperties
  <2> QED
    BY <1>1, <1>7, <2>2 DEF Insert, clients, poll, signal, served
<1>8. CASE PollNext
  BY <1>1, <1>8 DEF PollNext, clients, register, signal, served
<1>9. CASE AYAsend
  <2>1. connections' \in Seq(PushConnection)
    BY <1>1, <1>9, TouchKeepsSockets DEF Touch
  <2> QED
    BY <1>1, <1>9, <2>1 DEF AYAsend, SendFailed, register, signal, served
<1>10. CASE IAAreceive
  <2>1. connections' \in Seq(PushConnection)
    BY <1>1, <1>10, TouchKeepsSockets DEF Touch
  <2>2. inbox' \in [Sessions -> Seq(Lines)]
    BY <1>1, <1>10, ReadType DEF IAAreceive
  <2> QED
    BY <1>1, <1>10, <2>1, <2>2 DEF IAAreceive, register, signal
<1>11. CASE getRegistration
  <2>1. connections' \in Seq(PushConnection)
    BY <1>1, <1>11, TouchKeepsSockets DEF Touch
  <2> QED
    BY <1>1, <1>11, <2>1 DEF getRegistration, clients, register, signal, served
<1>12. CASE ClearLock
  BY <1>1, <1>12 DEF ClearLock, clients, register, signal, served
<1>13. CASE Erase
  <2>1. connections' \in Seq(PushConnection) /\ peer' \in [Fds -> Sessions \cup {None}]
    <3>1. CASE UNCHANGED <<connections, peer>>
      BY <1>1, <3>1
    <3>2. CASE \E n \in 1 .. Len(connections) :
                  /\ Close(connections[n].fd)
                  /\ connections' \in Seq(PushConnection)
      BY <1>1, <3>2 DEF Close
    <3> QED
      BY <1>1, <1>13, <3>1, <3>2, EraseProperties
  <2> QED
    BY <1>1, <1>13, <2>1 DEF Erase, clients, register, signal, served
<1>14. CASE SignalLock
  BY <1>1, <1>14 DEF SignalLock, clients, register, poll
<1>15. CASE Notify
  <2>1. si \in 1 .. Len(connections)
    BY <1>1, <1>15 DEF Notify
  <2>3. connections[si].events = "filled" => peer[connections[si].fd] \in Sessions
    BY <1>1, <2>1, SocketFacts
  <2>4. got' \in Seq(Sessions)
    BY <1>1, <1>15, <2>3 DEF Notify
  <2> QED
    BY <1>1, <1>15, <2>4 DEF Notify, clients, register, poll
<1>16. CASE SignalUnlock
  BY <1>1, <1>16 DEF SignalUnlock, clients, register, poll
<1>17. CASE UNCHANGED vars
  BY <1>1, <1>17 DEF vars, clients, register, poll, signal, served
<1>18. CASE AcceptFails
  <2>1. [fd |-> NoFd, events |-> "empty", ttl |-> maxttl, session |-> None] \in PushConnection
    BY PushAssumption DEF PushConnection
  <2>2. new' \in Seq(PushConnection)
    BY <1>18, <2>1 DEF AcceptFails
  <2>3. client' \in [Sessions -> {"idle", "waiting", "running", "gone", "reset"}]
    BY <1>1, <1>18 DEF AcceptFails
  <2> QED
    BY <1>1, <1>18, <2>2, <2>3 DEF AcceptFails, poll, signal, served
<1>19. CASE updateStatusPage \/ Overrun
  BY <1>1, <1>19 DEF updateStatusPage, Overrun, clients, poll, signal, served
<1> QED
  BY <1>2, <1>3, <1>4, <1>5, <1>6, <1>7, <1>8, <1>9, <1>10, <1>11, <1>12, <1>13, <1>14, <1>15,
     <1>16, <1>17, <1>18, <1>19 DEF Next, Register, Poll, Signal
-----------------------------------------------------------------------------
(* Every step but three keeps the descriptors and the clients in place.    *)
Kept ==
    /\ peer' = peer
    /\ Len(connections') = Len(connections)
    /\ \A i \in 1 .. Len(connections) :
          /\ connections'[i].fd = connections[i].fd
          /\ connections'[i].session = connections[i].session
          /\ connections[i].fd = NoFd => connections'[i].events = connections[i].events

(* Only accept, clientInsert and clearExpired change who owns what.        *)
LEMMA MostKeep ==
    ASSUME IInv, [Next]_vars
    PROVE  Kept \/ (\E s \in Sessions : Accept(s)) \/ Insert \/ Erase
<1>1. TypeOK /\ InRange
  BY DEF IInv, Sockets
<1>2. CASE UNCHANGED <<connections, peer>>
  BY <1>2 DEF Kept
<1>3. CASE Touch
  <2>1. peer' = peer
    BY <1>3 DEF Touch, AYAsend, SendFailed, IAAreceive, getRegistration
  <2> QED
    BY <1>1, <1>3, <2>1, TouchKeepsSockets DEF Kept
<1>4. ASSUME NEW s \in Sessions,
             Connect(s) \/ Send(s) \/ Answer(s) \/ Disappear(s) \/ Reset(s)
      PROVE  UNCHANGED <<connections, peer>>
  BY <1>4 DEF Connect, Send, Answer, Disappear, Reset
<1>5. CASE \/ Event \/ ReadRegistration \/ InsertLock \/ PollNext \/ ClearLock
           \/ AcceptFails \/ updateStatusPage \/ Overrun
  BY <1>2, <1>5 DEF Event, ReadRegistration, InsertLock, PollNext, ClearLock, AcceptFails,
                    updateStatusPage, Overrun
<1>6. CASE Signal
  BY <1>2, <1>6 DEF Signal, SignalLock, Notify, SignalUnlock
<1>7. CASE UNCHANGED vars
  BY <1>2, <1>7 DEF vars
<1> QED
  BY <1>2, <1>3, <1>4, <1>5, <1>6, <1>7 DEF Next, Register, Poll, Touch

(* A descriptor is given to a new connection only when it is free, and     *)
(* taken from a connection only with the connection.                       *)
LEMMA OwnSocketStep ==
    ASSUME IInv, [Next]_vars, TypeOK'
    PROVE  OwnSocket'
<1> DEFINE Own(i) ==
               /\ connections[i].fd = NoFd =>
                     connections[i].session = None /\ connections[i].events = "empty"
               /\ connections[i].fd # NoFd =>
                     /\ connections[i].session \in Sessions
                     /\ peer[connections[i].fd] = connections[i].session
           Apart(i, j) ==
               connections[i].fd # NoFd /\ i # j => connections[i].fd # connections[j].fd
<1>1. TypeOK /\ OwnSocket /\ Building
  BY DEF IInv, Sockets
<1>2. Len(connections) \in Nat /\ Len(connections') \in Nat
  BY <1>1 DEF TypeOK
<1>3. /\ \A i \in 1 .. Len(connections) :
            Own(i) /\ connections[i].fd \in Fds \cup {NoFd}
      /\ \A i, j \in 1 .. Len(connections) : Apart(i, j)
  BY <1>1, SocketFacts, ElementType
<1>4. SUFFICES /\ \A i \in 1 .. Len(connections') : Own(i)'
               /\ \A i, j \in 1 .. Len(connections') : Apart(i, j)'
  <2>1. DOMAIN connections' = 1 .. Len(connections')
    BY DEF TypeOK
  <2> QED
    BY <2>1 DEF OwnSocket
<1>5. CASE Kept
  BY <1>3, <1>5 DEF Kept
<1>6. ASSUME NEW s \in Sessions, Accept(s)
      PROVE  /\ \A i \in 1 .. Len(connections') : Own(i)'
             /\ \A i, j \in 1 .. Len(connections') : Apart(i, j)'
  <2>1. PICK fd \in Fds : peer[fd] = None /\ peer' = [peer EXCEPT ![fd] = s]
    BY <1>1, <1>6, AcceptProperties
  <2>2. connections' = connections
    BY <1>6 DEF Accept
  <2>3. ASSUME NEW i \in 1 .. Len(connections), connections[i].fd # NoFd
        PROVE  peer'[connections[i].fd] = connections[i].session
    <3>1. /\ connections[i].fd \in Fds /\ connections[i].session \in Sessions
          /\ peer[connections[i].fd] = connections[i].session
      BY <1>3, <2>3
    <3>2. connections[i].fd # fd
      BY <2>1, <3>1, PushAssumption
    <3> QED
      BY <1>1, <2>1, <3>1, <3>2 DEF TypeOK
  <2> QED
    BY <1>3, <2>2, <2>3
<1>7. CASE Insert
  <2>1. Len(new) = 1 /\ peer' = peer
    BY <1>1, <1>7 DEF Building, Insert
  <2>2. /\ Len(connections') = Len(connections) + 1
        /\ \A i \in 1 .. Len(connections) : connections'[i] = connections[i]
        /\ connections'[Len(connections) + 1] = new[1]
    BY <1>1, <1>7, <2>1, InsertProperties
  <2>3. /\ new[1].fd = NoFd => new[1].session = None /\ new[1].events = "empty"
        /\ new[1].fd # NoFd =>
              /\ new[1].session \in Sessions /\ peer[new[1].fd] = new[1].session
              /\ \A i \in 1 .. Len(connections) : connections[i].fd # new[1].fd
    BY <1>1, <2>1 DEF Building
  <2>4. ASSUME NEW i \in 1 .. Len(connections')
        PROVE  i \in 1 .. Len(connections) \/ i = Len(connections) + 1
    BY <1>2, <2>2
  <2>5. \A i \in 1 .. Len(connections') : Own(i)'
    BY <2>4, <2>3, <2>2, <2>1, <1>3
  <2>6. ASSUME NEW i \in 1 .. Len(connections'), NEW j \in 1 .. Len(connections'), i # j,
               connections'[i].fd # NoFd
        PROVE  connections'[i].fd # connections'[j].fd
    <3>1. CASE i \in 1 .. Len(connections) /\ j \in 1 .. Len(connections)
      BY <1>3, <2>2, <2>6, <3>1
    <3>2. CASE i = Len(connections) + 1 /\ j \in 1 .. Len(connections)
      BY <2>2, <2>3, <2>6, <3>2
    <3>3. CASE i \in 1 .. Len(connections) /\ j = Len(connections) + 1
      BY <2>2, <2>3, <2>6, <3>3
    <3> QED
      BY <2>4, <2>6, <3>1, <3>2, <3>3
  <2> QED
    BY <2>5, <2>6
<1>8. CASE Erase
  <2>1. CASE UNCHANGED <<connections, peer>>
    BY <1>3, <2>1
  <2>2. CASE ~ UNCHANGED <<connections, peer>>
    <3>1. PICK n \in 1 .. Len(connections) :
                 /\ Close(connections[n].fd)
                 /\ Len(connections') = Len(connections) - 1
                 /\ \A i \in 1 .. Len(connections) - 1 :
                       connections'[i] = IF i < n THEN connections[i] ELSE connections[i + 1]
      BY <1>1, <1>8, <2>2, EraseProperties
    <3>2. ASSUME NEW i \in 1 .. Len(connections')
          PROVE  \E k \in 1 .. Len(connections) :
                    /\ k = IF i < n THEN i ELSE i + 1
                    /\ k # n /\ connections'[i] = connections[k]
      BY <1>2, <3>1
    <3>3. ASSUME NEW i \in 1 .. Len(connections')
          PROVE  Own(i)'
      <4>1. PICK k \in 1 .. Len(connections) : k # n /\ connections'[i] = connections[k]
        BY <3>2
      <4>2. ASSUME connections[k].fd # NoFd
            PROVE  peer'[connections[k].fd] = connections[k].session
        <5>1. connections[k].fd \in Fds /\ connections[k].fd # connections[n].fd
          BY <1>3, <4>1, <4>2
        <5> QED
          BY <1>3, <3>1, <4>2, <5>1 DEF Close
      <4> QED
        BY <1>3, <4>1, <4>2
    <3>4. ASSUME NEW i \in 1 .. Len(connections'), NEW j \in 1 .. Len(connections'), i # j,
                 connections'[i].fd # NoFd
          PROVE  connections'[i].fd # connections'[j].fd
      <4>1. PICK k \in 1 .. Len(connections) :
                    k = (IF i < n THEN i ELSE i + 1) /\ connections'[i] = connections[k]
        BY <3>2
      <4>2. PICK m \in 1 .. Len(connections) :
                    m = (IF j < n THEN j ELSE j + 1) /\ connections'[j] = connections[m]
        BY <3>2
      <4>3. k # m
        BY <1>2, <3>1, <3>4, <4>1, <4>2
      <4> QED
        BY <1>3, <3>4, <4>1, <4>2, <4>3
    <3> QED
      BY <3>3, <3>4
  <2> QED
    BY <2>1, <2>2
<1> QED
  BY <1>5, <1>6, <1>7, <1>8, MostKeep

(* What do_register builds has a descriptor nobody else has.               *)
LEMMA BuildingStep ==
    ASSUME IInv, [Next]_vars, TypeOK'
    PROVE  Building'
<1>1. TypeOK /\ OwnSocket /\ Building
  BY DEF IInv, Sockets
<1>2. DOMAIN connections = 1 .. Len(connections) /\ Len(connections) \in Nat
  BY <1>1 DEF TypeOK
<1>3. Len(new) = 1 => new[1] \in PushConnection /\ new[1].fd \in Fds \cup {NoFd}
  <2> SUFFICES ASSUME Len(new) = 1
               PROVE  new[1] \in PushConnection /\ new[1].fd \in Fds \cup {NoFd}
    OBVIOUS
  <2>1. 1 \in 1 .. Len(new)
    OBVIOUS
  <2>2. new[1] \in PushConnection
    BY <1>1, <2>1, ElementOfSeq DEF TypeOK
  <2> QED
    BY <2>2 DEF PushConnection
<1>4. CASE Kept /\ UNCHANGED register
  BY <1>1, <1>4 DEF Kept, Building, register
<1>5. CASE Kept /\ InsertLock
  BY <1>1, <1>5 DEF Kept, InsertLock, Building
<1>6. CASE Kept /\ ReadRegistration
  <2>1. Len(new) = 1 /\ new[1].fd # NoFd
    BY <1>1, <1>6 DEF Building, ReadRegistration
  <2>2. PICK e : new' = <<[new[1] EXCEPT !.events = e]>>
    BY <1>6 DEF ReadRegistration
  <2>3. /\ Len(new') = 1 /\ new'[1].fd = new[1].fd
        /\ new'[1].ttl = new[1].ttl /\ new'[1].session = new[1].session
    BY <1>3, <2>1, <2>2 DEF PushConnection
  <2>4. rpc' = "insert"
    BY <1>6 DEF ReadRegistration
  <2> QED
    BY <1>1, <1>6, <2>1, <2>3, <2>4 DEF Kept, Building
<1>7. ASSUME NEW s \in Sessions, Accept(s)
      PROVE  Building'
  <2>1. PICK fd \in Fds :
              /\ peer[fd] = None
              /\ peer' = [peer EXCEPT ![fd] = s]
              /\ new' = <<[fd |-> fd, events |-> "empty", ttl |-> maxttl, session |-> s]>>
              /\ rpc' = "read"
    BY <1>1, <1>7, AcceptProperties
  <2>2. connections' = connections
    BY <1>7 DEF Accept
  <2>3. ASSUME NEW i \in 1 .. Len(connections)
        PROVE  connections[i].fd # fd
    <3>1. connections[i].fd # NoFd =>
             peer[connections[i].fd] = connections[i].session /\ connections[i].session # None
      BY <1>1, SocketFacts, PushAssumption
    <3> QED
      BY <2>1, <3>1, PushAssumption DEF NoFd
  <2>4. Len(new') = 1 /\ new'[1].fd = fd /\ new'[1].ttl = maxttl /\ new'[1].session = s
    BY <2>1
  <2>5. peer'[fd] = s
    BY <1>1, <2>1 DEF TypeOK
  <2> QED
    BY <2>5, <2>4, <2>3, <2>2, <2>1, PushAssumption DEF Building, NoFd
<1>8. CASE Insert
  <2>1. Len(new') = 0 /\ rpc' = "page"
    BY <1>8 DEF Insert
  <2> QED
    BY <2>1 DEF Building
<1>9. CASE Erase
  <2>1. UNCHANGED register
    BY <1>9 DEF Erase
  <2>2. CASE UNCHANGED <<connections, peer>>
    BY <1>1, <2>1, <2>2 DEF Building, register
  <2>3. CASE ~ UNCHANGED <<connections, peer>>
    <3>1. PICK n \in 1 .. Len(connections) :
                 /\ Close(connections[n].fd)
                 /\ Len(connections') = Len(connections) - 1
                 /\ \A i \in 1 .. Len(connections) - 1 :
                       connections'[i] = IF i < n THEN connections[i] ELSE connections[i + 1]
      BY <1>1, <1>9, <2>3, EraseProperties
    <3>2. ASSUME Len(new) = 1, new[1].fd # NoFd
          PROVE  /\ peer'[new[1].fd] = new[1].session
                 /\ \A i \in 1 .. Len(connections') : connections'[i].fd # new[1].fd
      <4>1. connections[n].fd # new[1].fd /\ new[1].fd \in Fds
        BY <1>1, <1>3, <3>2 DEF Building
      <4>2. peer'[new[1].fd] = new[1].session
        BY <1>1, <3>1, <3>2, <4>1 DEF Close, Building
      <4>3. ASSUME NEW i \in 1 .. Len(connections')
            PROVE  connections'[i].fd # new[1].fd
        <5>1. \E k \in 1 .. Len(connections) : connections'[i] = connections[k]
          BY <1>2, <3>1
        <5> QED
          BY <1>1, <3>2, <5>1 DEF Building
      <4> QED
        BY <4>2, <4>3
    <3> QED
      BY <1>1, <2>1, <3>2 DEF Building, register
  <2> QED
    BY <2>2, <2>3
<1>10. Kept => UNCHANGED register \/ InsertLock \/ ReadRegistration \/ Insert
                 \/ (\E s \in Sessions : Accept(s)) \/ AcceptFails \/ updateStatusPage \/ Overrun
  <2>1. ASSUME NEW s \in Sessions,
               Connect(s) \/ Send(s) \/ Answer(s) \/ Disappear(s) \/ Reset(s)
        PROVE  UNCHANGED register
    BY <2>1 DEF Connect, Send, Answer, Disappear, Reset
  <2>2. CASE Event \/ Poll \/ Signal
    BY <2>2 DEF Event, Poll, PollNext, AYAsend, IAAreceive, getRegistration, ClearLock, Erase,
                Signal, SignalLock, Notify, SignalUnlock
  <2>3. CASE UNCHANGED vars
    BY <2>3 DEF vars
  <2> QED
    BY <2>1, <2>2, <2>3 DEF Next, Register
<1>11. CASE AcceptFails
  <2>1. new' = <<[fd |-> NoFd, events |-> "empty", ttl |-> maxttl, session |-> None]>>
    BY <1>11 DEF AcceptFails
  <2>2. /\ Len(new') = 1 /\ new'[1].fd = NoFd /\ new'[1].ttl = maxttl
        /\ new'[1].session = None /\ new'[1].events = "empty"
    BY <2>1
  <2>3. rpc' = "insert"
    BY <1>11 DEF AcceptFails
  <2> QED
    BY <2>2, <2>3 DEF Building
<1>12. CASE updateStatusPage \/ Overrun
  <2>1. UNCHANGED <<connections, peer, new>> /\ rpc' \in {"accept", "dead"}
    BY <1>12 DEF updateStatusPage, Overrun
  <2>2. rpc' = "accept" => rpc = "page"
    BY <1>12 DEF updateStatusPage, Overrun
  <2> QED
    BY <1>1, <2>1, <2>2 DEF Building
<1> QED
  BY <1>4, <1>5, <1>6, <1>7, <1>8, <1>9, <1>10, <1>11, <1>12, MostKeep

(* A session comes out of the backlog once.                                *)
LEMMA AcceptedStep ==
    ASSUME IInv, [Next]_vars, TypeOK'
    PROVE  Accepted'
<1>1. TypeOK /\ Accepted
  BY DEF IInv, Sockets
<1>2. ASSUME NEW f \in Fds
      PROVE  peer[f] \in Sessions \cup {None}
  BY <1>1 DEF TypeOK
<1>3. CASE UNCHANGED <<peer, client>>
  BY <1>1, <1>3 DEF Accepted
<1>4. ASSUME NEW s \in Sessions, NEW c \in {"waiting", "gone", "reset"},
             peer' = peer, client' = [client EXCEPT ![s] = c],
             client[s] \in {"idle", "waiting", "running", "gone"},
             client[s] \in {"running", "gone"} => c # "waiting"
      PROVE  Accepted'
  <2>3. ASSUME NEW f \in Fds, peer[f] # None
        PROVE  client'[peer[f]] \in {"running", "gone", "reset"}
    BY <1>1, <1>2, <1>4, <2>3 DEF Accepted, TypeOK
  <2> QED
    BY <1>1, <1>4, <2>3 DEF Accepted
<1>5. ASSUME NEW s \in Sessions, Accept(s)
      PROVE  Accepted'
  <2>1. PICK fd \in Fds :
              /\ peer[fd] = None
              /\ peer' = [peer EXCEPT ![fd] = s]
              /\ client' = [client EXCEPT ![s] = "running"]
              /\ client[s] = "waiting"
    BY <1>1, <1>5, AcceptProperties
  <2>2. ASSUME NEW f \in Fds
        PROVE  peer[f] # s
    BY <1>1, <2>1, PushAssumption DEF Accepted
  <2>3. ASSUME NEW f \in Fds, NEW g \in Fds, peer'[f] # None
        PROVE  client'[peer'[f]] \in {"running", "gone", "reset"} /\ (peer'[f] = peer'[g] => f = g)
    <3>1. CASE f = fd
      BY <1>1, <2>1, <2>2, <3>1 DEF TypeOK
    <3>2. CASE f # fd
      <4>1. peer'[f] = peer[f] /\ peer[f] \in Sessions /\ peer[f] # s
        BY <1>1, <1>2, <2>1, <2>2, <2>3, <3>2 DEF TypeOK
      <4>2. client[peer[f]] \in {"running", "gone", "reset"}
        BY <1>1, <2>3, <4>1 DEF Accepted
      <4>3. client'[peer[f]] = client[peer[f]]
        BY <1>1, <2>1, <4>1 DEF TypeOK
      <4>4. peer'[f] = peer'[g] => f = g
        BY <1>1, <2>1, <2>3, <3>2, <4>1 DEF TypeOK, Accepted
      <4> QED
        BY <4>1, <4>2, <4>3, <4>4
    <3> QED
      BY <3>1, <3>2
  <2> QED
    BY <2>3 DEF Accepted
<1>6. CASE Erase
  <2>1. client' = client
    BY <1>6 DEF Erase, clients
  <2>2. CASE UNCHANGED <<connections, peer>>
    BY <1>3, <2>1, <2>2
  <2>3. CASE ~ UNCHANGED <<connections, peer>>
    <3>1. PICK n \in 1 .. Len(connections) : Close(connections[n].fd)
      BY <1>1, <1>6, <2>3, EraseProperties
    <3>2. ASSUME NEW f \in Fds, peer'[f] # None
          PROVE  peer'[f] = peer[f]
      BY <1>1, <3>1, <3>2 DEF TypeOK, Close
    <3> QED
      BY <1>1, <2>1, <3>2 DEF Accepted
  <2> QED
    BY <2>2, <2>3
<1>7. ASSUME NEW s \in Sessions, Send(s) \/ Answer(s)
      PROVE  Accepted'
  BY <1>3, <1>7 DEF Send, Answer
<1>8. CASE Event \/ ReadRegistration \/ InsertLock \/ Insert \/ Signal
  BY <1>3, <1>8 DEF Event, ReadRegistration, InsertLock, Insert, Signal, SignalLock, Notify,
                    SignalUnlock, clients
<1>9. CASE PollNext \/ AYAsend \/ IAAreceive \/ getRegistration \/ ClearLock
  BY <1>3, <1>9 DEF PollNext, AYAsend, SendFailed, IAAreceive, getRegistration, ClearLock, clients
<1>10. CASE UNCHANGED vars
  BY <1>3, <1>10 DEF vars, clients
<1>11. ASSUME NEW s \in Sessions, Connect(s) \/ Disappear(s) \/ Reset(s)
      PROVE  Accepted'
  <2>1. CASE Connect(s)
    BY <1>1, <1>4, <2>1 DEF Connect, TypeOK
  <2>2. CASE Disappear(s)
    BY <1>1, <1>4, <2>2 DEF Disappear, TypeOK
  <2>3. CASE Reset(s)
    BY <1>1, <1>4, <2>3 DEF Reset, TypeOK
  <2> QED
    BY <1>11, <2>1, <2>2, <2>3
<1>12. CASE AcceptFails
  <2>1. peer' = peer
    BY <1>12 DEF AcceptFails
  <2>2. CASE UNCHANGED client
    BY <1>3, <2>1, <2>2
  <2>3. ASSUME NEW s \in Sessions, client[s] = "waiting", client' = [client EXCEPT ![s] = "gone"]
        PROVE  Accepted'
    BY <1>4, <2>1, <2>3
  <2> QED
    BY <1>12, <2>2, <2>3 DEF AcceptFails
<1>13. CASE updateStatusPage \/ Overrun
  BY <1>3, <1>13 DEF updateStatusPage, Overrun, clients
<1> QED
  BY <1>5, <1>6, <1>7, <1>8, <1>9, <1>10, <1>11, <1>12, <1>13 DEF Next, Register, Poll

(* Only do_poll shortens the vector, so its index stays in it.             *)
LEMMA InRangeStep ==
    ASSUME IInv, [Next]_vars, TypeOK'
    PROVE  InRange'
<1>1. TypeOK /\ InRange /\ Building
  BY DEF IInv, Sockets
<1>2. /\ Len(connections) \in Nat /\ Len(connections') \in Nat
      /\ pi \in Nat /\ pi # 0
  BY <1>1 DEF TypeOK
<1>3. ASSUME UNCHANGED poll, Len(connections') >= Len(connections),
             \A i \in 1 .. Len(connections) : connections'[i] = connections[i]
      PROVE  InRange'
  <2>1. ppc \in {"send", "wait", "fill"} => pi \in 1 .. Len(connections)
    BY <1>1, <1>2 DEF InRange
  <2> QED
    BY <1>1, <1>2, <1>3, <2>1 DEF InRange, poll
<1>4. CASE UNCHANGED <<poll, connections>>
  BY <1>2, <1>3, <1>4
<1>5. CASE Insert
  <2>1. Len(new) = 1 /\ UNCHANGED poll
    BY <1>1, <1>5 DEF Building, Insert
  <2>2. /\ Len(connections') = Len(connections) + 1
        /\ \A i \in 1 .. Len(connections) : connections'[i] = connections[i]
    BY <1>1, <1>5, <2>1, InsertProperties
  <2> QED
    BY <1>2, <1>3, <2>1, <2>2
<1>6. CASE PollNext
  BY <1>6 DEF PollNext, InRange
<1>7. CASE Touch
  <2>1. /\ Len(connections') = Len(connections) /\ pi \in 1 .. Len(connections)
        /\ connections'[pi].fd = connections[pi].fd
    BY <1>1, <1>7, TouchKeepsSockets
  <2>2. ppc' \notin {"send", "wait", "fill"} \/ pi' = pi
    BY <1>7 DEF Touch, AYAsend, IAAreceive, getRegistration
  <2>3. ppc' \in {"wait", "fill"} => connections[pi].fd # NoFd
    BY <1>1, <1>7 DEF InRange, Touch, AYAsend, IAAreceive, getRegistration
  <2> QED
    BY <2>1, <2>2, <2>3 DEF InRange
<1>8. CASE ClearLock \/ Erase \/ Overrun
  BY <1>8 DEF ClearLock, Erase, Overrun, InRange
<1>9. ASSUME NEW s \in Sessions,
             \/ Connect(s) \/ Send(s) \/ Answer(s) \/ Disappear(s) \/ Reset(s)
             \/ Accept(s)
      PROVE  InRange'
  BY <1>4, <1>9 DEF Connect, Send, Answer, Disappear, Reset, Accept
<1>10. CASE Event \/ AcceptFails \/ ReadRegistration \/ InsertLock \/ updateStatusPage \/ Signal
  BY <1>4, <1>10 DEF Event, AcceptFails, ReadRegistration, InsertLock, updateStatusPage, Signal,
                     SignalLock, Notify, SignalUnlock
<1>11. CASE UNCHANGED vars
  BY <1>4, <1>11 DEF vars
<1> QED
  BY <1>5, <1>6, <1>7, <1>8, <1>9, <1>10, <1>11 DEF Next, Register, Poll, Touch

(* mutexsignal belongs to the thread that is at the place it protects.     *)
LEMMA LockedStep ==
    ASSUME IInv, [Next]_vars
    PROVE  Locked'
<1>1. Locked
  BY DEF IInv
<1> USE DEF Locked, None
<1>2. CASE UNCHANGED <<mutexsignal, rpc, ppc, spc>>
  BY <1>1, <1>2
<1>3. ASSUME NEW s \in Sessions,
             Connect(s) \/ Send(s) \/ Answer(s) \/ Disappear(s) \/ Reset(s)
      PROVE  Locked'
  BY <1>2, <1>3 DEF Connect, Send, Answer, Disappear, Reset, register, poll, signal
<1>4. ASSUME NEW s \in Sessions, Accept(s)
      PROVE  Locked'
  BY <1>1, <1>4 DEF Accept, poll, signal
<1>5. CASE AcceptFails \/ ReadRegistration \/ InsertLock \/ Insert \/ updateStatusPage
  BY <1>1, <1>5 DEF AcceptFails, ReadRegistration, InsertLock, Insert, updateStatusPage, poll, signal
<1>6. CASE PollNext \/ AYAsend \/ getRegistration
  BY <1>1, <1>6 DEF PollNext, AYAsend, getRegistration, register, signal
<1>7. CASE IAAreceive
  BY <1>1, <1>7 DEF IAAreceive, register, signal
<1>8. CASE ClearLock \/ Erase
  BY <1>1, <1>8 DEF ClearLock, Erase, register, signal
<1>9. CASE Signal
  BY <1>1, <1>9 DEF Signal, SignalLock, Notify, SignalUnlock, register, poll
<1>10. CASE Event \/ UNCHANGED vars
  BY <1>2, <1>10 DEF Event, vars, register, poll, signal
<1>11. CASE Overrun
  BY <1>11 DEF Overrun
<1> QED
  BY <1>3, <1>4, <1>5, <1>6, <1>7, <1>8, <1>9, <1>10, <1>11 DEF Next, Register, Poll
-----------------------------------------------------------------------------
(* What IAAreceive reads from a prompt client that runs is an answer.      *)
LEMMA PromptAnswers ==
    ASSUME IInv, IAAreceive, connections[pi].session \in Prompt,
           client[connections[pi].session] = "running"
    PROVE  connections'[pi].ttl > 0
<1> DEFINE c == connections[pi]
           s == c.session
<1>1. TypeOK /\ InRange /\ OwnSocket /\ AnswerInv
  BY DEF IInv, Sockets
<1>2. pi \in 1 .. Len(connections)
  BY <1>1, TouchKeepsSockets DEF Touch
<1>3. peer[c.fd] = s /\ c \in PushConnection /\ s \in Sessions
  BY <1>1, <1>2, ElementType, SocketFacts, PushAssumption
<1>4. inbox[s] # <<>>
  BY <1>1, <1>3 DEF AnswerInv, IAAreceive, MayRead
<1>5. PICK l \in Received(s) :
         connections' = [connections EXCEPT ![pi] =
            [c EXCEPT !.ttl = TtlAfter(l, c.ttl),
                      !.events = IF l = "devices" THEN "empty" ELSE c.events]]
  BY <1>3 DEF IAAreceive
<1> DEFINE t == TtlAfter(l, c.ttl)
           e == IF l = "devices" THEN "empty" ELSE c.events
<1>6. l \in Lines
  <2>1. inbox[s] \in Seq(Lines)
    BY <1>1, <1>3 DEF TypeOK
  <2>2. Head(inbox[s]) \in Lines
    BY <1>4, <2>1, HeadTailProperties
  <2> QED
    BY <1>4, <1>5, <2>2 DEF Received
<1>7. t = maxttl /\ maxttl > 0
  BY <1>6, PushAssumption DEF Lines, TtlAfter
<1>8. connections' = [connections EXCEPT ![pi] = [c EXCEPT !.ttl = t, !.events = e]]
  BY <1>5
<1> DEFINE d == [c EXCEPT !.ttl = t, !.events = e]
<1>11. d.ttl = t
  BY <1>3 DEF PushConnection
<1>12. pi \in DOMAIN connections
  BY <1>1, <1>2 DEF TypeOK
<1> HIDE DEF t, e, d
<1>9. connections'[pi] = d
  BY <1>8, <1>12 DEF d
<1>10. connections'[pi].ttl = t
  BY <1>9, <1>11
<1> QED
  BY <1>7, <1>10

(* Every step keeps the ttl of a prompt client that runs.                  *)
LEMMA AnsweringStaysStep ==
    ASSUME IInv, [Next]_vars, TypeOK'
    PROVE  AnsweringStays'
<1>1. TypeOK /\ InRange /\ OwnSocket /\ Building /\ Accepted /\ AnsweringStays
  BY DEF IInv, Sockets
<1>2. /\ DOMAIN connections = 1 .. Len(connections)
      /\ DOMAIN connections' = 1 .. Len(connections')
      /\ Len(connections) \in Nat
  BY <1>1 DEF TypeOK
<1>3. ASSUME NEW i \in 1 .. Len(connections), connections[i].session \in Prompt
      PROVE  /\ connections[i].session \in Sessions /\ connections[i].fd # NoFd
             /\ peer[connections[i].fd] = connections[i].session
             /\ client[connections[i].session] \in {"running", "gone", "reset"}
  <2>1. /\ connections[i].session \in Sessions /\ connections[i].session # None
    BY <1>3, PushAssumption
  <2>2. /\ connections[i].fd \in Fds /\ connections[i].fd # NoFd
        /\ peer[connections[i].fd] = connections[i].session
    BY <1>1, <2>1, ElementType, SocketFacts
  <2> QED
    BY <1>1, <2>1, <2>2 DEF Accepted
<1>4. CASE UNCHANGED <<connections, client>>
  BY <1>1, <1>4 DEF AnsweringStays
<1>12. ASSUME NEW s \in Sessions, NEW c, client' = [client EXCEPT ![s] = c],
              client[s] = "waiting" \/ c # "running", connections' = connections
      PROVE  AnsweringStays'
  <2>1. ASSUME NEW i \in 1 .. Len(connections), connections[i].session \in Prompt,
               client'[connections[i].session] = "running"
        PROVE  client[connections[i].session] = "running"
    BY <1>1, <1>3, <1>12, <2>1 DEF TypeOK
  <2> QED
    BY <1>1, <1>2, <1>12, <2>1 DEF AnsweringStays
<1>5. ASSUME NEW s \in Sessions, Connect(s) \/ Disappear(s) \/ Reset(s) \/ Accept(s)
      PROVE  AnsweringStays'
  <2>1. PICK c : client' = [client EXCEPT ![s] = c] /\ connections' = connections
    BY <1>5 DEF Connect, Disappear, Reset, Accept
  <2>2. client[s] = "waiting" \/ c # "running"
    BY <1>1, <1>5, <2>1 DEF Connect, Disappear, Reset, Accept, TypeOK
  <2> QED
    BY <1>12, <2>1, <2>2
<1>6. CASE Touch
  <2>1. /\ Len(connections') = Len(connections) /\ pi \in 1 .. Len(connections)
        /\ \A i \in 1 .. Len(connections) :
              /\ connections'[i].session = connections[i].session
              /\ i # pi => connections'[i] = connections[i]
    BY <1>1, <1>6, TouchKeepsSockets
  <2>2. client' = client
    BY <1>6 DEF Touch, AYAsend, IAAreceive, getRegistration, clients
  <2>3. ASSUME connections[pi].session \in Prompt, client[connections[pi].session] = "running"
        PROVE  connections'[pi].ttl > 0
    <3>1. CASE AYAsend
      <4>1. connections[pi].fd # NoFd /\ client[peer[connections[pi].fd]] # "reset"
        BY <1>3, <2>1, <2>3
      <4>2. UNCHANGED connections
        BY <3>1, <4>1 DEF AYAsend
      <4> QED
        BY <1>1, <1>2, <2>1, <2>3, <4>2 DEF AnsweringStays
    <3>2. CASE IAAreceive
      BY <2>3, <3>2, PromptAnswers
    <3>3. CASE getRegistration
      <4> DEFINE c == connections[pi]
      <4>1. c \in PushConnection /\ c.ttl > 0
        BY <1>1, <1>2, <2>1, <2>3, ElementType DEF AnsweringStays
      <4>2. connections'[pi] = [c EXCEPT !.events = "filled"]
        BY <1>1, <2>1, <3>3 DEF TypeOK, getRegistration
      <4>3. connections'[pi].ttl = c.ttl
        BY <4>1, <4>2 DEF PushConnection
      <4> QED
        BY <4>1, <4>3
    <3> QED
      BY <1>6, <3>1, <3>2, <3>3 DEF Touch
  <2> QED
    BY <1>1, <1>2, <2>1, <2>2, <2>3 DEF AnsweringStays
<1>7. CASE Insert
  <2>1. Len(new) = 1 /\ client' = client
    BY <1>1, <1>7 DEF Building, Insert, clients
  <2>2. /\ Len(connections') = Len(connections) + 1
        /\ \A i \in 1 .. Len(connections) : connections'[i] = connections[i]
        /\ connections'[Len(connections) + 1] = new[1]
    BY <1>1, <1>7, <2>1, InsertProperties
  <2>3. connections'[Len(connections) + 1].ttl > 0
    BY <1>1, <2>1, <2>2, PushAssumption DEF Building
  <2>4. ASSUME NEW i \in 1 .. Len(connections')
        PROVE  i \in 1 .. Len(connections) \/ i = Len(connections) + 1
    BY <1>2, <2>2
  <2> QED
    BY <1>1, <1>2, <2>4, <2>3, <2>2, <2>1 DEF AnsweringStays
<1>8. CASE Erase
  <2>1. client' = client
    BY <1>8 DEF Erase, clients
  <2>2. CASE UNCHANGED <<connections, peer>>
    BY <1>4, <2>1, <2>2
  <2>3. CASE ~ UNCHANGED <<connections, peer>>
    <3>1. PICK n \in 1 .. Len(connections) :
                 /\ Len(connections') = Len(connections) - 1
                 /\ \A i \in 1 .. Len(connections) - 1 :
                       connections'[i] = IF i < n THEN connections[i] ELSE connections[i + 1]
      BY <1>1, <1>8, <2>3, EraseProperties
    <3>2. ASSUME NEW i \in 1 .. Len(connections')
          PROVE  \E k \in 1 .. Len(connections) : connections'[i] = connections[k]
      BY <1>2, <3>1
    <3> QED
      BY <1>1, <1>2, <2>1, <3>2 DEF AnsweringStays
  <2> QED
    BY <2>2, <2>3
<1>9. ASSUME NEW s \in Sessions, Send(s) \/ Answer(s)
      PROVE  AnsweringStays'
  BY <1>4, <1>9 DEF Send, Answer
<1>10. CASE \/ Event \/ ReadRegistration \/ InsertLock \/ PollNext \/ ClearLock \/ Signal
            \/ updateStatusPage \/ Overrun
  BY <1>4, <1>10 DEF Event, ReadRegistration, InsertLock, PollNext, ClearLock, Signal, SignalLock,
                     Notify, SignalUnlock, updateStatusPage, Overrun, clients
<1>11. CASE UNCHANGED vars
  BY <1>4, <1>11 DEF vars, clients
<1>13. CASE AcceptFails
  <2>1. CASE UNCHANGED client
    BY <1>4, <1>13, <2>1 DEF AcceptFails
  <2>2. ASSUME NEW s \in Sessions, client[s] = "waiting", client' = [client EXCEPT ![s] = "gone"]
        PROVE  AnsweringStays'
    BY <1>12, <1>13, <2>2 DEF AcceptFails
  <2> QED
    BY <1>13, <2>1, <2>2 DEF AcceptFails
<1> QED
  BY <1>5, <1>6, <1>7, <1>8, <1>9, <1>10, <1>11, <1>13 DEF Next, Register, Poll, Touch

(* While do_poll waits, nobody else reads the answer it waits for.         *)
LEMMA AnswerInvStep ==
    ASSUME IInv, [Next]_vars, TypeOK'
    PROVE  AnswerInv'
<1> DEFINE s0 == connections[pi].session
<1>1. TypeOK /\ InRange /\ OwnSocket /\ Building /\ Accepted /\ AnswerInv
  BY DEF IInv, Sockets
<1>2. DOMAIN connections = 1 .. Len(connections) /\ Len(connections) \in Nat
  BY <1>1 DEF TypeOK
<1>3. ASSUME ppc = "wait" \/ (ppc = "send" /\ connections[pi].fd # NoFd)
      PROVE  /\ pi \in 1 .. Len(connections)
             /\ connections[pi].fd \in Fds /\ s0 \in Sessions
             /\ peer[connections[pi].fd] = s0 /\ client[s0] \in {"running", "gone", "reset"}
  <2>1. pi \in 1 .. Len(connections)
    BY <1>1, <1>2, <1>3 DEF InRange, TypeOK
  <2>2. connections[pi].fd # NoFd
    BY <1>1, <1>3 DEF InRange
  <2>3. connections[pi].fd \in Fds /\ s0 \in Sessions /\ peer[connections[pi].fd] = s0
    BY <1>1, <2>1, <2>2, ElementType, SocketFacts
  <2> QED
    BY <1>1, <2>1, <2>3, PushAssumption DEF Accepted
<1>4. CASE ppc' # "wait"
  BY <1>4 DEF AnswerInv
<1>5. ASSUME UNCHANGED <<connections, ppc, pi>>,
             ppc = "wait" /\ client'[s0] = "running" =>
                /\ client[s0] = "running"
                /\ s0 \in asked \/ inbox[s0] # <<>> => s0 \in asked' \/ inbox'[s0] # <<>>
      PROVE  AnswerInv'
  BY <1>1, <1>5 DEF AnswerInv
<1>6. CASE UNCHANGED <<connections, ppc, pi, clients>>
  BY <1>5, <1>6 DEF clients
<1>15. ASSUME NEW s \in Sessions, NEW c, client' = [client EXCEPT ![s] = c],
              client[s] = "waiting" \/ c # "running",
              UNCHANGED <<connections, ppc, pi, inbox>>, asked \ {s} \subseteq asked'
      PROVE  AnswerInv'
  <2>1. ASSUME ppc = "wait", client'[s0] = "running"
        PROVE  s0 # s /\ client[s0] = "running"
    <3>1. s0 \in Sessions /\ client[s0] \in {"running", "gone", "reset"}
      BY <1>3, <2>1
    <3> QED
      BY <1>1, <1>15, <2>1, <3>1 DEF TypeOK
  <2> QED
    BY <1>5, <1>15, <2>1
<1>7. ASSUME NEW s \in Sessions, Connect(s) \/ Disappear(s) \/ Reset(s) \/ Accept(s)
      PROVE  AnswerInv'
  <2>1. PICK c : client' = [client EXCEPT ![s] = c]
    BY <1>7 DEF Connect, Disappear, Reset, Accept
  <2>2. client[s] = "waiting" \/ c # "running"
    BY <1>1, <1>7, <2>1 DEF Connect, Disappear, Reset, Accept, TypeOK
  <2>3. UNCHANGED <<connections, ppc, pi, inbox>> /\ asked \ {s} \subseteq asked'
    BY <1>7 DEF Connect, Disappear, Reset, Accept, poll
  <2> QED
    BY <1>15, <2>1, <2>2, <2>3
<1>16. CASE AcceptFails
  <2>1. UNCHANGED <<connections, ppc, pi, inbox, asked>>
    BY <1>16 DEF AcceptFails, poll
  <2>2. CASE UNCHANGED client
    BY <1>5, <2>1, <2>2
  <2>3. ASSUME NEW s \in Sessions, client[s] = "waiting", client' = [client EXCEPT ![s] = "gone"]
        PROVE  AnswerInv'
    BY <1>15, <2>1, <2>3
  <2> QED
    BY <1>16, <2>2, <2>3 DEF AcceptFails
<1>8. ASSUME NEW s \in Sessions, Send(s) \/ Answer(s)
      PROVE  AnswerInv'
  <2>1. UNCHANGED <<connections, ppc, pi, client>> /\ asked \ {s} \subseteq asked'
    BY <1>8 DEF Send, Answer, poll
  <2>2. PICK l \in Lines : inbox' = [inbox EXCEPT ![s] = Append(inbox[s], l)]
    BY <1>8 DEF Send, Answer, Lines
  <2>3. inbox'[s] # <<>>
    <3>1. inbox'[s] = Append(inbox[s], l) /\ inbox[s] \in Seq(Lines)
      BY <1>1, <2>2 DEF TypeOK
    <3>2. Len(Append(inbox[s], l)) = Len(inbox[s]) + 1 /\ Len(inbox[s]) \in Nat
      BY <3>1
    <3> QED
      BY <3>1, <3>2
  <2>4. ASSUME ppc = "wait"
        PROVE  s0 # s => inbox'[s0] = inbox[s0]
    BY <1>1, <1>3, <2>2, <2>4 DEF TypeOK
  <2> QED
    BY <1>5, <2>1, <2>3, <2>4
<1>9. CASE ReadRegistration
  <2>1. UNCHANGED <<connections, ppc, pi, client, asked>>
    BY <1>9 DEF ReadRegistration, poll
  <2>2. Len(new) = 1 /\ new[1].fd # NoFd /\ inbox' = [inbox EXCEPT ![new[1].session] = <<>>]
    BY <1>1, <1>9 DEF ReadRegistration, Building, Read
  <2>3. ASSUME ppc = "wait"
        PROVE  inbox'[s0] = inbox[s0]
    <3>1. /\ pi \in 1 .. Len(connections) /\ connections[pi].fd \in Fds /\ s0 \in Sessions
          /\ peer[connections[pi].fd] = s0
      BY <1>3, <2>3
    <3>2. 1 \in 1 .. Len(new)
      BY <2>2
    <3>3. new[1] \in PushConnection
      BY <1>1, <3>2, ElementOfSeq DEF TypeOK
    <3>4. new[1].fd \in Fds /\ connections[pi].fd # new[1].fd /\ peer[new[1].fd] = new[1].session
      BY <1>1, <2>2, <3>1, <3>3 DEF Building, PushConnection
    <3>5. s0 # new[1].session
      BY <1>1, <3>1, <3>4, PushAssumption DEF Accepted
    <3> QED
      BY <1>1, <2>2, <3>1, <3>5 DEF TypeOK
  <2> QED
    BY <1>5, <2>1, <2>3
<1>10. CASE Insert
  <2>1. Len(new) = 1 /\ UNCHANGED <<ppc, pi, client, inbox, asked>>
    BY <1>1, <1>10 DEF Building, Insert, clients, poll
  <2>2. \A i \in 1 .. Len(connections) : connections'[i] = connections[i]
    BY <1>1, <1>10, <2>1, InsertProperties
  <2>3. ppc = "wait" => connections'[pi] = connections[pi]
    BY <1>3, <2>2
  <2> QED
    BY <1>1, <2>1, <2>3 DEF AnswerInv
<1>11. CASE AYAsend
  <2>1. CASE ppc' = "wait"
    <3>1. /\ UNCHANGED <<connections, pi, client, inbox>>
          /\ ppc = "send" /\ connections[pi].fd # NoFd
          /\ client[peer[connections[pi].fd]] = "running" =>
                asked' = asked \cup {peer[connections[pi].fd]}
      BY <1>11, <2>1 DEF AYAsend
    <3>2. peer[connections[pi].fd] = s0
      BY <1>3, <3>1
    <3> QED
      BY <3>1, <3>2 DEF AnswerInv
  <2> QED
    BY <1>4, <2>1
<1>12. CASE PollNext \/ IAAreceive \/ getRegistration \/ ClearLock \/ Erase \/ Overrun
  <2>1. ppc' # "wait"
    BY <1>12 DEF PollNext, IAAreceive, getRegistration, ClearLock, Erase, Overrun
  <2> QED
    BY <1>4, <2>1
<1>13. CASE Event \/ InsertLock \/ updateStatusPage \/ Signal
  BY <1>6, <1>13 DEF Event, InsertLock, updateStatusPage, Signal, SignalLock, Notify, SignalUnlock, poll
<1>14. CASE UNCHANGED vars
  BY <1>6, <1>14 DEF vars, poll
<1> QED
  BY <1>7, <1>8, <1>9, <1>10, <1>11, <1>12, <1>13, <1>14, <1>16 DEF Next, Register, Poll
-----------------------------------------------------------------------------
(* A client that is still owed the event stays registered for it.          *)
LEMMA OwedStaysFilled ==
    ASSUME IInv, Touch, NEW i \in 1 .. Len(connections), connections[i].events = "filled",
           connections[i].session \in owed'
    PROVE  connections'[i].events = "filled"
<1> DEFINE c == connections[pi]
<1>1. TypeOK /\ InRange /\ OwnSocket
  BY DEF IInv, Sockets
<1>2. pi \in 1 .. Len(connections) /\ connections \in Seq(PushConnection)
  BY <1>1, TouchKeepsSockets DEF TypeOK
<1>3. c \in PushConnection
  BY <1>1, <1>2, ElementType
<1>4. CASE i # pi
  BY <1>1, <1>4, TouchKeepsSockets
<1>5. CASE i = pi /\ AYAsend
  <2>1. CASE SendFailed
    <3>1. connections'[pi] = [c EXCEPT !.ttl = -1]
      BY <1>2, <2>1 DEF SendFailed
    <3>2. connections'[pi].events = c.events
      BY <1>3, <3>1 DEF PushConnection
    <3> QED
      BY <1>5, <3>2
  <2> QED
    BY <1>5, <2>1 DEF AYAsend
<1>6. CASE i = pi /\ IAAreceive
  <2>0. PICK l \in Received(peer[c.fd]) :
           /\ connections' = [connections EXCEPT ![pi] =
                 [c EXCEPT !.ttl = TtlAfter(l, c.ttl),
                           !.events = IF l = "devices" THEN "empty" ELSE c.events]]
           /\ l = "devices" => owed' = owed \ {c.session}
    BY <1>6 DEF IAAreceive
  <2> DEFINE t == TtlAfter(l, c.ttl)
             e == IF l = "devices" THEN "empty" ELSE c.events
             d == [c EXCEPT !.ttl = t, !.events = e]
  <2>1. connections' = [connections EXCEPT ![pi] = d]
    BY <2>0
  <2>2. l # "devices"
    BY <1>6, <2>0
  <2>3. e = c.events
    BY <2>2
  <2> HIDE DEF d
  <2>4. connections'[pi] = d
    BY <1>2, <2>1
  <2> HIDE DEF t, e, c
  <2>5. connections'[pi].events = e
    BY <1>3, <2>4 DEF PushConnection, d
  <2> USE DEF c
  <2> QED
    BY <1>6, <2>3, <2>5
<1>7. CASE i = pi /\ getRegistration
  <2>1. connections'[pi] = [c EXCEPT !.events = "filled"]
    BY <1>2, <1>7 DEF getRegistration
  <2>2. connections'[pi].events = "filled"
    BY <1>3, <2>1 DEF PushConnection
  <2> QED
    BY <1>7, <2>2
<1> QED
  BY <1>4, <1>5, <1>6, <1>7 DEF Touch

(* While notifyEvent goes through the vector, nothing moves in it.         *)
LEMMA SignalInvStep ==
    ASSUME IInv, [Next]_vars, TypeOK'
    PROVE  SignalInv'
<1>1. TypeOK /\ InRange /\ OwnSocket /\ Accepted /\ Locked /\ SignalInv
  BY DEF IInv, Sockets
<1>13. CASE spc' = "dead"
  BY <1>13 DEF SignalInv
<1>14. CASE Overrun
  BY <1>13, <1>14 DEF Overrun
<1>2. /\ DOMAIN connections = 1 .. Len(connections)
      /\ Len(connections) \in Nat /\ si \in Nat
      /\ got \in Seq(Sessions)
  BY <1>1 DEF TypeOK
<1>3. CASE UNCHANGED <<connections, signal, served>>
  BY <1>1, <1>3 DEF SignalInv, IsInjective, signal, served
<1>4. ASSUME spc' = "receive", si' = 1, got' = <<>>
      PROVE  SignalInv'
  <2>1. Len(got') = 0 /\ DOMAIN got' = {}
    BY <1>4
  <2> QED
    BY <1>4, <2>1 DEF SignalInv, IsInjective
<1>5. CASE Insert \/ Erase
  <2>1. spc # "notify" /\ UNCHANGED <<signal, served>>
    BY <1>1, <1>5 DEF Locked, Insert, Erase
  <2>2. spc' = "dead" \/ (spc' = "receive" /\ si' = 1 /\ got' = <<>>)
    BY <1>1, <2>1 DEF SignalInv, signal, served
  <2> QED
    BY <1>4, <1>13, <2>2
<1>6. CASE Touch
  <2>1. /\ Len(connections') = Len(connections)
        /\ \A i \in 1 .. Len(connections) : connections'[i].session = connections[i].session
    BY <1>1, <1>6, TouchKeepsSockets
  <2>2. UNCHANGED <<signal, got>> /\ owed' \subseteq owed
    BY <1>6 DEF Touch, AYAsend, IAAreceive, getRegistration, served
  <2>3. ASSUME spc' = "notify", NEW s \in owed'
        PROVE  \/ \E k \in 1 .. Len(got) : got[k] = s
               \/ \E i \in 1 .. Len(connections) :
                     i >= si /\ connections'[i].events = "filled" /\ connections'[i].session = s
    <3>1. \/ \E k \in 1 .. Len(got) : got[k] = s
          \/ \E i \in 1 .. Len(connections) :
                i >= si /\ connections[i].events = "filled" /\ connections[i].session = s
      BY <1>1, <2>2, <2>3 DEF SignalInv, signal
    <3>2. ASSUME NEW i \in 1 .. Len(connections), connections[i].events = "filled",
                 connections[i].session = s
          PROVE  connections'[i].events = "filled" /\ connections'[i].session = s
      BY <1>6, <2>1, <3>2, OwedStaysFilled
    <3> QED
      BY <3>1, <3>2
  <2>4. CASE spc # "dead"
    BY <2>4, <2>3, <2>2, <2>1, <1>1 DEF SignalInv, IsInjective, signal
  <2> QED
    BY <1>13, <2>2, <2>4 DEF signal
<1>7. CASE SignalLock
  <2>1. si' = 1 /\ got' = <<>> /\ spc' = "notify" /\ connections' = connections
    BY <1>1, <1>7 DEF SignalInv, SignalLock
  <2>2. Len(got') = 0 /\ DOMAIN got' = {}
    BY <2>1
  <2>3. ASSUME NEW s \in owed'
        PROVE  \E i \in 1 .. Len(connections) :
                  i >= 1 /\ connections[i].events = "filled" /\ connections[i].session = s
    BY <1>2, <1>7 DEF SignalLock
  <2> QED
    BY <2>1, <2>2, <2>3 DEF SignalInv, IsInjective
<1>8. CASE Notify
  <2>1. /\ si \in 1 .. Len(connections) /\ si' = si + 1 /\ spc = "notify" /\ spc' = spc
        /\ UNCHANGED <<connections, owed>>
    BY <1>1, <1>2, <1>8 DEF Notify, TypeOK
  <2> DEFINE s1 == connections[si].session
  <2>2. connections[si].events = "filled" =>
           /\ peer[connections[si].fd] = s1 /\ s1 \in Sessions
           /\ connections[si].fd \in Fds /\ connections[si].fd # NoFd
    BY <1>1, <2>1, ElementType, SocketFacts
  <2>3. CASE connections[si].events # "filled"
    <3>1. got' = got
      BY <1>8, <2>3 DEF Notify
    <3>2. ASSUME NEW k \in 1 .. Len(got)
          PROVE  \E i \in 1 .. Len(connections) : i < si' /\ connections[i].session = got[k]
      <4>1. PICK i \in 1 .. Len(connections) : i < si /\ connections[i].session = got[k]
        BY <1>1, <2>1 DEF SignalInv
      <4> QED
        BY <1>2, <2>1, <4>1
    <3>3. ASSUME NEW s \in owed
          PROVE  \/ \E k \in 1 .. Len(got) : got[k] = s
                 \/ \E i \in 1 .. Len(connections) :
                       i >= si' /\ connections[i].events = "filled" /\ connections[i].session = s
      BY <1>1, <1>2, <2>1, <2>3 DEF SignalInv
    <3> QED
      BY <1>1, <2>1, <3>1, <3>2, <3>3 DEF SignalInv, IsInjective
  <2>4. CASE connections[si].events = "filled"
    <3>1. got' = Append(got, s1)
      BY <1>8, <2>2, <2>4 DEF Notify
    <3>2. /\ Len(got') = Len(got) + 1 /\ Len(got) \in Nat
          /\ \A k \in 1 .. Len(got) : got'[k] = got[k]
          /\ got'[Len(got) + 1] = s1
      BY <1>2, <2>2, <3>1
    <3>3. ASSUME NEW k \in 1 .. Len(got')
          PROVE  k \in 1 .. Len(got) \/ k = Len(got) + 1
      BY <3>2
    <3>4. ASSUME NEW k \in 1 .. Len(got)
          PROVE  got[k] # s1
      <4>1. PICK i \in 1 .. Len(connections) : i < si /\ connections[i].session = got[k]
        BY <1>1, <2>1 DEF SignalInv
      <4>2. got[k] \in Sessions
        BY <1>2, ElementOfSeq
      <4>3. connections[i].fd # NoFd
        BY <1>1, <4>1, <4>2, SocketFacts, PushAssumption
      <4>4. /\ peer[connections[i].fd] = connections[i].session
            /\ connections[i].fd \in Fds /\ connections[i].fd # connections[si].fd
        BY <1>1, <2>1, <4>1, <4>3, ElementType, SocketFacts
      <4> QED
        BY <1>1, <2>2, <2>4, <4>1, <4>4, PushAssumption DEF Accepted
    <3>5. IsInjective(got')
      <4>1. DOMAIN got = 1 .. Len(got) /\ DOMAIN got' = 1 .. Len(got')
        BY <1>2, <3>1
      <4>2. ASSUME NEW k \in 1 .. Len(got), NEW m \in 1 .. Len(got), got[k] = got[m]
            PROVE  k = m
        BY <1>1, <2>1, <4>1, <4>2 DEF SignalInv, IsInjective
      <4>3. ASSUME NEW k \in 1 .. Len(got'), NEW m \in 1 .. Len(got'), got'[k] = got'[m]
            PROVE  k = m
        BY <3>2, <3>3, <3>4, <4>2, <4>3
      <4> QED
        BY <4>1, <4>3 DEF IsInjective
    <3>6. ASSUME NEW k \in 1 .. Len(got')
          PROVE  \E i \in 1 .. Len(connections) : i < si' /\ connections[i].session = got'[k]
      <4>1. CASE k = Len(got) + 1
        BY <1>2, <2>1, <3>2, <4>1
      <4>2. CASE k \in 1 .. Len(got)
        <5>1. PICK i \in 1 .. Len(connections) : i < si /\ connections[i].session = got[k]
          BY <1>1, <2>1, <4>2 DEF SignalInv
        <5> QED
          BY <1>2, <2>1, <3>2, <4>2, <5>1
      <4> QED
        BY <3>3, <4>1, <4>2
    <3>7. ASSUME NEW s \in owed
          PROVE  \/ \E k \in 1 .. Len(got') : got'[k] = s
                 \/ \E i \in 1 .. Len(connections) :
                       i >= si' /\ connections[i].events = "filled" /\ connections[i].session = s
      <4>1. CASE \E k \in 1 .. Len(got) : got[k] = s
        BY <3>2, <4>1
      <4>2. CASE s = s1
        <5>1. Len(got) + 1 \in 1 .. Len(got')
          BY <3>2
        <5> QED
          BY <3>2, <4>2, <5>1
      <4>3. CASE \E i \in 1 .. Len(connections) :
                    i >= si /\ connections[i].events = "filled" /\ connections[i].session = s
        BY <1>2, <2>1, <4>2, <4>3
      <4> QED
        BY <1>1, <2>1, <4>1, <4>3 DEF SignalInv
    <3> QED
      BY <2>1, <3>5, <3>6, <3>7 DEF SignalInv
  <2> QED
    BY <2>3, <2>4
<1>9. CASE SignalUnlock
  BY <1>4, <1>9 DEF SignalUnlock
<1>10. ASSUME NEW s \in Sessions,
             \/ Connect(s) \/ Send(s) \/ Answer(s) \/ Disappear(s) \/ Reset(s)
             \/ Accept(s)
      PROVE  SignalInv'
  BY <1>3, <1>10 DEF Connect, Send, Answer, Disappear, Reset, Accept
<1>11. CASE \/ Event \/ AcceptFails \/ ReadRegistration \/ InsertLock \/ updateStatusPage
            \/ PollNext \/ ClearLock
  BY <1>3, <1>11 DEF Event, AcceptFails, ReadRegistration, InsertLock, updateStatusPage, PollNext,
                     ClearLock
<1>12. CASE UNCHANGED vars
  BY <1>3, <1>12 DEF vars
<1> QED
  BY <1>5, <1>6, <1>7, <1>8, <1>9, <1>10, <1>11, <1>12, <1>14 DEF Next, Register, Poll, Signal, Touch
-----------------------------------------------------------------------------
(* The inductive invariant.                                                *)
THEOREM Inductive == Spec => []IInv
<1>1. IInv /\ [Next]_vars => IInv'
  BY TypeOKStep, OwnSocketStep, BuildingStep, AcceptedStep, InRangeStep, LockedStep,
     AnsweringStaysStep, AnswerInvStep, SignalInvStep DEF IInv, Sockets
<1> QED
  BY InitIInv, <1>1, PTL DEF Spec

(* No connection of the vector ever uses the descriptor of another one,    *)
(* although clearExpired closes descriptors and accept reuses their        *)
(* numbers: do_poll and do_signal write to the client they mean.  Those    *)
(* that do_register makes of failed accepts, any number of them, have      *)
(* descriptor -1, no client and no registration, and take no place of      *)
(* another.                                                                *)
THEOREM SocketsAreOwn == Spec => []OwnSocket
<1>1. IInv => OwnSocket
  BY DEF IInv, Sockets
<1> QED
  BY Inductive, <1>1, PTL

(* notifyEvent writes each event once to every client that is registered   *)
(* all the while, whatever the other two threads do to the vector.         *)
THEOREM EventsReachEveryone == Spec => []EveryoneOnce
<1>1. IInv => EveryoneOnce
  <2> SUFFICES ASSUME IInv, spc = "notify", si > Len(connections)
               PROVE  owed \subseteq ToSet(got) /\ IsInjective(got)
    BY DEF EveryoneOnce
  <2>1. TypeOK /\ SignalInv
    BY DEF IInv
  <2>2. DOMAIN got = 1 .. Len(got) /\ Len(connections) \in Nat /\ si \in Nat
    BY <2>1 DEF TypeOK
  <2>3. ASSUME NEW s \in owed
        PROVE  \E k \in 1 .. Len(got) : got[k] = s
    BY <2>1, <2>2 DEF SignalInv
  <2> QED
    BY <2>1, <2>2, <2>3 DEF SignalInv, ToSet
<1> QED
  BY Inductive, <1>1, PTL

(* A client that runs and answers in time always has a positive ttl, so    *)
(* clearExpired never drops it.                                            *)
THEOREM AnsweringIsKept == Spec => []AnsweringStays
<1>1. IInv => AnsweringStays
  BY DEF IInv
<1> QED
  BY Inductive, <1>1, PTL
=============================================================================
