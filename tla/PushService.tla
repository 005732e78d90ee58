---------------------------- MODULE PushService -----------------------------
(***************************************************************************)
(* The push service of the web services agent (WSServer/PushThread.cpp and *)
(* PushConnection.cpp): three threads on one vector of TCP connections.    *)
(* do_register accepts clients and reads what they register for, do_poll   *)
(* asks each one "AYA", waits for its "IAA" and drops the ones whose ttl   *)
(* has run out, do_signal writes every event to the clients registered for *)
(* it.  mutexsignal and mutexpoll protect the vector: a thread that changes*)
(* it takes both, a thread that goes through it takes one of them.         *)
(*                                                                         *)
(* A session is one TCP connection of a client.  getJsonMessage reads all  *)
(* that has arrived, uses the first line and throws the rest away, or gives*)
(* up after TOUTIAA seconds.  There is one kind of event.  A re-           *)
(* registration clears the map of events and fills it again, under         *)
(* mutexpoll only, while do_signal reads it under mutexsignal.             *)
(*                                                                         *)
(* Nothing tests the result of accept, nor the -1 that read gives for a    *)
(* connection that was reset: see AcceptFails and Overrun.  Where the code *)
(* runs out of an array it may go on with what it finds there, or the      *)
(* process is killed.                                                      *)
(*                                                                         *)
(* Left out: what the status page and the log file say, lines that arrive  *)
(* in pieces, and a client that is alive but reads nothing, on which a     *)
(* write would block with the mutex held.  A map is read or written whole. *)
(***************************************************************************)
EXTENDS Integers, FiniteSets, Sequences, SequencesExt

CONSTANTS Sessions,   \* the TCP connections that clients make
          Prompt,     \* those whose client answers an AYA in time while it runs
          Fds,        \* file descriptors
          maxttl,     \* polls without an answer before a client is dropped
          MaxVector,  \* bound: accept fails only while the vector is shorter
          MaxGone,    \* bound: a client disappears only while fewer are gone
          MaxSends,   \* bound: registrations sent
          MaxEvents   \* bound: events

None  == "none"     \* the owner of a free mutex, the peer of a closed descriptor
NoFd  == -1         \* the descriptor of a connection whose accept failed
Lines == {"devices", "IAA"}    \* a registration, an answer

ASSUME PushAssumption ==
    /\ None \notin Sessions
    /\ Prompt \subseteq Sessions
    /\ Fds \subseteq Nat \ {0}
    /\ maxttl \in Nat \ {0}
    /\ {MaxVector, MaxGone, MaxSends, MaxEvents} \subseteq Nat

VARIABLES
    client,      \* idle, waiting (in the backlog), running, gone, reset
    inbox,       \* lines a session has sent and nobody has read
    asked,       \* sessions that owe an answer to an AYA
    peer,        \* the session behind an open descriptor
    connections, \* the vector: fd, events (empty, filled), ttl, and the session, or
                 \* None if there is none (history)
    mutexsignal, mutexpoll,
    rpc, new,    \* do_register: where it is (dead: the process is), what it builds
    ppc, pi,     \* do_poll: where it is, its index
    spc, si,     \* do_signal
    queue,       \* events waiting for do_signal
    owed, got,   \* sessions that must get the event, that got it (history)
    nsends, nevents

register == <<rpc, new>>
poll     == <<ppc, pi>>
signal   == <<spc, si>>
served   == <<owed, got>>
clients  == <<client, inbox, asked>>
counters == <<nsends, nevents>>
vars == <<clients, peer, connections, mutexsignal, mutexpoll, register, poll, signal,
          queue, served, counters>>

Init ==
    /\ client = [s \in Sessions |-> "idle"]
    /\ inbox = [s \in Sessions |-> <<>>]
    /\ asked = {}
    /\ peer = [f \in Fds |-> None]
    /\ connections = <<>>
    /\ mutexsignal = None /\ mutexpoll = None
    /\ rpc = "accept" /\ new = <<>>
    /\ ppc = "next" /\ pi = 1
    /\ spc = "receive" /\ si = 1
    /\ queue = 0
    /\ owed = {} /\ got = <<>>
    /\ nsends = 0 /\ nevents = 0
-----------------------------------------------------------------------------
(* A client connects, registers, answers, or disappears without a word.    *)
Connect(s) ==
    /\ client[s] = "idle"
    /\ client' = [client EXCEPT ![s] = "waiting"]
    /\ UNCHANGED <<inbox, asked, peer, connections, mutexsignal, mutexpoll, register, poll,
                   signal, queue, served, counters>>

Send(s) ==
    /\ client[s] \in {"waiting", "running"} /\ nsends < MaxSends
    /\ nsends' = nsends + 1
    /\ inbox' = [inbox EXCEPT ![s] = Append(@, "devices")]
    /\ UNCHANGED <<client, asked, peer, connections, mutexsignal, mutexpoll, register, poll,
                   signal, queue, served, nevents>>

Answer(s) ==
    /\ client[s] = "running" /\ s \in asked
    /\ asked' = asked \ {s}
    /\ inbox' = [inbox EXCEPT ![s] = Append(@, "IAA")]
    /\ UNCHANGED <<client, peer, connections, mutexsignal, mutexpoll, register, poll, signal,
                   queue, served, counters>>

Disappear(s) ==
    /\ client[s] = "running"
    /\ Cardinality({t \in Sessions : client[t] \in {"gone", "reset"}}) < MaxGone
    /\ client' = [client EXCEPT ![s] = "gone"]
    /\ asked' = asked \ {s}
    /\ UNCHANGED <<inbox, peer, connections, mutexsignal, mutexpoll, register, poll, signal,
                   queue, served, counters>>

(* The socket learns that its client is gone: an answer to what was written*)
(* to it, or a timeout of the transport.                                   *)
Reset(s) ==
    /\ client[s] = "gone" /\ \E f \in Fds : peer[f] = s
    /\ client' = [client EXCEPT ![s] = "reset"]
    /\ UNCHANGED <<inbox, asked, peer, connections, mutexsignal, mutexpoll, register, poll,
                   signal, queue, served, counters>>

Event ==
    /\ nevents < MaxEvents
    /\ nevents' = nevents + 1
    /\ queue' = queue + 1
    /\ UNCHANGED <<clients, peer, connections, mutexsignal, mutexpoll, register, poll, signal,
                   served, nsends>>
-----------------------------------------------------------------------------
(* Mutant of MayRead: the timeout of select is not set, and is 0.          *)
MayReadAtOnce(s) == TRUE

(* Mutant of MayRead: select without a timeout.                            *)
MayReadForever(s) == inbox[s] # <<>>

(* read fails: nothing has arrived, and the client has reset.              *)
ReadFails(s) == inbox[s] = <<>> /\ client[s] = "reset"

(* What getJsonMessage returns: the first line of all that has arrived; or *)
(* nothing, after TOUTIAA seconds in which a prompt client would have      *)
(* answered.  A read that fails gives -1, as a size_t a large number: the  *)
(* loop leaves inbuffer and goes on to the next end of line in memory, and *)
(* what it returns may be anything.                                        *)
Received(s) ==
    IF inbox[s] # <<>> THEN {Head(inbox[s])}
    ELSE IF ReadFails(s) THEN {""} \cup Lines ELSE {""}

MayRead(s) == inbox[s] = <<>> => s \notin asked \cap Prompt

Read(s) == inbox' = [inbox EXCEPT ![s] = <<>>]

Free == {f \in Fds : peer[f] = None}

(* do_register: accept uses the lowest free descriptor.                    *)
Accept(s) ==
    LET fd == Min(Free)
    IN  /\ rpc = "accept" /\ client[s] = "waiting" /\ Free # {}
        /\ client' = [client EXCEPT ![s] = "running"]
        /\ peer' = [peer EXCEPT ![fd] = s]
        /\ new' = <<[fd |-> fd, events |-> "empty", ttl |-> maxttl, session |-> s]>>
        /\ rpc' = "read"
        /\ UNCHANGED <<inbox, asked, connections, mutexsignal, mutexpoll, poll, signal, queue,
                       served, counters>>

(* accept fails at once when no descriptor is free, whether a client waits *)
(* or not, or with a client that gave up in the backlog.  Its -1 becomes a *)
(* PushConnection like the others, which reads nothing.                    *)
AcceptFails ==
    /\ rpc = "accept" /\ Len(connections) < MaxVector
    /\ \/ Free = {} /\ UNCHANGED client
       \/ \E s \in Sessions : /\ client[s] = "waiting"
                              /\ client' = [client EXCEPT ![s] = "gone"]
    /\ new' = <<[fd |-> NoFd, events |-> "empty", ttl |-> maxttl, session |-> None]>>
    /\ rpc' = "insert"
    /\ UNCHANGED <<inbox, asked, peer, connections, mutexsignal, mutexpoll, poll, signal, queue,
                   served, counters>>

(* The constructor of PushConnection waits for a registration, with no     *)
(* mutex held, and goes on without one.                                    *)
ReadRegistration ==
    /\ rpc = "read"
    /\ LET s == new[1].session
       IN  /\ \E line \in Received(s) :
                 new' = <<[new[1] EXCEPT !.events = IF line = "devices" THEN "filled" ELSE @]>>
           /\ Read(s)
    /\ rpc' = "insert"
    /\ UNCHANGED <<client, asked, peer, connections, mutexsignal, mutexpoll, poll, signal, queue,
                   served, counters>>

(* clientInsert takes mutexsignal, then mutexpoll.                         *)
InsertLock ==
    /\ rpc = "insert" /\ mutexsignal = None
    /\ mutexsignal' = "register"
    /\ rpc' = "push"
    /\ UNCHANGED <<clients, peer, connections, mutexpoll, new, poll, signal, queue, served,
                   counters>>

Insert ==
    /\ rpc = "push" /\ mutexpoll = None
    /\ connections' = connections \o new
    /\ new' = <<>>
    /\ mutexsignal' = None
    /\ rpc' = "page"
    /\ UNCHANGED <<clients, peer, mutexpoll, poll, signal, queue, served, counters>>

(* updateStatusPage describes the last connection, with no mutex held.     *)
updateStatusPage ==
    /\ rpc = "page"
    /\ rpc' = "accept"
    /\ UNCHANGED <<clients, peer, connections, mutexsignal, mutexpoll, new, poll, signal, queue,
                   served, counters>>
-----------------------------------------------------------------------------
(* do_poll: AYAsend goes through the vector, reading its size without a    *)
(* mutex; only this thread makes it shorter.  The sleep of pollperiod      *)
(* seconds comes before the first element.                                 *)
PollNext ==
    /\ ppc = "next"
    /\ ppc' = IF pi <= Len(connections) THEN "send" ELSE "clear"
    /\ UNCHANGED <<clients, peer, connections, mutexsignal, mutexpoll, register, pi, signal,
                   queue, served, counters>>

(* shutDown: close(-1) does nothing.                                       *)
Close(fd) == peer' = [f \in Fds |-> IF f = fd THEN None ELSE peer[f]]

(* Mutant of SendFailed: the descriptor is closed at once.                 *)
SendFailedClosing ==
    /\ connections' = [connections EXCEPT ![pi] = [@ EXCEPT !.ttl = -1]]
    /\ Close(connections[pi].fd)

(* The write failed, and the connection has no time left.                  *)
SendFailed ==
    /\ connections' = [connections EXCEPT ![pi] = [@ EXCEPT !.ttl = -1]]
    /\ UNCHANGED peer

(* A write fails without a socket, or when the client has reset; it still  *)
(* succeeds for one that is only gone.                                     *)
AYAsend ==
    LET fd    == connections[pi].fd
        fails == IF fd = NoFd THEN TRUE ELSE client[peer[fd]] = "reset"
    IN  /\ ppc = "send" /\ mutexpoll = None
        /\ \/ /\ fails
              /\ SendFailed
              /\ ppc' = "next" /\ pi' = pi + 1
              /\ UNCHANGED <<mutexpoll, asked>>
           \/ /\ ~fails
              /\ mutexpoll' = "poll"
              /\ asked' = IF client[peer[fd]] = "running" THEN asked \cup {peer[fd]} ELSE asked
              /\ ppc' = "wait"
              /\ UNCHANGED <<connections, peer, pi>>
        /\ UNCHANGED <<client, inbox, mutexsignal, register, signal, queue, served, counters>>

(* Mutant of TtlAfter: what could be sent counts as an answer.             *)
TtlSent(line, ttl) == maxttl

(* The ttl after IAAreceive has read a line: a registration is an answer.  *)
TtlAfter(line, ttl) == IF line \in {"IAA", "devices"} THEN maxttl ELSE ttl - 1

(* IAAreceive; a registration first clears the events.                     *)
IAAreceive ==
    LET c == connections[pi]
        s == peer[c.fd]
    IN  /\ ppc = "wait" /\ MayRead(s)
        /\ Read(s)
        /\ \E line \in Received(s) :
              /\ connections' = [connections EXCEPT ![pi] =
                     [c EXCEPT !.ttl = TtlAfter(line, c.ttl),
                               !.events = IF line = "devices" THEN "empty" ELSE c.events]]
              /\ IF line = "devices"
                 THEN /\ ppc' = "fill" /\ owed' = owed \ {c.session}
                      /\ UNCHANGED <<mutexpoll, pi>>
                 ELSE /\ ppc' = "next" /\ pi' = pi + 1 /\ mutexpoll' = None
                      /\ UNCHANGED owed
        /\ UNCHANGED <<client, asked, peer, mutexsignal, register, signal, queue, got, counters>>

getRegistration ==
    /\ ppc = "fill"
    /\ connections' = [connections EXCEPT ![pi] = [@ EXCEPT !.events = "filled"]]
    /\ ppc' = "next" /\ pi' = pi + 1 /\ mutexpoll' = None
    /\ UNCHANGED <<clients, peer, mutexsignal, register, signal, queue, served, counters>>

(* Mutant of ClearLock: mutexpoll is believed to be enough.                *)
ClearUnlocked ==
    /\ ppc = "clear"
    /\ ppc' = "erase"
    /\ UNCHANGED <<clients, peer, connections, mutexsignal, mutexpoll, register, pi, signal,
                   queue, served, counters>>

(* clearExpired takes mutexsignal, then mutexpoll, and removes at most one.*)
ClearLock ==
    /\ ppc = "clear" /\ mutexsignal = None
    /\ mutexsignal' = "poll"
    /\ ppc' = "erase"
    /\ UNCHANGED <<clients, peer, connections, mutexpoll, register, pi, signal, queue, served,
                   counters>>

Erase ==
    LET expired == {i \in DOMAIN connections : connections[i].ttl <= 0}
        first   == Min(expired)
    IN  /\ ppc = "erase" /\ mutexpoll = None
        /\ IF expired = {} THEN UNCHANGED <<connections, peer>>
           ELSE /\ Close(connections[first].fd)
                /\ connections' = RemoveAt(connections, first)
        /\ mutexsignal' = None
        /\ ppc' = "next" /\ pi' = 1
        /\ UNCHANGED <<clients, mutexpoll, register, signal, queue, served, counters>>
-----------------------------------------------------------------------------
(* do_signal: notifyEvent holds mutexsignal while it goes through the      *)
(* vector.                                                                 *)
SignalLock ==
    /\ spc = "receive" /\ queue > 0 /\ mutexsignal = None
    /\ mutexsignal' = "signal"
    /\ spc' = "notify"
    /\ owed' = {connections[i].session : i \in {j \in DOMAIN connections : connections[j].events = "filled"}}
    /\ UNCHANGED <<clients, peer, connections, mutexpoll, register, poll, si, queue, got, counters>>

Notify ==
    /\ spc = "notify" /\ si <= Len(connections)
    /\ got' = IF connections[si].events = "filled"
              THEN Append(got, peer[connections[si].fd]) ELSE got
    /\ si' = si + 1
    /\ UNCHANGED <<clients, peer, connections, mutexsignal, mutexpoll, register, poll, spc, queue,
                   owed, counters>>

SignalUnlock ==
    /\ spc = "notify" /\ si > Len(connections)
    /\ mutexsignal' = None
    /\ spc' = "receive" /\ si' = 1
    /\ queue' = queue - 1
    /\ owed' = {} /\ got' = <<>>
    /\ UNCHANGED <<clients, peer, connections, mutexpoll, register, poll, counters>>

-----------------------------------------------------------------------------
(* The other end of a read that fails, in either thread, and of the status *)
(* page when the only connection has been erased: the code reads outside   *)
(* inbuffer, or connections[-1], and the process is killed.                *)
Overrun ==
    /\ \/ rpc = "read" /\ ReadFails(new[1].session)
       \/ ppc = "wait" /\ ReadFails(connections[pi].session)
       \/ rpc = "page" /\ connections = <<>>
    /\ rpc' = "dead" /\ ppc' = "dead" /\ spc' = "dead"
    /\ mutexsignal' = None /\ mutexpoll' = None
    /\ UNCHANGED <<clients, peer, connections, new, pi, si, queue, served, counters>>

Register == \/ \E s \in Sessions : Accept(s)
            \/ AcceptFails \/ ReadRegistration \/ InsertLock \/ Insert \/ updateStatusPage
Poll     == PollNext \/ AYAsend \/ IAAreceive \/ getRegistration \/ ClearLock \/ Erase
Signal   == SignalLock \/ Notify \/ SignalUnlock

Next ==
    \/ \E s \in Sessions : Connect(s) \/ Send(s) \/ Answer(s) \/ Disappear(s) \/ Reset(s)
    \/ Event \/ Register \/ Poll \/ Signal \/ Overrun

(* The three threads run, and a prompt client answers.  A thread that      *)
(* waits for a mutex gets it in the end: do_poll, which takes both again   *)
(* and again, sleeps pollperiod seconds in between.                        *)
Fairness ==
    /\ WF_vars(Register) /\ WF_vars(Poll) /\ WF_vars(Signal)
    /\ SF_vars(InsertLock) /\ SF_vars(Insert) /\ SF_vars(ClearLock) /\ SF_vars(SignalLock)
    /\ \A s \in Prompt : WF_vars(Answer(s))

Spec == Init /\ [][Next]_vars /\ Fairness
-----------------------------------------------------------------------------
(* Every connection of the vector owns its descriptor, which is open and   *)
(* leads to the client it was accepted for, although accept reuses the     *)
(* numbers that clearExpired closes (PushThread.cpp:71, 110).  One made of *)
(* a failed accept has no client, and is registered for nothing.           *)
OwnSocket ==
    \A i, j \in DOMAIN connections :
        LET c == connections[i]
        IN  IF c.fd = NoFd THEN c.session = None /\ c.events = "empty"
            ELSE /\ c.session \in Sessions /\ peer[c.fd] = c.session
                 /\ i # j => c.fd # connections[j].fd

(* When notifyEvent has gone through the vector, every client registered   *)
(* all the while got the event, and nobody got it twice, whatever was      *)
(* inserted, re-registered or dropped meanwhile (PushThread.cpp:138-145).  *)
EveryoneOnce ==
    spc = "notify" /\ si > Len(connections) =>
        /\ owed \subseteq ToSet(got)
        /\ IsInjective(got)

(* A client that answers in time is never dropped, even when its answer is *)
(* thrown away behind a registration (PushConnection.cpp:102-110).         *)
AnsweringStays ==
    \A i \in DOMAIN connections :
        LET s == connections[i].session
        IN  s \in Prompt /\ client[s] = "running" => connections[i].ttl > 0

(* A client that is gone is dropped in the end and its descriptor closed,  *)
(* though at most one is removed in a poll (PushThread.cpp:103-116) and    *)
(* accept may fill the vector with connections of no client; unless a read *)
(* that failed, or the status page, has killed the process.                *)
GoneIsDropped ==
    []<>(\/ rpc = "dead"
         \/ \A f \in Fds : peer[f] # None => client[peer[f]] \notin {"gone", "reset"})

(* do_signal always gets through its events while the process lives: the   *)
(* two mutexes are never waited for in a circle (PushThread.cpp:84-85, 92, *)
(* 106-107, 139).                                                          *)
SignalsGoOn == []<>(queue = 0 \/ spc = "dead")
=============================================================================
