------------------------ MODULE RpcWaitTableProofs --------------------------
(***************************************************************************)
(* Proofs about RpcWaitTable, for any number of HTTP threads, any MAXTAG,  *)
(* any RPC_TIMEOUT and any values of the bounds.                           *)
(***************************************************************************)
EXTENDS RpcWaitTable, TLAPS

(* The entries of the table and the commands still at a device: what a tag *)
(* is looked up for.                                                       *)
Live == pending \cup inflight

(* The tag of a live call is the number of calls made since, counted back  *)
(* from tagSequence around the circle of MAXTAG + 1 tags, and no live call *)
(* is a full turn old.                                                     *)
TagInv ==
    \A k \in Live :
        /\ ncalls + 1 - k <= MAXTAG + 1
        /\ \/ tag[k] = tagSequence - (ncalls + 1 - k)
           \/ tag[k] = tagSequence - (ncalls + 1 - k) + MAXTAG + 1

(* A thread that serves a registered call has its entry in the table, and  *)
(* waits on that one; two threads never serve the same call.               *)
ServeInv ==
    /\ \A t \in Callers :
          /\ pc[t] \in {"registered", "waiting", "clearing"} => call[t] \in pending
          /\ pc[t] = "notified" => call[t] = 0 \/ call[t] \in pending
          /\ pc[t] = "idle" => call[t] = 0
          /\ pc[t] \in {"waiting", "clearing"} => entry[t] = call[t]
    /\ \A t, u \in Callers : t # u /\ call[t] = call[u] => call[t] = 0

(* A message in the queue of call k, or taken from it, is about call k.    *)
About(m, k) == m.call = k /\ (m.kind = "timeout" => age[k] > RPC_TIMEOUT)

QueueInv == \A k \in Calls : \A i \in DOMAIN queue[k] : About(queue[k][i], k)

AnswerInv ==
    \A t \in Callers : pc[t] = "clearing" => answer[t] \in Reply /\ About(answer[t], call[t])

OverdueInv == \A k \in overdue : k \in Calls /\ age[k] > RPC_TIMEOUT

ResultInv == \A k \in Calls : result[k] = NONE \/ (result[k] \in Reply /\ About(result[k], k))

IInv ==
    /\ TypeOK
    /\ TagInv
    /\ ServeInv
    /\ PendingIsServed
    /\ QueueInv
    /\ AnswerInv
    /\ OverdueInv
    /\ ResultInv
-----------------------------------------------------------------------------
(* Two live calls never have the same tag.                                 *)
LEMMA LiveTagsDistinct ==
    ASSUME TypeOK, TagInv, NEW j \in Live, NEW k \in Live, tag[j] = tag[k]
    PROVE  j = k
<1>1. /\ j \in 1..ncalls /\ k \in 1..ncalls /\ ncalls \in Nat
      /\ tagSequence \in Int /\ MAXTAG \in Nat
  BY RpcAssumption DEF RpcAssumption, TypeOK, TableOK, OthersOK, Live
<1>2. /\ ncalls + 1 - j <= MAXTAG + 1 /\ ncalls + 1 - k <= MAXTAG + 1
      /\ \/ tag[j] = tagSequence - (ncalls + 1 - j)
         \/ tag[j] = tagSequence - (ncalls + 1 - j) + MAXTAG + 1
      /\ \/ tag[k] = tagSequence - (ncalls + 1 - k)
         \/ tag[k] = tagSequence - (ncalls + 1 - k) + MAXTAG + 1
  BY DEF TagInv
<1> QED
  BY <1>1, <1>2

(* The first pending entry with the tag of a live call is that call's.     *)
LEMMA FirstIsOwn ==
    ASSUME TypeOK, TagInv, NEW j \in Calls, NEW k \in Live, IsFirst(j, tag[k])
    PROVE  j = k
BY LiveTagsDistinct DEF IsFirst, Live

(* Appending to a queue keeps what holds of every message in it.           *)
LEMMA AppendAbout ==
    ASSUME NEW k, NEW q \in Seq(Reply), NEW m \in Reply, About(m, k),
           \A i \in DOMAIN q : About(q[i], k)
    PROVE  \A i \in DOMAIN Append(q, m) : About(Append(q, m)[i], k)
OBVIOUS

(* Removing the first message of a queue keeps what holds of every one.    *)
LEMMA TailAbout ==
    ASSUME NEW k, NEW q \in Seq(Reply), q # <<>>, \A i \in DOMAIN q : About(q[i], k)
    PROVE  /\ Head(q) \in Reply /\ About(Head(q), k)
           /\ Tail(q) \in Seq(Reply)
           /\ \A i \in DOMAIN Tail(q) : About(Tail(q)[i], k)
OBVIOUS
-----------------------------------------------------------------------------
(* The numbers and shapes of the variables, group by group.                *)
LEMMA TableStep == IInv /\ [Next]_vars => TableOK'
<1> SUFFICES ASSUME IInv, [Next]_vars
             PROVE  TableOK'
  OBVIOUS
<1> USE RpcAssumption DEF RpcAssumption, Calls, IInv, TypeOK, TableOK, table, threads, device, clock
<1>1. ASSUME NEW t \in Callers, callRegister(t)
      PROVE  TableOK'
  BY <1>1 DEF callRegister, NextTag
<1>2. ASSUME NEW t \in Callers, unknownSubject(t)
      PROVE  TableOK'
  BY <1>2 DEF unknownSubject
<1>3. ASSUME NEW t \in Callers, notify(t)
      PROVE  TableOK'
  BY <1>3 DEF notify
<1>4. ASSUME NEW t \in Callers, getEntry(t)
      PROVE  TableOK'
  BY <1>4 DEF getEntry
<1>5. ASSUME NEW t \in Callers, noEntry(t)
      PROVE  TableOK'
  BY <1>5 DEF noEntry
<1>6. ASSUME NEW t \in Callers, receive(t)
      PROVE  TableOK'
  BY <1>6 DEF receive
<1>7. ASSUME NEW t \in Callers, clearEntry(t)
      PROVE  TableOK'
  BY <1>7 DEF clearEntry
<1>8. ASSUME NEW k \in Calls, signal(k)
      PROVE  TableOK'
  BY <1>8 DEF signal
<1>9. ASSUME NEW k \in Calls, deviceDone(k)
      PROVE  TableOK'
  BY <1>9 DEF deviceDone
<1>10. CASE checkTimeOutRead
  BY <1>10 DEF checkTimeOutRead
<1>11. CASE checkTimeOut
  BY <1>11 DEF checkTimeOut
<1>12. CASE Tick
  BY <1>12 DEF Tick
<1>13. CASE setStatus
  BY <1>13 DEF setStatus
<1>14. CASE UNCHANGED vars
  BY <1>14 DEF vars
<1> QED
  BY <1>1, <1>2, <1>3, <1>4, <1>5, <1>6, <1>7, <1>8, <1>9, <1>10, <1>11, <1>12, <1>13, <1>14 DEF Next, Caller

(* Entries: addRequest and clearEntry keep the entries well formed.        *)
LEMMA EntriesStep == IInv /\ [Next]_vars => EntriesOK'
<1> SUFFICES ASSUME IInv, [Next]_vars
             PROVE  EntriesOK'
  OBVIOUS
<1> USE RpcAssumption DEF RpcAssumption, Calls, EntriesOK, table, threads, device, clock
<1>0. EntriesOK
  BY DEF IInv, TypeOK
<1>a. TypeOK /\ ServeInv
  BY DEF IInv
<1>b. \A u \in Callers : pc[u] \in {"registered", "waiting", "clearing"} => call[u] \in 1..ncalls
  BY <1>a DEF ServeInv, TypeOK, TableOK
<1>c. \A u \in Callers : pc[u] \in {"waiting", "clearing"} => entry[u] = call[u]
  BY <1>a DEF ServeInv
<1>d. \A u \in Callers : pc[u] = "clearing" => answer[u] \in Reply
  BY DEF IInv, AnswerInv
<1>1. ASSUME NEW t \in Callers, callRegister(t)
      PROVE  EntriesOK'
  BY <1>1, <1>0 DEF callRegister
<1>2. ASSUME NEW t \in Callers, unknownSubject(t)
      PROVE  EntriesOK'
  BY <1>2, <1>0 DEF unknownSubject
<1>3. ASSUME NEW t \in Callers, notify(t)
      PROVE  EntriesOK'
  BY <1>3, <1>0 DEF notify
<1>4. ASSUME NEW t \in Callers, getEntry(t)
      PROVE  EntriesOK'
  BY <1>4, <1>0 DEF getEntry
<1>5. ASSUME NEW t \in Callers, noEntry(t)
      PROVE  EntriesOK'
  BY <1>5, <1>0, <1>a DEF noEntry, TypeOK, TableOK, ThreadsOK
<1>6. ASSUME NEW t \in Callers, receive(t)
      PROVE  EntriesOK'
  <2>a. entry[t] \in Calls
    BY <1>6, <1>0, <1>a, <1>b, <1>c DEF receive, TypeOK, TableOK
  <2>b. Tail(queue[entry[t]]) \in Seq(Reply)
    BY <1>6, <1>0, <2>a DEF receive
  <2> QED
    BY <1>6, <1>0, <2>a, <2>b DEF receive
<1>7. ASSUME NEW t \in Callers, clearEntry(t)
      PROVE  EntriesOK'
  <2>z. <<>> \in Seq(Reply)
    OBVIOUS
  <2>a. queue' \in [Calls -> Seq(Reply)]
    BY <1>7, <1>0, <2>z DEF clearEntry
  <2>b. result' \in [0..MaxCalls -> Reply \cup {NONE, NO_ENTRY}]
    BY <1>7, <1>0, <1>d DEF clearEntry
  <2> QED
    BY <1>7, <1>0, <2>a, <2>b DEF clearEntry
<1>8. ASSUME NEW k \in Calls, signal(k)
      PROVE  EntriesOK'
  <2>a. Answer(k) \in Reply
    BY DEF Answer, Reply
  <2> QED
    BY <1>8, <1>0, <2>a DEF signal
<1>9. ASSUME NEW k \in Calls, deviceDone(k)
      PROVE  EntriesOK'
  BY <1>9, <1>0 DEF deviceDone
<1>10. CASE checkTimeOutRead
  BY <1>10, <1>0 DEF checkTimeOutRead
<1>11. CASE checkTimeOut
  <2>a. \A k \in Calls : mkComplain(k) \in Reply
    BY DEF mkComplain, Reply
  <2>b. queue' \in [Calls -> Seq(Reply)]
    BY <1>11, <1>0, <2>a DEF checkTimeOut
  <2> QED
    BY <1>11, <1>0, <2>b DEF checkTimeOut
<1>12. CASE Tick
  BY <1>12, <1>0 DEF Tick
<1>13. CASE setStatus
  BY <1>13, <1>0 DEF setStatus
<1>14. CASE UNCHANGED vars
  BY <1>14, <1>0 DEF vars
<1> QED
  BY <1>1, <1>2, <1>3, <1>4, <1>5, <1>6, <1>7, <1>8, <1>9, <1>10, <1>11, <1>12, <1>13, <1>14 DEF Next, Caller

(* Threads: every step leaves each HTTP thread at a known place.           *)
LEMMA ThreadsStep == IInv /\ [Next]_vars => ThreadsOK'
<1> SUFFICES ASSUME IInv, [Next]_vars
             PROVE  ThreadsOK'
  OBVIOUS
<1> USE RpcAssumption DEF RpcAssumption, Calls, ThreadsOK, table, threads, device, clock
<1>0. ThreadsOK
  BY DEF IInv, TypeOK
<1>a. TypeOK /\ ServeInv
  BY DEF IInv
<1>b. \A u \in Callers : pc[u] \in {"registered", "waiting", "clearing"} => call[u] \in 1..ncalls
  BY <1>a DEF ServeInv, TypeOK, TableOK
<1>c. \A u \in Callers : pc[u] \in {"waiting", "clearing"} => entry[u] = call[u]
  BY <1>a DEF ServeInv
<1>1. ASSUME NEW t \in Callers, callRegister(t)
      PROVE  ThreadsOK'
  BY <1>1, <1>0, <1>a DEF callRegister, TypeOK, TableOK
<1>2. ASSUME NEW t \in Callers, unknownSubject(t)
      PROVE  ThreadsOK'
  BY <1>2, <1>0, <1>a DEF unknownSubject, TypeOK, TableOK
<1>3. ASSUME NEW t \in Callers, notify(t)
      PROVE  ThreadsOK'
  BY <1>3, <1>0 DEF notify
<1>4. ASSUME NEW t \in Callers, getEntry(t)
      PROVE  ThreadsOK'
  BY <1>4, <1>0, <1>a DEF getEntry, TypeOK, TableOK
<1>5. ASSUME NEW t \in Callers, noEntry(t)
      PROVE  ThreadsOK'
  BY <1>5, <1>0, <1>a DEF noEntry, TypeOK, TableOK
<1>6. ASSUME NEW t \in Callers, receive(t)
      PROVE  ThreadsOK'
  <2>a. entry[t] \in Calls
    BY <1>6, <1>0, <1>a, <1>b, <1>c DEF receive, TypeOK, TableOK
  <2>b. Head(queue[entry[t]]) \in Reply
    BY <1>6, <1>0, <1>a, <2>a DEF receive, TypeOK, EntriesOK
  <2> QED
    BY <1>6, <1>0, <2>b DEF receive
<1>7. ASSUME NEW t \in Callers, clearEntry(t)
      PROVE  ThreadsOK'
  BY <1>7, <1>0, <1>a DEF clearEntry, TypeOK, TableOK
<1>8. ASSUME NEW k \in Calls, signal(k)
      PROVE  ThreadsOK'
  BY <1>8, <1>0 DEF signal
<1>9. ASSUME NEW k \in Calls, deviceDone(k)
      PROVE  ThreadsOK'
  BY <1>9, <1>0 DEF deviceDone
<1>10. CASE checkTimeOutRead
  BY <1>10, <1>0 DEF checkTimeOutRead
<1>11. CASE checkTimeOut
  BY <1>11, <1>0 DEF checkTimeOut
<1>12. CASE Tick
  BY <1>12, <1>0 DEF Tick
<1>13. CASE setStatus
  BY <1>13, <1>0 DEF setStatus
<1>14. CASE UNCHANGED vars
  BY <1>14, <1>0 DEF vars
<1> QED
  BY <1>1, <1>2, <1>3, <1>4, <1>5, <1>6, <1>7, <1>8, <1>9, <1>10, <1>11, <1>12, <1>13, <1>14 DEF Next, Caller

(* The devices, the trigger thread and the status keep their types.        *)
LEMMA OthersStep == IInv /\ [Next]_vars => OthersOK'
<1> SUFFICES ASSUME IInv, [Next]_vars
             PROVE  OthersOK'
  OBVIOUS
<1> USE RpcAssumption DEF RpcAssumption, Calls, OthersOK, table, threads, device, clock
<1>0. OthersOK
  BY DEF IInv, TypeOK
<1>a. TypeOK /\ ServeInv
  BY DEF IInv
<1>b. \A u \in Callers : pc[u] \in {"registered", "waiting", "clearing"} => call[u] \in 1..ncalls
  BY <1>a DEF ServeInv, TypeOK, TableOK
<1>c. \A u \in Callers : pc[u] \in {"waiting", "clearing"} => entry[u] = call[u]
  BY <1>a DEF ServeInv
<1>1. ASSUME NEW t \in Callers, callRegister(t)
      PROVE  OthersOK'
  BY <1>1, <1>0, <1>a DEF callRegister, TypeOK, TableOK
<1>2. ASSUME NEW t \in Callers, unknownSubject(t)
      PROVE  OthersOK'
  BY <1>2, <1>0 DEF unknownSubject
<1>3. ASSUME NEW t \in Callers, notify(t)
      PROVE  OthersOK'
  BY <1>3, <1>0, <1>b DEF notify
<1>4. ASSUME NEW t \in Callers, getEntry(t)
      PROVE  OthersOK'
  BY <1>4, <1>0 DEF getEntry
<1>5. ASSUME NEW t \in Callers, noEntry(t)
      PROVE  OthersOK'
  BY <1>5, <1>0 DEF noEntry
<1>6. ASSUME NEW t \in Callers, receive(t)
      PROVE  OthersOK'
  BY <1>6, <1>0 DEF receive
<1>7. ASSUME NEW t \in Callers, clearEntry(t)
      PROVE  OthersOK'
  BY <1>7, <1>0 DEF clearEntry
<1>8. ASSUME NEW k \in Calls, signal(k)
      PROVE  OthersOK'
  BY <1>8, <1>0 DEF signal
<1>9. ASSUME NEW k \in Calls, deviceDone(k)
      PROVE  OthersOK'
  BY <1>9, <1>0 DEF deviceDone
<1>10. CASE checkTimeOutRead
  BY <1>10, <1>0, <1>a DEF checkTimeOutRead, TypeOK, TableOK
<1>11. CASE checkTimeOut
  BY <1>11, <1>0 DEF checkTimeOut
<1>12. CASE Tick
  BY <1>12, <1>0 DEF Tick
<1>13. CASE setStatus
  BY <1>13, <1>0 DEF setStatus
<1>14. CASE UNCHANGED vars
  BY <1>14, <1>0 DEF vars
<1> QED
  BY <1>1, <1>2, <1>3, <1>4, <1>5, <1>6, <1>7, <1>8, <1>9, <1>10, <1>11, <1>12, <1>13, <1>14 DEF Next, Caller
-----------------------------------------------------------------------------
(* Tags: a registration turns the circle by one, and the window guarantees *)
(* that no live call is overtaken.                                         *)
LEMMA TagStep == IInv /\ [Next]_vars => TagInv'
<1> SUFFICES ASSUME IInv, [Next]_vars
             PROVE  TagInv'
  OBVIOUS
<1> USE RpcAssumption DEF RpcAssumption, Calls, Calls, table, threads, device, clock
<1>a. TypeOK /\ TagInv /\ ServeInv
  BY DEF IInv
<1>b. \A u \in Callers : pc[u] \in {"registered", "waiting", "clearing"} => call[u] \in pending
  BY <1>a DEF ServeInv
<1>c. ncalls \in Nat /\ tagSequence \in 0..MAXTAG /\ Live \subseteq 1..ncalls /\ pending \subseteq Calls
  BY <1>a DEF TypeOK, TableOK, OthersOK, Live
<1>1. ASSUME NEW t \in Callers, callRegister(t)
      PROVE  TagInv'
  <2> SUFFICES ASSUME NEW k \in Live'
               PROVE  /\ ncalls' + 1 - k <= MAXTAG + 1
                      /\ \/ tag'[k] = tagSequence' - (ncalls' + 1 - k)
                         \/ tag'[k] = tagSequence' - (ncalls' + 1 - k) + MAXTAG + 1
    BY DEF TagInv
  <2>a. ncalls' = ncalls + 1 /\ (k \in Live \/ k = ncalls + 1)
    BY <1>1 DEF callRegister, Live
  <2>b. tagSequence' = IF tagSequence + 1 > MAXTAG THEN 0 ELSE tagSequence + 1
    BY <1>1 DEF callRegister, NextTag
  <2>c. CASE k = ncalls + 1
    <3>1. tag'[k] = tagSequence
      BY <1>1, <2>c, <1>a DEF callRegister, TypeOK, TableOK
    <3> QED
      BY <2>a, <2>b, <2>c, <3>1, <1>c
  <2>d. CASE k \in Live
    <3>1. k \in 1..ncalls
      BY <2>d, <1>c
    <3>2. tag'[k] = tag[k] /\ ncalls + 1 - k <= MAXTAG
      BY <1>1, <2>d, <3>1, <1>a DEF callRegister, TypeOK, TableOK, TagWindow, Live
    <3>3. \/ tag[k] = tagSequence - (ncalls + 1 - k)
          \/ tag[k] = tagSequence - (ncalls + 1 - k) + MAXTAG + 1
      BY <2>d, <1>a DEF TagInv
    <3>4. tag[k] \in 0..MAXTAG
      BY <3>1, <1>a DEF TypeOK, TableOK
    <3>5. CASE tagSequence + 1 > MAXTAG
      BY <2>a, <2>b, <3>1, <3>2, <3>3, <3>4, <3>5, <1>c
    <3>6. CASE ~(tagSequence + 1 > MAXTAG)
      BY <2>a, <2>b, <3>1, <3>2, <3>3, <3>4, <3>6, <1>c
    <3> QED
      BY <3>5, <3>6
  <2> QED
    BY <2>a, <2>c, <2>d
<1>2. ASSUME NEW t \in Callers, unknownSubject(t)
      PROVE  TagInv'
  <2>a. Live' \subseteq Live /\ UNCHANGED <<tag, ncalls, tagSequence>>
    BY <1>2, <1>b DEF unknownSubject, Live
  <2> QED
    BY <2>a, <1>a DEF TagInv
<1>3. ASSUME NEW t \in Callers, notify(t)
      PROVE  TagInv'
  <2>a. Live' \subseteq Live /\ UNCHANGED <<tag, ncalls, tagSequence>>
    BY <1>3, <1>b DEF notify, Live
  <2> QED
    BY <2>a, <1>a DEF TagInv
<1>4. ASSUME NEW t \in Callers, getEntry(t)
      PROVE  TagInv'
  <2>a. Live' \subseteq Live /\ UNCHANGED <<tag, ncalls, tagSequence>>
    BY <1>4, <1>b DEF getEntry, Live
  <2> QED
    BY <2>a, <1>a DEF TagInv
<1>5. ASSUME NEW t \in Callers, noEntry(t)
      PROVE  TagInv'
  <2>a. Live' \subseteq Live /\ UNCHANGED <<tag, ncalls, tagSequence>>
    BY <1>5, <1>b DEF noEntry, Live
  <2> QED
    BY <2>a, <1>a DEF TagInv
<1>6. ASSUME NEW t \in Callers, receive(t)
      PROVE  TagInv'
  <2>a. Live' \subseteq Live /\ UNCHANGED <<tag, ncalls, tagSequence>>
    BY <1>6, <1>b DEF receive, Live
  <2> QED
    BY <2>a, <1>a DEF TagInv
<1>7. ASSUME NEW t \in Callers, clearEntry(t)
      PROVE  TagInv'
  <2>a. Live' \subseteq Live /\ UNCHANGED <<tag, ncalls, tagSequence>>
    BY <1>7, <1>b DEF clearEntry, Live
  <2> QED
    BY <2>a, <1>a DEF TagInv
<1>8. ASSUME NEW k \in Calls, signal(k)
      PROVE  TagInv'
  <2>a. Live' \subseteq Live /\ UNCHANGED <<tag, ncalls, tagSequence>>
    BY <1>8, <1>b DEF signal, Live
  <2> QED
    BY <2>a, <1>a DEF TagInv
<1>9. ASSUME NEW k \in Calls, deviceDone(k)
      PROVE  TagInv'
  <2>a. Live' \subseteq Live /\ UNCHANGED <<tag, ncalls, tagSequence>>
    BY <1>9, <1>b DEF deviceDone, Live
  <2> QED
    BY <2>a, <1>a DEF TagInv
<1>10. CASE checkTimeOutRead
  <2>a. Live' \subseteq Live /\ UNCHANGED <<tag, ncalls, tagSequence>>
    BY <1>10, <1>b DEF checkTimeOutRead, Live
  <2> QED
    BY <2>a, <1>a DEF TagInv
<1>11. CASE checkTimeOut
  <2>a. Live' \subseteq Live /\ UNCHANGED <<tag, ncalls, tagSequence>>
    BY <1>11, <1>b DEF checkTimeOut, Live
  <2> QED
    BY <2>a, <1>a DEF TagInv
<1>12. CASE Tick
  <2>a. Live' \subseteq Live /\ UNCHANGED <<tag, ncalls, tagSequence>>
    BY <1>12, <1>b DEF Tick, Live
  <2> QED
    BY <2>a, <1>a DEF TagInv
<1>13. CASE setStatus
  <2>a. Live' \subseteq Live /\ UNCHANGED <<tag, ncalls, tagSequence>>
    BY <1>13, <1>b DEF setStatus, Live
  <2> QED
    BY <2>a, <1>a DEF TagInv
<1>14. CASE UNCHANGED vars
  BY <1>14 DEF vars, Live, TagInv, IInv
<1> QED
  BY <1>1, <1>2, <1>3, <1>4, <1>5, <1>6, <1>7, <1>8, <1>9, <1>10, <1>11, <1>12, <1>13, <1>14 DEF Next, Caller

(* Threads: a thread waits on its own entry because the tag finds it.      *)
LEMMA ServeStep == IInv /\ [Next]_vars => ServeInv'
<1> SUFFICES ASSUME IInv, [Next]_vars
             PROVE  ServeInv'
  OBVIOUS
<1> USE RpcAssumption DEF RpcAssumption, Calls, Calls, table, threads, device, clock
<1>a. TypeOK /\ TagInv /\ ServeInv
  BY DEF IInv
<1>b. \A u \in Callers : pc[u] \in {"registered", "waiting", "clearing"} => call[u] \in pending
  BY <1>a DEF ServeInv
<1>c. ncalls \in Nat /\ tagSequence \in 0..MAXTAG /\ Live \subseteq 1..ncalls /\ pending \subseteq Calls
  BY <1>a DEF TypeOK, TableOK, OthersOK, Live
<1>1. ASSUME NEW t \in Callers, callRegister(t)
      PROVE  ServeInv'
  <2>a. \A u \in Callers : call[u] # ncalls + 1
    BY <1>a, <1>c DEF TypeOK, ThreadsOK
  <2> QED
    BY <1>1, <2>a, <1>a DEF callRegister, ServeInv, TypeOK, ThreadsOK
<1>2. ASSUME NEW t \in Callers, unknownSubject(t)
      PROVE  ServeInv'
  BY <1>2, <1>a DEF unknownSubject, ServeInv, TypeOK, ThreadsOK
<1>3. ASSUME NEW t \in Callers, notify(t)
      PROVE  ServeInv'
  BY <1>3, <1>a DEF notify, ServeInv, TypeOK, ThreadsOK
<1>4. ASSUME NEW t \in Callers, getEntry(t)
      PROVE  ServeInv'
  <2>a. call[t] \in pending
    BY <1>4, <1>a DEF getEntry, ServeInv
  <2>b. PICK k \in pending : IsFirst(k, tag[call[t]]) /\ entry' = [entry EXCEPT ![t] = k]
    BY <1>4 DEF getEntry
  <2>c. k = call[t]
    BY <2>a, <2>b, <1>a, <1>c, FirstIsOwn DEF Live
  <2> QED
    BY <1>4, <2>a, <2>b, <2>c, <1>a DEF getEntry, ServeInv, TypeOK, ThreadsOK
<1>5. ASSUME NEW t \in Callers, noEntry(t)
      PROVE  ServeInv'
  BY <1>5, <1>a DEF noEntry, ServeInv, TypeOK, ThreadsOK
<1>6. ASSUME NEW t \in Callers, receive(t)
      PROVE  ServeInv'
  BY <1>6, <1>a DEF receive, ServeInv, TypeOK, ThreadsOK
<1>7. ASSUME NEW t \in Callers, clearEntry(t)
      PROVE  ServeInv'
  <2>a. entry[t] = call[t] /\ call[t] # 0
    BY <1>7, <1>a, <1>b, <1>c DEF clearEntry, ServeInv
  <2> QED
    BY <1>7, <2>a, <1>a, <1>c DEF clearEntry, ServeInv, TypeOK, ThreadsOK
<1>8. ASSUME NEW k \in Calls, signal(k)
      PROVE  ServeInv'
  BY <1>8, <1>a DEF signal, ServeInv
<1>9. ASSUME NEW k \in Calls, deviceDone(k)
      PROVE  ServeInv'
  BY <1>9, <1>a DEF deviceDone, ServeInv
<1>10. CASE checkTimeOutRead
  BY <1>10, <1>a DEF checkTimeOutRead, ServeInv
<1>11. CASE checkTimeOut
  BY <1>11, <1>a DEF checkTimeOut, ServeInv
<1>12. CASE Tick
  BY <1>12, <1>a DEF Tick, ServeInv
<1>13. CASE setStatus
  BY <1>13, <1>a DEF setStatus, ServeInv
<1>14. CASE UNCHANGED vars
  BY <1>14 DEF vars, ServeInv, IInv
<1> QED
  BY <1>1, <1>2, <1>3, <1>4, <1>5, <1>6, <1>7, <1>8, <1>9, <1>10, <1>11, <1>12, <1>13, <1>14 DEF Next, Caller

(* Table: a thread adds its entry and removes it before it leaves wait.    *)
LEMMA ServedStep == IInv /\ [Next]_vars => PendingIsServed'
<1> SUFFICES ASSUME IInv, [Next]_vars
             PROVE  PendingIsServed'
  OBVIOUS
<1> USE RpcAssumption DEF RpcAssumption, Calls, Calls, table, threads, device, clock
<1>a. TypeOK /\ TagInv /\ ServeInv
  BY DEF IInv
<1>b. \A u \in Callers : pc[u] \in {"registered", "waiting", "clearing"} => call[u] \in pending
  BY <1>a DEF ServeInv
<1>c. ncalls \in Nat /\ tagSequence \in 0..MAXTAG /\ Live \subseteq 1..ncalls /\ pending \subseteq Calls
  BY <1>a DEF TypeOK, TableOK, OthersOK, Live
<1>d. PendingIsServed
  BY DEF IInv
<1>1. ASSUME NEW t \in Callers, callRegister(t)
      PROVE  PendingIsServed'
  BY <1>1, <1>a, <1>b, <1>c, <1>d DEF callRegister, PendingIsServed, ServeInv, TypeOK, TableOK, ThreadsOK
<1>2. ASSUME NEW t \in Callers, unknownSubject(t)
      PROVE  PendingIsServed'
  BY <1>2, <1>a, <1>b, <1>c, <1>d DEF unknownSubject, PendingIsServed, ServeInv, TypeOK, TableOK, ThreadsOK
<1>3. ASSUME NEW t \in Callers, notify(t)
      PROVE  PendingIsServed'
  BY <1>3, <1>a, <1>b, <1>c, <1>d DEF notify, PendingIsServed, ServeInv, TypeOK, TableOK, ThreadsOK
<1>4. ASSUME NEW t \in Callers, getEntry(t)
      PROVE  PendingIsServed'
  <2>a. UNCHANGED <<pending, call>> /\ pc' = [pc EXCEPT ![t] = "waiting"]
    BY <1>4 DEF getEntry
  <2>b. \A u \in Callers : pc[u] # "idle" => pc'[u] # "idle"
    BY <2>a, <1>a DEF TypeOK, ThreadsOK
  <2> QED
    BY <2>a, <2>b, <1>d DEF PendingIsServed
<1>5. ASSUME NEW t \in Callers, noEntry(t)
      PROVE  PendingIsServed'
  <2>a. /\ pending' = pending
        /\ pc' = [pc EXCEPT ![t] = "idle"] /\ call' = [call EXCEPT ![t] = 0]
    BY <1>5 DEF noEntry
  <2>c. ASSUME call[t] \in pending PROVE FALSE
    <3>1. call[t] # 0
      BY <2>c, <1>c
    <3>2. tag[call[t]] # tag[call[t]]
      BY <1>5, <2>c, <3>1 DEF noEntry
    <3> QED
      BY <3>2
  <2>b. \A u \in Callers : u # t => pc'[u] = pc[u] /\ call'[u] = call[u]
    BY <2>a, <1>a DEF TypeOK, ThreadsOK
  <2> QED
    BY <2>a, <2>b, <2>c, <1>d DEF PendingIsServed
<1>6. ASSUME NEW t \in Callers, receive(t)
      PROVE  PendingIsServed'
  BY <1>6, <1>a, <1>b, <1>c, <1>d DEF receive, PendingIsServed, ServeInv, TypeOK, TableOK, ThreadsOK
<1>7. ASSUME NEW t \in Callers, clearEntry(t)
      PROVE  PendingIsServed'
  BY <1>7, <1>a, <1>b, <1>c, <1>d DEF clearEntry, PendingIsServed, ServeInv, TypeOK, TableOK, ThreadsOK
<1>8. ASSUME NEW k \in Calls, signal(k)
      PROVE  PendingIsServed'
  BY <1>8, <1>a, <1>d DEF signal, PendingIsServed
<1>9. ASSUME NEW k \in Calls, deviceDone(k)
      PROVE  PendingIsServed'
  BY <1>9, <1>a, <1>d DEF deviceDone, PendingIsServed
<1>10. CASE checkTimeOutRead
  BY <1>10, <1>a, <1>d DEF checkTimeOutRead, PendingIsServed
<1>11. CASE checkTimeOut
  BY <1>11, <1>a, <1>d DEF checkTimeOut, PendingIsServed
<1>12. CASE Tick
  BY <1>12, <1>a, <1>d DEF Tick, PendingIsServed
<1>13. CASE setStatus
  BY <1>13, <1>a, <1>d DEF setStatus, PendingIsServed
<1>14. CASE UNCHANGED vars
  BY <1>14 DEF vars, PendingIsServed, IInv
<1> QED
  BY <1>1, <1>2, <1>3, <1>4, <1>5, <1>6, <1>7, <1>8, <1>9, <1>10, <1>11, <1>12, <1>13, <1>14 DEF Next, Caller

(* Queues: signal reaches only the entry of the call it answers.           *)
LEMMA QueueStep == IInv /\ [Next]_vars => QueueInv'
<1> SUFFICES ASSUME IInv, [Next]_vars
             PROVE  QueueInv'
  OBVIOUS
<1> USE RpcAssumption DEF RpcAssumption, Calls, Calls, table, threads, device, clock
<1>a. TypeOK /\ TagInv /\ ServeInv /\ QueueInv /\ AnswerInv /\ OverdueInv /\ ResultInv
  BY DEF IInv
<1>e. pending \subseteq Calls
  BY <1>a DEF TypeOK, TableOK
<1>b. \A k \in Calls : age'[k] = age[k] \/ (age[k] <= RPC_TIMEOUT /\ age'[k] = age[k] + 1)
  BY <1>a DEF Next, vars, Caller, callRegister, unknownSubject, notify, getEntry, noEntry, receive, clearEntry, signal, deviceDone, checkTimeOutRead, checkTimeOut, Tick, setStatus, TypeOK, EntriesOK
<1>c. \A m, k : k \in Calls /\ About(m, k) => About(m, k)'
  BY <1>a, <1>b DEF About, TypeOK, EntriesOK
<1>1. ASSUME NEW t \in Callers, callRegister(t)
      PROVE  QueueInv'
  BY <1>1, <1>a, <1>c DEF callRegister, QueueInv
<1>2. ASSUME NEW t \in Callers, unknownSubject(t)
      PROVE  QueueInv'
  BY <1>2, <1>a, <1>c DEF unknownSubject, QueueInv
<1>3. ASSUME NEW t \in Callers, notify(t)
      PROVE  QueueInv'
  BY <1>3, <1>a, <1>c DEF notify, QueueInv
<1>4. ASSUME NEW t \in Callers, getEntry(t)
      PROVE  QueueInv'
  BY <1>4, <1>a, <1>c DEF getEntry, QueueInv
<1>5. ASSUME NEW t \in Callers, noEntry(t)
      PROVE  QueueInv'
  BY <1>5, <1>a, <1>c DEF noEntry, QueueInv
<1>6. ASSUME NEW t \in Callers, receive(t)
      PROVE  QueueInv'
  <2>a. entry[t] \in Calls
    BY <1>6, <1>a, <1>e DEF receive, ServeInv
  <2>b. \A i \in DOMAIN Tail(queue[entry[t]]) : About(Tail(queue[entry[t]])[i], entry[t])
    BY <1>6, <2>a, <1>a, TailAbout DEF receive, QueueInv, TypeOK, EntriesOK
  <2> QED
    BY <1>6, <2>a, <2>b, <1>a, <1>c DEF receive, QueueInv, TypeOK, EntriesOK
<1>7. ASSUME NEW t \in Callers, clearEntry(t)
      PROVE  QueueInv'
  <2>a. \A k \in Calls : queue'[k] = queue[k] \/ queue'[k] = <<>>
    BY <1>7, <1>a DEF clearEntry, TypeOK, EntriesOK
  <2>b. DOMAIN <<>> = {}
    OBVIOUS
  <2> QED
    BY <2>a, <2>b, <1>a, <1>c DEF QueueInv
<1>8. ASSUME NEW k \in Calls, signal(k)
      PROVE  QueueInv'
  <2>a. \A j \in Calls : queue'[j] = queue[j] \/ (j = k /\ queue'[j] = Append(queue[j], Answer(k)))
    BY <1>8, <1>a, FirstIsOwn DEF signal, Live
  <2>b. Answer(k) \in Reply /\ About(Answer(k), k)
    BY DEF Answer, Reply, About
  <2>c. \A i \in DOMAIN Append(queue[k], Answer(k)) : About(Append(queue[k], Answer(k))[i], k)
    BY <2>b, <1>a, AppendAbout DEF QueueInv, TypeOK, EntriesOK
  <2> QED
    BY <2>a, <2>c, <1>a, <1>c DEF QueueInv
<1>9. ASSUME NEW k \in Calls, deviceDone(k)
      PROVE  QueueInv'
  BY <1>9, <1>a, <1>c DEF deviceDone, QueueInv
<1>10. CASE checkTimeOutRead
  BY <1>10, <1>a, <1>c DEF checkTimeOutRead, QueueInv
<1>11. CASE checkTimeOut
  <2>a. \A j \in Calls : \/ queue'[j] = queue[j]
                         \/ j \in overdue /\ queue'[j] = Append(queue[j], mkComplain(j))
    BY <1>11 DEF checkTimeOut
  <2>b. \A j \in overdue : mkComplain(j) \in Reply /\ About(mkComplain(j), j)
    BY <1>a DEF mkComplain, Reply, About, OverdueInv
  <2>c. \A j \in overdue : \A i \in DOMAIN Append(queue[j], mkComplain(j)) :
           About(Append(queue[j], mkComplain(j))[i], j)
    BY <2>b, <1>a, AppendAbout DEF QueueInv, OverdueInv, TypeOK, EntriesOK
  <2> QED
    BY <2>a, <2>c, <1>a, <1>c DEF QueueInv
<1>12. CASE Tick
  BY <1>12, <1>a, <1>c DEF Tick, QueueInv
<1>13. CASE setStatus
  BY <1>13, <1>a, <1>c DEF setStatus, QueueInv
<1>14. CASE UNCHANGED vars
  BY <1>14, <1>a, <1>c DEF vars, QueueInv
<1> QED
  BY <1>1, <1>2, <1>3, <1>4, <1>5, <1>6, <1>7, <1>8, <1>9, <1>10, <1>11, <1>12, <1>13, <1>14 DEF Next, Caller

(* Answers: what a thread takes out of its queue is about its own call.    *)
LEMMA AnswerStep == IInv /\ [Next]_vars => AnswerInv'
<1> SUFFICES ASSUME IInv, [Next]_vars
             PROVE  AnswerInv'
  OBVIOUS
<1> USE RpcAssumption DEF RpcAssumption, Calls, Calls, table, threads, device, clock
<1>a. TypeOK /\ TagInv /\ ServeInv /\ QueueInv /\ AnswerInv /\ OverdueInv /\ ResultInv
  BY DEF IInv
<1>e. pending \subseteq Calls
  BY <1>a DEF TypeOK, TableOK
<1>b. \A k \in Calls : age'[k] = age[k] \/ (age[k] <= RPC_TIMEOUT /\ age'[k] = age[k] + 1)
  BY <1>a DEF Next, vars, Caller, callRegister, unknownSubject, notify, getEntry, noEntry, receive, clearEntry, signal, deviceDone, checkTimeOutRead, checkTimeOut, Tick, setStatus, TypeOK, EntriesOK
<1>c. \A m, k : k \in Calls /\ About(m, k) => About(m, k)'
  BY <1>a, <1>b DEF About, TypeOK, EntriesOK
<1>d. \A u \in Callers : pc[u] = "clearing" => call[u] \in Calls
  BY <1>a, <1>e DEF ServeInv
<1>1. ASSUME NEW t \in Callers, callRegister(t)
      PROVE  AnswerInv'
  BY <1>1, <1>a, <1>c, <1>d DEF callRegister, AnswerInv, TypeOK, ThreadsOK
<1>2. ASSUME NEW t \in Callers, unknownSubject(t)
      PROVE  AnswerInv'
  BY <1>2, <1>a, <1>c, <1>d DEF unknownSubject, AnswerInv, TypeOK, ThreadsOK
<1>3. ASSUME NEW t \in Callers, notify(t)
      PROVE  AnswerInv'
  BY <1>3, <1>a, <1>c, <1>d DEF notify, AnswerInv, TypeOK, ThreadsOK
<1>4. ASSUME NEW t \in Callers, getEntry(t)
      PROVE  AnswerInv'
  BY <1>4, <1>a, <1>c, <1>d DEF getEntry, AnswerInv, TypeOK, ThreadsOK
<1>5. ASSUME NEW t \in Callers, noEntry(t)
      PROVE  AnswerInv'
  BY <1>5, <1>a, <1>c, <1>d DEF noEntry, AnswerInv, TypeOK, ThreadsOK
<1>6. ASSUME NEW t \in Callers, receive(t)
      PROVE  AnswerInv'
  <2>a. entry[t] = call[t] /\ call[t] \in Calls
    BY <1>6, <1>a, <1>e DEF receive, ServeInv
  <2>b. Head(queue[entry[t]]) \in Reply /\ About(Head(queue[entry[t]]), call[t])
    BY <1>6, <2>a, <1>a, TailAbout DEF receive, QueueInv, TypeOK, EntriesOK
  <2>c. answer'[t] = Head(queue[entry[t]]) /\ call' = call
    BY <1>6, <1>a DEF receive, TypeOK, ThreadsOK
  <2>d. \A u \in Callers : u # t => answer'[u] = answer[u] /\ pc'[u] = pc[u]
    BY <1>6, <1>a DEF receive, TypeOK, ThreadsOK
  <2> QED
    BY <2>a, <2>b, <2>c, <2>d, <1>a, <1>c, <1>d DEF AnswerInv
<1>7. ASSUME NEW t \in Callers, clearEntry(t)
      PROVE  AnswerInv'
  BY <1>7, <1>a, <1>c, <1>d DEF clearEntry, AnswerInv, TypeOK, ThreadsOK
<1>8. ASSUME NEW k \in Calls, signal(k)
      PROVE  AnswerInv'
  BY <1>8, <1>a, <1>c, <1>d DEF signal, AnswerInv
<1>9. ASSUME NEW k \in Calls, deviceDone(k)
      PROVE  AnswerInv'
  BY <1>9, <1>a, <1>c, <1>d DEF deviceDone, AnswerInv
<1>10. CASE checkTimeOutRead
  BY <1>10, <1>a, <1>c, <1>d DEF checkTimeOutRead, AnswerInv
<1>11. CASE checkTimeOut
  BY <1>11, <1>a, <1>c, <1>d DEF checkTimeOut, AnswerInv
<1>12. CASE Tick
  BY <1>12, <1>a, <1>c, <1>d DEF Tick, AnswerInv
<1>13. CASE setStatus
  BY <1>13, <1>a, <1>c, <1>d DEF setStatus, AnswerInv
<1>14. CASE UNCHANGED vars
  BY <1>14, <1>a, <1>c, <1>d DEF vars, AnswerInv
<1> QED
  BY <1>1, <1>2, <1>3, <1>4, <1>5, <1>6, <1>7, <1>8, <1>9, <1>10, <1>11, <1>12, <1>13, <1>14 DEF Next, Caller

(* Timeouts: checkTimeOut complains only about entries that are overdue.   *)
LEMMA OverdueStep == IInv /\ [Next]_vars => OverdueInv'
<1> SUFFICES ASSUME IInv, [Next]_vars
             PROVE  OverdueInv'
  OBVIOUS
<1> USE RpcAssumption DEF RpcAssumption, Calls, Calls, table, threads, device, clock
<1>a. TypeOK /\ TagInv /\ ServeInv /\ QueueInv /\ AnswerInv /\ OverdueInv /\ ResultInv
  BY DEF IInv
<1>e. pending \subseteq Calls
  BY <1>a DEF TypeOK, TableOK
<1>b. \A k \in Calls : age'[k] = age[k] \/ (age[k] <= RPC_TIMEOUT /\ age'[k] = age[k] + 1)
  BY <1>a DEF Next, vars, Caller, callRegister, unknownSubject, notify, getEntry, noEntry, receive, clearEntry, signal, deviceDone, checkTimeOutRead, checkTimeOut, Tick, setStatus, TypeOK, EntriesOK
<1>c. \A m, k : k \in Calls /\ About(m, k) => About(m, k)'
  BY <1>a, <1>b DEF About, TypeOK, EntriesOK
<1>1. ASSUME NEW t \in Callers, callRegister(t)
      PROVE  OverdueInv'
  BY <1>1, <1>a, <1>b DEF callRegister, OverdueInv, TypeOK, EntriesOK
<1>2. ASSUME NEW t \in Callers, unknownSubject(t)
      PROVE  OverdueInv'
  BY <1>2, <1>a, <1>b DEF unknownSubject, OverdueInv, TypeOK, EntriesOK
<1>3. ASSUME NEW t \in Callers, notify(t)
      PROVE  OverdueInv'
  BY <1>3, <1>a, <1>b DEF notify, OverdueInv, TypeOK, EntriesOK
<1>4. ASSUME NEW t \in Callers, getEntry(t)
      PROVE  OverdueInv'
  BY <1>4, <1>a, <1>b DEF getEntry, OverdueInv, TypeOK, EntriesOK
<1>5. ASSUME NEW t \in Callers, noEntry(t)
      PROVE  OverdueInv'
  BY <1>5, <1>a, <1>b DEF noEntry, OverdueInv, TypeOK, EntriesOK
<1>6. ASSUME NEW t \in Callers, receive(t)
      PROVE  OverdueInv'
  BY <1>6, <1>a, <1>b DEF receive, OverdueInv, TypeOK, EntriesOK
<1>7. ASSUME NEW t \in Callers, clearEntry(t)
      PROVE  OverdueInv'
  BY <1>7, <1>a, <1>b DEF clearEntry, OverdueInv, TypeOK, EntriesOK
<1>8. ASSUME NEW k \in Calls, signal(k)
      PROVE  OverdueInv'
  BY <1>8, <1>a, <1>b DEF signal, OverdueInv, TypeOK, EntriesOK
<1>9. ASSUME NEW k \in Calls, deviceDone(k)
      PROVE  OverdueInv'
  BY <1>9, <1>a, <1>b DEF deviceDone, OverdueInv, TypeOK, EntriesOK
<1>10. CASE checkTimeOutRead
  BY <1>10, <1>a, <1>b DEF checkTimeOutRead, OverdueInv, TypeOK, TableOK
<1>11. CASE checkTimeOut
  BY <1>11, <1>a, <1>b DEF checkTimeOut, OverdueInv, TypeOK, EntriesOK
<1>12. CASE Tick
  BY <1>12, <1>a, <1>b DEF Tick, OverdueInv, TypeOK, EntriesOK
<1>13. CASE setStatus
  BY <1>13, <1>a, <1>b DEF setStatus, OverdueInv, TypeOK, EntriesOK
<1>14. CASE UNCHANGED vars
  BY <1>14, <1>a, <1>b DEF vars, OverdueInv
<1> QED
  BY <1>1, <1>2, <1>3, <1>4, <1>5, <1>6, <1>7, <1>8, <1>9, <1>10, <1>11, <1>12, <1>13, <1>14 DEF Next, Caller

(* Results: what wait() returns comes from the queue of the own entry.     *)
LEMMA ResultStep == IInv /\ [Next]_vars => ResultInv'
<1> SUFFICES ASSUME IInv, [Next]_vars
             PROVE  ResultInv'
  OBVIOUS
<1> USE RpcAssumption DEF RpcAssumption, Calls, Calls, table, threads, device, clock
<1>a. TypeOK /\ TagInv /\ ServeInv /\ QueueInv /\ AnswerInv /\ OverdueInv /\ ResultInv
  BY DEF IInv
<1>e. pending \subseteq Calls
  BY <1>a DEF TypeOK, TableOK
<1>b. \A k \in Calls : age'[k] = age[k] \/ (age[k] <= RPC_TIMEOUT /\ age'[k] = age[k] + 1)
  BY <1>a DEF Next, vars, Caller, callRegister, unknownSubject, notify, getEntry, noEntry, receive, clearEntry, signal, deviceDone, checkTimeOutRead, checkTimeOut, Tick, setStatus, TypeOK, EntriesOK
<1>c. \A m, k : k \in Calls /\ About(m, k) => About(m, k)'
  BY <1>a, <1>b DEF About, TypeOK, EntriesOK
<1>1. ASSUME NEW t \in Callers, callRegister(t)
      PROVE  ResultInv'
  BY <1>1, <1>a, <1>c DEF callRegister, ResultInv
<1>2. ASSUME NEW t \in Callers, unknownSubject(t)
      PROVE  ResultInv'
  BY <1>2, <1>a, <1>c DEF unknownSubject, ResultInv
<1>3. ASSUME NEW t \in Callers, notify(t)
      PROVE  ResultInv'
  BY <1>3, <1>a, <1>c DEF notify, ResultInv
<1>4. ASSUME NEW t \in Callers, getEntry(t)
      PROVE  ResultInv'
  BY <1>4, <1>a, <1>c DEF getEntry, ResultInv
<1>5. ASSUME NEW t \in Callers, noEntry(t)
      PROVE  ResultInv'
  <2>a. call[t] = 0
    BY <1>5, <1>a DEF noEntry, ServeInv
  <2>b. \A k \in Calls : result'[k] = result[k]
    BY <1>5, <2>a, <1>a DEF noEntry, TypeOK, EntriesOK
  <2> QED
    BY <2>b, <1>a, <1>c DEF ResultInv
<1>6. ASSUME NEW t \in Callers, receive(t)
      PROVE  ResultInv'
  BY <1>6, <1>a, <1>c DEF receive, ResultInv
<1>7. ASSUME NEW t \in Callers, clearEntry(t)
      PROVE  ResultInv'
  <2>a. answer[t] \in Reply /\ About(answer[t], call[t])
    BY <1>7, <1>a DEF clearEntry, AnswerInv
  <2>b. \A k \in Calls : result'[k] = IF k = call[t] THEN answer[t] ELSE result[k]
    BY <1>7, <1>a DEF clearEntry, TypeOK, EntriesOK
  <2> QED
    BY <2>a, <2>b, <1>a, <1>c DEF ResultInv
<1>8. ASSUME NEW k \in Calls, signal(k)
      PROVE  ResultInv'
  BY <1>8, <1>a, <1>c DEF signal, ResultInv
<1>9. ASSUME NEW k \in Calls, deviceDone(k)
      PROVE  ResultInv'
  BY <1>9, <1>a, <1>c DEF deviceDone, ResultInv
<1>10. CASE checkTimeOutRead
  BY <1>10, <1>a, <1>c DEF checkTimeOutRead, ResultInv
<1>11. CASE checkTimeOut
  BY <1>11, <1>a, <1>c DEF checkTimeOut, ResultInv
<1>12. CASE Tick
  BY <1>12, <1>a, <1>c DEF Tick, ResultInv
<1>13. CASE setStatus
  BY <1>13, <1>a, <1>c DEF setStatus, ResultInv
<1>14. CASE UNCHANGED vars
  BY <1>14, <1>a, <1>c DEF vars, ResultInv
<1> QED
  BY <1>1, <1>2, <1>3, <1>4, <1>5, <1>6, <1>7, <1>8, <1>9, <1>10, <1>11, <1>12, <1>13, <1>14 DEF Next, Caller
-----------------------------------------------------------------------------
(* The inductive invariant holds of every reachable state.                 *)
THEOREM Invariance == Spec => []IInv
<1>1. Init => IInv
  <2> SUFFICES ASSUME Init PROVE IInv
    OBVIOUS
  <2> USE RpcAssumption DEF RpcAssumption, Calls, Init
  <2>a. TypeOK
    BY DEF TypeOK, TableOK, EntriesOK, ThreadsOK, OthersOK
  <2>b. TagInv /\ ServeInv /\ PendingIsServed
    BY DEF TagInv, Live, ServeInv, PendingIsServed
  <2>c. QueueInv /\ AnswerInv /\ OverdueInv /\ ResultInv
    BY DEF QueueInv, AnswerInv, OverdueInv, ResultInv
  <2> QED
    BY <2>a, <2>b, <2>c DEF IInv
<1>2. IInv /\ [Next]_vars => IInv'
  BY TableStep, EntriesStep, ThreadsStep, OthersStep, TagStep, ServeStep, ServedStep,
     QueueStep, AnswerStep, OverdueStep, ResultStep DEF IInv, TypeOK
<1> QED
  BY <1>1, <1>2, PTL DEF Spec

(* The variables keep their types: tags within 0..MAXTAG, replies only in  *)
(* the queues, every thread at a known place of CmdRoute::exec.            *)
THEOREM TypeCorrect == Spec => []TypeOK
<1>1. IInv => TypeOK
  BY DEF IInv
<1> QED
  BY <1>1, Invariance, PTL

(* wait() returns to each caller the answer to its own command or its own  *)
(* timeout, for every MAXTAG and any number of threads.                    *)
THEOREM AnswersAreOwn == Spec => []OwnAnswer
<1>1. IInv => OwnAnswer
  BY DEF IInv, ResultInv, OwnAnswer, About, NONE
<1> QED
  BY <1>1, Invariance, PTL

(* A registered command is never answered with no_entry.                   *)
THEOREM RegisteredHasEntry == Spec => []RegisteredCallHasEntry
<1>1. IInv => RegisteredCallHasEntry
  BY DEF IInv, ResultInv, RegisteredCallHasEntry, NONE, NO_ENTRY, Reply
<1> QED
  BY <1>1, Invariance, PTL

(* clearEntry always finds the entry it is given.                          *)
THEOREM ClearIsSafe == Spec => []ClearsPresentEntry
<1>1. IInv => ClearsPresentEntry
  BY DEF IInv, ServeInv, ClearsPresentEntry
<1> QED
  BY <1>1, Invariance, PTL

(* No caller is told "timed_out" before RPC_TIMEOUT seconds have passed.   *)
THEOREM TimeoutsAreDue == Spec => []TimeoutOnlyWhenDue
<1>1. IInv => TimeoutOnlyWhenDue
  BY DEF IInv, ResultInv, TimeoutOnlyWhenDue, About, NONE
<1> QED
  BY <1>1, Invariance, PTL

(* The table never holds an entry nobody serves.                           *)
THEOREM TableIsServed == Spec => []PendingIsServed
<1>1. IInv => PendingIsServed
  BY DEF IInv
<1> QED
  BY <1>1, Invariance, PTL
-----------------------------------------------------------------------------
(***************************************************************************)
(* The table of waiting calls implements RpcCall: a call is settled once   *)
(* and returns what settled it.  The invariant above says whose messages   *)
(* are where; what the refinement needs besides is that a call in the      *)
(* table has not returned and that a queue outside it is empty.            *)
(***************************************************************************)
ReturnInv ==
    \A k \in Calls :
        /\ k \in pending \/ k > ncalls => result[k] = NONE
        /\ k \notin pending => queue[k] = <<>>

(* A thread that has received the message that settles call k.             *)
Holds(t, k) == call[t] = k /\ pc[t] = "clearing"

RInv == IInv /\ ReturnInv
-----------------------------------------------------------------------------
(* An HTTP thread is told no_entry only when it has no tag.                *)
LEMMA NoEntryHasNoTag ==
    ASSUME IInv, NEW t \in Callers, noEntry(t)
    PROVE  call[t] = 0
BY DEF IInv, ServeInv, noEntry

(* The answer to a command goes to the entry of its own call, if any.      *)
LEMMA SignalsOwn ==
    ASSUME IInv, NEW k \in Calls, signal(k)
    PROVE  \A j \in Calls : queue'[j] = IF j = k /\ k \in pending
                                        THEN Append(queue[k], Answer(k)) ELSE queue[j]
<1>1. TypeOK /\ TagInv /\ k \in Live
  BY DEF IInv, signal, Live
<1>2. ASSUME NEW j \in Calls, IsFirst(j, tag[k])
      PROVE  j = k /\ k \in pending
  BY <1>1, <1>2, FirstIsOwn DEF IsFirst
<1>3. ASSUME k \in pending
      PROVE  IsFirst(k, tag[k])
  <2>1. ASSUME NEW j \in pending, tag[j] = tag[k]
        PROVE  j = k
    BY <1>1, <1>3, <2>1, LiveTagsDistinct DEF Live
  <2>2. k \in Int
    BY RpcAssumption DEF Calls
  <2> QED
    BY <1>3, <2>1, <2>2 DEF IsFirst
<1>4. ASSUME NEW j \in Calls
      PROVE  queue'[j] = IF IsFirst(j, tag[k]) THEN Append(queue[j], Answer(k)) ELSE queue[j]
  BY DEF signal
<1> QED
  BY <1>2, <1>3, <1>4

(* What settles call k.                                                    *)
LEMMA SettledIs ==
    ASSUME IInv, NEW k \in Calls
    PROVE  /\ result[k] # NONE => Settled(k) = result[k]
           /\ \A t \in Callers : result[k] = NONE /\ Holds(t, k) => Settled(k) = answer[t]
           /\ result[k] = NONE /\ (\A t \in Callers : ~ Holds(t, k)) =>
                 Settled(k) = IF queue[k] # <<>> THEN Head(queue[k]) ELSE NONE
<1>1. CASE result[k] # NONE
  BY <1>1 DEF Settled
<1>2. ASSUME NEW t \in Callers, result[k] = NONE, Holds(t, k)
      PROVE  Settled(k) = answer[t]
  <2>1. k # 0
    BY RpcAssumption DEF Calls
  <2>2. \A u \in Callers : Holds(u, k) => u = t
    BY <1>2, <2>1 DEF Holds, IInv, ServeInv
  <2>3. (CHOOSE u \in Callers : call[u] = k /\ pc[u] = "clearing") = t
    BY <1>2, <2>2 DEF Holds
  <2> QED
    BY <1>2, <2>3 DEF Settled, Holds
<1>3. ASSUME result[k] = NONE, \A t \in Callers : ~ Holds(t, k)
      PROVE  Settled(k) = IF queue[k] # <<>> THEN Head(queue[k]) ELSE NONE
  BY <1>3 DEF Settled, Holds
<1> QED
  BY <1>1, <1>2, <1>3

(* ReturnInv is kept by every step.                                        *)
LEMMA ReturnStep ==
    ASSUME RInv, [Next]_vars
    PROVE  ReturnInv'
<1>1. IInv /\ ReturnInv /\ TypeOK
  BY DEF RInv, IInv
<1>2. /\ ncalls \in Nat /\ pending \subseteq 1 .. ncalls /\ Calls \subseteq Nat
      /\ queue \in [Calls -> Seq(Reply)] /\ DOMAIN result = 0 .. MaxCalls
  BY <1>1, RpcAssumption DEF TypeOK, TableOK, EntriesOK, Calls
<1>3. CASE UNCHANGED <<ncalls, pending, queue, result>>
  BY <1>1, <1>3 DEF ReturnInv
<1>4. ASSUME NEW t \in Callers, callRegister(t)
      PROVE  ReturnInv'
  BY <1>1, <1>2, <1>4 DEF ReturnInv, callRegister
<1>5. ASSUME NEW t \in Callers, unknownSubject(t) \/ notify(t) \/ getEntry(t)
      PROVE  ReturnInv'
  BY <1>3, <1>5 DEF unknownSubject, notify, getEntry, table
<1>6. ASSUME NEW t \in Callers, noEntry(t)
      PROVE  ReturnInv'
  <2>1. call[t] = 0
    BY <1>1, <1>6, NoEntryHasNoTag
  <2>2. ASSUME NEW k \in Calls
        PROVE  result'[k] = result[k]
    BY <1>2, <1>6, <2>1, RpcAssumption DEF noEntry, Calls
  <2> QED
    BY <1>1, <1>6, <2>2 DEF ReturnInv, noEntry, table
<1>7. ASSUME NEW t \in Callers, receive(t)
      PROVE  ReturnInv'
  <2>1. entry[t] \in pending
    BY <1>1, <1>7 DEF IInv, ServeInv, receive
  <2>2. ASSUME NEW k \in Calls, k \notin pending
        PROVE  queue'[k] = queue[k]
    BY <1>2, <1>7, <2>1, <2>2 DEF receive
  <2> QED
    BY <1>1, <1>7, <2>2 DEF ReturnInv, receive, table
<1>8. ASSUME NEW t \in Callers, clearEntry(t)
      PROVE  ReturnInv'
  <2>1. call[t] = entry[t] /\ call[t] \in pending
    BY <1>1, <1>8 DEF IInv, ServeInv, clearEntry
  <2>d. call[t] \in 1..ncalls /\ ncalls \in 0..MaxCalls /\ MaxCalls \in Nat
    BY <1>1, <2>1, RpcAssumption DEF RpcAssumption, TypeOK, TableOK
  <2>a. call[t] \in 1..ncalls /\ call[t] \in Calls /\ call[t] \in 0..MaxCalls
    BY <2>d DEF Calls
  <2>b. ASSUME NEW k \in Calls, k # call[t]
        PROVE  result'[k] = result[k]
    BY <1>2, <1>8, <2>a, <2>b DEF clearEntry, Calls
  <2>c. /\ \A k \in Calls : k # call[t] => queue'[k] = queue[k]
        /\ queue'[call[t]] = <<>>
    BY <1>2, <1>8, <2>1, <2>a DEF clearEntry
  <2>2. ASSUME NEW k \in Calls, k # call[t]
        PROVE  result'[k] = result[k] /\ queue'[k] = queue[k]
    BY <2>b, <2>c, <2>2
  <2>3. queue'[call[t]] = <<>> /\ call[t] \notin pending' /\ call[t] <= ncalls
    BY <1>2, <1>8, <2>1, <2>a, <2>c DEF clearEntry
  <2>4. ncalls' = ncalls /\ pending' = pending \ {call[t]}
    BY <1>8, <2>1 DEF clearEntry
  <2>5. ASSUME NEW k \in Calls, k = call[t]
        PROVE  /\ ~ (k \in pending' \/ k > ncalls') /\ queue'[k] = <<>>
    BY <2>a, <2>5, <2>4, <2>3, <1>2
  <2> QED
    BY <2>5, <2>4, <2>2, <1>1 DEF ReturnInv
<1>9. ASSUME NEW k \in Calls, signal(k)
      PROVE  ReturnInv'
  <2>1. \A j \in Calls : j \notin pending => queue'[j] = queue[j]
    BY <1>1, <1>9, SignalsOwn
  <2> QED
    BY <1>1, <1>9, <2>1 DEF ReturnInv, signal, table
<1>10. ASSUME NEW k \in Calls, deviceDone(k)
      PROVE  ReturnInv'
  BY <1>3, <1>10 DEF deviceDone, table
<1>11. CASE checkTimeOut
  <2>1. \A k \in Calls : k \notin pending => queue'[k] = queue[k]
    BY <1>11 DEF checkTimeOut
  <2> QED
    BY <1>1, <1>11, <2>1 DEF ReturnInv, checkTimeOut, table
<1>12. CASE checkTimeOutRead \/ Tick \/ setStatus
  BY <1>3, <1>12 DEF checkTimeOutRead, Tick, setStatus, table
<1>13. CASE UNCHANGED vars
  BY <1>3, <1>13 DEF vars, table
<1> QED
  BY <1>4, <1>5, <1>6, <1>7, <1>8, <1>9, <1>10, <1>11, <1>12, <1>13 DEF Next, Caller

(* The case analysis of SettledIs as a state formula, for the next state.  *)
Decided ==
    \A k \in Calls :
        /\ result[k] # NONE => Settled(k) = result[k]
        /\ \A t \in Callers : result[k] = NONE /\ Holds(t, k) => Settled(k) = answer[t]
        /\ result[k] = NONE /\ (\A t \in Callers : ~ Holds(t, k)) =>
              Settled(k) = IF queue[k] # <<>> THEN Head(queue[k]) ELSE NONE

(* Settled is as SettledIs says.                                           *)
LEMMA DecidedNow == IInv => Decided
BY SettledIs DEF Decided

(* It is so after the step as well.                                        *)
LEMMA DecidedNext == IInv' => Decided'
BY DecidedNow, PTL

(* A step that touches neither the result, nor the thread that holds the   *)
(* message of call k, nor the front of its queue leaves k as it is.        *)
LEMMA SettledKept ==
    ASSUME IInv, IInv', NEW k \in Calls, result'[k] = result[k],
           \A t \in Callers : Holds(t, k)' <=> Holds(t, k),
           \A t \in Callers : Holds(t, k) => answer'[t] = answer[t],
           \/ result[k] # NONE
           \/ \E t \in Callers : Holds(t, k)
           \/ queue'[k] = queue[k]
           \/ queue[k] # <<>> /\ queue'[k] # <<>> /\ Head(queue'[k]) = Head(queue[k])
    PROVE  Settled(k)' = Settled(k)
<1>1. Decided /\ Decided'
  BY DecidedNow, DecidedNext
<1>2. CASE result[k] # NONE
  BY <1>1, <1>2 DEF Decided
<1>3. ASSUME result[k] = NONE, NEW t \in Callers, Holds(t, k)
      PROVE  Settled(k)' = Settled(k)
  BY <1>1, <1>3 DEF Decided
<1>4. CASE result[k] = NONE /\ \A t \in Callers : ~ Holds(t, k)
  <2>1. Settled(k) = IF queue[k] # <<>> THEN Head(queue[k]) ELSE NONE
    BY <1>1, <1>4 DEF Decided
  <2>2. Settled(k)' = IF queue'[k] # <<>> THEN Head(queue'[k]) ELSE NONE
    BY <1>1, <1>4 DEF Decided
  <2> QED
    BY <1>4, <2>1, <2>2
<1> QED
  BY <1>2, <1>3, <1>4

(* A step of the table that RpcCall does not see.                          *)
LEMMA Unseen ==
    ASSUME ncalls' = ncalls,
           \A k \in Calls : Settled(k)' = Settled(k),
           \A k \in Calls : result'[k] = NONE <=> result[k] = NONE
    PROVE  UNCHANGED Abstract!vars
<1>1. [k \in Calls |-> Settled(k)]' = [k \in Calls |-> Settled(k)]
  OBVIOUS
<1>2. {k \in Calls : result[k] # NONE}' = {k \in Calls : result[k] # NONE}
  OBVIOUS
<1> QED
  BY <1>1, <1>2 DEF Abstract!vars

(* A queue whose front stays leaves every call as it is, when no thread    *)
(* begins or ends to hold a message.                                       *)
LEMMA QuietStep ==
    ASSUME RInv, IInv', UNCHANGED <<ncalls, queue, answer>>,
           \A k \in Calls : result'[k] = result[k],
           \A t \in Callers, k \in Calls : Holds(t, k)' <=> Holds(t, k)
    PROVE  UNCHANGED Abstract!vars
<1>1. \A k \in Calls : Settled(k)' = Settled(k)
  BY SettledKept DEF RInv
<1> QED
  BY <1>1, Unseen

(* Nothing has decided a call before its first message.                    *)
LEMMA MessagesDecide ==
    ASSUME IInv, NEW k \in Calls
    PROVE  Settled(k) = NONE <=> /\ result[k] = NONE
                                 /\ \A t \in Callers : ~ Holds(t, k)
                                 /\ queue[k] = <<>>
<1>1. Decided
  BY DecidedNow
<1>2. NONE \notin Reply
  BY DEF NONE, Reply
<1>3. ASSUME NEW t \in Callers, Holds(t, k)
      PROVE  answer[t] # NONE
  BY <1>2, <1>3 DEF IInv, AnswerInv, Holds
<1>4. queue[k] # <<>> => Head(queue[k]) # NONE
  <2>1. queue[k] \in Seq(Reply)
    BY DEF IInv, TypeOK, EntriesOK
  <2>2. queue[k] # <<>> => Head(queue[k]) \in Reply
    BY <2>1
  <2> QED
    BY <1>2, <2>2
<1> QED
  BY <1>1, <1>3, <1>4 DEF Decided

(* Registering a call opens it.                                            *)
LEMMA RegisterOpens ==
    ASSUME RInv, IInv', NEW t \in Callers, callRegister(t)
    PROVE  Abstract!Open
<1>1. ASSUME NEW u \in Callers, NEW k \in Calls
      PROVE  Holds(u, k)' <=> Holds(u, k)
  <2>1. pc \in [Callers -> {"idle", "registered", "notified", "waiting", "clearing"}]
        /\ call \in [Callers -> 0..ncalls]
    BY DEF RInv, IInv, TypeOK, ThreadsOK
  <2> QED
    BY <2>1 DEF callRegister, Holds
<1>2. \A k \in Calls : Settled(k)' = Settled(k)
  BY <1>1, SettledKept DEF RInv, callRegister
<1>3. [k \in Calls |-> Settled(k)]' = [k \in Calls |-> Settled(k)]
  BY <1>2
<1>4. {k \in Calls : result[k] # NONE}' = {k \in Calls : result[k] # NONE}
  BY DEF callRegister
<1>5. ncalls \in Nat /\ MaxCalls \in Nat /\ ncalls < MaxCalls /\ ncalls' = ncalls + 1
  BY RpcAssumption DEF RpcAssumption, RInv, IInv, TypeOK, TableOK, callRegister
<1>6. ncalls + 1 \in Abstract!Calls \ (1..ncalls) /\ (1..ncalls)' = (1..ncalls) \cup {ncalls + 1}
  BY <1>5 DEF Abstract!Calls
<1> QED
  BY <1>3, <1>4, <1>6 DEF Abstract!Open

(* The caller takes the message that had decided its call.                 *)
LEMMA ReceiveUnseen ==
    ASSUME RInv, IInv', NEW t \in Callers, receive(t)
    PROVE  UNCHANGED Abstract!vars
<1>1. /\ call[t] = entry[t] /\ call[t] \in pending /\ pending \subseteq Calls
      /\ queue \in [Calls -> Seq(Reply)]
      /\ answer \in [Callers -> Reply \cup {NONE}]
      /\ pc \in [Callers -> {"idle", "registered", "notified", "waiting", "clearing"}]
  <2>1. call[t] = entry[t] /\ call[t] \in pending
    BY DEF RInv, IInv, ServeInv, receive
  <2>2. pending \subseteq Calls
    BY RpcAssumption DEF RpcAssumption, RInv, IInv, TypeOK, TableOK, Calls
  <2> QED
    BY <2>1, <2>2 DEF RInv, IInv, TypeOK, EntriesOK, ThreadsOK
<1>2. ASSUME NEW u \in Callers, NEW k \in Calls, u # t \/ k # call[t]
      PROVE  (Holds(u, k)' <=> Holds(u, k)) /\ (Holds(u, k) => answer'[u] = answer[u])
  BY <1>1, <1>2 DEF receive, Holds
<1>3. ASSUME NEW k \in Calls, k # call[t]
      PROVE  Settled(k)' = Settled(k)
  <2>1. result'[k] = result[k] /\ queue'[k] = queue[k]
    BY <1>1, <1>3 DEF receive
  <2> QED
    BY <1>2, <1>3, <2>1, SettledKept DEF RInv
<1>4. Settled(call[t])' = Settled(call[t])
  <2> DEFINE k == call[t]
  <2>1. k \in Calls /\ k # 0 /\ result[k] = NONE /\ result' = result
    <3>1. k \in Calls /\ k \in pending
      BY <1>1
    <3>2. k # 0
      BY <3>1, RpcAssumption DEF RpcAssumption, Calls
    <3> QED
      BY <3>1, <3>2 DEF RInv, ReturnInv, receive
  <2>2. \A u \in Callers : ~ Holds(u, k)
    BY <2>1 DEF RInv, IInv, ServeInv, Holds, receive
  <2>3. Settled(k) = Head(queue[k])
    BY <1>1, <2>1, <2>2, DecidedNow DEF Decided, RInv, receive
  <2>4. Holds(t, k)' /\ answer'[t] = Head(queue[k])
    BY <1>1 DEF Holds, receive
  <2>5. call' = call
    BY DEF receive
  <2>6. Settled(k)' = answer'[t]
    <3>1. \A j \in Calls : \A u \in Callers :
              result'[j] = NONE /\ Holds(u, j)' => Settled(j)' = answer'[u]
      BY DecidedNext DEF Decided
    <3> QED
      BY <2>1, <2>4, <2>5, <3>1
  <2> QED
    BY <2>3, <2>4, <2>6
<1>5. \A k \in Calls : Settled(k)' = Settled(k)
  <2>1. call' = call
    BY DEF receive
  <2> QED
    BY <1>3, <1>4, <2>1
<1> QED
  BY <1>5, Unseen DEF receive, table

(* Clearing the entry returns the call.                                    *)
LEMMA ClearReturns ==
    ASSUME RInv, IInv', NEW t \in Callers, clearEntry(t)
    PROVE  Abstract!Return
<1> DEFINE c == call[t]
<1>1. /\ c = entry[t] /\ c \in pending /\ c \in 1..ncalls /\ c \in Calls
      /\ c \in 0..MaxCalls /\ c # 0
  <2>1. c = entry[t] /\ c \in pending
    BY DEF RInv, IInv, ServeInv, clearEntry
  <2>2. c \in 1..ncalls /\ ncalls \in 0..MaxCalls /\ MaxCalls \in Nat
    BY <2>1, RpcAssumption DEF RpcAssumption, RInv, IInv, TypeOK, TableOK
  <2> QED
    BY <2>1, <2>2 DEF Calls
<1>2. /\ queue \in [Calls -> Seq(Reply)] /\ DOMAIN result = 0..MaxCalls
      /\ answer \in [Callers -> Reply \cup {NONE}]
      /\ call \in [Callers -> 0..ncalls]
      /\ pc \in [Callers -> {"idle", "registered", "notified", "waiting", "clearing"}]
  BY DEF RInv, IInv, TypeOK, EntriesOK, ThreadsOK
<1>3. Holds(t, c) /\ result[c] = NONE /\ answer[t] # NONE
  <2>1. Holds(t, c) /\ result[c] = NONE
    BY <1>1 DEF Holds, clearEntry, RInv, ReturnInv
  <2>2. answer[t] \in Reply /\ NONE \notin Reply
    BY <2>1 DEF RInv, IInv, AnswerInv, Holds, Reply, NONE
  <2> QED
    BY <2>1, <2>2
<1>4. Settled(c) = answer[t]
  BY <1>1, <1>3, DecidedNow DEF Decided, RInv
<1>5. result'[c] = answer[t] /\ \A k \in Calls : k # c => result'[k] = result[k]
  BY <1>1, <1>2 DEF clearEntry, Calls
<1>6. \A j \in Calls : result'[j] # NONE => Settled(j)' = result'[j]
  BY DecidedNext DEF Decided
<1>7. ASSUME NEW k \in Calls, k # c
      PROVE  Settled(k)' = Settled(k)
  <2>1. ASSUME NEW u \in Callers
        PROVE  (Holds(u, k)' <=> Holds(u, k)) /\ (Holds(u, k) => answer'[u] = answer[u])
    BY <1>2, <1>7, <2>1 DEF clearEntry, Holds
  <2>2. queue'[k] = queue[k]
    BY <1>1, <1>2, <1>7 DEF clearEntry
  <2> QED
    BY <1>5, <1>7, <2>1, <2>2, SettledKept DEF RInv
<1>8. \A k \in Calls : Settled(k)' = Settled(k)
  <2>1. ASSUME NEW k \in Calls, k = c
        PROVE  Settled(k)' = answer[t]
    <3>1. result'[k] = answer[t]
      BY <1>5, <2>1
    <3> QED
      BY <1>3, <1>6, <3>1
  <2> QED
    BY <1>4, <1>7, <2>1
<1>9. [k \in Calls |-> Settled(k)]' = [k \in Calls |-> Settled(k)]
  BY <1>8
<1>10. {k \in Calls : result[k] # NONE}' = {k \in Calls : result[k] # NONE} \cup {c}
  BY <1>1, <1>3, <1>5
<1>11. /\ c \in (1..ncalls) \ {k \in Calls : result[k] # NONE}
       /\ [k \in Calls |-> Settled(k)][c] # Abstract!NONE
  BY <1>1, <1>3, <1>4 DEF NONE, Abstract!NONE
<1>12. (1..ncalls)' = 1..ncalls
  BY DEF clearEntry
<1> QED
  BY <1>9, <1>10, <1>11, <1>12 DEF Abstract!Return

(* The answer to a command decides its call, unless something already has. *)
LEMMA SignalAnswers ==
    ASSUME RInv, IInv', NEW k \in Calls, signal(k)
    PROVE  Abstract!AnswerOne \/ UNCHANGED Abstract!vars
<1>1. /\ queue \in [Calls -> Seq(Reply)] /\ UNCHANGED <<ncalls, result, answer, call, pc>>
      /\ pending \subseteq 1..ncalls /\ IInv
  BY DEF RInv, IInv, TypeOK, TableOK, EntriesOK, signal, table, threads
<1>2. \A j \in Calls : queue'[j] = IF j = k /\ k \in pending
                                   THEN Append(queue[k], Answer(k)) ELSE queue[j]
  BY <1>1, SignalsOwn
<1>3. \A u \in Callers, j \in Calls : Holds(u, j)' <=> Holds(u, j)
  BY <1>1 DEF Holds
<1>4. ASSUME NEW j \in Calls, j # k \/ k \notin pending \/ Settled(k) # NONE
      PROVE  Settled(j)' = Settled(j)
  <2>1. CASE j # k \/ k \notin pending
    <3>1. queue'[j] = queue[j]
      BY <1>2, <2>1
    <3> QED
      BY <1>1, <1>3, <3>1, SettledKept
  <2>2. CASE j = k /\ k \in pending /\ Settled(k) # NONE
    <3>1. result[k] # NONE \/ (\E t \in Callers : Holds(t, k)) \/ queue[k] # <<>>
      BY <1>1, <2>2, MessagesDecide
    <3>2. queue[k] # <<>> => queue'[k] # <<>> /\ Head(queue'[k]) = Head(queue[k])
      <4>1. queue[k] \in Seq(Reply) /\ Answer(k) \in Reply
        BY <1>1 DEF Answer, Reply
      <4>2. queue[k] # <<>> => /\ Append(queue[k], Answer(k)) # <<>>
                               /\ Head(Append(queue[k], Answer(k))) = Head(queue[k])
        BY <4>1
      <4> QED
        BY <1>2, <2>2, <4>2
    <3> QED
      BY <1>1, <1>3, <2>2, <3>1, <3>2, SettledKept
  <2> QED
    BY <1>4, <2>1, <2>2
<1>5. CASE k \notin pending \/ Settled(k) # NONE
  BY <1>1, <1>4, <1>5, Unseen
<1>6. CASE k \in pending /\ Settled(k) = NONE
  <2>1. result[k] = NONE /\ (\A t \in Callers : ~ Holds(t, k)) /\ queue[k] = <<>>
    BY <1>1, <1>6, MessagesDecide
  <2>2. queue'[k] # <<>> /\ Head(queue'[k]) = Answer(k)
    <3>1. queue'[k] = Append(<<>>, Answer(k))
      BY <1>2, <1>6, <2>1
    <3> QED
      BY <3>1
  <2>3. Settled(k)' = Answer(k)
    BY <1>1, <1>3, <2>1, <2>2, DecidedNext DEF Decided
  <2>4. [j \in Calls |-> Settled(j)]'
            = [[j \in Calls |-> Settled(j)] EXCEPT ![k] = Abstract!Answer(k)]
    BY <1>4, <2>3 DEF Answer, Abstract!Answer
  <2>5. k \in Abstract!Undecided
    BY <1>1, <1>6 DEF Abstract!Undecided, NONE, Abstract!NONE
  <2>6. (1..ncalls)' = 1..ncalls
    BY <1>1
  <2>7. {j \in Calls : result[j] # NONE}' = {j \in Calls : result[j] # NONE}
    BY <1>1
  <2> QED
    BY <2>7, <2>6, <2>5, <2>4 DEF Abstract!AnswerOne
<1> QED
  BY <1>5, <1>6

(* One look at the clock times out the late calls nothing had decided.     *)
LEMMA ComplaintsSettle ==
    ASSUME RInv, IInv', checkTimeOut
    PROVE  Abstract!TimeoutSome
<1> DEFINE S == {k \in pending \cap overdue : Settled(k) = NONE}
<1>1. /\ queue \in [Calls -> Seq(Reply)] /\ UNCHANGED <<ncalls, result, answer, call, pc>>
      /\ pending \subseteq 1..ncalls /\ pending \subseteq Calls /\ IInv
  <2>1. pending \subseteq Calls
    BY RpcAssumption DEF RpcAssumption, RInv, IInv, TypeOK, TableOK, Calls
  <2> QED
    BY <2>1 DEF RInv, IInv, TypeOK, TableOK, EntriesOK, checkTimeOut, table, threads
<1>2. \A k \in Calls : queue'[k] = IF k \in pending \cap overdue
                                   THEN Append(queue[k], mkComplain(k)) ELSE queue[k]
  BY DEF checkTimeOut
<1>3. \A u \in Callers, j \in Calls : Holds(u, j)' <=> Holds(u, j)
  BY <1>1 DEF Holds
<1>4. ASSUME NEW k \in Calls, k \notin S
      PROVE  Settled(k)' = Settled(k)
  <2>1. CASE k \notin pending \cap overdue
    <3>1. queue'[k] = queue[k]
      BY <1>2, <2>1
    <3> QED
      BY <1>1, <1>3, <3>1, SettledKept
  <2>2. CASE k \in pending \cap overdue /\ Settled(k) # NONE
    <3>1. result[k] # NONE \/ (\E t \in Callers : Holds(t, k)) \/ queue[k] # <<>>
      BY <1>1, <2>2, MessagesDecide
    <3>2. queue[k] # <<>> => queue'[k] # <<>> /\ Head(queue'[k]) = Head(queue[k])
      <4>1. queue[k] \in Seq(Reply) /\ mkComplain(k) \in Reply
        BY <1>1 DEF mkComplain, Reply
      <4>2. queue[k] # <<>> => /\ Append(queue[k], mkComplain(k)) # <<>>
                               /\ Head(Append(queue[k], mkComplain(k))) = Head(queue[k])
        BY <4>1
      <4> QED
        BY <1>2, <2>2, <4>2
    <3> QED
      BY <1>1, <1>3, <3>1, <3>2, SettledKept
  <2> QED
    BY <1>4, <2>1, <2>2
<1>5. ASSUME NEW k \in Calls, k \in S
      PROVE  Settled(k)' = mkComplain(k)
  <2>1. result[k] = NONE /\ (\A t \in Callers : ~ Holds(t, k)) /\ queue[k] = <<>>
    BY <1>1, <1>5, MessagesDecide
  <2>2. queue'[k] # <<>> /\ Head(queue'[k]) = mkComplain(k)
    <3>1. queue'[k] = Append(<<>>, mkComplain(k))
      BY <1>2, <1>5, <2>1
    <3> QED
      BY <3>1
  <2> QED
    BY <1>1, <1>3, <2>1, <2>2, DecidedNext DEF Decided
<1>6. S \in SUBSET Abstract!Undecided
  BY <1>1 DEF Abstract!Undecided, NONE, Abstract!NONE
<1>7. [k \in Calls |-> Settled(k)]'
          = [k \in Abstract!Calls |-> IF k \in S THEN Abstract!Timeout(k)
                                      ELSE [j \in Calls |-> Settled(j)][k]]
  <2>1. \A k \in Calls : Settled(k)' = IF k \in S THEN mkComplain(k) ELSE Settled(k)
    BY <1>4, <1>5
  <2> HIDE DEF S
  <2> QED
    BY <2>1 DEF mkComplain, Abstract!Timeout, Calls, Abstract!Calls
<1>8. (1..ncalls)' = 1..ncalls
  BY <1>1
<1>9. {j \in Calls : result[j] # NONE}' = {j \in Calls : result[j] # NONE}
  BY <1>1
<1> HIDE DEF S
<1> QED
  BY <1>6, <1>7, <1>8, <1>9 DEF Abstract!TimeoutSome

(* Every step of the table is a step of RpcCall or is not seen by it.      *)
LEMMA StepSimulates ==
    ASSUME RInv, IInv', [Next]_vars
    PROVE  [Abstract!Next]_(Abstract!vars)
<1>1. /\ IInv /\ DOMAIN result = 0..MaxCalls /\ call \in [Callers -> 0..ncalls]
      /\ pc \in [Callers -> {"idle", "registered", "notified", "waiting", "clearing"}]
  BY DEF RInv, IInv, TypeOK, EntriesOK, ThreadsOK
<1>2. CASE UNCHANGED <<ncalls, queue, result, pc, call, answer>>
  BY <1>2, QuietStep DEF Holds
<1>3. ASSUME NEW t \in Callers, callRegister(t)
      PROVE  Abstract!Next
  BY <1>3, RegisterOpens DEF Abstract!Next
<1>4. ASSUME NEW t \in Callers, unknownSubject(t) \/ notify(t) \/ getEntry(t)
      PROVE  UNCHANGED Abstract!vars
  <2>1. UNCHANGED <<ncalls, queue, answer, result>>
    BY <1>4 DEF unknownSubject, notify, getEntry, table
  <2>2. ASSUME NEW u \in Callers, NEW k \in Calls
        PROVE  Holds(u, k)' <=> Holds(u, k)
    BY <1>1, <1>4 DEF unknownSubject, notify, getEntry, Holds
  <2> QED
    BY <2>1, <2>2, QuietStep
<1>5. ASSUME NEW t \in Callers, noEntry(t)
      PROVE  UNCHANGED Abstract!vars
  <2>1. call[t] = 0
    BY <1>1, <1>5, NoEntryHasNoTag
  <2>2. \A k \in Calls : result'[k] = result[k]
    BY <1>1, <1>5, <2>1, RpcAssumption DEF RpcAssumption, noEntry, Calls
  <2>3. ASSUME NEW u \in Callers, NEW k \in Calls
        PROVE  Holds(u, k)' <=> Holds(u, k)
    BY <1>1, <1>5 DEF noEntry, Holds
  <2>4. UNCHANGED <<ncalls, queue, answer>>
    BY <1>5 DEF noEntry, table
  <2> QED
    BY <2>4, <2>3, <2>2, QuietStep
<1>6. ASSUME NEW t \in Callers, receive(t)
      PROVE  UNCHANGED Abstract!vars
  BY <1>6, ReceiveUnseen
<1>7. ASSUME NEW t \in Callers, clearEntry(t)
      PROVE  Abstract!Next
  BY <1>7, ClearReturns DEF Abstract!Next
<1>8. ASSUME NEW k \in Calls, signal(k)
      PROVE  Abstract!Next \/ UNCHANGED Abstract!vars
  BY <1>8, SignalAnswers DEF Abstract!Next
<1>9. ASSUME NEW k \in Calls, deviceDone(k)
      PROVE  [Abstract!Next]_(Abstract!vars)
  BY <1>2, <1>9 DEF deviceDone, table, threads
<1>10. CASE checkTimeOut
  BY <1>10, ComplaintsSettle DEF Abstract!Next
<1>11. CASE checkTimeOutRead \/ Tick \/ setStatus
  BY <1>2, <1>11 DEF checkTimeOutRead, Tick, setStatus, table, threads
<1>12. CASE UNCHANGED vars
  BY <1>2, <1>12 DEF vars, table, threads
<1> QED
  BY <1>3, <1>4, <1>5, <1>6, <1>7, <1>8, <1>9, <1>10, <1>11, <1>12 DEF Next, Caller

(* The empty table is the abstract state without calls.                    *)
LEMMA InitSimulates ==
    ASSUME Init
    PROVE  ReturnInv /\ Abstract!Init
<1>1. /\ queue = [k \in Calls |-> <<>>] /\ \A k \in Calls : result[k] = NONE
      /\ \A t \in Callers : pc[t] # "clearing"
  BY RpcAssumption DEF RpcAssumption, Init, Calls
<1>2. \A k \in Calls : Settled(k) = NONE
  BY <1>1 DEF Settled
<1>3. 1..ncalls = {} /\ {k \in Calls : result[k] # NONE} = {}
  <2>1. ncalls = 0
    BY DEF Init
  <2>2. 1..ncalls = {}
    BY <2>1
  <2> QED
    BY <1>1, <2>2
<1>4. [k \in Calls |-> Settled(k)] = [k \in Abstract!Calls |-> Abstract!NONE]
  BY <1>2 DEF Calls, Abstract!Calls, NONE, Abstract!NONE
<1> QED
  BY <1>1, <1>3, <1>4 DEF ReturnInv, Abstract!Init

(* The table of waiting calls implements RpcCall for any number of HTTP    *)
(* threads and calls: wait() returns what first reached the entry, and     *)
(* late answers, second answers and repeated complaints change nothing.    *)
THEOREM Refines == Spec => ImplementsRpcCall
<1>1. Init => ReturnInv /\ Abstract!Init
  BY InitSimulates
<1>2. IInv /\ ReturnInv /\ [Next]_vars => ReturnInv'
  BY ReturnStep DEF RInv
<1>3. IInv /\ IInv' /\ ReturnInv /\ [Next]_vars => [Abstract!Next]_(Abstract!vars)
  BY StepSimulates DEF RInv
<1> QED
  BY <1>1, <1>2, <1>3, Invariance, PTL DEF Spec, ImplementsRpcCall, Abstract!Spec
=============================================================================
