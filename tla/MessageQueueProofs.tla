------------------------- MODULE MessageQueueProofs -------------------------
(***************************************************************************)
(* Proofs about MMessageQueue for any messages, priorities and maxlength.  *)
(* receive() and purge() differ in whom they look for, and agree in taking *)
(* the first of its priority: that is all the order of equal priorities    *)
(* needs.                                                                  *)
(***************************************************************************)
EXTENDS MessageQueue, SequenceTheorems, FiniteSetTheorems, TLAPS

Entry == [id : Msgs, priority : Nat]

TypeOK ==
    /\ queue \in Seq(Entry)
    /\ sent \in Seq(Msgs) /\ got \in Seq(Msgs)
    /\ IsFiniteSet(purged)

(* The vector q holds messages of s, each once, in the order of s, and     *)
(* with their own priorities.                                              *)
InOrder(q, s) ==
    /\ \A i \in 1 .. Len(q) : q[i].priority = Priority[q[i].id]
    /\ \A i, j \in 1 .. Len(q) : q[i].id = q[j].id => i = j
    /\ \A i, j \in 1 .. Len(q) : \A a, b \in 1 .. Len(s) :
          s[a] = q[i].id /\ s[b] = q[j].id /\ i < j => a < b

(* What the first of two equals has not left, the second has not left.     *)
Fair(q, s) ==
    \A a, b \in 1 .. Len(s) :
        a < b /\ Priority[s[a]] = Priority[s[b]] /\ s[a] \in Ids(q) => s[b] \in Ids(q)

(* Element r is the first one of its priority.                             *)
FirstOfItsPriority(q, r) ==
    /\ r \in 1 .. Len(q)
    /\ \A k \in 1 .. Len(q) : k < r => q[k].priority # q[r].priority

IInv == TypeOK /\ InOrder(queue, sent) /\ Fair(queue, sent) /\ Conservation
-----------------------------------------------------------------------------
(* A set of natural numbers that is not empty has a least element: its     *)
(* initial segments are finite, and strict inclusion is well-founded.      *)
LEMMA MinIn ==
    ASSUME NEW S \in SUBSET Nat, S # {}
    PROVE  Min(S) \in S /\ \A y \in S : Min(S) =< y
<1> DEFINE T == {0 .. (x - 1) : x \in S}
           R == StrictSubsetOrdering(Nat)
<1>1. T \subseteq FiniteSubsetsOf(Nat)
  <2>1. \A x \in S : IsFiniteSet(0 .. (x - 1))
    BY FS_Interval
  <2> QED
    BY <2>1 DEF FiniteSubsetsOf
<1>2. T # {}
  OBVIOUS
<1>3. PICK m \in T : \A t \in T : ~ (<<t, m>> \in R)
  <2>1. IsWellFoundedOn(R, FiniteSubsetsOf(Nat))
    BY FS_StrictSubsetOrderingWellFounded
  <2> HIDE DEF T, R
  <2> QED
    BY <1>1, <1>2, <2>1, WFMin
<1>4. PICK x \in S : m = 0 .. (x - 1)
  BY <1>3
<1>5. \A y \in S : x =< y
  <2> SUFFICES ASSUME NEW y \in S, ~ (x =< y)
               PROVE  FALSE
    OBVIOUS
  <2>1. 0 .. (y - 1) \subseteq 0 .. (x - 1) /\ 0 .. (y - 1) # 0 .. (x - 1)
    <3>1. x \in Nat /\ y \in Nat /\ y < x
      OBVIOUS
    <3>2. y \in 0 .. (x - 1) /\ y \notin 0 .. (y - 1)
      BY <3>1
    <3> QED
      BY <3>1, <3>2
  <2>2. <<0 .. (y - 1), 0 .. (x - 1)>> \in R
    BY <2>1 DEF StrictSubsetOrdering
  <2> QED
    BY <1>3, <1>4, <2>2
<1> QED
  BY <1>5 DEF Min

(* Erasing an element keeps the others, in their order.                    *)
LEMMA RemoveAtProperties ==
    ASSUME NEW S, NEW s \in Seq(S), NEW n \in 1 .. Len(s)
    PROVE  /\ RemoveAt(s, n) \in Seq(S)
           /\ Len(RemoveAt(s, n)) = Len(s) - 1
           /\ \A i \in 1 .. Len(s) - 1 :
                 RemoveAt(s, n)[i] = IF i < n THEN s[i] ELSE s[i + 1]
<1> DEFINE a == SubSeq(s, 1, n - 1)
           b == SubSeq(s, n + 1, Len(s))
<1>1. /\ a \in Seq(S) /\ Len(a) = n - 1
      /\ \A i \in 1 .. n - 1 : a[i] = s[i]
  <2>1. \A i \in 1 .. n - 1 : s[i] \in S
    OBVIOUS
  <2> QED
    BY <2>1, SubSeqProperties
<1>2. /\ b \in Seq(S) /\ Len(b) = Len(s) - n
      /\ \A i \in 1 .. Len(s) - n : b[i] = s[n + i]
  <2>1. \A i \in n + 1 .. Len(s) : s[i] \in S
    OBVIOUS
  <2> QED
    BY <2>1, SubSeqProperties
<1> HIDE DEF a, b
<1>3. /\ a \o b \in Seq(S)
      /\ Len(a \o b) = Len(a) + Len(b)
      /\ \A i \in 1 .. Len(a) + Len(b) :
            (a \o b)[i] = IF i <= Len(a) THEN a[i] ELSE b[i - Len(a)]
  BY <1>1, <1>2, ConcatProperties
<1>4. RemoveAt(s, n) = a \o b
  BY DEF RemoveAt, a, b
<1>5. RemoveAt(s, n) \in Seq(S) /\ Len(RemoveAt(s, n)) = Len(s) - 1
  <2>1. Len(a) + Len(b) = Len(s) - 1
    BY <1>1, <1>2
  <2>2. a \o b \in Seq(S) /\ Len(a \o b) = Len(s) - 1
    BY <1>3, <2>1
  <2> QED
    BY <1>4, <2>2
<1>6. ASSUME NEW i \in 1 .. Len(s) - 1
      PROVE  RemoveAt(s, n)[i] = IF i < n THEN s[i] ELSE s[i + 1]
  <2>1. i \in 1 .. Len(a) + Len(b)
    BY <1>1, <1>2
  <2>2. (a \o b)[i] = IF i <= Len(a) THEN a[i] ELSE b[i - Len(a)]
    BY <1>3, <2>1
  <2>3. CASE i < n
    <3>1. i <= Len(a) /\ a[i] = s[i]
      BY <1>1, <2>3
    <3> QED
      BY <1>4, <2>2, <2>3, <3>1
  <2>4. CASE ~ (i < n)
    <3>1. i - Len(a) \in 1 .. Len(s) - n /\ ~ (i <= Len(a)) /\ n + (i - Len(a)) = i + 1
      BY <1>1, <2>4
    <3>2. b[i - Len(a)] = s[i + 1]
      BY <1>2, <3>1
    <3> QED
      BY <1>4, <2>2, <2>4, <3>1, <3>2
  <2> QED
    BY <2>3, <2>4
<1> QED
  BY <1>5, <1>6

(* The loop of receive() finds an element.                                 *)
LEMMA HighestIsFirst ==
    ASSUME NEW q \in Seq(Entry), q # <<>>
    PROVE  FirstOfItsPriority(q, Highest(q))
<1> DEFINE D == 1 .. Len(q)
           Better(i) == {k \in D : q[k].priority > q[i].priority
                                   \/ (q[k].priority = q[i].priority /\ k < i)}
           T == {Better(i) : i \in D}
           R == StrictSubsetOrdering(D)
<1>1. Len(q) \in Nat /\ DOMAIN q = D /\ D # {} /\ IsFiniteSet(D)
  <2>1. Len(q) \in Nat /\ Len(q) # 0 /\ DOMAIN q = D
    OBVIOUS
  <2>2. IsFiniteSet(D)
    BY <2>1, FS_Interval
  <2>3. 1 \in D
    BY <2>1
  <2> QED
    BY <2>1, <2>2, <2>3
<1>2. \A i \in D : q[i].priority \in Nat
  <2> TAKE i \in D
  <2>1. q[i] \in Entry
    BY ElementOfSeq
  <2> QED
    BY <2>1 DEF Entry
<1>3. T \subseteq FiniteSubsetsOf(D) /\ T # {}
  <2>1. \A i \in D : Better(i) \subseteq D /\ IsFiniteSet(Better(i))
    BY <1>1, FS_Subset
  <2> QED
    BY <1>1, <2>1 DEF FiniteSubsetsOf
<1>4. PICK m \in T : \A t \in T : ~ (<<t, m>> \in R)
  <2>1. IsWellFoundedOn(R, FiniteSubsetsOf(D))
    BY FS_StrictSubsetOrderingWellFounded
  <2> HIDE DEF T, R, D
  <2> QED
    BY <1>3, <2>1, WFMin
<1>5. PICK r \in D : m = Better(r)
  BY <1>4
<1>6. Better(r) = {}
  <2> SUFFICES ASSUME NEW k \in Better(r)
               PROVE  FALSE
    OBVIOUS
  <2>1. Better(k) \subseteq Better(r)
    BY <1>2
  <2>2. k \notin Better(k)
    BY <1>2
  <2>3. <<Better(k), Better(r)>> \in R
    BY <2>1, <2>2 DEF StrictSubsetOrdering
  <2> QED
    BY <1>4, <1>5, <2>3
<1>7. \A i \in D : /\ q[i].priority <= q[r].priority
                   /\ i < r => q[i].priority < q[r].priority
  BY <1>2, <1>6
<1>8. /\ Highest(q) \in D
      /\ \A i \in D : /\ q[i].priority <= q[Highest(q)].priority
                      /\ i < Highest(q) => q[i].priority < q[Highest(q)].priority
  BY <1>1, <1>7 DEF Highest
<1> QED
  BY <1>2, <1>8 DEF FirstOfItsPriority

(* The loop of purge() finds an element.                                   *)
LEMMA LowestIsFirst ==
    ASSUME NEW q \in Seq(Entry), q # <<>>
    PROVE  FirstOfItsPriority(q, Lowest(q))
<1> DEFINE D == 1 .. Len(q)
           P == {q[i].priority : i \in D}
<1>1. Len(q) \in Nat /\ DOMAIN q = D /\ D # {}
  <2>1. Len(q) \in Nat /\ Len(q) # 0 /\ DOMAIN q = D
    OBVIOUS
  <2>2. 1 \in D
    BY <2>1
  <2> QED
    BY <2>1, <2>2
<1>2. \A i \in D : q[i].priority \in Nat
  <2> TAKE i \in D
  <2>1. q[i] \in Entry
    BY ElementOfSeq
  <2> QED
    BY <2>1 DEF Entry
<1>3. PICK low \in P : \A x \in P : low <= x
  <2>1. P \in SUBSET Nat /\ P # {}
    BY <1>1, <1>2
  <2> HIDE DEF P
  <2> QED
    BY <2>1, MinIn
<1>4. PICK n \in D : q[n].priority = low /\ \A i \in D : q[i].priority = low => n <= i
  <2> DEFINE M == {i \in D : q[i].priority = low}
  <2>1. M \in SUBSET Nat /\ M # {}
    BY <1>1, <1>3
  <2>2. Min(M) \in M /\ \A i \in M : Min(M) <= i
    <3> HIDE DEF M
    <3> QED
      BY <2>1, MinIn
  <2> QED
    BY <2>2
<1>5. ASSUME NEW i \in D
      PROVE  q[i].priority >= q[n].priority /\ (i < n => q[i].priority > q[n].priority)
  <2>1. low <= q[i].priority /\ low \in Nat /\ q[i].priority \in Nat
    BY <1>2, <1>3, <1>4
  <2>2. i < n => q[i].priority # low
    BY <1>1, <1>4
  <2> QED
    BY <1>4, <2>1, <2>2
<1>6. /\ Lowest(q) \in D
      /\ \A i \in D : /\ q[i].priority >= q[Lowest(q)].priority
                      /\ i < Lowest(q) => q[i].priority > q[Lowest(q)].priority
  BY <1>1, <1>5 DEF Lowest
<1> QED
  BY <1>2, <1>6 DEF FirstOfItsPriority
-----------------------------------------------------------------------------
(* Erasing one element of a vector takes one identifier away.              *)
LEMMA EraseOne ==
    ASSUME NEW q \in Seq(Entry), NEW s, InOrder(q, s), NEW r \in 1 .. Len(q)
    PROVE  /\ RemoveAt(q, r) \in Seq(Entry)
           /\ Len(RemoveAt(q, r)) = Len(q) - 1
           /\ Ids(RemoveAt(q, r)) = Ids(q) \ {q[r].id}
           /\ q[r].id \in Ids(q)
           /\ InOrder(RemoveAt(q, r), s)
<1> DEFINE e == RemoveAt(q, r)
           at(i) == IF i < r THEN i ELSE i + 1
<1>1. /\ e \in Seq(Entry) /\ Len(e) = Len(q) - 1
      /\ \A i \in 1 .. Len(q) - 1 : e[i] = IF i < r THEN q[i] ELSE q[i + 1]
  BY RemoveAtProperties
<1>2. Len(q) \in Nat /\ DOMAIN q = 1 .. Len(q) /\ DOMAIN e = 1 .. Len(e)
  BY <1>1
<1> HIDE DEF e
<1>3. ASSUME NEW i \in 1 .. Len(e)
      PROVE  at(i) \in 1 .. Len(q) /\ at(i) # r /\ e[i] = q[at(i)]
  BY <1>1, <1>2
<1>4. ASSUME NEW k \in 1 .. Len(q), k # r
      PROVE  \E i \in 1 .. Len(e) : at(i) = k
  <2>1. CASE k < r
    BY <1>1, <1>2, <2>1
  <2>2. CASE k > r
    <3>1. k - 1 \in 1 .. Len(e) /\ at(k - 1) = k
      BY <1>1, <1>2, <2>2
    <3> QED
      BY <3>1
  <2> QED
    BY <1>2, <1>4, <2>1, <2>2
<1>5. ASSUME NEW i \in 1 .. Len(e), NEW j \in 1 .. Len(e)
      PROVE  (at(i) = at(j) => i = j) /\ (i < j => at(i) < at(j))
  BY <1>1, <1>2
<1> HIDE DEF at
<1>6. Ids(e) = Ids(q) \ {q[r].id}
  <2>1. ASSUME NEW x \in Ids(e)
        PROVE  x \in Ids(q) /\ x # q[r].id
    <3>1. PICK i \in 1 .. Len(e) : x = e[i].id
      BY <1>2 DEF Ids
    <3>2. at(i) \in 1 .. Len(q) /\ at(i) # r /\ x = q[at(i)].id
      BY <1>3, <3>1
    <3> QED
      BY <1>2, <3>2 DEF Ids, InOrder
  <2>2. ASSUME NEW x \in Ids(q), x # q[r].id
        PROVE  x \in Ids(e)
    <3>1. PICK k \in 1 .. Len(q) : x = q[k].id
      BY <1>2 DEF Ids
    <3>2. PICK i \in 1 .. Len(e) : at(i) = k
      BY <1>4, <2>2, <3>1
    <3>3. e[i].id = x
      BY <1>3, <3>1, <3>2
    <3> QED
      BY <1>2, <3>3 DEF Ids
  <2> QED
    BY <2>1, <2>2
<1>7. InOrder(e, s)
  <2>1. ASSUME NEW i \in 1 .. Len(e)
        PROVE  e[i].priority = Priority[e[i].id]
    BY <1>3 DEF InOrder
  <2>2. ASSUME NEW i \in 1 .. Len(e), NEW j \in 1 .. Len(e), e[i].id = e[j].id
        PROVE  i = j
    <3>1. at(i) = at(j)
      BY <1>3, <2>2 DEF InOrder
    <3> QED
      BY <1>5, <3>1
  <2>3. ASSUME NEW i \in 1 .. Len(e), NEW j \in 1 .. Len(e), i < j,
               NEW a \in 1 .. Len(s), NEW b \in 1 .. Len(s), s[a] = e[i].id, s[b] = e[j].id
        PROVE  a < b
    <3>1. /\ at(i) \in 1 .. Len(q) /\ at(j) \in 1 .. Len(q) /\ at(i) < at(j)
          /\ s[a] = q[at(i)].id /\ s[b] = q[at(j)].id
      BY <1>3, <1>5, <2>3
    <3> QED
      BY <3>1 DEF InOrder
  <2> QED
    BY <2>1, <2>2, <2>3 DEF InOrder
<1>8. q[r].id \in Ids(q)
  BY <1>2 DEF Ids
<1> QED
  BY <1>1, <1>6, <1>7, <1>8 DEF e

(* Erasing the first element of its priority lets nobody overtake.         *)
LEMMA EraseIsFair ==
    ASSUME NEW q \in Seq(Entry), NEW s, InOrder(q, s), Fair(q, s),
           NEW r, FirstOfItsPriority(q, r), Len(s) \in Nat
    PROVE  Fair(RemoveAt(q, r), s)
<1>1. r \in 1 .. Len(q) /\ Len(q) \in Nat /\ DOMAIN q = 1 .. Len(q)
  BY DEF FirstOfItsPriority
<1>2. Ids(RemoveAt(q, r)) = Ids(q) \ {q[r].id}
  BY <1>1, EraseOne
<1> SUFFICES ASSUME NEW a \in 1 .. Len(s), NEW b \in 1 .. Len(s), a < b,
                    Priority[s[a]] = Priority[s[b]], s[a] \in Ids(q) \ {q[r].id},
                    s[b] = q[r].id
             PROVE  FALSE
  BY <1>2 DEF Fair
<1>3. PICK k \in 1 .. Len(q) : s[a] = q[k].id
  BY <1>1 DEF Ids
<1>4. q[k].priority = q[r].priority /\ k # r
  BY <1>1, <1>3 DEF InOrder
<1>5. r < k
  BY <1>1, <1>4 DEF FirstOfItsPriority
<1>6. b < a
  BY <1>1, <1>3, <1>5 DEF InOrder
<1> QED
  BY <1>6

(* push_back of a message that was never sent.                             *)
LEMMA PushBack ==
    ASSUME IInv, NEW m \in Msgs, m \notin Range(sent),
           NEW q, q = Append(queue, [id |-> m, priority |-> Priority[m]]),
           NEW s, s = Append(sent, m)
    PROVE  /\ q \in Seq(Entry) /\ s \in Seq(Msgs) /\ q # <<>>
           /\ Len(q) = Len(queue) + 1 /\ Len(s) = Len(sent) + 1
           /\ Ids(q) = Ids(queue) \cup {m} /\ Range(s) = Range(sent) \cup {m}
           /\ m \notin Ids(queue)
           /\ InOrder(q, s) /\ Fair(q, s)
<1> DEFINE msg == [id |-> m, priority |-> Priority[m]]
           n == Len(queue)
           l == Len(sent)
<1>1. /\ queue \in Seq(Entry) /\ sent \in Seq(Msgs)
      /\ InOrder(queue, sent) /\ Fair(queue, sent)
      /\ Ids(queue) \subseteq Range(sent)
  BY DEF IInv, TypeOK, Conservation
<1>2. msg \in Entry /\ msg.id = m /\ msg.priority = Priority[m]
  BY QueueAssumption DEF Entry
<1> HIDE DEF msg
<1>3. /\ q \in Seq(Entry) /\ Len(q) = n + 1 /\ n \in Nat
      /\ DOMAIN q = 1 .. n + 1 /\ DOMAIN queue = 1 .. n
      /\ \A i \in 1 .. n : q[i] = queue[i]
      /\ q[n + 1] = msg
  <2>1. q = Append(queue, msg)
    BY DEF msg
  <2> QED
    BY <1>1, <1>2, <2>1
<1>4. /\ s \in Seq(Msgs) /\ Len(s) = l + 1 /\ l \in Nat
      /\ DOMAIN s = 1 .. l + 1 /\ DOMAIN sent = 1 .. l
      /\ \A a \in 1 .. l : s[a] = sent[a]
      /\ s[l + 1] = m
  BY <1>1
<1>5. m \notin Ids(queue)
  BY <1>1
<1>6. ASSUME NEW i \in 1 .. n + 1
      PROVE  i \in 1 .. n \/ i = n + 1
  BY <1>3
<1>7. ASSUME NEW a \in 1 .. l + 1
      PROVE  a \in 1 .. l \/ a = l + 1
  BY <1>4
<1>8. ASSUME NEW i \in 1 .. n
      PROVE  queue[i].id \in Ids(queue) /\ queue[i].id # m
  BY <1>3, <1>5 DEF Ids
<1>9. ASSUME NEW a \in 1 .. l
      PROVE  sent[a] # m
  BY <1>4 DEF Range
<1> HIDE DEF n, l
<1>10. Ids(q) = Ids(queue) \cup {m}
  <2>1. ASSUME NEW x \in Ids(q)
        PROVE  x \in Ids(queue) \cup {m}
    <3>1. PICK i \in 1 .. n + 1 : x = q[i].id
      BY <1>3 DEF Ids
    <3> QED
      BY <1>2, <1>3, <1>6, <1>8, <3>1
  <2>2. m \in Ids(q)
    <3>1. n + 1 \in 1 .. n + 1
      BY <1>3
    <3> QED
      BY <1>2, <1>3, <3>1 DEF Ids
  <2>3. ASSUME NEW x \in Ids(queue)
        PROVE  x \in Ids(q)
    <3>1. PICK i \in 1 .. n : x = queue[i].id
      BY <1>3 DEF Ids
    <3>2. i \in 1 .. n + 1
      BY <1>3
    <3> QED
      BY <1>3, <3>1, <3>2 DEF Ids
  <2> QED
    BY <2>1, <2>2, <2>3
<1>11. Range(s) = Range(sent) \cup {m}
  <2>1. ASSUME NEW x \in Range(s)
        PROVE  x \in Range(sent) \cup {m}
    <3>1. PICK a \in 1 .. l + 1 : x = s[a]
      BY <1>4 DEF Range
    <3> QED
      BY <1>4, <1>7, <3>1 DEF Range
  <2>2. m \in Range(s)
    <3>1. l + 1 \in 1 .. l + 1
      BY <1>4
    <3> QED
      BY <1>4, <3>1 DEF Range
  <2>3. ASSUME NEW x \in Range(sent)
        PROVE  x \in Range(s)
    <3>1. PICK a \in 1 .. l : x = sent[a]
      BY <1>4 DEF Range
    <3>2. a \in 1 .. l + 1
      BY <1>4
    <3> QED
      BY <1>4, <3>1, <3>2 DEF Range
  <2> QED
    BY <2>1, <2>2, <2>3
<1>12. InOrder(q, s)
  <2>1. ASSUME NEW i \in 1 .. n + 1
        PROVE  q[i].priority = Priority[q[i].id]
    BY <1>1, <1>2, <1>3, <1>6 DEF InOrder, n
  <2>2. ASSUME NEW i \in 1 .. n + 1, NEW j \in 1 .. n + 1, q[i].id = q[j].id
        PROVE  i = j
    <3>1. CASE i \in 1 .. n /\ j \in 1 .. n
      BY <1>1, <1>3, <2>2, <3>1 DEF InOrder, n
    <3> QED
      BY <1>2, <1>3, <1>6, <1>8, <2>2, <3>1
  <2>3. ASSUME NEW i \in 1 .. n + 1, NEW j \in 1 .. n + 1, i < j,
               NEW a \in 1 .. l + 1, NEW b \in 1 .. l + 1, s[a] = q[i].id, s[b] = q[j].id
        PROVE  a < b
    <3>1. i \in 1 .. n
      BY <1>3, <2>3
    <3>2. s[a] # m
      BY <1>3, <1>8, <2>3, <3>1
    <3>3. a \in 1 .. l /\ s[a] = sent[a]
      BY <1>4, <1>7, <3>2
    <3>4. CASE b = l + 1
      BY <1>4, <3>3, <3>4
    <3>5. CASE b \in 1 .. l
      <4>1. s[b] = sent[b] /\ sent[b] # m
        BY <1>4, <1>9, <3>5
      <4>2. j \in 1 .. n
        BY <1>2, <1>3, <1>6, <2>3, <4>1
      <4> QED
        BY <1>1, <1>3, <2>3, <3>1, <3>3, <3>5, <4>1, <4>2 DEF InOrder, n, l
    <3> QED
      BY <1>7, <3>4, <3>5
  <2> QED
    BY <1>3, <1>4, <2>1, <2>2, <2>3 DEF InOrder
<1>13. Fair(q, s)
  <2> SUFFICES ASSUME NEW a \in 1 .. l + 1, NEW b \in 1 .. l + 1, a < b,
                      Priority[s[a]] = Priority[s[b]], s[a] \in Ids(q)
               PROVE  s[b] \in Ids(q)
    BY <1>4 DEF Fair
  <2>1. CASE b = l + 1
    BY <1>4, <1>10, <2>1
  <2>2. CASE b \in 1 .. l
    <3>1. a \in 1 .. l /\ s[a] = sent[a] /\ s[b] = sent[b]
      BY <1>4, <2>2
    <3>2. sent[a] \in Ids(queue)
      BY <1>9, <1>10, <3>1
    <3> QED
      BY <1>1, <1>10, <2>2, <3>1, <3>2 DEF Fair, l
  <2> QED
    BY <1>7, <2>1, <2>2
<1> QED
  BY <1>3, <1>4, <1>5, <1>10, <1>11, <1>12, <1>13 DEF n, l
-----------------------------------------------------------------------------
(* An empty queue of a thread that has not received anything.              *)
LEMMA InitIInv == Init => IInv
<1> SUFFICES ASSUME Init
             PROVE  IInv
  OBVIOUS
<1>1. Len(queue) = 0 /\ Len(sent) = 0 /\ Len(got) = 0
  BY DEF Init
<1>2. Ids(queue) = {} /\ Range(sent) = {} /\ Range(got) = {}
  BY DEF Init, Ids, Range
<1>3. IsFiniteSet(purged) /\ Cardinality(purged) = 0 /\ purged = {}
  BY FS_EmptySet DEF Init
<1>4. TypeOK
  BY <1>3 DEF Init, TypeOK
<1>5. InOrder(queue, sent) /\ Fair(queue, sent)
  BY <1>1 DEF InOrder, Fair
<1>6. Conservation
  BY <1>1, <1>2, <1>3 DEF Conservation
<1> QED
  BY <1>4, <1>5, <1>6 DEF IInv

(* send(): what purge() erases was in the vector or is the new message.    *)
LEMMA SendStep ==
    ASSUME IInv, NEW m \in Msgs, Send(m)
    PROVE  IInv'
<1> DEFINE q == Append(queue, [id |-> m, priority |-> Priority[m]])
           r == Lowest(q)
<1>1. TypeOK /\ Conservation
  BY DEF IInv
<1>2. m \notin Range(sent) /\ sent' = Append(sent, m) /\ got' = got
  BY DEF Send
<1>3. /\ queue' = IF MaxLength = 0 \/ MaxLength >= Len(q) THEN q ELSE RemoveAt(q, r)
      /\ purged' = purged \cup ((Ids(queue) \cup {m}) \ Ids(queue'))
  BY DEF Send, Enqueue, Purge
<1>4. /\ q \in Seq(Entry) /\ sent' \in Seq(Msgs) /\ q # <<>>
      /\ Len(q) = Len(queue) + 1 /\ Len(sent') = Len(sent) + 1
      /\ Ids(q) = Ids(queue) \cup {m} /\ Range(sent') = Range(sent) \cup {m}
      /\ m \notin Ids(queue)
      /\ InOrder(q, sent') /\ Fair(q, sent')
  BY <1>2, PushBack
<1> HIDE DEF q, r
<1>5. /\ Len(queue) \in Nat /\ Len(got) \in Nat /\ Len(sent') \in Nat
      /\ Cardinality(purged) \in Nat
  <2>1. Cardinality(purged) \in Nat
    BY <1>1, FS_CardinalityType DEF TypeOK
  <2> QED
    BY <1>1, <1>4, <2>1 DEF TypeOK
<1>6. CASE queue' = q
  <2>1. purged' = purged
    BY <1>3, <1>4, <1>6
  <2>2. TypeOK'
    BY <1>1, <1>2, <1>4, <1>6, <2>1 DEF TypeOK
  <2>3. Len(sent') = Len(queue') + Len(got') + Cardinality(purged')
    BY <1>1, <1>2, <1>4, <1>5, <1>6, <2>1 DEF Conservation
  <2>4. /\ Range(sent') = Ids(queue') \cup Range(got') \cup purged'
        /\ Ids(queue') \cap Range(got') = {}
        /\ purged' \cap (Ids(queue') \cup Range(got')) = {}
    BY <1>1, <1>2, <1>4, <1>6, <2>1 DEF Conservation
  <2>5. Conservation'
    BY <2>3, <2>4 DEF Conservation
  <2>6. InOrder(queue', sent') /\ Fair(queue', sent')
    BY <1>4, <1>6
  <2> QED
    BY <2>2, <2>5, <2>6 DEF IInv, InOrder, Fair, Ids
<1>7. CASE queue' = RemoveAt(q, r)
  <2> DEFINE x == q[r].id
  <2>1. FirstOfItsPriority(q, r) /\ r \in 1 .. Len(q)
    BY <1>4, LowestIsFirst DEF r, FirstOfItsPriority
  <2>2. /\ queue' \in Seq(Entry) /\ Len(queue') = Len(q) - 1
        /\ Ids(queue') = Ids(q) \ {x} /\ x \in Ids(q)
        /\ InOrder(queue', sent')
    BY <1>4, <1>7, <2>1, EraseOne
  <2>3. Fair(queue', sent')
    BY <1>4, <1>5, <1>7, <2>1, EraseIsFair
  <2> HIDE DEF x
  <2>4. purged' = purged \cup {x} /\ x \notin purged
    BY <1>1, <1>2, <1>3, <1>4, <2>2 DEF Conservation
  <2>5. IsFiniteSet(purged') /\ Cardinality(purged') = Cardinality(purged) + 1
    BY <1>1, <2>4, FS_AddElement DEF TypeOK
  <2>6. TypeOK'
    BY <1>1, <1>2, <1>4, <2>2, <2>5 DEF TypeOK
  <2>7. Len(sent') = Len(queue') + Len(got') + Cardinality(purged')
    BY <1>1, <1>2, <1>4, <1>5, <2>2, <2>5 DEF Conservation
  <2>8. /\ Range(sent') = Ids(queue') \cup Range(got') \cup purged'
        /\ Ids(queue') \cap Range(got') = {}
        /\ purged' \cap (Ids(queue') \cup Range(got')) = {}
    BY <1>1, <1>2, <1>4, <2>2, <2>4 DEF Conservation
  <2>9. Conservation'
    BY <2>7, <2>8 DEF Conservation
  <2> QED
    BY <2>2, <2>3, <2>6, <2>9 DEF IInv, InOrder, Fair, Ids
<1> QED
  BY <1>3, <1>6, <1>7

(* The end of receive(): one message goes from the vector to the receiver. *)
LEMMA TakeStep ==
    ASSUME IInv, Take
    PROVE  IInv'
<1> DEFINE r == Highest(queue)
           x == queue[r].id
<1>1. TypeOK /\ Conservation /\ InOrder(queue, sent) /\ Fair(queue, sent)
  BY DEF IInv
<1>2. /\ queue # <<>> /\ queue' = RemoveAt(queue, r) /\ got' = Append(got, x)
      /\ UNCHANGED <<sent, purged>>
  BY DEF Take, Received, Remaining
<1>3. queue \in Seq(Entry) /\ got \in Seq(Msgs) /\ Len(sent) \in Nat
  BY <1>1 DEF TypeOK
<1>4. FirstOfItsPriority(queue, r)
  BY <1>2, <1>3, HighestIsFirst
<1> HIDE DEF r
<1>5. r \in 1 .. Len(queue)
  BY <1>4 DEF FirstOfItsPriority
<1>6. /\ queue' \in Seq(Entry) /\ Len(queue') = Len(queue) - 1
      /\ Ids(queue') = Ids(queue) \ {x} /\ x \in Ids(queue)
      /\ InOrder(queue', sent)
  BY <1>1, <1>2, <1>3, <1>5, EraseOne
<1>7. Fair(queue', sent)
  BY <1>1, <1>2, <1>3, <1>4, EraseIsFair
<1>8. x \in Msgs
  <2>1. queue[r] \in Entry
    BY <1>3, <1>5, ElementOfSeq
  <2> QED
    BY <2>1 DEF Entry
<1> HIDE DEF x
<1>9. /\ got' \in Seq(Msgs) /\ Len(got') = Len(got) + 1 /\ Len(got) \in Nat
      /\ DOMAIN got = 1 .. Len(got) /\ DOMAIN got' = 1 .. Len(got) + 1
      /\ \A k \in 1 .. Len(got) : got'[k] = got[k]
      /\ got'[Len(got) + 1] = x
  BY <1>2, <1>3, <1>8
<1>10. Range(got') = Range(got) \cup {x}
  <2>1. ASSUME NEW y \in Range(got')
        PROVE  y \in Range(got) \cup {x}
    <3>1. PICK k \in 1 .. Len(got) + 1 : y = got'[k]
      BY <1>9 DEF Range
    <3>2. k \in 1 .. Len(got) \/ k = Len(got) + 1
      BY <1>9
    <3> QED
      BY <1>9, <3>1, <3>2 DEF Range
  <2>2. ASSUME NEW y \in Range(got)
        PROVE  y \in Range(got')
    <3>1. PICK k \in 1 .. Len(got) : y = got[k]
      BY <1>9 DEF Range
    <3>2. k \in 1 .. Len(got) + 1
      BY <1>9
    <3> QED
      BY <1>9, <3>1, <3>2 DEF Range
  <2>3. x \in Range(got')
    <3>1. Len(got) + 1 \in 1 .. Len(got) + 1
      BY <1>9
    <3> QED
      BY <1>9, <3>1 DEF Range
  <2> QED
    BY <2>1, <2>2, <2>3
<1>11. Cardinality(purged) \in Nat /\ Len(queue) \in Nat
  BY <1>1, FS_CardinalityType DEF TypeOK
<1>12. Len(sent') = Len(queue') + Len(got') + Cardinality(purged')
  BY <1>1, <1>2, <1>6, <1>9, <1>11 DEF Conservation
<1>13. /\ Range(sent') = Ids(queue') \cup Range(got') \cup purged'
       /\ Ids(queue') \cap Range(got') = {}
       /\ purged' \cap (Ids(queue') \cup Range(got')) = {}
  BY <1>1, <1>2, <1>6, <1>10 DEF Conservation
<1>14. Conservation'
  BY <1>12, <1>13 DEF Conservation
<1>15. TypeOK'
  BY <1>1, <1>2, <1>6, <1>9 DEF TypeOK
<1> QED
  BY <1>2, <1>6, <1>7, <1>14, <1>15 DEF IInv, InOrder, Fair, Ids

(* The inductive invariant.                                                *)
THEOREM Inductive == Spec => []IInv
<1>1. IInv /\ [Next]_vars => IInv'
  <2> SUFFICES ASSUME IInv, [Next]_vars
               PROVE  IInv'
    OBVIOUS
  <2>1. CASE UNCHANGED <<queue, sent, got, purged>>
    <3>1. TypeOK'
      BY <2>1 DEF IInv, TypeOK
    <3>2. InOrder(queue, sent)' /\ Fair(queue, sent)'
      BY <2>1 DEF IInv, InOrder, Fair, Ids
    <3>3. Conservation'
      <4>1. Ids(queue') = Ids(queue) /\ Range(sent') = Range(sent) /\ Range(got') = Range(got)
        BY <2>1
      <4>2. Len(sent') = Len(queue') + Len(got') + Cardinality(purged')
        BY <2>1 DEF IInv, Conservation
      <4> QED
        BY <2>1, <4>1, <4>2 DEF IInv, Conservation
    <3> QED
      BY <3>1, <3>2, <3>3 DEF IInv
  <2>2. ASSUME NEW m \in Msgs, Send(m)
        PROVE  IInv'
    BY <2>2, SendStep
  <2>3. CASE ReceiveNow \/ (Resume /\ Take)
    BY <2>3, TakeStep DEF ReceiveNow
  <2>4. CASE ReceiveWait \/ SpuriousWakeup \/ ReadNothing
    BY <2>1, <2>4 DEF ReceiveWait, SpuriousWakeup, ReadNothing
  <2>5. CASE UNCHANGED vars
    BY <2>1, <2>5 DEF vars
  <2> QED
    BY <2>5, <2>4, <2>3, <2>2 DEF Next, Resume
<1> QED
  BY InitIInv, <1>1, PTL DEF Spec

(* Every message sent is in the vector, was received once, or was erased   *)
(* by purge(), for any messages, priorities and maxlength.                 *)
THEOREM NothingIsLost == Spec => []Conservation
<1>1. IInv => Conservation
  BY DEF IInv
<1> QED
  BY Inductive, <1>1, PTL

(* Messages of one priority leave the queue in the order of send().        *)
THEOREM NobodyOvertakes == Spec => []NoOvertaking
<1>1. IInv => NoOvertaking
  <2> SUFFICES ASSUME IInv
               PROVE  NoOvertaking
    OBVIOUS
  <2>1. DOMAIN sent = 1 .. Len(sent)
    BY DEF IInv, TypeOK
  <2> QED
    BY <2>1 DEF IInv, Fair, NoOvertaking
<1> QED
  BY Inductive, <1>1, PTL
=============================================================================
