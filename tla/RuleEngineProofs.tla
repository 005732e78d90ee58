-------------------------- MODULE RuleEngineProofs --------------------------
(***************************************************************************)
(* Proofs about the rule engine, for any counters, conditions, rules,      *)
(* events, programmes and any length of a run.                             *)
(***************************************************************************)
EXTENDS RuleEngine, SequenceTheorems, FiniteSetTheorems, TLAPS

-----------------------------------------------------------------------------
(* A set of natural numbers that is not empty has a least element: its     *)
(* initial segments are finite, and strict inclusion is well-founded.      *)
LEMMA LeastOf ==
    ASSUME NEW S \in SUBSET Nat, S # {}
    PROVE  \E x \in S : \A y \in S : x <= y
<1> DEFINE Below(x) == 0 .. (x - 1)
           T == {Below(x) : x \in S}
           R == StrictSubsetOrdering(Nat)
<1>1. T \subseteq FiniteSubsetsOf(Nat) /\ T # {}
  <2>1. \A x \in S : IsFiniteSet(Below(x)) /\ Below(x) \subseteq Nat
    BY FS_Interval
  <2>2. T # {}
    OBVIOUS
  <2> QED
    BY <2>1, <2>2 DEF FiniteSubsetsOf
<1>2. PICK m \in T : \A t \in T : <<t, m>> \notin R
  <2>1. IsWellFoundedOn(R, FiniteSubsetsOf(Nat))
    BY FS_StrictSubsetOrderingWellFounded
  <2> HIDE DEF T, R
  <2> QED
    BY <2>1, <1>1, WFMin
<1>3. PICK x \in S : m = Below(x)
  BY <1>2
<1>4. ASSUME NEW y \in S, y < x
      PROVE  FALSE
  <2>1. y \in Below(x) /\ y \notin Below(y) /\ Below(y) \subseteq Below(x)
    BY <1>4
  <2>2. <<Below(y), Below(x)>> \in R
    BY <2>1 DEF StrictSubsetOrdering
  <2> QED
    BY <1>2, <1>3, <2>2
<1>5. \A y \in S : x <= y
  BY <1>4
<1> QED
  BY <1>5

(* The numbers of a set are ranked one after the other.                    *)
LEMMA Ranks ==
    ASSUME NEW n \in Nat, NEW S \in SUBSET (1..n)
    PROVE  /\ Cardinality(S) \in Nat
           /\ \A i \in S : Cardinality(S \cap (1..i)) \in 1..Cardinality(S)
           /\ \A i, j \in S : i < j => Cardinality(S \cap (1..i)) < Cardinality(S \cap (1..j))
           /\ \A m \in 1..Cardinality(S) : \E i \in S : Cardinality(S \cap (1..i)) = m
<1> DEFINE Upto(i) == S \cap (1..i)
           rank(i) == Cardinality(Upto(i))
<1>1. IsFiniteSet(S) /\ Cardinality(S) \in Nat
  <2>1. IsFiniteSet(1..n)
    BY FS_Interval
  <2>2. IsFiniteSet(S)
    BY <2>1, FS_Subset
  <2> QED
    BY <2>2, FS_CardinalityType
<1>2. \A i \in Int : IsFiniteSet(Upto(i)) /\ rank(i) \in Nat /\ rank(i) <= Cardinality(S)
  <2> TAKE i \in Int
  <2>1. Upto(i) \in SUBSET S
    OBVIOUS
  <2>2. IsFiniteSet(Upto(i)) /\ rank(i) <= Cardinality(S)
    BY <1>1, <2>1, FS_Subset
  <2> QED
    BY <2>2, FS_CardinalityType
<1>3. \A i \in 1..n : rank(i) = IF i \in S THEN rank(i - 1) + 1 ELSE rank(i - 1)
  <2> TAKE i \in 1..n
  <2>1. IsFiniteSet(Upto(i - 1))
    BY <1>2
  <2>2. CASE i \in S
    <3>1. Upto(i) = Upto(i - 1) \cup {i} /\ i \notin Upto(i - 1)
      BY <2>2
    <3>2. Cardinality(Upto(i - 1) \cup {i}) = Cardinality(Upto(i - 1)) + 1
      <4> HIDE DEF Upto
      <4> QED
        BY <2>1, <3>1, FS_AddElement
    <3> QED
      BY <2>2, <3>1, <3>2
  <2>3. CASE i \notin S
    <3>1. Upto(i) = Upto(i - 1)
      BY <2>3
    <3> QED
      BY <2>3, <3>1
  <2> QED
    BY <2>2, <2>3
<1>4. \A i, j \in 0..n : i <= j => rank(i) <= rank(j)
  <2> TAKE i, j \in 0..n
  <2> HAVE i <= j
  <2>1. Upto(i) \in SUBSET Upto(j)
    OBVIOUS
  <2>2. IsFiniteSet(Upto(j))
    BY <1>2
  <2> HIDE DEF Upto
  <2> QED
    BY <2>1, <2>2, FS_Subset
<1>5. ASSUME NEW i \in S, NEW j \in S, i < j
      PROVE  rank(i) < rank(j)
  <2>1. rank(i) <= rank(j - 1) /\ rank(j) = rank(j - 1) + 1
    <3>1. i \in 1..n /\ j \in 1..n /\ i \in 0..n /\ j - 1 \in 0..n /\ i <= j - 1
      BY <1>5
    <3> HIDE DEF rank
    <3> QED
      BY <1>3, <1>4, <3>1
  <2>2. rank(i) \in Nat /\ rank(j) \in Nat /\ rank(j - 1) \in Nat
    <3>1. i \in Int /\ j \in Int /\ j - 1 \in Int
      OBVIOUS
    <3> HIDE DEF rank, Upto
    <3> QED
      BY <1>2, <3>1
  <2> HIDE DEF rank
  <2> QED
    BY <2>1, <2>2
<1>6. ASSUME NEW i \in S
      PROVE  rank(i) \in 1..Cardinality(S)
  <2>1. rank(i) = rank(i - 1) + 1
    BY <1>3
  <2>2. rank(i) \in Nat /\ rank(i - 1) \in Nat /\ rank(i) <= Cardinality(S)
    <3>1. i \in Int /\ i - 1 \in Int
      OBVIOUS
    <3> HIDE DEF rank, Upto
    <3> QED
      BY <1>2, <3>1
  <2> HIDE DEF rank
  <2> QED
    BY <1>1, <2>1, <2>2
<1>7. ASSUME NEW m \in 1..Cardinality(S)
      PROVE  \E i \in S : rank(i) = m
  <2> DEFINE T == {i \in 0..n : rank(i) >= m}
  <2>1. rank(n) = Cardinality(S) /\ rank(0) = 0
    <3>1. Upto(n) = S
      OBVIOUS
    <3>2. 1..0 = {}
      OBVIOUS
    <3>3. Upto(0) = {}
      BY <3>2
    <3> QED
      BY <3>1, <3>3, FS_EmptySet
  <2>2. PICK i \in T : \A j \in T : i <= j
    <3>1. n \in T /\ T \in SUBSET Nat
      BY <1>1, <2>1
    <3> HIDE DEF T
    <3> QED
      BY <3>1, LeastOf
  <2> HIDE DEF rank
  <2>3. i \in 1..n /\ i - 1 \in 0..n /\ i - 1 \notin T
    BY <1>1, <2>1, <2>2
  <2>4. rank(i - 1) < m /\ rank(i - 1) \in Nat /\ rank(i) >= m
    <3>1. ~(rank(i - 1) >= m) /\ rank(i) >= m
      BY <2>2, <2>3
    <3>2. rank(i - 1) \in Nat
      <4>1. i - 1 \in Int
        BY <2>3
      <4> HIDE DEF Upto
      <4> QED
        BY <1>2, <4>1
    <3> QED
      BY <1>1, <3>1, <3>2
  <2>5. i \in S /\ rank(i) = rank(i - 1) + 1
    BY <1>3, <2>3, <2>4
  <2> QED
    BY <2>4, <2>5
<1> QED
  BY <1>1, <1>5, <1>6, <1>7

-----------------------------------------------------------------------------
(* History of a counter *)

Event == [at : Nat, time : Nat]

(* The loop of EvList::update is well defined: it erases every second one  *)
(* of a run of old events.                                                 *)
LEMMA ErasedExists ==
    ASSUME NEW h \in Seq(Event), NEW limit \in Int
    PROVE  \E e : e = [i \in 0..Len(h) |-> i > 0 /\ h[i].time < limit /\ ~e[i - 1]]
<1> DEFINE n == Len(h)
           Old(i) == h[i].time < limit
           Run(s, i) == (\A k \in s..i : Old(k)) /\ (s = 1 \/ ~Old(s - 1))
           Odd(i) == \E s \in 1..i : Run(s, i) /\ (i - s) % 2 = 0
           g == [i \in 0..n |-> Odd(i)]
<1> HIDE DEF Old
<1>1. ASSUME NEW i \in 1..n, Odd(i)
      PROVE  Old(i) /\ ~Odd(i - 1)
  <2>1. PICK s \in 1..i : Run(s, i) /\ (i - s) % 2 = 0
    BY <1>1
  <2>2. Old(i)
    BY <2>1
  <2>3. ASSUME NEW r \in 1..(i - 1), Run(r, i - 1), (i - 1 - r) % 2 = 0
        PROVE  FALSE
    <3>1. CASE s = r
      BY <2>1, <2>3, <3>1
    <3>2. CASE s < r
      <4>1. r - 1 \in s..i /\ r # 1
        BY <3>2
      <4> QED
        BY <2>1, <2>3, <4>1
    <3>3. CASE r < s
      <4>1. s - 1 \in r..(i - 1) /\ s # 1
        BY <3>3
      <4> QED
        BY <2>1, <2>3, <4>1
    <3> QED
      BY <3>1, <3>2, <3>3
  <2> QED
    BY <2>2, <2>3
<1>2. ASSUME NEW i \in 1..n, Old(i), ~Odd(i - 1)
      PROVE  Odd(i)
  <2> DEFINE T == {s \in 1..i : \A k \in s..i : Old(k)}
  <2>1. PICK s \in T : \A r \in T : s <= r
    <3>1. i \in T /\ T \in SUBSET Nat
      BY <1>2
    <3> HIDE DEF T
    <3> QED
      BY <3>1, LeastOf
  <2>2. s \in 1..i /\ Run(s, i)
    <3>1. ASSUME s # 1, Old(s - 1)
          PROVE  FALSE
      <4>1. s - 1 \in 1..i /\ \A k \in (s - 1)..i : Old(k)
        BY <2>1, <3>1
      <4> QED
        BY <2>1, <4>1
    <3> QED
      BY <2>1, <3>1
  <2>3. ASSUME (i - s) % 2 # 0
        PROVE  FALSE
    <3>1. s \in 1..(i - 1) /\ (i - 1 - s) % 2 = 0
      BY <2>2, <2>3
    <3>2. Run(s, i - 1)
      BY <2>2, <3>1
    <3> QED
      BY <1>2, <3>1, <3>2
  <2> QED
    BY <2>2, <2>3
<1>3. ~Odd(0)
  OBVIOUS
<1> HIDE DEF Odd
<1>4. \A i \in 0..n : g[i] <=> Odd(i)
  OBVIOUS
<1>5. \A i \in 0..n : Odd(i) <=> (i > 0 /\ Old(i) /\ ~g[i - 1])
  <2> TAKE i \in 0..n
  <2>1. CASE i = 0
    BY <1>3, <2>1
  <2>2. CASE i # 0
    <3>1. i \in 1..n /\ i - 1 \in 0..n /\ i > 0
      BY <2>2
    <3>2. g[i - 1] <=> Odd(i - 1)
      BY <1>4, <3>1
    <3> HIDE DEF g
    <3> QED
      BY <1>1, <1>2, <3>1, <3>2
  <2> QED
    BY <2>1, <2>2
<1>6. \A i \in 0..n : Odd(i) = (i > 0 /\ Old(i) /\ ~g[i - 1])
  <2> TAKE i \in 0..n
  <2>1. Odd(i) \in BOOLEAN
    BY Zenon DEF Odd
  <2>2. Odd(i) <=> (i > 0 /\ Old(i) /\ ~g[i - 1])
    BY <1>5
  <2> HIDE DEF g
  <2> QED
    BY <2>1, <2>2, Zenon
<1>7. g = [i \in 0..n |-> i > 0 /\ Old(i) /\ ~g[i - 1]]
  BY <1>6, Zenon
<1> QED
  BY <1>7 DEF Old

(* EvList::update keeps the events that are not old, and their order.      *)
LEMMA EvListKeeps ==
    ASSUME NEW h \in Seq(Event), NEW limit \in Int
    PROVE  /\ EvListUpdate(h, limit) \in Seq(Event)
           /\ \A j \in 1..Len(EvListUpdate(h, limit)) :
                 \E i \in 1..Len(h) : EvListUpdate(h, limit)[j] = h[i]
           /\ \A i \in 1..Len(h) : h[i].time >= limit =>
                 \E j \in 1..Len(EvListUpdate(h, limit)) : EvListUpdate(h, limit)[j] = h[i]
           /\ \A i, j \in 1..Len(EvListUpdate(h, limit)) : i < j =>
                 \E a, b \in 1..Len(h) : /\ a < b
                                         /\ EvListUpdate(h, limit)[i] = h[a]
                                         /\ EvListUpdate(h, limit)[j] = h[b]
<1> DEFINE n == Len(h)
           erased == CHOOSE e : e = [i \in 0..Len(h) |-> i > 0 /\ h[i].time < limit /\ ~e[i - 1]]
           S == {i \in DOMAIN h : ~erased[i]}
           rank(i) == Cardinality({k \in 1..i : ~erased[k]})
           pos(j) == CHOOSE i \in DOMAIN h : ~erased[i] /\ rank(i) = j
           u == EvListUpdate(h, limit)
<1>1. u = [j \in 1..Cardinality(S) |-> h[pos(j)]]
  BY DEF EvListUpdate
<1>2. erased = [i \in 0..Len(h) |-> i > 0 /\ h[i].time < limit /\ ~erased[i - 1]]
  BY ErasedExists, Zenon
<1> HIDE DEF erased, u
<1>3. DOMAIN h = 1..n /\ n \in Nat
  OBVIOUS
<1>4. \A i \in 1..n : h[i].time >= limit => ~erased[i]
  <2>1. \A i \in 0..n : erased[i] => h[i].time < limit
    BY <1>2, Zenon
  <2>2. \A i \in 1..n : h[i] \in Event
    OBVIOUS
  <2> QED
    BY <2>1, <2>2 DEF Event
<1>5. S \in SUBSET (1..n) /\ \A i \in 1..n : rank(i) = Cardinality(S \cap (1..i))
  <2>1. \A i \in 1..n : {k \in 1..i : ~erased[k]} = S \cap (1..i)
    BY <1>3
  <2> QED
    BY <1>3, <2>1
<1> DEFINE m == Cardinality(S)
<1>6. /\ m \in Nat
      /\ \A i \in S : rank(i) \in 1..m
      /\ \A i, j \in S : i < j => rank(i) < rank(j)
      /\ \A j \in 1..m : \E i \in S : rank(i) = j
  <2>1. \A i \in S : i \in 1..n
    BY <1>5
  <2> DEFINE rk(i) == Cardinality(S \cap (1..i))
  <2>2. /\ Cardinality(S) \in Nat
        /\ \A i \in S : rk(i) \in 1..Cardinality(S)
        /\ \A i, j \in S : i < j => rk(i) < rk(j)
        /\ \A j \in 1..Cardinality(S) : \E i \in S : rk(i) = j
    <3> HIDE DEF S
    <3> QED
      BY <1>3, <1>5, Ranks
  <2>3. \A i \in S : rank(i) = rk(i)
    BY <1>5, <2>1
  <2> HIDE DEF S, rank, rk
  <2> QED
    BY <2>2, <2>3
<1>7. \A j \in 1..m : pos(j) \in S /\ rank(pos(j)) = j
  <2> HIDE DEF rank, m
  <2> TAKE j \in 1..m
  <2>1. \E i \in DOMAIN h : ~erased[i] /\ rank(i) = j
    BY <1>6
  <2>2. pos(j) \in DOMAIN h /\ ~erased[pos(j)] /\ rank(pos(j)) = j
    BY <2>1, Zenon
  <2> QED
    BY <2>2
<1> HIDE DEF S, rank, pos, m
<1>8. Len(u) = m /\ u \in Seq(Event) /\ \A j \in 1..m : u[j] = h[pos(j)]
  <2>1. \A j \in 1..m : h[pos(j)] \in Event
    <3>1. \A j \in 1..m : pos(j) \in 1..n
      BY <1>5, <1>7
    <3>2. \A i \in 1..n : h[i] \in Event
      OBVIOUS
    <3> QED
      BY <3>1, <3>2
  <2>2. u = [j \in 1..m |-> h[pos(j)]]
    BY <1>1 DEF m
  <2> QED
    BY <1>6, <2>1, <2>2
<1>9. ASSUME NEW i \in S, NEW j \in S, rank(i) = rank(j)
      PROVE  i = j
  <2>1. i \in Nat /\ j \in Nat
    BY <1>3, <1>5
  <2>2. rank(i) \in Nat /\ rank(j) \in Nat
    BY <1>6
  <2> QED
    BY <1>6, <1>9, <2>1, <2>2
<1>10. ASSUME NEW i \in 1..n, h[i].time >= limit
       PROVE  \E j \in 1..Len(u) : u[j] = h[i]
  <2>1. i \in S
    BY <1>3, <1>4, <1>10 DEF S
  <2>2. rank(i) \in 1..m /\ pos(rank(i)) = i
    BY <1>6, <1>7, <1>9, <2>1
  <2> QED
    BY <1>8, <2>2
<1>11. ASSUME NEW i \in 1..Len(u), NEW j \in 1..Len(u), i < j
       PROVE  \E a, b \in 1..n : a < b /\ u[i] = h[a] /\ u[j] = h[b]
  <2>1. pos(i) \in S /\ pos(j) \in S /\ rank(pos(i)) = i /\ rank(pos(j)) = j
    BY <1>7, <1>8
  <2>2. pos(i) \in 1..n /\ pos(j) \in 1..n
    BY <1>5, <2>1
  <2>3. pos(i) < pos(j)
    <3>1. ~(pos(j) < pos(i)) /\ pos(i) # pos(j)
      BY <1>6, <1>8, <1>11, <2>1
    <3> QED
      BY <2>2, <3>1
  <2> QED
    BY <1>8, <2>2, <2>3
<1>12. \A j \in 1..Len(u) : \E i \in 1..n : u[j] = h[i]
  <2>1. \A j \in 1..m : pos(j) \in 1..n
    BY <1>5, <1>7
  <2> QED
    BY <1>8, <2>1
<1> QED
  BY <1>8, <1>10, <1>11, <1>12 DEF u

-----------------------------------------------------------------------------
(* The delay queue of a counter *)

Delayed  == [at : Nat, deadline : Nat]
Queue(S) == [msgs : Seq(S), next_message : Nat, next_deadline : Nat]

(* next_message and next_deadline belong to a message of the queue.        *)
Pointed(q) ==
    q.msgs # <<>> => /\ q.next_message \in 1..Len(q.msgs)
                     /\ q.next_deadline = q.msgs[q.next_message].deadline

(* deadlineUpdate finds a message.                                         *)
LEMMA DeadlineProperties ==
    ASSUME NEW S \in SUBSET Delayed, NEW ms \in Seq(S)
    PROVE  deadlineUpdate(ms) \in Queue(S) /\ Pointed(deadlineUpdate(ms))
<1> DEFINE D == DOMAIN ms
           Least(i) == \A j \in D : \/ ms[i].deadline < ms[j].deadline
                                    \/ ms[i].deadline = ms[j].deadline /\ i <= j
           first == CHOOSE i \in D : Least(i)
<1>1. CASE ms = <<>>
  <2>1. deadlineUpdate(ms) = EmptyQueue
    BY <1>1 DEF deadlineUpdate
  <2>2. EmptyQueue.msgs = <<>>
    BY DEF EmptyQueue
  <2>3. EmptyQueue \in Queue(S)
    <3>1. <<>> \in Seq(S)
      OBVIOUS
    <3> QED
      BY <3>1 DEF EmptyQueue, Queue
  <2> QED
    BY <2>1, <2>2, <2>3 DEF Pointed
<1>2. CASE ms # <<>>
  <2>1. D = 1..Len(ms) /\ Len(ms) \in Nat \ {0}
    BY <1>2, EmptySeq
  <2>2. \A i \in D : ms[i] \in S /\ ms[i].deadline \in Nat
    BY DEF Delayed
  <2>3. PICK low \in {ms[i].deadline : i \in D} : \A i \in D : low <= ms[i].deadline
    <3> DEFINE V == {ms[i].deadline : i \in D}
    <3>1. V \in SUBSET Nat /\ V # {}
      BY <2>1, <2>2
    <3>2. \E v \in V : \A w \in V : v <= w
      <4> HIDE DEF V
      <4> QED
        BY <3>1, LeastOf
    <3> QED
      BY <3>2
  <2>4. PICK m \in D : ms[m].deadline = low /\ \A i \in D : ms[i].deadline = low => m <= i
    <3> DEFINE M == {i \in D : ms[i].deadline = low}
    <3>1. M \in SUBSET Nat /\ M # {}
      BY <2>1, <2>3
    <3>2. \E i \in M : \A j \in M : i <= j
      <4> HIDE DEF M
      <4> QED
        BY <3>1, LeastOf
    <3> QED
      BY <3>2
  <2>5. Least(m)
    <3> SUFFICES ASSUME NEW j \in D
                 PROVE  \/ ms[m].deadline < ms[j].deadline
                        \/ ms[m].deadline = ms[j].deadline /\ m <= j
      OBVIOUS
    <3>1. low <= ms[j].deadline /\ low \in Nat /\ ms[j].deadline \in Nat
      BY <2>2, <2>3
    <3> QED
      BY <2>4, <3>1
  <2>6. first \in D
    <3> HIDE DEF Least, D
    <3> QED
      BY <2>5
  <2>7. deadlineUpdate(ms)
          = [msgs |-> ms, next_message |-> first, next_deadline |-> ms[first].deadline]
    BY <1>2 DEF deadlineUpdate
  <2> HIDE DEF first
  <2> QED
    BY <2>1, <2>2, <2>6, <2>7 DEF Queue, Pointed
<1> QED
  BY <1>1, <1>2

(* Erasing an element leaves elements of the sequence.                     *)
LEMMA RemoveAtType ==
    ASSUME NEW S, NEW s \in Seq(S), NEW n \in 1..Len(s)
    PROVE  RemoveAt(s, n) \in Seq(S)
<1>1. SubSeq(s, 1, n - 1) \in Seq(S)
  <2>1. \A i \in 1..(n - 1) : s[i] \in S
    OBVIOUS
  <2> QED
    BY <2>1, SubSeqProperties
<1>2. SubSeq(s, n + 1, Len(s)) \in Seq(S)
  <2>1. \A i \in (n + 1)..Len(s) : s[i] \in S
    OBVIOUS
  <2> QED
    BY <2>1, SubSeqProperties
<1> QED
  BY <1>1, <1>2, ConcatProperties DEF RemoveAt

(* messageGet returns a message of the queue and leaves the others.        *)
LEMMA GetProperties ==
    ASSUME NEW S \in SUBSET Delayed, NEW q \in Queue(S), Pointed(q), q.msgs # <<>>
    PROVE  /\ Got(q) \in S /\ q.next_deadline = Got(q).deadline
           /\ Rest(q) \in Queue(S) /\ Pointed(Rest(q))
<1>1. q.msgs \in Seq(S) /\ q.next_message \in 1..Len(q.msgs)
  BY DEF Queue, Pointed
<1>2. Got(q) \in S /\ q.next_deadline = Got(q).deadline
  BY <1>1 DEF Got, Pointed
<1>3. RemoveAt(q.msgs, q.next_message) \in Seq(S)
  BY <1>1, RemoveAtType
<1> QED
  BY <1>2, <1>3, DeadlineProperties DEF Rest

(* messageAppend adds the message, unless the queue is full.               *)
LEMMA QueueAppend ==
    ASSUME NEW S \in SUBSET Delayed, NEW q \in Queue(S), Pointed(q), NEW c, NEW t,
           [at |-> t, deadline |-> t + CounterConf[c].delay] \in S
    PROVE  messageAppend(q, c, t) \in Queue(S) /\ Pointed(messageAppend(q, c, t))
<1> DEFINE e == [at |-> t, deadline |-> t + CounterConf[c].delay]
<1>1. e \in S
  OBVIOUS
<1> HIDE DEF e
<1>2. Append(q.msgs, e) \in Seq(S)
  <2>1. q.msgs \in Seq(S)
    BY DEF Queue
  <2> QED
    BY <1>1, <2>1, AppendProperties
<1>3. deadlineUpdate(Append(q.msgs, e)) \in Queue(S) /\ Pointed(deadlineUpdate(Append(q.msgs, e)))
  BY <1>2, DeadlineProperties
<1> QED
  BY <1>3 DEF messageAppend, e

-----------------------------------------------------------------------------
(* One counter *)

(* What messages may wait at a counter with configuration f when the       *)
(* programme changed last at ch, and what it may have counted until t.     *)
Waiting(f, ch) == {x \in Delayed : /\ f.delay # None
                                   /\ x.deadline = x.at + f.delay
                                   /\ x.at > ch}
Past(f, t, ch) == {e \in Event : /\ e.time <= t
                                 /\ f.delay # None => e.time >= e.at + f.delay
                                 /\ e.time > ch => e.at > ch}

QueueOK(q, f, ch) == q \in Queue(Waiting(f, ch)) /\ Pointed(q)

(* The history h of what es has counted until t is in order, and an event  *)
(* younger than the memory is in it.                                       *)
Ordered(h, t) == /\ \A i \in 1..Len(h) : h[i].time <= t
                 /\ \A i, j \in 1..Len(h) : i < j => h[i].time <= h[j].time
Keeps(h, es, f, t) ==
    \A i \in 1..Len(es) : es[i].time >= t - f.memory => \E j \in 1..Len(h) : h[j] = es[i]

(* What is left at t of the events from number j, counted at s, to n.      *)
Level(f, n, j, t, s) == f.inc * (n - j + 1) - f.dec * (t - s)

Leaky(x, es, f, t) ==
    /\ \A j \in 1..Len(es) : Level(f, Len(es), j, t, es[j].time) <= x
    /\ f.delay = None => x = 0 \/ \E j \in 1..Len(es) : x = Level(f, Len(es), j, t, es[j].time)

CounterInv(x, h, q, es, f, t, ch) ==
    /\ x \in Nat /\ h \in Seq(Event) /\ es \in Seq(Past(f, t, ch))
    /\ QueueOK(q, f, ch)
    /\ Ordered(h, t)
    /\ Keeps(h, es, f, t)
    /\ Leaky(x, es, f, t)

(* Products.                                                               *)
LEMMA Products ==
    ASSUME NEW a \in Nat, NEW x \in Int, NEW y \in Int
    PROVE  /\ a * x \in Int /\ a * 0 = 0
           /\ a * (x + y) = a * x + a * y
           /\ a * (x - y) = a * x - a * y
           /\ x <= y => a * x <= a * y
<1>1. a * x \in Int /\ a * 0 = 0 /\ a * (x + y) = a * x + a * y /\ a * (x - y) = a * x - a * y
  OBVIOUS
<1>2. x <= y => a * x <= a * y
  OBVIOUS
<1> QED
  BY <1>1, <1>2

Numbers(f) == /\ f.inc \in Nat /\ f.dec \in Nat /\ f.memory \in Nat
              /\ f.delay \in Nat \cup {None}

(* Levels are numbers; how they change with time, with one more event, and *)
(* where they start.                                                       *)
LEMMA LevelType ==
    \A f : Numbers(f) => \A n, j, t, s \in Nat : Level(f, n, j, t, s) \in Int
<1> SUFFICES ASSUME NEW f, Numbers(f), NEW n \in Nat, NEW j \in Nat, NEW t \in Nat, NEW s \in Nat
             PROVE  Level(f, n, j, t, s) \in Int
  OBVIOUS
<1>1. f.inc \in Nat /\ f.dec \in Nat /\ n - j + 1 \in Int /\ t - s \in Int
  BY DEF Numbers
<1>2. f.inc * (n - j + 1) \in Int /\ f.dec * (t - s) \in Int
  BY <1>1, Products
<1> QED
  BY <1>2 DEF Level

(* A level sinks with time.                                                *)
LEMMA LevelLater ==
    \A f : Numbers(f) => \A n, j, s, u, t \in Nat : u <= t =>
        /\ Level(f, n, j, t, s) = Level(f, n, j, u, s) - f.dec * (t - u)
        /\ f.dec * (t - u) \in Nat
<1> SUFFICES ASSUME NEW f, Numbers(f), NEW n \in Nat, NEW j \in Nat, NEW s \in Nat,
                    NEW u \in Nat, NEW t \in Nat, u <= t
             PROVE  /\ Level(f, n, j, t, s) = Level(f, n, j, u, s) - f.dec * (t - u)
                    /\ f.dec * (t - u) \in Nat
  OBVIOUS
<1>1. f.inc \in Nat /\ f.dec \in Nat
  BY DEF Numbers
<1>2. PICK a \in Nat, b \in Nat : a = f.inc /\ b = f.dec
  BY <1>1
<1>3. a * (n - j + 1) \in Int /\ b * (t - s) \in Int /\ b * (u - s) \in Int /\ b * (t - u) \in Int
  BY Products
<1>4. b * (t - s) = b * (u - s) + b * (t - u)
  OBVIOUS
<1>5. b * (t - u) \in Nat
  <2>1. t - u \in Int /\ 0 <= t - u
    OBVIOUS
  <2>2. b * 0 <= b * (t - u) /\ b * 0 = 0
    BY <2>1, Products
  <2> QED
    BY <1>3, <2>2
<1>6. a * (n - j + 1) - b * (t - s) = (a * (n - j + 1) - b * (u - s)) - b * (t - u)
  BY <1>3, <1>4
<1> QED
  BY <1>2, <1>5, <1>6 DEF Level

(* One more event raises it.                                               *)
LEMMA LevelMore ==
    \A f : Numbers(f) => \A n, j, s, t \in Nat :
        Level(f, n + 1, j, t, s) = Level(f, n, j, t, s) + f.inc
<1> SUFFICES ASSUME NEW f, Numbers(f), NEW n \in Nat, NEW j \in Nat, NEW s \in Nat, NEW t \in Nat
             PROVE  Level(f, n + 1, j, t, s) = Level(f, n, j, t, s) + f.inc
  OBVIOUS
<1>1. f.inc \in Nat /\ f.dec \in Nat
  BY DEF Numbers
<1>2. PICK a \in Nat, b \in Nat : a = f.inc /\ b = f.dec
  BY <1>1
<1>3. a * (n - j + 1) \in Int /\ b * (t - s) \in Int
  BY Products
<1>4. a * (n + 1 - j + 1) = a * (n - j + 1) + a
  OBVIOUS
<1>5. a * (n + 1 - j + 1) - b * (t - s) = (a * (n - j + 1) - b * (t - s)) + a
  BY <1>3, <1>4
<1> QED
  BY <1>2, <1>5 DEF Level

(* An event just counted.                                                  *)
LEMMA LevelNew == \A f : Numbers(f) => \A n, t \in Nat : Level(f, n, n, t, t) = f.inc
<1> SUFFICES ASSUME NEW f, Numbers(f), NEW n \in Nat, NEW t \in Nat
             PROVE  Level(f, n, n, t, t) = f.inc
  OBVIOUS
<1>1. f.inc \in Nat /\ f.dec \in Nat
  BY DEF Numbers
<1>2. PICK a \in Nat, b \in Nat : a = f.inc /\ b = f.dec
  BY <1>1
<1>3. a * (n - n + 1) - b * (t - t) = a
  OBVIOUS
<1> QED
  BY <1>2, <1>3 DEF Level

(* The elements of a sequence after Append.                                *)
LEMMA Appended ==
    ASSUME NEW S, NEW s \in Seq(S), NEW e \in S
    PROVE  /\ Append(s, e) \in Seq(S) /\ Len(Append(s, e)) = Len(s) + 1
           /\ \A i \in 1..Len(s) : Append(s, e)[i] = s[i]
           /\ Append(s, e)[Len(s) + 1] = e
BY AppendProperties

(* A counter counts an event at t.  If it is not delayed, the counter is   *)
(* up to date.                                                             *)
LEMMA Count ==
    ASSUME NEW f, Numbers(f), NEW x, NEW h, NEW q, NEW es, NEW u \in Nat, NEW t \in Nat, u <= t,
           NEW ch, CounterInv(x, h, q, es, f, u, ch),
           NEW e \in Past(f, t, ch), e.time = t, f.delay = None => u = t
    PROVE  CounterInv(x + f.inc, Append(h, e), q, Append(es, e), f, t, ch)
<1>1. /\ x \in Nat /\ h \in Seq(Event) /\ es \in Seq(Past(f, u, ch)) /\ QueueOK(q, f, ch)
      /\ f.inc \in Nat /\ f.dec \in Nat /\ f.memory \in Nat
  BY DEF CounterInv, Numbers
<1>2. e \in Event /\ Past(f, u, ch) \subseteq Past(f, t, ch) /\ Past(f, t, ch) \subseteq Event
  BY DEF Past, Event
<1>3. es \in Seq(Past(f, t, ch)) /\ Len(es) \in Nat
  <2>1. \A i \in 1..Len(es) : es[i] \in Past(f, t, ch)
    BY <1>1, <1>2
  <2> QED
    BY <1>1, <2>1, SeqDef
<1>4. \A i \in 1..Len(es) : es[i].time \in Nat /\ es[i].time <= u
  BY <1>1 DEF Past, Event
<1>5. \A i \in 1..Len(h) : h[i].time \in Nat
  <2>1. \A i \in 1..Len(h) : h[i] \in Event
    BY <1>1
  <2> QED
    BY <2>1 DEF Event
<1> DEFINE g == Append(h, e)
           ds == Append(es, e)
           n == Len(es)
<1>6. /\ g \in Seq(Event) /\ Len(g) = Len(h) + 1 /\ g[Len(h) + 1] = e
      /\ \A i \in 1..Len(h) : g[i] = h[i]
  BY <1>1, <1>2, Appended
<1>7. /\ ds \in Seq(Past(f, t, ch)) /\ Len(ds) = n + 1 /\ ds[n + 1] = e
      /\ \A i \in 1..n : ds[i] = es[i]
  BY <1>3, Appended
<1> HIDE DEF g, ds, n
<1>8. Ordered(g, t)
  <2>1. Ordered(h, u)
    BY DEF CounterInv
  <2>2. \A i \in 1..Len(h) : g[i].time <= t /\ g[i].time \in Nat
    BY <1>5, <1>6, <2>1 DEF Ordered
  <2>3. ASSUME NEW i \in 1..Len(g), NEW j \in 1..Len(g), i < j
        PROVE  g[i].time <= g[j].time
    <3>1. i \in 1..Len(h)
      BY <1>1, <1>6, <2>3
    <3>2. CASE j \in 1..Len(h)
      BY <3>2, <3>1, <2>3, <2>1, <1>6 DEF Ordered
    <3>3. CASE j \notin 1..Len(h)
      <4>1. g[j] = e
        BY <1>1, <1>6, <3>3
      <4> QED
        BY <2>2, <3>1, <4>1
    <3> QED
      BY <3>2, <3>3
  <2>4. \A i \in 1..Len(g) : g[i].time <= t
    BY <1>1, <1>6, <2>2
  <2> QED
    BY <2>3, <2>4 DEF Ordered
<1>9. Keeps(g, ds, f, t)
  <2> SUFFICES ASSUME NEW i \in 1..Len(ds), ds[i].time >= t - f.memory
               PROVE  \E j \in 1..Len(g) : g[j] = ds[i]
    BY DEF Keeps
  <2>1. CASE i = n + 1
    <3>1. g[Len(h) + 1] = ds[i] /\ Len(h) + 1 \in 1..Len(g)
      BY <1>1, <1>6, <1>7, <2>1
    <3> QED
      BY <3>1
  <2>2. CASE i # n + 1
    <3>1. i \in 1..n /\ ds[i] = es[i]
      BY <1>3, <1>7, <2>2 DEF n
    <3>2. es[i].time >= u - f.memory
      <4>1. es[i].time \in Nat
        BY <1>4, <3>1 DEF n
      <4> QED
        BY <1>1, <3>1, <4>1
    <3>3. PICK j \in 1..Len(h) : h[j] = es[i]
      BY <3>1, <3>2 DEF CounterInv, Keeps, n
    <3>4. j \in 1..Len(g) /\ g[j] = ds[i]
      BY <1>1, <1>6, <3>1, <3>3
    <3> QED
      BY <3>4
  <2> QED
    BY <2>1, <2>2
<1>10. Leaky(x + f.inc, ds, f, t)
  <2>1. Leaky(x, es, f, u) /\ n \in Nat
    BY <1>3 DEF CounterInv, n
  <2>2. ASSUME NEW j \in 1..n
        PROVE  /\ Level(f, n, j, u, es[j].time) \in Int
               /\ Level(f, n + 1, j, t, es[j].time)
                    = Level(f, n, j, u, es[j].time) + f.inc - f.dec * (t - u)
               /\ f.dec * (t - u) \in Nat
    <3>1. j \in Nat
      BY <2>1
    <3>2. PICK s \in Nat : s = es[j].time
      BY <1>4 DEF n
    <3>3. Level(f, n, j, t, s) \in Int /\ Level(f, n, j, u, s) \in Int
      BY <2>1, <3>1, LevelType
    <3>4. /\ Level(f, n, j, t, s) = Level(f, n, j, u, s) - f.dec * (t - u)
          /\ f.dec * (t - u) \in Nat
      BY <2>1, <3>1, LevelLater
    <3>5. Level(f, n + 1, j, t, s) = Level(f, n, j, t, s) + f.inc
      BY <2>1, <3>1, LevelMore
    <3> QED
      BY <3>5, <3>4, <3>3, <3>2, <1>1
  <2>3. Level(f, n + 1, n + 1, t, t) = f.inc
    <3>1. n + 1 \in Nat
      BY <2>1
    <3> QED
      BY <3>1, LevelNew
  <2>4. ASSUME NEW j \in 1..Len(ds)
        PROVE  Level(f, Len(ds), j, t, ds[j].time) <= x + f.inc
    <3>1. CASE j = n + 1
      BY <1>1, <1>7, <2>3, <3>1
    <3>2. CASE j # n + 1
      <4>1. j \in 1..n /\ ds[j] = es[j]
        BY <1>7, <2>1, <3>2
      <4>2. Level(f, n, j, u, es[j].time) <= x
        BY <2>1, <4>1 DEF Leaky, n
      <4> QED
        BY <4>2, <4>1, <2>2, <1>7, <1>1
    <3> QED
      BY <3>1, <3>2
  <2>5. ASSUME f.delay = None
        PROVE  \E j \in 1..Len(ds) : x + f.inc = Level(f, Len(ds), j, t, ds[j].time)
    <3>1. CASE x = 0
      <4>1. n + 1 \in 1..Len(ds) /\ Level(f, Len(ds), n + 1, t, ds[n + 1].time) = x + f.inc
        BY <3>1, <2>3, <2>1, <1>7, <1>1
      <4> QED
        BY <4>1
    <3>2. ASSUME NEW j \in 1..n, x = Level(f, n, j, u, es[j].time)
          PROVE  \E i \in 1..Len(ds) : x + f.inc = Level(f, Len(ds), i, t, ds[i].time)
      <4>1. u = t /\ f.dec * (t - u) = 0
        BY <1>1, <2>5
      <4>2. Level(f, n + 1, j, t, es[j].time) = x + f.inc
        BY <1>1, <2>2, <3>2, <4>1
      <4>3. j \in 1..Len(ds) /\ ds[j] = es[j]
        BY <1>7, <2>1
      <4> QED
        BY <1>7, <4>2, <4>3
    <3> QED
      BY <2>1, <2>5, <3>1, <3>2 DEF Leaky, n
  <2> QED
    BY <2>4, <2>5 DEF Leaky
<1> QED
  BY <1>10, <1>9, <1>8, <1>7, <1>6, <1>1 DEF CounterInv, g, ds

(* Time passes and the counter leaks.                                      *)
LEMMA Leak ==
    ASSUME NEW f, Numbers(f), NEW x, NEW h, NEW q, NEW es, NEW u \in Nat, NEW t \in Nat, u <= t,
           NEW ch, CounterInv(x, h, q, es, f, u, ch),
           NEW y, y = IF x - f.dec * (t - u) < 0 THEN 0 ELSE x - f.dec * (t - u)
    PROVE  CounterInv(y, h, q, es, f, t, ch)
<1>1. /\ x \in Nat /\ h \in Seq(Event) /\ es \in Seq(Past(f, u, ch)) /\ QueueOK(q, f, ch)
      /\ f.memory \in Nat
  BY DEF CounterInv, Numbers
<1>2. es \in Seq(Past(f, t, ch)) /\ Len(es) \in Nat
  <2>1. Past(f, u, ch) \subseteq Past(f, t, ch)
    BY DEF Past, Event
  <2>2. \A i \in 1..Len(es) : es[i] \in Past(f, t, ch)
    BY <1>1, <2>1
  <2> QED
    BY <1>1, <2>2, SeqDef
<1>3. \A i \in 1..Len(es) : es[i].time \in Nat
  BY <1>1 DEF Past, Event
<1>4. \A i \in 1..Len(h) : h[i].time \in Nat
  <2>1. \A i \in 1..Len(h) : h[i] \in Event
    BY <1>1
  <2> QED
    BY <2>1 DEF Event
<1>5. PICK d \in Nat : d = f.dec * (t - u)
  <2>1. f.dec * (t - u) \in Nat
    BY LevelLater
  <2> QED
    BY <2>1
<1>6. y \in Nat /\ y >= x - d /\ (y = 0 \/ y = x - d)
  BY <1>1, <1>5
<1>7. Ordered(h, t)
  BY <1>4 DEF CounterInv, Ordered
<1>8. Keeps(h, es, f, t)
  <2> SUFFICES ASSUME NEW i \in 1..Len(es), es[i].time >= t - f.memory
               PROVE  \E j \in 1..Len(h) : h[j] = es[i]
    BY DEF Keeps
  <2>1. es[i].time >= u - f.memory
    <3>1. es[i].time \in Nat
      BY <1>3
    <3> QED
      BY <1>1, <3>1
  <2> QED
    BY <2>1 DEF CounterInv, Keeps
<1>9. Leaky(y, es, f, t)
  <2> DEFINE n == Len(es)
  <2>1. Leaky(x, es, f, u)
    BY DEF CounterInv
  <2>2. ASSUME NEW j \in 1..n
        PROVE  /\ Level(f, n, j, u, es[j].time) \in Int
               /\ Level(f, n, j, t, es[j].time) = Level(f, n, j, u, es[j].time) - d
    <3>1. j \in Nat
      BY <1>2
    <3>2. PICK s \in Nat : s = es[j].time
      BY <1>3
    <3>3. Level(f, n, j, u, s) \in Int
      BY <1>2, <3>1, LevelType
    <3>4. Level(f, n, j, t, s) = Level(f, n, j, u, s) - f.dec * (t - u)
      BY <1>2, <3>1, LevelLater
    <3> QED
      BY <1>5, <3>2, <3>3, <3>4
  <2>3. ASSUME NEW j \in 1..n
        PROVE  Level(f, n, j, t, es[j].time) <= y
    <3>1. Level(f, n, j, u, es[j].time) <= x
      BY <2>1 DEF Leaky
    <3> QED
      BY <1>1, <1>6, <2>2, <3>1
  <2>4. ASSUME f.delay = None
        PROVE  y = 0 \/ \E j \in 1..n : y = Level(f, n, j, t, es[j].time)
    <3>1. CASE x = 0
      BY <1>6, <3>1
    <3>2. ASSUME NEW j \in 1..n, x = Level(f, n, j, u, es[j].time)
          PROVE  y = 0 \/ \E i \in 1..n : y = Level(f, n, i, t, es[i].time)
      <4>1. Level(f, n, j, t, es[j].time) = x - d
        BY <2>2, <3>2
      <4> QED
        BY <1>6, <4>1
    <3> QED
      BY <2>1, <2>4, <3>1, <3>2 DEF Leaky
  <2> QED
    BY <2>3, <2>4 DEF Leaky
<1> QED
  BY <1>9, <1>8, <1>7, <1>6, <1>2, <1>1 DEF CounterInv

(* The history forgets what is older than the memory.                      *)
LEMMA Forget ==
    ASSUME NEW f, Numbers(f), NEW x, NEW h, NEW q, NEW es, NEW t \in Nat,
           NEW ch, CounterInv(x, h, q, es, f, t, ch)
    PROVE  CounterInv(x, EvListUpdate(h, t - f.memory), q, es, f, t, ch)
<1>1. h \in Seq(Event) /\ t - f.memory \in Int
  BY DEF CounterInv, Numbers
<1> DEFINE limit == t - f.memory
           g == EvListUpdate(h, limit)
<1>2. limit \in Int
  BY <1>1
<1> HIDE DEF limit
<1>3. /\ g \in Seq(Event)
      /\ \A j \in 1..Len(g) : \E i \in 1..Len(h) : g[j] = h[i]
      /\ \A i \in 1..Len(h) : h[i].time >= limit => \E j \in 1..Len(g) : g[j] = h[i]
      /\ \A i, j \in 1..Len(g) : i < j =>
            \E a, b \in 1..Len(h) : a < b /\ g[i] = h[a] /\ g[j] = h[b]
  BY <1>1, <1>2, EvListKeeps
<1> HIDE DEF g
<1>4. Ordered(g, t)
  <2>1. Ordered(h, t)
    BY DEF CounterInv
  <2>2. ASSUME NEW i \in 1..Len(g), NEW j \in 1..Len(g), i < j
        PROVE  g[i].time <= g[j].time
    BY <1>3, <2>1, <2>2 DEF Ordered
  <2>3. ASSUME NEW i \in 1..Len(g)
        PROVE  g[i].time <= t
    <3>1. PICK a \in 1..Len(h) : g[i] = h[a]
      BY <1>3
    <3> QED
      BY <2>1, <3>1 DEF Ordered
  <2> QED
    BY <2>2, <2>3 DEF Ordered
<1>5. Keeps(g, es, f, t)
  <2> SUFFICES ASSUME NEW i \in 1..Len(es), es[i].time >= limit
               PROVE  \E j \in 1..Len(g) : g[j] = es[i]
    BY DEF Keeps, limit
  <2>1. PICK j \in 1..Len(h) : h[j] = es[i]
    BY DEF CounterInv, Keeps, limit
  <2> QED
    BY <1>3, <2>1
<1> QED
  BY <1>3, <1>4, <1>5 DEF CounterInv, g, limit

(* A counter as a record.                                                  *)
Bundle(x, h, q, es) == [counter |-> x, history |-> h, dq |-> q, counted |-> es]

Good(k, f, t, ch) ==
    /\ k = Bundle(k.counter, k.history, k.dq, k.counted)
    /\ CounterInv(k.counter, k.history, k.dq, k.counted, f, t, ch)

(* Its fields.                                                             *)
LEMMA BundleGood ==
    ASSUME NEW x, NEW h, NEW q, NEW es, NEW f, NEW t, NEW ch, CounterInv(x, h, q, es, f, t, ch)
    PROVE  Good(Bundle(x, h, q, es), f, t, ch)
BY DEF Good, Bundle

(* Setting some of its fields.                                             *)
LEMMA SetQueue ==
    \A x, h, q, es, p : /\ Bundle(x, h, q, es).dq = q
                        /\ [Bundle(x, h, q, es) EXCEPT !.dq = p] = Bundle(x, h, p, es)
BY DEF Bundle

(* The other fields, one by one.                                           *)
LEMMA Fields ==
    ASSUME NEW x, NEW h, NEW q, NEW es
    PROVE  /\ Bundle(x, h, q, es).counter = x /\ Bundle(x, h, q, es).history = h
           /\ Bundle(x, h, q, es).dq = q /\ Bundle(x, h, q, es).counted = es
BY DEF Bundle

(* Setting one.                                                            *)
LEMMA SetCounter ==
    ASSUME NEW k, NEW x, NEW h, NEW q, NEW es, NEW y, k = Bundle(x, h, q, es)
    PROVE  [k EXCEPT !.counter = y] = Bundle(y, h, q, es)
<1>1. [Bundle(x, h, q, es) EXCEPT !.counter = y] = Bundle(y, h, q, es)
  BY DEF Bundle
<1> QED
  BY <1>1

(* Another.                                                                *)
LEMMA SetHistory ==
    ASSUME NEW k, NEW x, NEW h, NEW q, NEW es, NEW y, k = Bundle(x, h, q, es)
    PROVE  [k EXCEPT !.history = y] = Bundle(x, y, q, es)
<1>1. [Bundle(x, h, q, es) EXCEPT !.history = y] = Bundle(x, y, q, es)
  BY DEF Bundle
<1> QED
  BY <1>1

(* Another.                                                                *)
LEMMA SetCounted ==
    ASSUME NEW k, NEW x, NEW h, NEW q, NEW es, NEW y, k = Bundle(x, h, q, es)
    PROVE  [k EXCEPT !.counted = y] = Bundle(x, h, q, y)
<1>1. [Bundle(x, h, q, es) EXCEPT !.counted = y] = Bundle(x, h, q, y)
  BY DEF Bundle
<1> QED
  BY <1>1

(* EventCounter::Update.                                                   *)
LEMMA UpdateBundle ==
    ASSUME NEW k, NEW x, NEW h, NEW q, NEW es, k = Bundle(x, h, q, es), NEW c, NEW a, NEW t
    PROVE  Update(k, c, a, t)
             = Bundle(x + CounterConf[c].inc, Append(h, [at |-> a, time |-> t]), q,
                      Append(es, [at |-> a, time |-> t]))
<1> DEFINE e == [at |-> a, time |-> t]
           x1 == x + CounterConf[c].inc
           h1 == Append(h, e)
           es1 == Append(es, e)
<1>1. k.counter = x /\ k.history = h /\ k.counted = es
  BY Fields
<1>2. Update(k, c, a, t) = [k EXCEPT !.counter = x1, !.history = h1, !.counted = es1]
  BY <1>1, Zenon DEF Update
<1> HIDE DEF x1, h1, es1
<1>3. PICK k1 : k1 = [k EXCEPT !.counter = x1]
  OBVIOUS
<1>4. k1 = Bundle(x1, h, q, es)
  BY <1>3, SetCounter
<1>5. PICK k2 : k2 = [k1 EXCEPT !.history = h1]
  OBVIOUS
<1>6. k2 = Bundle(x1, h1, q, es)
  BY <1>4, <1>5, SetHistory
<1>7. [k2 EXCEPT !.counted = es1] = Bundle(x1, h1, q, es1)
  BY <1>6, SetCounted
<1>8. [k EXCEPT !.counter = x1, !.history = h1, !.counted = es1] = [k2 EXCEPT !.counted = es1]
  BY <1>3, <1>5, Zenon
<1>9. Update(k, c, a, t) = Bundle(x1, h1, q, es1)
  BY <1>2, <1>7, <1>8
<1> QED
  BY <1>9 DEF x1, h1, es1

(* An event taken out of the queue is counted by the rules of the delay.   *)
LEMMA TakenIsPast ==
    ASSUME NEW f, Numbers(f), NEW q, NEW t \in Nat, NEW ch \in Nat, QueueOK(q, f, ch), Due(q, t)
    PROVE  /\ [at |-> Got(q).at, time |-> t] \in Past(f, t, ch)
           /\ QueueOK(Rest(q), f, ch)
           /\ f.delay # None
<1>1. q \in Queue(Waiting(f, ch)) /\ Pointed(q) /\ q.msgs # <<>> /\ t >= q.next_deadline
  BY DEF QueueOK, Due
<1>2. Waiting(f, ch) \in SUBSET Delayed
  BY DEF Waiting
<1>3. /\ Got(q) \in Waiting(f, ch) /\ q.next_deadline = Got(q).deadline
      /\ Rest(q) \in Queue(Waiting(f, ch)) /\ Pointed(Rest(q))
  BY <1>1, <1>2, GetProperties
<1>4. /\ Got(q).at \in Nat /\ Got(q).deadline \in Nat /\ Got(q).deadline = Got(q).at + f.delay
      /\ Got(q).at > ch /\ f.delay # None
  BY <1>3 DEF Waiting, Delayed
<1>5. f.delay \in Nat
  BY <1>4 DEF Numbers
<1>6. [at |-> Got(q).at, time |-> t] \in Past(f, t, ch)
  BY <1>1, <1>3, <1>4, <1>5 DEF Past, Event
<1> QED
  BY <1>3, <1>4, <1>6 DEF QueueOK

(* EventCounter::timeUpdate brings a counter from u to t.                  *)
LEMMA TimeUpdateGood ==
    ASSUME NEW c, Numbers(CounterConf[c]), NEW k, NEW u \in Nat, NEW t \in Nat, u <= t,
           NEW ch \in Nat, NEW since, since = t - u, Good(k, CounterConf[c], u, ch)
    PROVE  Good(timeUpdate(k, c, t, since), CounterConf[c], t, ch)
<1> DEFINE f == CounterConf[c]
<1>1. PICK x, h, q, es : k = Bundle(x, h, q, es) /\ CounterInv(x, h, q, es, f, u, ch)
  BY DEF Good
<1>2. k.counter = x /\ k.history = h /\ k.dq = q /\ k.counted = es
  BY <1>1 DEF Bundle
<1>3. QueueOK(q, f, ch) /\ x \in Nat /\ f.inc \in Nat /\ f.dec \in Nat
  BY <1>1 DEF CounterInv, Numbers
<1>4. CASE Due(q, t)
  <2> DEFINE e == [at |-> Got(q).at, time |-> t]
             g == Append(h, e)
             k1 == Bundle(x + f.inc, g, Rest(q), Append(es, e))
  <2>1. e \in Past(f, t, ch) /\ QueueOK(Rest(q), f, ch) /\ f.delay # None /\ e.time = t
    BY <1>3, <1>4, TakenIsPast
  <2>2. CounterInv(x + f.inc, g, q, Append(es, e), f, t, ch)
    <3> HIDE DEF e, f
    <3>1. Numbers(f)
      BY DEF f
    <3> QED
      BY <1>1, <2>1, <3>1, Count
  <2>3. CounterInv(x + f.inc, EvListUpdate(g, t - f.memory), q, Append(es, e), f, t, ch)
    <3> HIDE DEF e, f, g
    <3>1. Numbers(f)
      BY DEF f
    <3> QED
      BY <2>2, <3>1, Forget
  <2>4. CounterInv(x + f.inc, EvListUpdate(g, t - f.memory), Rest(q), Append(es, e), f, t, ch)
    BY <2>1, <2>3 DEF CounterInv
  <2>5. [Update(k, c, Got(k.dq).at, t) EXCEPT !.dq = Rest(@)] = k1
    <3>1. Update(k, c, Got(k.dq).at, t) = Bundle(x + f.inc, g, q, Append(es, e))
      BY <1>1, <1>2, UpdateBundle
    <3> HIDE DEF f, g, e
    <3> QED
      BY <3>1, SetQueue
  <2> HIDE DEF g, e
  <2>6. k1.counter = x + f.inc /\ k1.history = g
    BY Fields
  <2>7. PICK z : z = k1
    OBVIOUS
  <2>8. z.counter = x + f.inc /\ z.history = g
    BY <2>6, <2>7
  <2> HIDE DEF k1
  <2>9. timeUpdate(k, c, t, since)
          = Bundle(x + f.inc, EvListUpdate(g, t - f.memory), Rest(q), Append(es, e))
    <3> DEFINE h1 == EvListUpdate(g, t - f.memory)
               x1 == x + f.inc
               es1 == Append(es, e)
    <3>1. PICK r : r = Rest(q)
      OBVIOUS
    <3>2. z = Bundle(x1, g, r, es1)
      BY <2>7, <3>1 DEF k1
    <3>3. x1 = IF z.counter - f.dec * 0 < 0 THEN 0 ELSE z.counter - f.dec * 0
      BY <1>3, <2>8
    <3>4. h1 = EvListUpdate(z.history, t - f.memory)
      BY <2>8
    <3>5. z = [Update(k, c, Got(k.dq).at, t) EXCEPT !.dq = Rest(@)]
      BY <2>5, <2>7, Zenon
    <3>6. Due(k.dq, t)
      BY <1>2, <1>4
    <3> HIDE DEF h1, x1, es1
    <3>7. timeUpdate(k, c, t, since) = [z EXCEPT !.counter = x1, !.history = h1]
      BY <3>3, <3>4, <3>5, <3>6, Zenon DEF timeUpdate
    <3>8. [z EXCEPT !.counter = x1, !.history = h1] = Bundle(x1, h1, r, es1)
      <4>1. PICK z1 : z1 = [z EXCEPT !.counter = x1]
        OBVIOUS
      <4>2. z1 = Bundle(x1, g, r, es1)
        BY <3>2, <4>1, SetCounter
      <4>3. [z1 EXCEPT !.history = h1] = Bundle(x1, h1, r, es1)
        BY <4>2, SetHistory
      <4> QED
        BY <4>1, <4>3, Zenon
    <3> QED
      BY <3>1, <3>7, <3>8, Zenon DEF h1, x1, es1
  <2> QED
    BY <2>4, <2>9, BundleGood
<1>5. CASE ~Due(q, t)
  <2> DEFINE y == IF x - f.dec * since < 0 THEN 0 ELSE x - f.dec * since
  <2>1. CounterInv(y, h, q, es, f, t, ch)
    <3> HIDE DEF f
    <3>1. Numbers(f)
      BY DEF f
    <3> QED
      BY <1>1, <3>1, Leak
  <2>2. CounterInv(y, EvListUpdate(h, t - f.memory), q, es, f, t, ch)
    <3> HIDE DEF f, y
    <3>1. Numbers(f)
      BY DEF f
    <3> QED
      BY <2>1, <3>1, Forget
  <2>3. timeUpdate(k, c, t, since) = Bundle(y, EvListUpdate(h, t - f.memory), q, es)
    <3> DEFINE h1 == EvListUpdate(h, t - f.memory)
    <3>1. /\ y = IF k.counter - f.dec * since < 0 THEN 0 ELSE k.counter - f.dec * since
          /\ h1 = EvListUpdate(k.history, t - f.memory)
      BY <1>2, Zenon
    <3>2. ~Due(k.dq, t)
      BY <1>2, <1>5
    <3> HIDE DEF h1, y
    <3>3. timeUpdate(k, c, t, since) = [k EXCEPT !.counter = y, !.history = h1]
      BY <3>1, <3>2, Zenon DEF timeUpdate
    <3>4. [k EXCEPT !.counter = y, !.history = h1] = Bundle(y, h1, q, es)
      <4>1. PICK z1 : z1 = [k EXCEPT !.counter = y]
        OBVIOUS
      <4>2. z1 = Bundle(y, h, q, es)
        BY <1>1, <4>1, SetCounter
      <4>3. [z1 EXCEPT !.history = h1] = Bundle(y, h1, q, es)
        BY <4>2, SetHistory
      <4> QED
        BY <4>1, <4>3, Zenon
    <3> QED
      BY <3>3, <3>4, Zenon DEF h1
  <2> QED
    BY <2>2, <2>3, BundleGood
<1> QED
  BY <1>4, <1>5

(* EventCounter::eventUpdate at t, when the counter is up to date and the  *)
(* programme did not change at t.                                          *)
LEMMA EventUpdateGood ==
    ASSUME NEW c, Numbers(CounterConf[c]), NEW k, NEW t \in Nat, NEW ch \in Nat, ch < t,
           NEW ev, Good(k, CounterConf[c], t, ch)
    PROVE  Good(eventUpdate(k, c, ev, t), CounterConf[c], t, ch)
<1> DEFINE f == CounterConf[c]
<1>1. PICK x, h, q, es : k = Bundle(x, h, q, es) /\ CounterInv(x, h, q, es, f, t, ch)
  BY DEF Good
<1>2. k.counter = x /\ k.history = h /\ k.dq = q /\ k.counted = es
  BY <1>1 DEF Bundle
<1>3. QueueOK(q, f, ch) /\ f.delay \in Nat \cup {None} /\ Numbers(f)
  BY <1>1 DEF CounterInv, Numbers
<1>4. CASE ev \notin f.accepts
  <2>1. eventUpdate(k, c, ev, t) = k
    BY <1>4 DEF eventUpdate
  <2> QED
    BY <2>1
<1>5. CASE ev \in f.accepts /\ f.delay = None
  <2> DEFINE e == [at |-> t, time |-> t]
  <2>1. e \in Past(f, t, ch) /\ e.time = t
    BY <1>5 DEF Past, Event
  <2>2. CounterInv(x + f.inc, Append(h, e), q, Append(es, e), f, t, ch)
    <3> HIDE DEF e, f
    <3> QED
      BY <1>1, <1>3, <2>1, Count
  <2>3. eventUpdate(k, c, ev, t) = Bundle(x + f.inc, Append(h, e), q, Append(es, e))
    BY <1>1, <1>2, <1>5 DEF eventUpdate, Update, Bundle
  <2> QED
    BY <2>2, <2>3, BundleGood
<1>6. CASE ev \in f.accepts /\ f.delay # None
  <2> DEFINE p == messageAppend(q, c, t)
             k1 == [k EXCEPT !.dq = messageAppend(@, c, t)]
  <2>1. QueueOK(p, f, ch)
    <3>1. [at |-> t, deadline |-> t + f.delay] \in Waiting(f, ch)
      BY <1>3, <1>6 DEF Waiting, Delayed
    <3>2. Waiting(f, ch) \in SUBSET Delayed /\ q \in Queue(Waiting(f, ch)) /\ Pointed(q)
      BY <1>3 DEF Waiting, QueueOK
    <3> QED
      BY <3>1, <3>2, QueueAppend DEF QueueOK
  <2>2. CounterInv(x, h, p, es, f, t, ch)
    BY <1>1, <2>1 DEF CounterInv
  <2>3. k1 = Bundle(x, h, p, es) /\ k1.dq = p
    BY <1>1 DEF Bundle
  <2>4. CASE Due(p, t)
    <3> DEFINE e == [at |-> Got(p).at, time |-> t]
    <3>1. e \in Past(f, t, ch) /\ QueueOK(Rest(p), f, ch) /\ e.time = t
      BY <1>3, <2>1, <2>4, TakenIsPast
    <3>2. CounterInv(x + f.inc, Append(h, e), p, Append(es, e), f, t, ch)
      <4> HIDE DEF e, f, p
      <4> QED
        BY <1>3, <2>2, <3>1, Count
    <3>3. CounterInv(x + f.inc, Append(h, e), Rest(p), Append(es, e), f, t, ch)
      BY <3>1, <3>2 DEF CounterInv
    <3>4. [Update(k1, c, Got(p).at, t) EXCEPT !.dq = Rest(@)]
            = Bundle(x + f.inc, Append(h, e), Rest(p), Append(es, e))
      <4> HIDE DEF p, k1
      <4>1. Update(k1, c, Got(p).at, t) = Bundle(x + f.inc, Append(h, e), p, Append(es, e))
        BY <2>3, UpdateBundle
      <4> HIDE DEF f, e
      <4> QED
        BY <4>1, SetQueue
    <3>5. eventUpdate(k, c, ev, t) = [Update(k1, c, Got(p).at, t) EXCEPT !.dq = Rest(@)]
      BY <1>6, <2>3, <2>4 DEF eventUpdate
    <3> QED
      BY <3>3, <3>4, <3>5, BundleGood
  <2>5. CASE ~Due(p, t)
    <3>1. eventUpdate(k, c, ev, t) = k1
      BY <1>6, <2>3, <2>5 DEF eventUpdate
    <3> QED
      BY <2>2, <2>3, <3>1, BundleGood
  <2> QED
    BY <2>4, <2>5
<1> QED
  BY <1>4, <1>5, <1>6

-----------------------------------------------------------------------------
(* All the counters *)

(* The inductive invariant: what each counter keeps when it is up to date  *)
(* at last_time and the programme changed last at changed.                 *)
CountersInv ==
    /\ conf \in Configurations
    /\ now \in Nat /\ last_time \in Nat /\ changed \in Nat
    /\ last_time <= now /\ changed <= now
    /\ \A c \in Counters : CounterInv(counter[c], history[c], dq[c], counted[c],
                                      CounterConf[c], last_time, changed)

(* The configuration of a counter.                                         *)
LEMMA ConfiguredNumbers ==
    ASSUME conf \in Configurations
    PROVE  \A c \in Counters : Numbers(CounterConf[c])
BY RuleEngineAssumption DEF RuleEngineAssumption, Counters, CounterConf, Numbers

(* Time passes and the configuration stays.                                *)
LEMMA TickProperties ==
    ASSUME conf \in Configurations, now \in Nat, Tick
    PROVE  /\ now' \in Nat /\ now < now'
           /\ conf' = conf /\ CounterConf' = CounterConf /\ Counters' = Counters
<1>1. conf.steps \subseteq Nat \ {0}
  BY RuleEngineAssumption DEF RuleEngineAssumption
<1>2. now' \in Nat /\ now < now' /\ conf' = conf
  BY <1>1 DEF Tick
<1> QED
  BY <1>2 DEF CounterConf, Counters

(* A counter that has counted nothing.                                     *)
LEMMA EmptyCounter ==
    ASSUME NEW f, NEW t \in Nat, NEW ch
    PROVE  CounterInv(0, <<>>, EmptyQueue, <<>>, f, t, ch)
<1>1. QueueOK(EmptyQueue, f, ch)
  BY DEF QueueOK, EmptyQueue, Queue, Pointed
<1>2. <<>> \in Seq(Event) /\ <<>> \in Seq(Past(f, t, ch)) /\ Len(<<>>) = 0 /\ 1..0 = {}
  OBVIOUS
<1>3. Ordered(<<>>, t) /\ Keeps(<<>>, <<>>, f, t) /\ Leaky(0, <<>>, f, t)
  BY <1>2 DEF Ordered, Keeps, Leaky
<1> QED
  BY <1>1, <1>2, <1>3 DEF CounterInv

(* clearDQ at n, after the last event was counted.                         *)
LEMMA ProgramChanges ==
    ASSUME NEW x, NEW h, NEW q, NEW es, NEW f, NEW t \in Nat, NEW ch, NEW n \in Nat, t <= n,
           CounterInv(x, h, q, es, f, t, ch)
    PROVE  CounterInv(x, h, [q EXCEPT !.msgs = <<>>], es, f, t, n)
<1>1. QueueOK([q EXCEPT !.msgs = <<>>], f, n)
  <2>1. q \in Queue(Waiting(f, ch))
    BY DEF CounterInv, QueueOK
  <2>2. PICK p : p = [q EXCEPT !.msgs = <<>>]
    OBVIOUS
  <2>3. p.msgs = <<>> /\ p \in Queue(Waiting(f, n))
    <3>1. PICK ms, a, d : /\ q = [msgs |-> ms, next_message |-> a, next_deadline |-> d]
                          /\ a \in Nat /\ d \in Nat
      BY <2>1 DEF Queue
    <3>2. p = [msgs |-> <<>>, next_message |-> a, next_deadline |-> d]
      BY <2>2, <3>1
    <3> QED
      BY <3>1, <3>2 DEF Queue
  <2>4. QueueOK(p, f, n)
    BY <2>3 DEF QueueOK, Pointed
  <2> QED
    BY <2>2, <2>4
<1>2. Past(f, t, ch) \subseteq Past(f, t, n)
  BY DEF Past, Event
<1>3. es \in Seq(Past(f, t, n))
  BY <1>2 DEF CounterInv
<1> QED
  BY <1>1, <1>3 DEF CounterInv

(* The counters after SetCounters.                                         *)
LEMMA SetCountersGood ==
    ASSUME NEW k, SetCounters(k), conf' = conf,
           \A c \in Counters : Good(k[c], CounterConf[c], last_time', changed')
    PROVE  \A c \in Counters' : CounterInv(counter'[c], history'[c], dq'[c], counted'[c],
                                           CounterConf'[c], last_time', changed')
<1>1. Counters' = Counters /\ CounterConf' = CounterConf
  BY DEF Counters, CounterConf
<1>2. SUFFICES ASSUME NEW c \in Counters
               PROVE  CounterInv(counter'[c], history'[c], dq'[c], counted'[c],
                                 CounterConf[c], last_time', changed')
  BY <1>1
<1>3. /\ counter'[c] = k[c].counter /\ history'[c] = k[c].history
      /\ dq'[c] = k[c].dq /\ counted'[c] = k[c].counted
  BY DEF SetCounters
<1>4. CounterInv(k[c].counter, k[c].history, k[c].dq, k[c].counted, CounterConf[c],
                 last_time', changed')
  BY DEF Good
<1> QED
  BY <1>3, <1>4

(* A counter before a message is handled, and after timeUpdate.            *)
LEMMA CounterNow ==
    ASSUME CountersInv, Tick, NEW c \in Counters
    PROVE  /\ Numbers(CounterConf[c])
           /\ Good(State(c), CounterConf[c], last_time, changed)
           /\ Good(timeUpdate(State(c), c, now', now' - last_time), CounterConf[c], now', changed)
<1>1. Numbers(CounterConf[c])
  BY ConfiguredNumbers DEF CountersInv
<1>2. /\ last_time \in Nat /\ now' \in Nat /\ last_time <= now' /\ changed \in Nat
  BY TickProperties DEF CountersInv
<1>3. Good(State(c), CounterConf[c], last_time, changed)
  <2>1. State(c) = Bundle(counter[c], history[c], dq[c], counted[c])
    BY DEF State, Bundle
  <2>2. CounterInv(counter[c], history[c], dq[c], counted[c], CounterConf[c], last_time, changed)
    BY DEF CountersInv
  <2> QED
    BY <2>1, <2>2, BundleGood
<1>4. PICK k, since : k = State(c) /\ since = now' - last_time
  OBVIOUS
<1>5. Good(k, CounterConf[c], last_time, changed)
  BY <1>3, <1>4
<1>6. Good(timeUpdate(k, c, now', since), CounterConf[c], now', changed)
  BY <1>1, <1>2, <1>4, <1>5, TimeUpdateGood
<1> QED
  BY <1>1, <1>3, <1>4, <1>6

(* The trigger.                                                            *)
LEMMA TriggerKeeps ==
    ASSUME CountersInv, doTrigger
    PROVE  CountersInv'
<1> DEFINE k == [c \in Counters |-> timeUpdate(State(c), c, now', now' - last_time)]
<1>1. Tick /\ SetCounters(k) /\ last_time' = now' /\ changed' = changed
  BY DEF doTrigger
<1>2. now' \in Nat /\ now < now' /\ conf' = conf
  BY <1>1, TickProperties DEF CountersInv
<1>3. \A c \in Counters : Good(k[c], CounterConf[c], last_time', changed')
  BY <1>1, CounterNow
<1> HIDE DEF k
<1>4. \A c \in Counters' : CounterInv(counter'[c], history'[c], dq'[c], counted'[c],
                                      CounterConf'[c], last_time', changed')
  BY <1>1, <1>2, <1>3, SetCountersGood
<1> QED
  BY <1>1, <1>2, <1>4 DEF CountersInv

(* An event: the counters are brought to the time twice, then counted.     *)
LEMMA EventKeeps ==
    ASSUME CountersInv, NEW e, doEvent(e)
    PROVE  CountersInv'
<1> DEFINE k1(c) == timeUpdate(State(c), c, now', now' - last_time)
           k == [c \in Counters |-> eventUpdate(timeUpdate(k1(c), c, now', 0), c, e, now')]
<1>1. Tick /\ SetCounters(k) /\ last_time' = now' /\ changed' = changed
  BY DEF doEvent
<1>2. /\ now' \in Nat /\ now < now' /\ conf' = conf
      /\ changed \in Nat /\ changed < now'
  BY <1>1, TickProperties DEF CountersInv
<1>3. ASSUME NEW c \in Counters
      PROVE  Good(k[c], CounterConf[c], now', changed)
  <2>1. Numbers(CounterConf[c]) /\ Good(k1(c), CounterConf[c], now', changed)
    BY <1>1, CounterNow
  <2>2. PICK z, t : z = 0 /\ t = now'
    OBVIOUS
  <2>3. PICK a : a = k1(c)
    OBVIOUS
  <2>4. t \in Nat /\ t <= t /\ z = t - t /\ Good(a, CounterConf[c], t, changed)
    <3>1. t \in Nat /\ z = 0
      BY <1>2, <2>2, Zenon
    <3>2. t <= t /\ z = t - t
      BY <3>1
    <3>3. Good(a, CounterConf[c], t, changed)
      BY <2>2, <2>1, <2>3, Zenon
    <3> QED
      BY <3>1, <3>2, <3>3
  <2>5. Good(timeUpdate(a, c, t, z), CounterConf[c], t, changed)
    BY <1>2, <2>1, <2>4, TimeUpdateGood
  <2>6. PICK b : b = timeUpdate(a, c, t, z)
    OBVIOUS
  <2>7. Good(b, CounterConf[c], t, changed) /\ changed < t
    BY <1>2, <2>2, <2>5, <2>6
  <2>8. Good(eventUpdate(b, c, e, t), CounterConf[c], t, changed)
    BY <1>2, <2>1, <2>4, <2>7, EventUpdateGood
  <2>9. k[c] = eventUpdate(b, c, e, t)
    BY <2>2, <2>3, <2>6, Zenon
  <2> QED
    BY <2>2, <2>8, <2>9, Zenon
<1> HIDE DEF k
<1>4. \A c \in Counters' : CounterInv(counter'[c], history'[c], dq'[c], counted'[c],
                                      CounterConf'[c], last_time', changed')
  BY <1>1, <1>2, <1>3, SetCountersGood
<1> QED
  BY <1>1, <1>2, <1>4 DEF CountersInv

(* The programme changes.                                                  *)
LEMMA ChangeKeeps ==
    ASSUME CountersInv, Tick, clearDQ, changed' = now',
           UNCHANGED <<counter, history, counted, last_time>>
    PROVE  CountersInv'
<1>1. /\ now' \in Nat /\ now < now' /\ last_time \in Nat /\ last_time <= now'
      /\ conf' = conf /\ CounterConf' = CounterConf /\ Counters' = Counters
  BY TickProperties DEF CountersInv
<1>2. ASSUME NEW c \in Counters
      PROVE  CounterInv(counter'[c], history'[c], dq'[c], counted'[c], CounterConf'[c],
                        last_time', changed')
  <2>1. dq'[c] = [dq[c] EXCEPT !.msgs = <<>>]
    BY DEF clearDQ
  <2>2. CounterInv(counter[c], history[c], dq[c], counted[c], CounterConf[c], last_time, changed)
    BY DEF CountersInv
  <2>3. CounterInv(counter[c], history[c], [dq[c] EXCEPT !.msgs = <<>>], counted[c],
                   CounterConf[c], last_time, now')
    BY <1>1, <2>2, ProgramChanges
  <2> QED
    BY <1>1, <2>1, <2>3, Zenon
<1> QED
  BY <1>1, <1>2 DEF CountersInv

(* The process starts again.                                               *)
LEMMA RestartKeeps ==
    ASSUME CountersInv, Restart
    PROVE  CountersInv'
<1> DEFINE k == [c \in Counters |-> [counter |-> 0, history |-> <<>>, dq |-> EmptyQueue,
                                     counted |-> <<>>]]
<1>1. Tick /\ SetCounters(k) /\ last_time' = now' /\ changed' = now'
  BY DEF Restart, Start
<1>2. now' \in Nat /\ now < now' /\ conf' = conf
  BY <1>1, TickProperties DEF CountersInv
<1>3. ASSUME NEW c \in Counters
      PROVE  Good(k[c], CounterConf[c], last_time', changed')
  <2>1. k[c] = Bundle(0, <<>>, EmptyQueue, <<>>)
    BY DEF Bundle
  <2>2. CounterInv(0, <<>>, EmptyQueue, <<>>, CounterConf[c], last_time', changed')
    BY <1>1, <1>2, EmptyCounter
  <2> QED
    BY <2>1, <2>2, BundleGood
<1> HIDE DEF k
<1>4. \A c \in Counters' : CounterInv(counter'[c], history'[c], dq'[c], counted'[c],
                                      CounterConf'[c], last_time', changed')
  BY <1>1, <1>2, <1>3, SetCountersGood
<1> QED
  BY <1>1, <1>2, <1>4 DEF CountersInv

(* The counters are good whatever the thread handles.                      *)
LEMMA CountersInductive == Spec => []CountersInv
<1>1. Init => CountersInv
  <2> SUFFICES ASSUME Init PROVE CountersInv
    OBVIOUS
  <2>1. ASSUME NEW c \in Counters
        PROVE  CounterInv(counter[c], history[c], dq[c], counted[c], CounterConf[c], last_time, changed)
    <3>1. counter[c] = 0 /\ history[c] = <<>> /\ dq[c] = EmptyQueue /\ counted[c] = <<>>
      BY DEF Init
    <3>2. last_time = 0 /\ changed = 0
      BY DEF Init
    <3> QED
      BY <3>1, <3>2, EmptyCounter
  <2> QED
    BY <2>1 DEF Init, CountersInv
<1>2. CountersInv /\ [Next]_vars => CountersInv'
  <2> SUFFICES ASSUME CountersInv, [Next]_vars PROVE CountersInv'
    OBVIOUS
  <2>1. CASE doTrigger
    BY <2>1, TriggerKeeps
  <2>2. CASE \E e \in conf.events : doEvent(e)
    BY <2>2, EventKeeps
  <2>3. CASE doProgramEvent
    BY <2>3, ChangeKeeps DEF doProgramEvent
  <2>4. CASE \E on \in BOOLEAN, list \in conf.lists : doPrgStatus(on, list)
    <3>1. Tick /\ clearDQ /\ changed' = now' /\ UNCHANGED <<counter, history, counted, last_time>>
      BY <2>4 DEF doPrgStatus
    <3> QED
      BY <3>1, ChangeKeeps
  <2>5. CASE \E r \in Rules, st \in {"ON", "OFF"} : doSetRule(r, st)
    <3>1. Tick /\ UNCHANGED <<counter, history, dq, counted, last_time, changed>>
      BY <2>5 DEF doSetRule, cvars
    <3>2. /\ now' \in Nat /\ now < now'
          /\ conf' = conf /\ CounterConf' = CounterConf /\ Counters' = Counters
      BY <3>1, TickProperties DEF CountersInv
    <3> QED
      BY <3>1, <3>2 DEF CountersInv
  <2>6. CASE Restart
    BY <2>6, RestartKeeps
  <2>7. CASE UNCHANGED vars
    BY <2>7 DEF vars, cvars, CountersInv, Counters, CounterConf
  <2> QED
    BY <2>7, <2>6, <2>5, <2>4, <2>3, <2>2, <2>1 DEF Next
<1> QED
  BY <1>1, <1>2, PTL DEF Spec

(* LeakyBucket: a counter is the leaky bucket of the events it counted,    *)
(* however often EventCounter::timeUpdate looks at it, and a delayed one   *)
(* is never lower.                                                         *)
THEOREM LeakyBuckets == Spec => []LeakyBucket
<1>1. CountersInv => LeakyBucket
  <2> SUFFICES ASSUME CountersInv, NEW c \in Counters
               PROVE  /\ \A x \in Buckets(c) : x <= counter[c]
                      /\ CounterConf[c].delay = None => counter[c] \in Buckets(c)
    BY DEF LeakyBucket
  <2> DEFINE f == CounterConf[c]
             es == counted[c]
             L(j) == Level(f, Len(es), j, last_time, es[j].time)
  <2>1. /\ counter[c] \in Nat /\ es \in Seq(Past(f, last_time, changed))
        /\ Leaky(counter[c], es, f, last_time)
    BY DEF CountersInv, CounterInv
  <2>2. DOMAIN es = 1..Len(es)
    BY <2>1
  <2>3. Buckets(c) = {0} \cup {L(j) : j \in 1..Len(es)}
    BY <2>2, Zenon DEF Buckets, Level
  <2>4. /\ \A j \in 1..Len(es) : L(j) <= counter[c]
        /\ f.delay = None => counter[c] = 0 \/ \E j \in 1..Len(es) : counter[c] = L(j)
    BY <2>1 DEF Leaky
  <2> HIDE DEF L, f, es
  <2>5. \A x \in Buckets(c) : x <= counter[c]
    BY <2>1, <2>3, <2>4
  <2>6. f.delay = None => counter[c] \in Buckets(c)
    BY <2>3, <2>4
  <2> QED
    BY <2>5, <2>6 DEF f
<1> QED
  BY <1>1, CountersInductive, PTL

(* DelayedEvents: DelayQueue holds an event back for its delay, and        *)
(* clearDQ leaves nothing from before a change of the programme to count.  *)
THEOREM DelayIsKept == Spec => []DelayedEvents
<1>1. CountersInv => DelayedEvents
  <2> SUFFICES ASSUME CountersInv, NEW c \in Counters, NEW i \in DOMAIN counted[c]
               PROVE  /\ CounterConf[c].delay # None =>
                            counted[c][i].time >= counted[c][i].at + CounterConf[c].delay
                      /\ counted[c][i].time > changed => counted[c][i].at > changed
    BY DEF DelayedEvents
  <2>1. counted[c] \in Seq(Past(CounterConf[c], last_time, changed))
    BY DEF CountersInv, CounterInv
  <2>2. counted[c][i] \in Past(CounterConf[c], last_time, changed)
    BY <2>1
  <2> QED
    BY <2>2 DEF Past
<1> QED
  BY <1>1, CountersInductive, PTL

(* HistoryKept: although EvList::update erases while it iterates, it loses *)
(* no event younger than the memory and keeps the order.                   *)
THEOREM HistoryIsKept == Spec => []HistoryKept
<1>1. CountersInv => HistoryKept
  <2> SUFFICES ASSUME CountersInv, NEW c \in Counters
               PROVE  /\ \A i \in DOMAIN counted[c] :
                            counted[c][i].time >= last_time - CounterConf[c].memory
                                => counted[c][i] \in Range(history[c])
                      /\ \A i, j \in DOMAIN history[c] :
                            i < j => history[c][i].time <= history[c][j].time
    BY DEF HistoryKept
  <2>1. /\ history[c] \in Seq(Event) /\ counted[c] \in Seq(Past(CounterConf[c], last_time, changed))
        /\ Ordered(history[c], last_time)
        /\ Keeps(history[c], counted[c], CounterConf[c], last_time)
    BY DEF CountersInv, CounterInv
  <2>2. DOMAIN history[c] = 1..Len(history[c]) /\ DOMAIN counted[c] = 1..Len(counted[c])
    BY <2>1
  <2> QED
    BY <2>1, <2>2 DEF Ordered, Keeps, Range
<1> QED
  BY <1>1, CountersInductive, PTL

-----------------------------------------------------------------------------
(* Rules *)

(* A flag with the time it was raised, and a rule, at time t.  A record is *)
(* looked at through its fields, whatever else it has.                     *)
IsFlag(x, t) == {"on", "since"} \subseteq DOMAIN x /\ x.since \in Nat /\ x.since <= t

RuleFields == {"status", "pr", "tr", "fa", "cycleactive", "latentUntil", "nextcyclestart"}
IsRule(s, t) == /\ RuleFields \subseteq DOMAIN s
                /\ IsFlag(s.pr, t) /\ IsFlag(s.tr, t) /\ IsFlag(s.fa, t)

AllOn(s) == s.pr.on /\ s.tr.on /\ s.fa.on

(* The flags of a rule without events say what held when it was matched    *)
(* last (w): all of them are on when it was enabled, and one is off when   *)
(* it was not, unless it was not on the list of a running programme.       *)
Edge(s, w, c) ==
    c.minimum = 0 /\ s.status = "ON" =>
        /\ w.all => AllOn(s) /\ (c.cycle <= 0 => ~s.cycleactive)
        /\ ~w.all /\ w.listed => ~AllOn(s)

(* Raising a flag stamps it with the time if it was not on.                *)
LEMMA Raised ==
    ASSUME NEW x, NEW u \in Nat, IsFlag(x, u), NEW t \in Nat, u < t
    PROVE  /\ IsFlag(Raise(x, t), t) /\ Raise(x, t).on
           /\ x.on => Raise(x, t).since # t
           /\ ~x.on => Raise(x, t).since = t
<1>1. x.since \in Nat /\ x.since <= u /\ {"on", "since"} \subseteq DOMAIN x
  BY DEF IsFlag
<1>2. x.since <= t /\ x.since # t
  BY <1>1
<1>3. CASE x.on
  <2>1. Raise(x, t) = x
    BY <1>3, Zenon DEF Raise
  <2> QED
    BY <1>1, <1>2, <1>3, <2>1, Zenon DEF IsFlag
<1>4. CASE ~x.on
  <2>1. Raise(x, t) = [on |-> TRUE, since |-> t]
    BY <1>4, Zenon DEF Raise
  <2>2. PICK y : y = [on |-> TRUE, since |-> t]
    OBVIOUS
  <2>3. DOMAIN y = {"on", "since"} /\ y.on = TRUE /\ y.since = t
    BY <2>2, Zenon
  <2>4. t <= t
    OBVIOUS
  <2>5. IsFlag(y, t)
    BY <2>3, <2>4 DEF IsFlag
  <2> QED
    BY <2>5, <2>3, <2>2, <2>1, <1>4, Zenon
<1> QED
  BY <1>3, <1>4, Zenon

(* Clearing a flag keeps its time.                                         *)
LEMMA Lowered ==
    ASSUME NEW x, NEW t, IsFlag(x, t)
    PROVE  IsFlag(Lower(x), t) /\ ~Lower(x).on
<1>1. PICK y : y = [x EXCEPT !.on = FALSE]
  OBVIOUS
<1>2. DOMAIN y = DOMAIN x /\ y.since = x.since
  BY <1>1 DEF IsFlag
<1>3. y.on = FALSE
  BY <1>1, Zenon DEF IsFlag
<1>4. IsFlag(y, t)
  BY <1>2 DEF IsFlag
<1> QED
  BY <1>1, <1>3, <1>4, Zenon DEF Lower

(* A flag is still a flag later.                                           *)
LEMMA FlagLater ==
    ASSUME NEW x, NEW u \in Nat, IsFlag(x, u), NEW t \in Nat, u <= t
    PROVE  IsFlag(x, t)
<1>1. x.since \in Nat /\ x.since <= u
  BY DEF IsFlag
<1>2. x.since <= t
  BY <1>1
<1> QED
  BY <1>2 DEF IsFlag

(* Setting one flag of a rule leaves the others.                           *)
LEMMA SetPr ==
    ASSUME NEW s, RuleFields \subseteq DOMAIN s, NEW v, NEW u, u = [s EXCEPT !.pr = v]
    PROVE  /\ RuleFields \subseteq DOMAIN u
           /\ u.pr = v /\ u.tr = s.tr /\ u.fa = s.fa
           /\ u.status = s.status /\ u.cycleactive = s.cycleactive
BY DEF RuleFields

(* The second flag.                                                        *)
LEMMA SetTr ==
    ASSUME NEW s, RuleFields \subseteq DOMAIN s, NEW v, NEW u, u = [s EXCEPT !.tr = v]
    PROVE  /\ RuleFields \subseteq DOMAIN u
           /\ u.tr = v /\ u.pr = s.pr /\ u.fa = s.fa
           /\ u.status = s.status /\ u.cycleactive = s.cycleactive
BY DEF RuleFields

(* The third.                                                              *)
LEMMA SetFa ==
    ASSUME NEW s, RuleFields \subseteq DOMAIN s, NEW v, NEW u, u = [s EXCEPT !.fa = v]
    PROVE  /\ RuleFields \subseteq DOMAIN u
           /\ u.fa = v /\ u.pr = s.pr /\ u.tr = s.tr
           /\ u.status = s.status /\ u.cycleactive = s.cycleactive
BY DEF RuleFields

(* The flags u after Rule::match at t, when they were s.                   *)
Flagged(r, s, u, t, val) ==
    /\ IsRule(u, t) /\ u.status = s.status /\ u.cycleactive = s.cycleactive
    /\ Enabled(r, val) => /\ u.pr = Raise(s.pr, t) /\ u.tr = Raise(s.tr, t)
                          /\ u.fa = Raise(s.fa, t)
    /\ ~Enabled(r, val) /\ Listed(r) => ~AllOn(u)

(* What flagsUpdate does.                                                  *)
LEMMA FlagsUpdated ==
    ASSUME NEW r, NEW s, NEW n \in Nat, IsRule(s, n), NEW t \in Nat, n < t, NEW val
    PROVE  Flagged(r, s, flagsUpdate(r, s, t, val), t, val)
<1>1. PICK u : u = flagsUpdate(r, s, t, val)
  OBVIOUS
<1> SUFFICES Flagged(r, s, u, t, val)
  BY <1>1, Zenon
<1>2. /\ RuleFields \subseteq DOMAIN s
      /\ IsFlag(s.pr, n) /\ IsFlag(s.tr, n) /\ IsFlag(s.fa, n)
  BY DEF IsRule
<1>3. /\ IsFlag(Raise(s.pr, t), t) /\ IsFlag(Raise(s.tr, t), t) /\ IsFlag(Raise(s.fa, t), t)
  BY <1>2, Raised
<1>4. n <= t
  OBVIOUS
<1>5. /\ IsFlag(s.pr, t) /\ IsFlag(s.tr, t) /\ IsFlag(s.fa, t)
  BY <1>2, <1>4, FlagLater
<1>6. /\ IsFlag(Lower(s.pr), t) /\ ~Lower(s.pr).on
      /\ IsFlag(Lower(s.tr), t) /\ ~Lower(s.tr).on
      /\ IsFlag(Lower(s.fa), t) /\ ~Lower(s.fa).on
  BY <1>5, Lowered
<1>7. PICK p : p = [s EXCEPT !.pr = Raise(@, t)]
  OBVIOUS
<1>8. /\ RuleFields \subseteq DOMAIN p
      /\ p.pr = Raise(s.pr, t) /\ p.tr = s.tr /\ p.fa = s.fa
      /\ p.status = s.status /\ p.cycleactive = s.cycleactive
  BY <1>2, <1>7, SetPr
<1>9. PICK q : q = [p EXCEPT !.tr = Raise(@, t)]
  OBVIOUS
<1>10. /\ RuleFields \subseteq DOMAIN q
      /\ q.pr = Raise(s.pr, t) /\ q.tr = Raise(s.tr, t) /\ q.fa = s.fa
      /\ q.status = s.status /\ q.cycleactive = s.cycleactive
  <2>1. q = [p EXCEPT !.tr = Raise(s.tr, t)]
    BY <1>8, <1>9, Zenon
  <2> QED
    BY <1>8, <2>1, SetTr
<1>11. CASE ~ModeHolds(r)
  <2>1. ~Enabled(r, val)
    BY <1>11 DEF Enabled
  <2>2. CASE Mode(r) = "programon" /\ alarm_on
    <3>1. u = s
      BY <1>11, <2>2, <1>1, Zenon DEF flagsUpdate
    <3>2. ~Listed(r)
      BY <1>11, <2>2, Zenon DEF Listed, ModeHolds
    <3> QED
      BY Zenon, <3>2, <3>1, <2>1, <1>5, <1>2 DEF Flagged, IsRule
  <2>3. CASE ~(Mode(r) = "programon" /\ alarm_on)
    <3>1. u = [s EXCEPT !.pr = Lower(@)]
      BY <1>11, <2>3, <1>1, Zenon DEF flagsUpdate
    <3>2. /\ RuleFields \subseteq DOMAIN u
          /\ u.pr = Lower(s.pr) /\ u.tr = s.tr /\ u.fa = s.fa
          /\ u.status = s.status /\ u.cycleactive = s.cycleactive
      BY <1>2, <3>1, SetPr
    <3> QED
      BY <1>5, <1>6, <2>1, <3>2, Zenon DEF Flagged, IsRule, AllOn
  <2> QED
    BY <2>2, <2>3, Zenon
<1>12. CASE ModeHolds(r) /\ ~TruesHold(r, val)
  <2>1. ~Enabled(r, val)
    BY <1>12 DEF Enabled
  <2>2. u = [p EXCEPT !.tr = Lower(@)]
    BY <1>7, <1>12, <1>1, Zenon DEF flagsUpdate
  <2>3. u = [p EXCEPT !.tr = Lower(s.tr)]
    BY <1>8, <2>2, Zenon
  <2>4. /\ RuleFields \subseteq DOMAIN u
        /\ u.pr = Raise(s.pr, t) /\ u.tr = Lower(s.tr) /\ u.fa = s.fa
        /\ u.status = s.status /\ u.cycleactive = s.cycleactive
    BY <1>8, <2>3, SetTr
  <2> QED
    BY Zenon, <2>4, <2>1, <1>6, <1>5, <1>3 DEF Flagged, IsRule, AllOn
<1>13. CASE ModeHolds(r) /\ TruesHold(r, val) /\ ~FalsesHold(r, val)
  <2>1. ~Enabled(r, val)
    BY <1>13 DEF Enabled
  <2>2. u = [q EXCEPT !.fa = Lower(@)]
    BY <1>7, <1>9, <1>13, <1>1, Zenon DEF flagsUpdate
  <2>3. u = [q EXCEPT !.fa = Lower(s.fa)]
    BY <1>10, <2>2, Zenon
  <2>4. /\ RuleFields \subseteq DOMAIN u
        /\ u.pr = Raise(s.pr, t) /\ u.tr = Raise(s.tr, t) /\ u.fa = Lower(s.fa)
        /\ u.status = s.status /\ u.cycleactive = s.cycleactive
    BY <1>10, <2>3, SetFa
  <2> QED
    BY <1>3, <1>6, <2>1, <2>4, Zenon DEF Flagged, IsRule, AllOn
<1>14. CASE Enabled(r, val)
  <2>1. ModeHolds(r) /\ TruesHold(r, val) /\ FalsesHold(r, val)
    BY <1>14 DEF Enabled
  <2>2. u = [q EXCEPT !.fa = Raise(@, t)]
    BY <1>7, <1>9, <2>1, <1>1, Zenon DEF flagsUpdate
  <2>3. u = [q EXCEPT !.fa = Raise(s.fa, t)]
    BY <1>10, <2>2, Zenon
  <2>4. /\ RuleFields \subseteq DOMAIN u
        /\ u.pr = Raise(s.pr, t) /\ u.tr = Raise(s.tr, t) /\ u.fa = Raise(s.fa, t)
        /\ u.status = s.status /\ u.cycleactive = s.cycleactive
    BY <1>10, <2>3, SetFa
  <2> QED
    BY <1>3, <1>14, <2>4, Zenon DEF Flagged, IsRule
<1> QED
  BY <1>11, <1>12, <1>13, <1>14, Zenon DEF Enabled

(* Rule::cycleUpdate changes no flag and starts no cycle where there is    *)
(* none.                                                                   *)
LEMMA CycleUpdated ==
    ASSUME NEW r, NEW s, NEW n, IsRule(s, n), NEW t, NEW u, u = cycleUpdate(s, r, t),
           RuleConf[r].cycle \in Int
    PROVE  /\ IsRule(u, n) /\ u.status = s.status
           /\ u.pr = s.pr /\ u.tr = s.tr /\ u.fa = s.fa
           /\ RuleConf[r].cycle <= 0 => ~u.cycleactive
<1>1. RuleFields \subseteq DOMAIN s
  BY DEF IsRule
<1> DEFINE cycle == RuleConf[r].cycle
           Same(x) == /\ RuleFields \subseteq DOMAIN x /\ x.status = s.status
                      /\ x.pr = s.pr /\ x.tr = s.tr /\ x.fa = s.fa
<1>2. PICK m, k : m = ((t + cycle - 1) \div cycle) * cycle /\ k = s.nextcyclestart + cycle
  OBVIOUS
<1>3. PICK a : a = [s EXCEPT !.cycleactive = FALSE]
  OBVIOUS
<1>4. PICK b : b = [s EXCEPT !.cycleactive = FALSE, !.nextcyclestart = m]
  OBVIOUS
<1>5. PICK d : d = [s EXCEPT !.cycleactive = TRUE, !.nextcyclestart = k]
  OBVIOUS
<1>6. Same(a) /\ Same(b) /\ Same(d) /\ Same(s)
  <2>1. Same(a) /\ Same(s)
    BY <1>1, <1>3 DEF RuleFields
  <2>2. Same(b)
    BY <1>1, <1>4 DEF RuleFields
  <2>3. Same(d)
    BY <1>1, <1>5 DEF RuleFields
  <2> QED
    BY <2>1, <2>2, <2>3
<1>7. a.cycleactive = FALSE
  BY <1>1, <1>3, Zenon DEF RuleFields
<1>8. CASE cycle <= 0
  <2>1. ~(cycle > 0)
    BY <1>8
  <2>2. u = a
    BY <1>3, <1>8, <2>1, Zenon DEF cycleUpdate
  <2> QED
    BY <1>6, <1>7, <2>2, Zenon DEF IsRule
<1>9. CASE ~(cycle <= 0)
  <2>1. cycle > 0
    BY <1>9
  <2>2. u \in {b, d, s}
    BY Zenon, <2>1, <1>9, <1>5, <1>4, <1>2 DEF cycleUpdate
  <2> QED
    BY <1>6, <1>9, <2>2, Zenon DEF IsRule
<1> QED
  BY <1>8, <1>9, Zenon

(* A rule without events needs none.                                       *)
LEMMA ClauseOfNone ==
    ASSUME conf \in Configurations, NEW r \in Rules, RuleConf[r].minimum = 0, NEW cnt
    PROVE  ClauseHolds(r, cnt)
<1> DEFINE S == {c \in RuleConf[r].clause : cnt[c] >= CounterConf[c].threshold}
<1>1. IsFiniteSet(RuleConf[r].clause)
  BY RuleEngineAssumption DEF RuleEngineAssumption, Rules, RuleConf
<1>2. S \subseteq RuleConf[r].clause
  OBVIOUS
<1> HIDE DEF S
<1>3. IsFiniteSet(S)
  BY <1>1, <1>2, FS_Subset
<1>4. Cardinality(S) \in Nat
  BY <1>3, FS_CardinalityType
<1>5. Cardinality(S) >= 0
  BY <1>4
<1> QED
  BY <1>5 DEF ClauseHolds, S

(* Rule::match of a rule without events: when it fires, and what it leaves *)
(* behind.                                                                 *)
LEMMA MatchEdge ==
    ASSUME conf \in Configurations, NEW r \in Rules, NEW rs, NEW n \in Nat, IsRule(rs[r], n),
           NEW t \in Nat, n < t, NEW val, NEW cnt, NEW w, Edge(rs[r], w, RuleConf[r])
    PROVE  /\ IsRule(matchUpdate(rs, r, t, val, cnt), t)
           /\ Edge(matchUpdate(rs, r, t, val, cnt), [all |-> Enabled(r, val), listed |-> Listed(r)],
                   RuleConf[r])
           /\ RuleConf[r].minimum = 0 =>
                 /\ Matches(rs, r, t, val, cnt) /\ RuleConf[r].cycle <= 0 => ~w.all
                 /\ rs[r].status = "ON" /\ Enabled(r, val) /\ ~w.all /\ w.listed
                       => Matches(rs, r, t, val, cnt)
<1> DEFINE c == RuleConf[r]
           M == Matches(rs, r, t, val, cnt)
<1>1. PICK s, u : s = rs[r] /\ u = flagsUpdate(r, s, t, val)
  OBVIOUS
<1>2. /\ IsRule(s, n) /\ Edge(s, w, c)
  BY <1>1, Zenon
<1>3. /\ IsFlag(s.pr, n) /\ IsFlag(s.tr, n) /\ IsFlag(s.fa, n)
  BY <1>2 DEF IsRule
<1>4. /\ IsRule(u, t) /\ u.status = s.status /\ u.cycleactive = s.cycleactive
      /\ Enabled(r, val) => /\ u.pr = Raise(s.pr, t) /\ u.tr = Raise(s.tr, t)
                            /\ u.fa = Raise(s.fa, t)
      /\ ~Enabled(r, val) /\ Listed(r) => ~AllOn(u)
  <2>1. u = flagsUpdate(r, s, t, val) /\ IsRule(s, n)
    BY <1>1, <1>2, Zenon
  <2>2. Flagged(r, s, flagsUpdate(r, s, t, val), t, val)
    BY <1>2, FlagsUpdated
  <2> QED
    BY <2>1, <2>2 DEF Flagged
<1>5. /\ Raise(s.pr, t).on /\ Raise(s.tr, t).on /\ Raise(s.fa, t).on
      /\ s.pr.on <=> Raise(s.pr, t).since # t
      /\ s.tr.on <=> Raise(s.tr, t).since # t
      /\ s.fa.on <=> Raise(s.fa, t).since # t
  BY <1>3, Raised
<1>6. Enabled(r, val) => /\ AllOn(u)
                         /\ AllOn(s) <=> t \notin {u.pr.since, u.tr.since, u.fa.since}
  <2> SUFFICES ASSUME Enabled(r, val)
               PROVE  /\ AllOn(u)
                      /\ AllOn(s) <=> t \notin {u.pr.since, u.tr.since, u.fa.since}
    OBVIOUS
  <2>1. /\ u.pr = Raise(s.pr, t) /\ u.tr = Raise(s.tr, t) /\ u.fa = Raise(s.fa, t)
    BY <1>4
  <2>2. AllOn(u)
    BY <1>5, <2>1, Zenon DEF AllOn
  <2>3. AllOn(s) <=> u.pr.since # t /\ u.tr.since # t /\ u.fa.since # t
    BY <1>5, <2>1, Zenon DEF AllOn
  <2> QED
    BY <2>2, <2>3, Zenon
<1>7. c.minimum = 0 => (M <=> /\ s.status = "ON" /\ Enabled(r, val)
                              /\ s.cycleactive \/ t \in {u.pr.since, u.tr.since, u.fa.since})
  <2> SUFFICES ASSUME c.minimum = 0
               PROVE  M <=> /\ s.status = "ON" /\ Enabled(r, val)
                            /\ s.cycleactive \/ t \in {u.pr.since, u.tr.since, u.fa.since}
    OBVIOUS
  <2>1. ~(c.minimum > 0)
    OBVIOUS
  <2>2. ClauseHolds(r, cnt)
    BY ClauseOfNone
  <2> QED
    BY <1>1, <1>4, <2>1, <2>2, Zenon DEF Matches
<1> HIDE DEF M
<1>8. /\ c.minimum = 0 /\ M /\ c.cycle <= 0 => ~w.all
      /\ c.minimum = 0 /\ s.status = "ON" /\ Enabled(r, val) /\ ~w.all /\ w.listed => M
  BY <1>2, <1>6, <1>7, Zenon DEF Edge
<1>9. PICK x : x = matchUpdate(rs, r, t, val, cnt)
  OBVIOUS
<1>10. /\ IsRule(x, t) /\ x.status = s.status
       /\ s.status # "ON" => x = s
       /\ s.status = "ON" => x.pr = u.pr /\ x.tr = u.tr /\ x.fa = u.fa
       /\ s.status = "ON" => x.cycleactive = IF M THEN FALSE ELSE s.cycleactive
  <2>1. CASE s.status # "ON"
    <3>1. x = s
      BY <1>1, <1>9, <2>1, Zenon DEF matchUpdate
    <3>2. n <= t
      OBVIOUS
    <3>3. IsFlag(s.pr, t) /\ IsFlag(s.tr, t) /\ IsFlag(s.fa, t)
      BY <1>3, <3>2, FlagLater
    <3>4. IsRule(s, t)
      BY <1>2, <3>3 DEF IsRule
    <3> QED
      BY <2>1, <3>1, <3>4, Zenon
  <2>2. CASE s.status = "ON" /\ ~M
    <3>1. x = u
      BY <1>1, <1>9, <2>2, Zenon DEF matchUpdate, M
    <3> QED
      BY <1>4, <2>2, <3>1, Zenon
  <2>3. CASE s.status = "ON" /\ M
    <3>1. PICK l : l = IF c.minimum > 0 /\ c.cycle <= 0 /\ c.latency # None
                       THEN t + c.latency ELSE u.latentUntil
      OBVIOUS
    <3>2. x = [u EXCEPT !.cycleactive = FALSE, !.latentUntil = l]
      BY <1>1, <1>9, <2>3, <3>1, Zenon DEF matchUpdate, M
    <3>3. RuleFields \subseteq DOMAIN u
      BY <1>4 DEF IsRule
    <3>4. /\ RuleFields \subseteq DOMAIN x
          /\ x.status = u.status /\ x.pr = u.pr /\ x.tr = u.tr /\ x.fa = u.fa
      BY <3>2, <3>3 DEF RuleFields
    <3>5. x.cycleactive = FALSE
      <4>1. PICK y : y = [u EXCEPT !.cycleactive = FALSE]
        OBVIOUS
      <4>2. y.cycleactive = FALSE /\ RuleFields \subseteq DOMAIN y
        BY <3>3, <4>1, Zenon DEF RuleFields
      <4>3. x = [y EXCEPT !.latentUntil = l]
        BY <3>2, <4>1, Zenon
      <4> QED
        BY <4>2, <4>3 DEF RuleFields
    <3>6. IsRule(x, t)
      BY <1>4, <3>4 DEF IsRule
    <3> QED
      BY <3>6, <3>5, <3>4, <2>3, <1>4, Zenon
  <2> QED
    BY <2>1, <2>2, <2>3, Zenon
<1>11. PICK v : v = [all |-> Enabled(r, val), listed |-> Listed(r)]
  OBVIOUS
<1>12. (v.all <=> Enabled(r, val)) /\ (v.listed <=> Listed(r))
  BY <1>11, Zenon
<1>13. Edge(x, v, c)
  <2> SUFFICES ASSUME c.minimum = 0, x.status = "ON"
               PROVE  /\ v.all => AllOn(x) /\ (c.cycle <= 0 => ~x.cycleactive)
                      /\ ~v.all /\ v.listed => ~AllOn(x)
    BY DEF Edge
  <2>1. s.status = "ON" /\ (AllOn(x) <=> AllOn(u))
    BY <1>10, Zenon DEF AllOn
  <2>2. v.all => ~x.cycleactive
    BY <1>7, <1>10, <1>12, <2>1, Zenon
  <2> QED
    BY <2>2, <2>1, <1>12, <1>6, <1>4, Zenon
<1> QED
  BY Zenon, <1>13, <1>11, <1>10, <1>9, <1>8, <1>1 DEF M

-----------------------------------------------------------------------------
(* All the rules *)

(* The inductive invariant of the rules.                                   *)
RulesInv ==
    /\ conf \in Configurations /\ now \in Nat
    /\ \A r \in Rules : IsRule(rules[r], now) /\ Edge(rules[r], was[r], RuleConf[r])

(* What FiresOnEdge says of a step.                                        *)
EdgeStep ==
    \A r \in Rules :
        RuleConf[r].minimum = 0 =>
            /\ r \in fired' /\ RuleConf[r].cycle <= 0 => ~was[r].all
            /\ (/\ rules[r].status = "ON"
                /\ was'[r].all /\ ~was[r].all /\ was[r].listed) => r \in fired'

(* Time passes for the rules.                                              *)
LEMMA TickRules ==
    ASSUME conf \in Configurations, now \in Nat, Tick
    PROVE  /\ now' \in Nat /\ now < now'
           /\ conf' = conf /\ RuleConf' = RuleConf /\ Rules' = Rules
<1>1. now' \in Nat /\ now < now' /\ conf' = conf
  BY TickProperties
<1> QED
  BY <1>1 DEF RuleConf, Rules

(* A rule is still a rule later.                                           *)
LEMMA RuleLater ==
    ASSUME NEW s, NEW u \in Nat, IsRule(s, u), NEW t \in Nat, u < t
    PROVE  IsRule(s, t)
<1>1. u <= t
  OBVIOUS
<1>2. IsFlag(s.pr, u) /\ IsFlag(s.tr, u) /\ IsFlag(s.fa, u)
  BY DEF IsRule
<1>3. IsFlag(s.pr, t) /\ IsFlag(s.tr, t) /\ IsFlag(s.fa, t)
  BY <1>1, <1>2, FlagLater
<1> QED
  BY <1>3 DEF IsRule

(* RuleSet::match of rules that differ from those before only in their     *)
(* cycles.                                                                 *)
LEMMA MatchKeeps ==
    ASSUME RulesInv, Tick, NEW rs, NEW t, t = now', NEW val, NEW cnt, match(rs, t, val, cnt),
           \A r \in Rules : /\ IsRule(rs[r], now) /\ Edge(rs[r], was[r], RuleConf[r])
                            /\ rs[r].status = rules[r].status
    PROVE  RulesInv' /\ EdgeStep
<1>1. /\ t \in Nat /\ now \in Nat /\ now < t /\ now' \in Nat /\ conf \in Configurations
      /\ conf' = conf /\ RuleConf' = RuleConf /\ Rules' = Rules
  BY TickRules DEF RulesInv
<1>2. ASSUME NEW r \in Rules
      PROVE  /\ rules'[r] = matchUpdate(rs, r, t, val, cnt)
             /\ r \in fired' <=> Matches(rs, r, t, val, cnt)
             /\ was'[r] = [all |-> Enabled(r, val), listed |-> Listed(r)]
  BY Zenon DEF match
<1>3. ASSUME NEW r \in Rules
      PROVE  /\ IsRule(matchUpdate(rs, r, t, val, cnt), t)
             /\ Edge(matchUpdate(rs, r, t, val, cnt),
                     [all |-> Enabled(r, val), listed |-> Listed(r)], RuleConf[r])
             /\ RuleConf[r].minimum = 0 =>
                   /\ Matches(rs, r, t, val, cnt) /\ RuleConf[r].cycle <= 0 => ~was[r].all
                   /\ rs[r].status = "ON" /\ Enabled(r, val) /\ ~was[r].all /\ was[r].listed
                         => Matches(rs, r, t, val, cnt)
  <2>1. PICK w, n : w = was[r] /\ n = now
    OBVIOUS
  <2>2. IsRule(rs[r], n) /\ Edge(rs[r], w, RuleConf[r])
    BY <2>1, Zenon
  <2>3. n \in Nat /\ n < t
    BY <1>1, <2>1
  <2>4. /\ IsRule(matchUpdate(rs, r, t, val, cnt), t)
        /\ Edge(matchUpdate(rs, r, t, val, cnt),
                [all |-> Enabled(r, val), listed |-> Listed(r)], RuleConf[r])
        /\ RuleConf[r].minimum = 0 =>
              /\ Matches(rs, r, t, val, cnt) /\ RuleConf[r].cycle <= 0 => ~w.all
              /\ rs[r].status = "ON" /\ Enabled(r, val) /\ ~w.all /\ w.listed
                    => Matches(rs, r, t, val, cnt)
    BY <1>1, <2>2, <2>3, MatchEdge
  <2> QED
    BY <2>1, <2>4, Zenon
<1>4. ASSUME NEW r \in Rules
      PROVE  IsRule(rules'[r], now') /\ Edge(rules'[r], was'[r], RuleConf'[r])
  BY <1>1, <1>2, <1>3, Zenon
<1>5. ASSUME NEW r \in Rules, RuleConf[r].minimum = 0
      PROVE  /\ r \in fired' /\ RuleConf[r].cycle <= 0 => ~was[r].all
             /\ (/\ rules[r].status = "ON"
                 /\ was'[r].all /\ ~was[r].all /\ was[r].listed) => r \in fired'
  <2>1. was'[r].all => Enabled(r, val)
    <3>1. PICK v : v = [all |-> Enabled(r, val), listed |-> Listed(r)]
      OBVIOUS
    <3>2. v.all <=> Enabled(r, val)
      BY <3>1, Zenon
    <3> QED
      BY <1>2, <3>1, <3>2, Zenon
  <2> QED
    BY <1>2, <1>3, <1>5, <2>1, Zenon
<1>6. RulesInv'
  BY <1>1, <1>4, Zenon DEF RulesInv
<1> QED
  BY <1>5, <1>6, Zenon DEF EdgeStep

(* No rule is matched.                                                     *)
LEMMA QuietKeeps ==
    ASSUME RulesInv, Tick, rules' = rules, Quiet
    PROVE  RulesInv' /\ EdgeStep
<1>1. /\ now \in Nat /\ now < now' /\ now' \in Nat /\ conf \in Configurations
      /\ conf' = conf /\ RuleConf' = RuleConf /\ Rules' = Rules
  BY TickRules DEF RulesInv
<1>2. ASSUME NEW r \in Rules
      PROVE  IsRule(rules'[r], now') /\ Edge(rules'[r], was'[r], RuleConf'[r])
  <2>1. IsRule(rules[r], now) /\ Edge(rules[r], was[r], RuleConf[r])
    BY DEF RulesInv
  <2>2. IsRule(rules[r], now')
    BY <1>1, <2>1, RuleLater
  <2> QED
    BY <1>1, <2>1, <2>2, Zenon DEF Quiet
<1>3. RulesInv'
  BY <1>1, <1>2, Zenon DEF RulesInv
<1>4. EdgeStep
  BY Zenon DEF EdgeStep, Quiet
<1> QED
  BY <1>3, <1>4

(* A constructed rule, whatever cycleactive and fcondition hold:           *)
(* prcondition is initialised.                                             *)
LEMMA NewRuleGood ==
    ASSUME NEW st, NEW cyc, NEW fa, NEW t \in Nat, NEW c
    PROVE  /\ IsRule(NewRule(st, cyc, fa), t)
           /\ Edge(NewRule(st, cyc, fa), [all |-> FALSE, listed |-> TRUE], c)
<1>1. PICK p : p = [on |-> FALSE, since |-> 0]
  OBVIOUS
<1>2. PICK q : q = [on |-> fa, since |-> 0]
  OBVIOUS
<1>3. DOMAIN p = {"on", "since"} /\ p.since = 0 /\ DOMAIN q = {"on", "since"} /\ q.since = 0
  BY <1>1, <1>2, Zenon
<1>4. p.on = FALSE
  BY <1>1, Zenon
<1>5. IsFlag(p, t) /\ IsFlag(q, t)
  BY <1>3 DEF IsFlag
<1>6. PICK s : s = NewRule(st, cyc, fa)
  OBVIOUS
<1>7. s = [status |-> st, pr |-> p, tr |-> p, fa |-> q, cycleactive |-> cyc, latentUntil |-> 0,
           nextcyclestart |-> None]
  BY <1>1, <1>2, <1>6, Zenon DEF NewRule
<1>8. RuleFields \subseteq DOMAIN s /\ s.pr = p /\ s.tr = p /\ s.fa = q
  BY <1>7, Zenon DEF RuleFields
<1>9. IsRule(s, t)
  BY <1>5, <1>8, Zenon DEF IsRule
<1>10. PICK w : w = [all |-> FALSE, listed |-> TRUE]
  OBVIOUS
<1>11. w.all = FALSE
  BY <1>10, Zenon
<1>12. Edge(s, w, c)
  BY <1>4, <1>8, <1>11, Zenon DEF Edge, AllOn
<1> QED
  BY <1>6, <1>9, <1>10, <1>12, Zenon

(* The trigger: before the match it may look at the cycles.                *)
LEMMA TriggerEdge ==
    ASSUME RulesInv, doTrigger
    PROVE  RulesInv' /\ EdgeStep
<1> DEFINE k   == [c \in Counters |-> timeUpdate(State(c), c, now', now' - last_time)]
           cnt == [c \in Counters |-> k[c].counter]
           rs  == IF \E c \in Counters : cnt[c] > 0 THEN rules
                  ELSE [r \in Rules |-> cycleUpdate(rules[r], r, now')]
<1>1. Tick /\ match(rs, now', value, cnt)
  BY Zenon DEF doTrigger
<1> HIDE DEF cnt
<1>2. ASSUME NEW r \in Rules
      PROVE  /\ IsRule(rs[r], now) /\ Edge(rs[r], was[r], RuleConf[r])
             /\ rs[r].status = rules[r].status
  <2>1. IsRule(rules[r], now) /\ Edge(rules[r], was[r], RuleConf[r])
    BY DEF RulesInv
  <2>2. CASE \E c \in Counters : cnt[c] > 0
    BY <2>1, <2>2, Zenon
  <2>3. CASE ~(\E c \in Counters : cnt[c] > 0)
    <3>1. rs[r] = cycleUpdate(rules[r], r, now')
      BY <2>3, Zenon
    <3>2. RuleConf[r].cycle \in Int
      BY RuleEngineAssumption DEF RulesInv, RuleEngineAssumption, Rules, RuleConf
    <3>3. PICK s, u, n, t : s = rules[r] /\ u = cycleUpdate(s, r, t) /\ n = now /\ t = now'
      OBVIOUS
    <3>4. IsRule(s, n) /\ u = cycleUpdate(s, r, t)
      BY <2>1, <3>3, Zenon
    <3>5. /\ IsRule(u, n) /\ u.status = s.status
          /\ u.pr = s.pr /\ u.tr = s.tr /\ u.fa = s.fa
          /\ RuleConf[r].cycle <= 0 => ~u.cycleactive
      BY <3>2, <3>4, CycleUpdated
    <3>6. Edge(s, was[r], RuleConf[r])
      BY <2>1, <3>3, Zenon
    <3>7. Edge(u, was[r], RuleConf[r])
      BY <3>5, <3>6, Zenon DEF Edge, AllOn
    <3>8. rs[r] = u
      BY <3>1, <3>3, Zenon
    <3> QED
      BY <3>3, <3>5, <3>7, <3>8, Zenon
  <2> QED
    BY <2>2, <2>3, Zenon
<1> HIDE DEF rs
<1>3. PICK z, t, v, m : z = rs /\ t = now' /\ v = value /\ m = cnt
  OBVIOUS
<1>4. match(z, t, v, m) /\ \A r \in Rules : /\ IsRule(z[r], now) /\ Edge(z[r], was[r], RuleConf[r])
                                            /\ z[r].status = rules[r].status
  BY <1>1, <1>2, <1>3, Zenon
<1> QED
  BY <1>1, <1>3, <1>4, MatchKeeps

(* An event.                                                               *)
LEMMA EventEdge ==
    ASSUME RulesInv, NEW e, doEvent(e)
    PROVE  RulesInv' /\ EdgeStep
<1>1. Tick /\ \E v, m : match(rules, now', v, m)
  BY Zenon DEF doEvent
<1>2. PICK v, m : match(rules, now', v, m)
  BY <1>1
<1>3. PICK z, t : z = rules /\ t = now'
  OBVIOUS
<1>4. match(z, t, v, m) /\ \A r \in Rules : /\ IsRule(z[r], now) /\ Edge(z[r], was[r], RuleConf[r])
                                            /\ z[r].status = rules[r].status
  BY <1>2, <1>3, Zenon DEF RulesInv
<1> QED
  BY <1>1, <1>3, <1>4, MatchKeeps

(* The process starts again.                                               *)
LEMMA RestartEdge ==
    ASSUME RulesInv, Restart
    PROVE  RulesInv' /\ EdgeStep
<1>1. Tick /\ Start
  BY DEF Restart
<1>2. /\ now' \in Nat /\ conf \in Configurations
      /\ conf' = conf /\ RuleConf' = RuleConf /\ Rules' = Rules
  BY <1>1, TickRules DEF RulesInv
<1>3. PICK g : rules' = [r \in Rules |-> NewRule(saved[r], g[r][1], g[r][2])]
  BY <1>1, Zenon DEF Start
<1>4. ASSUME NEW r \in Rules
      PROVE  was'[r] = [all |-> FALSE, listed |-> TRUE] /\ ~was'[r].all
  <2>1. was'[r] = [all |-> FALSE, listed |-> TRUE]
    BY <1>1, Zenon DEF Start
  <2>2. PICK w : w = [all |-> FALSE, listed |-> TRUE]
    OBVIOUS
  <2>3. w.all = FALSE
    BY <2>2, Zenon
  <2> QED
    BY <2>1, <2>2, <2>3, Zenon
<1>5. ASSUME NEW r \in Rules
      PROVE  IsRule(rules'[r], now') /\ Edge(rules'[r], was'[r], RuleConf'[r])
  <2>1. rules'[r] = NewRule(saved[r], g[r][1], g[r][2])
    BY <1>3, Zenon
  <2>2. /\ IsRule(NewRule(saved[r], g[r][1], g[r][2]), now')
        /\ Edge(NewRule(saved[r], g[r][1], g[r][2]), [all |-> FALSE, listed |-> TRUE], RuleConf[r])
    BY <1>2, NewRuleGood
  <2> QED
    BY <1>2, <1>4, <2>1, <2>2, Zenon
<1>6. fired' = {}
  BY <1>1, Zenon DEF Start
<1>7. EdgeStep
  BY <1>4, <1>6, Zenon DEF EdgeStep
<1>8. RulesInv'
  BY <1>2, <1>5, Zenon DEF RulesInv
<1> QED
  BY <1>7, <1>8

(* Every step keeps the flags and fires on the edge.                       *)
LEMMA RulesStep ==
    ASSUME RulesInv, Next
    PROVE  RulesInv' /\ EdgeStep
<1>1. CASE doTrigger
  BY <1>1, TriggerEdge
<1>2. CASE \E e \in conf.events : doEvent(e)
  BY <1>2, EventEdge
<1>3. CASE doProgramEvent
  BY <1>3, QuietKeeps DEF doProgramEvent
<1>4. CASE \E on \in BOOLEAN, list \in conf.lists : doPrgStatus(on, list)
  <2>1. Tick /\ rules' = rules /\ Quiet
    BY <1>4, Zenon DEF doPrgStatus
  <2> QED
    BY <2>1, QuietKeeps
<1>5. CASE \E r \in Rules, st \in {"ON", "OFF"} : doSetRule(r, st)
  <2>1. Tick /\ rules' = rules /\ Quiet
    BY <1>5, Zenon DEF doSetRule
  <2> QED
    BY <2>1, QuietKeeps
<1>6. CASE Restart
  BY <1>6, RestartEdge
<1> QED
  BY <1>6, <1>5, <1>4, <1>3, <1>2, <1>1 DEF Next

(* FiresOnEdge: Rule::match fires a rule without events and without cycle  *)
(* when the programme and its conditions begin to hold and not while they  *)
(* hold, whatever the constructor left in cycleactive and fcondition.      *)
THEOREM RulesFireOnEdge == Spec => FiresOnEdge
<1>1. Init => RulesInv
  <2> SUFFICES ASSUME Init PROVE RulesInv
    OBVIOUS
  <2>1. conf \in Configurations /\ now = 0
    BY DEF Init
  <2>2. now \in Nat
    BY <2>1
  <2>3. PICK g : rules = [r \in Rules |-> NewRule("ON", g[r][1], g[r][2])]
    BY Zenon DEF Init
  <2>4. ASSUME NEW r \in Rules
        PROVE  IsRule(rules[r], now) /\ Edge(rules[r], was[r], RuleConf[r])
    <3>1. rules[r] = NewRule("ON", g[r][1], g[r][2])
      BY <2>3, Zenon
    <3>2. was[r] = [all |-> FALSE, listed |-> TRUE]
      BY Zenon DEF Init
    <3>3. /\ IsRule(NewRule("ON", g[r][1], g[r][2]), now)
          /\ Edge(NewRule("ON", g[r][1], g[r][2]), [all |-> FALSE, listed |-> TRUE], RuleConf[r])
      BY <2>2, NewRuleGood
    <3> QED
      BY <3>1, <3>2, <3>3, Zenon
  <2> QED
    BY <2>1, <2>2, <2>4, Zenon DEF RulesInv
<1>2. RulesInv /\ [Next]_vars => RulesInv'
  <2>1. CASE UNCHANGED vars
    BY <2>1, Zenon DEF vars, RulesInv, Rules, RuleConf
  <2> QED
    BY <2>1, RulesStep
<1>3. RulesInv /\ [Next]_vars => [EdgeStep]_vars
  BY RulesStep
<1>4. [][EdgeStep]_vars => FiresOnEdge
  BY PTL DEF EdgeStep, FiresOnEdge
<1> QED
  BY <1>1, <1>2, <1>3, <1>4, PTL DEF Spec
=============================================================================
