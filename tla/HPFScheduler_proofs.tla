------------------------- MODULE HPFScheduler_proofs -------------------------
(***************************************************************************)
(* Proofs about HPFScheduler, for any processes, priorities and inputs.    *)
(* First what enqueue_priority does to a queue; then the inductive         *)
(* invariants: Shape (types), Places (where each process is and what its   *)
(* PCB and child say of it), Ordered (in what order processes wait) and    *)
(* Carried (how much work each has left, and where that is recorded).      *)
(* Then time: Timely (the pace of the loop: when the clock can pass, and   *)
(* what the scheduler and the child did at the tick), Announced and Spaced *)
(* (who is known when the scheduler decides, and how long ago the last     *)
(* grant was), Charges and Budget (every tick of a process is used or      *)
(* waited, and every tick of the CPU is counted once).                     *)
(***************************************************************************)
EXTENDS HPFScheduler, SequenceFacts, FiniteSetTheorems

-----------------------------------------------------------------------------
(* enqueue_priority.                                                        *)

\* A queue in the order that the insertion aims at.
InOrderBy(q, priority, arrival) ==
    \A i, j \in DOMAIN q : i < j => Precedes(q[i], q[j], priority, arrival)

LEMMA PrecedesOrder ==
  ASSUME NEW priority \in [Procs -> Nat], NEW arrival \in [Procs -> Nat],
         NEW a \in Procs, NEW b \in Procs, NEW c \in Procs
  PROVE  /\ Precedes(a, b, priority, arrival) \/ Precedes(b, a, priority, arrival)
         /\ Precedes(a, b, priority, arrival) /\ Precedes(b, c, priority, arrival)
               => Precedes(a, c, priority, arrival)
<1>1. /\ priority[a] \in Nat /\ priority[b] \in Nat /\ priority[c] \in Nat
      /\ arrival[a] \in Nat /\ arrival[b] \in Nat /\ arrival[c] \in Nat
  OBVIOUS
<1>2. QED
  BY <1>1 DEF Precedes

\* A sequence with one element more, at index k.
LEMMA InsertFacts ==
  ASSUME NEW T, NEW q \in Seq(T), NEW k \in 1..(Len(q) + 1), NEW x \in T
  PROVE  /\ InsertAt(q, k, x) \in Seq(T)
         /\ Len(InsertAt(q, k, x)) = Len(q) + 1
         /\ \A i \in 1..(k - 1) : InsertAt(q, k, x)[i] = q[i]
         /\ InsertAt(q, k, x)[k] = x
         /\ \A i \in (k + 1)..(Len(q) + 1) : InsertAt(q, k, x)[i] = q[i - 1]
<1> DEFINE a == SubSeq(q, 1, k - 1)
           b == SubSeq(q, k, Len(q))
           c == a \o <<x>>
           r == InsertAt(q, k, x)
<1>1. Len(q) \in Nat /\ k \in Nat /\ k >= 1 /\ k <= Len(q) + 1
  OBVIOUS
<1>2. a \in Seq(T) /\ Len(a) = k - 1 /\ \A i \in 1..(k - 1) : a[i] = q[i]
  BY <1>1
<1>3. b \in Seq(T) /\ Len(b) = Len(q) - k + 1 /\ \A i \in 1..(Len(q) - k + 1) : b[i] = q[k + i - 1]
  BY <1>1
<1>4. r = c \o b
  BY Zenon DEF InsertAt
<1> HIDE DEF a, b, r
<1>5. c \in Seq(T) /\ Len(c) = k /\ c[k] = x /\ \A i \in 1..(k - 1) : c[i] = a[i]
  BY <1>1, <1>2
<1> HIDE DEF c
<1>6. r \in Seq(T) /\ Len(r) = Len(q) + 1
  <2>1. b \in Seq(T) /\ c \in Seq(T)
    BY <1>3, <1>5
  <2>2. c \o b \in Seq(T) /\ Len(c \o b) = Len(c) + Len(b)
    BY <2>1
  <2>3. Len(c) + Len(b) = Len(q) + 1
    BY <1>1, <1>3, <1>5
  <2>4. QED
    BY <1>4, <2>2, <2>3
<1>7. \A i \in 1..k : r[i] = c[i]
  <2>1. b \in Seq(T) /\ c \in Seq(T)
    BY <1>3, <1>5
  <2>2. \A i \in 1..Len(c) : (c \o b)[i] = c[i]
    BY <2>1
  <2>3. QED
    BY <1>4, <1>5, <2>2
<1>8. ASSUME NEW i \in (k + 1)..(Len(q) + 1) PROVE r[i] = q[i - 1]
  <2>1. i \in 1..(Len(c) + Len(b)) /\ i > Len(c)
    BY <1>1, <1>3, <1>5
  <2>2. (c \o b)[i] = b[i - Len(c)]
    BY <1>3, <1>5, <2>1
  <2>3. i - k \in 1..(Len(q) - k + 1) /\ k + (i - k) - 1 = i - 1
    BY <1>1
  <2>4. b[i - k] = q[k + (i - k) - 1]
    BY <1>3, <2>3
  <2>5. QED
    BY <1>4, <1>5, <2>2, <2>3, <2>4
<1>9. r[k] = x /\ \A i \in 1..(k - 1) : r[i] = q[i]
  BY <1>1, <1>2, <1>5, <1>7
<1>10. QED
  BY <1>6, <1>8, <1>9 DEF r

\* Nothing is lost and nothing doubled by it.
LEMMA InsertSet ==
  ASSUME NEW T, NEW q \in Seq(T), NEW k \in 1..(Len(q) + 1), NEW x \in T
  PROVE  /\ ToSet(InsertAt(q, k, x)) = ToSet(q) \cup {x}
         /\ IsInjective(q) /\ x \notin ToSet(q) => IsInjective(InsertAt(q, k, x))
<1> DEFINE r == InsertAt(q, k, x)
           old(i) == IF i < k THEN i ELSE i - 1
<1>0. Len(q) \in Nat /\ k \in Nat /\ k >= 1 /\ k <= Len(q) + 1
  OBVIOUS
<1>1. DOMAIN q = 1..Len(q)
  OBVIOUS
<1>2. /\ r \in Seq(T) /\ Len(r) = Len(q) + 1
      /\ \A i \in 1..(k - 1) : r[i] = q[i]
      /\ r[k] = x
      /\ \A i \in (k + 1)..(Len(q) + 1) : r[i] = q[i - 1]
  BY InsertFacts
<1> HIDE DEF r
<1>3. DOMAIN r = 1..(Len(q) + 1)
  BY <1>2
\* Every index of r is k, or stands for an index of q.
<1>4. ASSUME NEW i \in DOMAIN r, i # k PROVE old(i) \in DOMAIN q /\ r[i] = q[old(i)]
  <2>1. CASE i < k
    <3>1. i \in 1..(k - 1) /\ i \in 1..Len(q)
      BY <1>0, <1>3, <2>1
    <3>2. QED
      BY <1>1, <1>2, <2>1, <3>1
  <2>2. CASE ~(i < k)
    <3>1. i \in (k + 1)..(Len(q) + 1) /\ i - 1 \in 1..Len(q)
      BY <1>0, <1>3, <1>4, <2>2
    <3>2. QED
      BY <1>1, <1>2, <2>2, <3>1
  <2>3. QED
    BY <2>1, <2>2
<1>5. ASSUME NEW i \in DOMAIN q PROVE \E j \in DOMAIN r : r[j] = q[i]
  <2>1. CASE i < k
    <3>1. i \in 1..(k - 1) /\ i \in 1..(Len(q) + 1)
      BY <1>0, <1>1, <2>1
    <3>2. QED
      BY <1>2, <1>3, <3>1
  <2>2. CASE ~(i < k)
    <3>1. i + 1 \in (k + 1)..(Len(q) + 1) /\ (i + 1) - 1 = i /\ i + 1 \in 1..(Len(q) + 1)
      BY <1>0, <1>1, <2>2
    <3>2. r[i + 1] = q[i]
      BY <1>2, <3>1
    <3>3. QED
      BY <1>3, <3>1, <3>2
  <2>3. QED
    BY <2>1, <2>2
<1>6. k \in DOMAIN r
  BY <1>0, <1>3
<1>7. ASSUME NEW i \in DOMAIN r, NEW j \in DOMAIN r, i # k, j # k, old(i) = old(j)
      PROVE  i = j
  BY <1>0, <1>3, <1>7
<1> HIDE DEF old
<1>8. ToSet(r) = ToSet(q) \cup {x}
  <2>1. \A y : y \in ToSet(r) <=> \E i \in DOMAIN r : y = r[i]
    BY DEF ToSet
  <2>2. \A y : y \in ToSet(q) <=> \E i \in DOMAIN q : y = q[i]
    BY DEF ToSet
  <2>3. ASSUME NEW y \in ToSet(r) PROVE y \in ToSet(q) \cup {x}
    <3>1. PICK i \in DOMAIN r : y = r[i]
      BY <2>1
    <3>2. QED
      BY <1>2, <1>4, <2>2, <3>1
  <2>4. ASSUME NEW y \in ToSet(q) PROVE y \in ToSet(r)
    BY <1>5, <2>1, <2>2
  <2>5. x \in ToSet(r)
    BY <1>2, <1>6, <2>1
  <2>6. QED
    BY <2>3, <2>4, <2>5
<1>9. ASSUME IsInjective(q), x \notin ToSet(q) PROVE IsInjective(r)
  <2>1. SUFFICES ASSUME NEW i \in DOMAIN r, NEW j \in DOMAIN r, r[i] = r[j] PROVE i = j
    BY DEF IsInjective
  <2>2. \A l \in DOMAIN q : q[l] # x
    BY <1>9 DEF ToSet
  <2>3. i = k <=> j = k
    BY <1>2, <1>4, <2>1, <2>2
  <2>4. CASE i # k /\ j # k
    <3>1. old(i) \in DOMAIN q /\ old(j) \in DOMAIN q /\ q[old(i)] = q[old(j)]
      BY <1>4, <2>1, <2>4
    <3>2. old(i) = old(j)
      BY <1>9, <3>1 DEF IsInjective
    <3>3. QED
      BY <1>7, <2>4, <3>2
  <2>5. QED
    BY <2>3, <2>4
<1>10. QED
  BY <1>8, <1>9 DEF r

\* Where enqueue_priority puts the process: at the front, or behind the last of
\* those that go before it.
LEMMA EnqueuePlace ==
  ASSUME NEW q \in Seq(Procs), NEW p \in Procs, NEW priority, NEW arrival
  PROVE  \E k \in 1..(Len(q) + 1) :
            /\ EnqueuePriority(q, p, priority, arrival) = InsertAt(q, k, p)
            /\ k = 1 <=> GoesToFront(q, p, priority)
            /\ k = 1 \/ k = Len(q) + 1 \/ ~Precedes(q[k], p, priority, arrival)
            /\ \A j \in 2..(k - 1) : Precedes(q[j], p, priority, arrival)
<1> DEFINE Before(i) == Precedes(q[i], p, priority, arrival)
           End(i) == i = Len(q) \/ ~Before(i + 1)
<1>1. Len(q) \in Nat
  OBVIOUS
<1>2. CASE GoesToFront(q, p, priority)
  <2>1. EnqueuePriority(q, p, priority, arrival) = <<p>> \o q
    BY <1>2 DEF EnqueuePriority
  <2>2. SubSeq(q, 1, 0) = <<>> /\ SubSeq(q, 1, Len(q)) = q
    BY <1>1
  <2>3. InsertAt(q, 1, p) = SubSeq(q, 1, 1 - 1) \o <<p>> \o SubSeq(q, 1, Len(q))
    BY Zenon DEF InsertAt
  <2>4. InsertAt(q, 1, p) = <<>> \o <<p>> \o q
    BY <2>2, <2>3
  <2>5. <<>> \o <<p>> \o q = <<p>> \o q
    OBVIOUS
  <2>6. EnqueuePriority(q, p, priority, arrival) = InsertAt(q, 1, p)
    BY <2>1, <2>4, <2>5
  <2>7. 1 \in 1..(Len(q) + 1) /\ 2..(1 - 1) = {}
    BY <1>1
  <2>8. QED
    BY <1>2, <2>6, <2>7
<1>3. CASE ~GoesToFront(q, p, priority)
  <2> DEFINE E == {i \in 1..Len(q) : End(i)}
             Place(i) == /\ i = Len(q) \/ ~Precedes(q[i + 1], p, priority, arrival)
                         /\ \A j \in 2..i : Precedes(q[j], p, priority, arrival)
             n == CHOOSE i \in 1..Len(q) : Place(i)
  <2>1. Len(q) >= 1
    BY <1>1, <1>3 DEF GoesToFront
  <2>2. E \in SUBSET Nat /\ Len(q) \in E
    BY <1>1, <2>1
  <2>3. PICK m \in E : \A i \in E : m <= i
    <3> HIDE DEF E
    <3>1. QED
      BY <2>2, LeastExists
  <2>4. m \in 1..Len(q) /\ End(m)
    BY <2>3
  <2>5. \A j \in 2..m : Before(j)
    <3>1. SUFFICES ASSUME NEW j \in 2..m, ~Before(j) PROVE FALSE
      OBVIOUS
    <3>2. j - 1 \in 1..Len(q) /\ (j - 1) + 1 = j /\ ~(m <= j - 1)
      <4>1. m \in 1..Len(q)
        BY <2>4
      <4> HIDE DEF Before, End, E
      <4>2. QED
        BY <1>1, <4>1
    <3>3. End(j - 1)
      <4> HIDE DEF Before
      <4>1. QED
        BY <3>1, <3>2
    <3>4. j - 1 \in E
      <4> HIDE DEF End
      <4>1. QED
        BY <3>2, <3>3
    <3> HIDE DEF E
    <3>5. QED
      BY <2>3, <3>2, <3>4
  <2>6. Place(m)
    BY <2>4, <2>5, Zenon
  <2>7. n \in 1..Len(q) /\ Place(n)
    <3> HIDE DEF Place
    <3>1. m \in 1..Len(q)
      BY <2>4
    <3>2. QED
      BY <2>6, <3>1, Zenon
  <2>8. EnqueuePriority(q, p, priority, arrival) = InsertAt(q, n + 1, p)
    BY <1>3, Zenon DEF EnqueuePriority
  <2> HIDE DEF n
  <2> DEFINE k == n + 1
  <2>9. k \in 1..(Len(q) + 1) /\ k # 1 /\ k - 1 = n /\ (n = Len(q) => k = Len(q) + 1)
    BY <1>1, <2>7
  <2>10. (k = Len(q) + 1 \/ ~Precedes(q[k], p, priority, arrival))
    BY <2>7, <2>9
  <2>11. EnqueuePriority(q, p, priority, arrival) = InsertAt(q, k, p)
    BY <2>8
  <2>12. \A j \in 2..(k - 1) : Precedes(q[j], p, priority, arrival)
    BY <2>7, <2>9
  <2> HIDE DEF k
  <2>13. QED
    BY <1>3, <2>9, <2>10, <2>11, <2>12
<1>4. QED
  BY <1>2, <1>3

LEMMA EnqueueSet ==
  ASSUME NEW q \in Seq(Procs), NEW p \in Procs, NEW priority, NEW arrival
  PROVE  LET r == EnqueuePriority(q, p, priority, arrival)
         IN  /\ r \in Seq(Procs) /\ ToSet(r) = ToSet(q) \cup {p}
             /\ IsInjective(q) /\ p \notin ToSet(q) => IsInjective(r)
<1>1. PICK k \in 1..(Len(q) + 1) :
        EnqueuePriority(q, p, priority, arrival) = InsertAt(q, k, p)
  BY EnqueuePlace
<1>2. InsertAt(q, k, p) \in Seq(Procs)
  BY InsertFacts
<1>3. QED
  BY <1>1, <1>2, InsertSet

\* The places before an insertion point are places of the queue.
LEMMA PlacesBefore ==
  ASSUME NEW n \in Nat, NEW k \in 1..(n + 1), NEW i \in 1..(k - 1)
  PROVE  i \in 1..n
OBVIOUS

\* A queue in order stays in order if a process of the priority of the front did
\* not arrive before it: the front is compared by priority alone.
LEMMA EnqueueOrder ==
  ASSUME NEW q \in Seq(Procs), NEW p \in Procs,
         NEW priority \in [Procs -> Nat], NEW arrival \in [Procs -> Nat]
  PROVE  /\ InOrderBy(q, priority, arrival)
         /\ q # <<>> /\ priority[p] = priority[Head(q)] => arrival[Head(q)] <= arrival[p]
         => InOrderBy(EnqueuePriority(q, p, priority, arrival), priority, arrival)
<1> DEFINE Before(a, b) == Precedes(a, b, priority, arrival)
           r == EnqueuePriority(q, p, priority, arrival)
<1>0. Len(q) \in Nat
  OBVIOUS
<1>1. DOMAIN q = 1..Len(q) /\ \A i \in 1..Len(q) : q[i] \in Procs
  OBVIOUS
<1>2. PICK k \in 1..(Len(q) + 1) :
            /\ r = InsertAt(q, k, p)
            /\ k = 1 <=> GoesToFront(q, p, priority)
            /\ k = 1 \/ k = Len(q) + 1 \/ ~Before(q[k], p)
            /\ \A j \in 2..(k - 1) : Before(q[j], p)
  BY EnqueuePlace
<1> HIDE DEF r
<1>3. /\ r \in Seq(Procs) /\ Len(r) = Len(q) + 1
      /\ \A i \in 1..(k - 1) : r[i] = q[i]
      /\ r[k] = p
      /\ \A i \in (k + 1)..(Len(q) + 1) : r[i] = q[i - 1]
  <2>1. /\ InsertAt(q, k, p) \in Seq(Procs)
        /\ Len(InsertAt(q, k, p)) = Len(q) + 1
        /\ \A i \in 1..(k - 1) : InsertAt(q, k, p)[i] = q[i]
        /\ InsertAt(q, k, p)[k] = p
        /\ \A i \in (k + 1)..(Len(q) + 1) : InsertAt(q, k, p)[i] = q[i - 1]
    BY InsertFacts
  <2>2. r = InsertAt(q, k, p)
    BY <1>2
  <2>3. QED
    BY <2>1, <2>2, Zenon
<1>4. DOMAIN r = 1..(Len(q) + 1)
  BY <1>3
<1> SUFFICES ASSUME InOrderBy(q, priority, arrival),
                    q # <<>> /\ priority[p] = priority[Head(q)] => arrival[Head(q)] <= arrival[p]
             PROVE  InOrderBy(r, priority, arrival)
  BY DEF r
<1>5. \A a, b, c \in Procs : /\ Before(a, b) \/ Before(b, a)
                             /\ Before(a, b) /\ Before(b, c) => Before(a, c)
  BY PrecedesOrder
<1>6. \A i, j \in DOMAIN q : i < j => Before(q[i], q[j])
  BY DEF InOrderBy
<1>7. q # <<>> => /\ GoesToFront(q, p, priority) => Before(p, q[1])
                  /\ ~GoesToFront(q, p, priority) => Before(q[1], p)
  <2>1. SUFFICES ASSUME q # <<>>
                 PROVE  /\ GoesToFront(q, p, priority) => Before(p, q[1])
                        /\ ~GoesToFront(q, p, priority) => Before(q[1], p)
    OBVIOUS
  <2>2. Head(q) = q[1] /\ q[1] \in Procs
    BY <2>1
  <2>3. /\ priority[p] \in Nat /\ priority[q[1]] \in Nat
        /\ arrival[p] \in Nat /\ arrival[q[1]] \in Nat
    BY <2>2
  <2>4. QED
    BY <2>1, <2>2, <2>3 DEF GoesToFront, Precedes
<1> HIDE DEF Before
<1>8. ASSUME NEW i \in 1..(k - 1) PROVE Before(q[i], p)
  <2>1. k # 1 /\ Len(q) # 0
    BY <1>0
  <2>2. q # <<>>
    BY <2>1
  <2>3. CASE i = 1
    BY <1>2, <1>7, <2>1, <2>2, <2>3
  <2>4. CASE i # 1
    <3>1. i \in 2..(k - 1)
      BY <1>0, <2>4
    <3>2. QED
      BY <1>2, <3>1
  <2>5. QED
    BY <2>3, <2>4
<1>9. ASSUME NEW i \in k..Len(q) PROVE Before(p, q[i])
  <2>1. i \in 1..Len(q) /\ k \in 1..Len(q) /\ k # Len(q) + 1 /\ Len(q) # 0
    BY <1>0
  <2>2. q[i] \in Procs /\ q[k] \in Procs /\ q # <<>>
    BY <1>1, <2>1
  <2>3. Before(p, q[k])
    <3>1. CASE k = 1
      BY <1>2, <1>7, <2>2, <3>1
    <3>2. CASE k # 1
      <4>1. ~Before(q[k], p)
        BY <1>2, <2>1, <3>2
      <4>2. QED
        BY <1>5, <2>2, <4>1
    <3>3. QED
      BY <3>1, <3>2
  <2>4. CASE i = k
    BY <2>3, <2>4
  <2>5. CASE i # k
    <3>1. k < i
      BY <1>0, <2>5
    <3>2. Before(q[k], q[i])
      BY <1>1, <1>6, <2>1, <3>1
    <3>3. QED
      BY <1>5, <2>2, <2>3, <3>2
  <2>6. QED
    BY <2>4, <2>5
<1>10. ASSUME NEW i \in DOMAIN r, NEW j \in DOMAIN r, i < j PROVE Before(r[i], r[j])
  <2>1. /\ i \in 1..(Len(q) + 1) /\ j \in 1..(Len(q) + 1)
        /\ i \in Int /\ j \in Int /\ k \in Int
    BY <1>0, <1>4
  <2>2. CASE i < k /\ j < k
    <3>0. i \in 1..(k - 1) /\ j \in 1..(k - 1)
      BY <2>1, <2>2
    <3>1. i \in 1..(k - 1) /\ j \in 1..(k - 1) /\ i \in 1..Len(q) /\ j \in 1..Len(q)
      BY <1>0, <3>0, PlacesBefore, Zenon
    <3>2. r[i] = q[i] /\ r[j] = q[j]
      BY <1>3, <3>1
    <3>3. QED
      BY <1>1, <1>6, <1>10, <3>1, <3>2
  <2>3. CASE i < k /\ j = k
    <3>1. i \in 1..(k - 1)
      BY <1>0, <2>1, <2>3
    <3>2. QED
      BY <1>3, <1>8, <2>3, <3>1
  <2>4. CASE i < k /\ j > k
    <3>1. i \in 1..(k - 1) /\ j \in (k + 1)..(Len(q) + 1)
      BY <1>0, <2>1, <2>4
    <3>2. i \in 1..Len(q) /\ j - 1 \in 1..Len(q) /\ i < j - 1
      <4>1. i >= 1 /\ i <= k - 1 /\ j >= k + 1 /\ j <= Len(q) + 1
        BY <1>0, <3>1
      <4>2. i \in 1..Len(q)
        <5>1. k <= Len(q)
          BY <1>0, <2>1, <4>1
        <5>2. i <= Len(q)
          BY <1>0, <2>1, <4>1, <5>1
        <5>3. QED
          BY <1>0, <2>1, <4>1, <5>2
      <4>3. j - 1 \in 1..Len(q)
        <5>1. k >= 1 /\ j - 1 >= 1
          BY <1>0, <2>1, <4>1
        <5>2. j - 1 <= Len(q)
          BY <1>0, <2>1, <4>1
        <5>3. QED
          BY <1>0, <2>1, <5>1, <5>2
      <4>4. i < j - 1
        BY <2>1, <4>1
      <4>5. QED
        BY <4>2, <4>3, <4>4
    <3>3. r[i] = q[i] /\ r[j] = q[j - 1]
      BY <1>3, <3>1
    <3>4. QED
      BY <1>1, <1>6, <3>2, <3>3
  <2>5. CASE i = k
    <3>1. j \in (k + 1)..(Len(q) + 1) /\ j - 1 \in k..Len(q)
      BY <1>0, <1>10, <2>1, <2>5
    <3>2. r[i] = p /\ r[j] = q[j - 1]
      BY <1>3, <2>5, <3>1
    <3>3. QED
      BY <1>9, <3>1, <3>2
  <2>6. CASE i > k
    <3>1. i \in (k + 1)..(Len(q) + 1) /\ j \in (k + 1)..(Len(q) + 1)
      BY <1>0, <1>10, <2>1, <2>6
    <3>2. i - 1 \in 1..Len(q) /\ j - 1 \in 1..Len(q) /\ i - 1 < j - 1
      <4>1. i >= k + 1 /\ i <= Len(q) + 1 /\ j >= k + 1 /\ j <= Len(q) + 1 /\ k >= 1
        BY <1>0, <3>1
      <4>2. i - 1 \in 1..Len(q)
        BY <1>0, <2>1, <4>1
      <4>3. j - 1 \in 1..Len(q)
        BY <1>0, <2>1, <4>1
      <4>4. i - 1 < j - 1
        BY <1>10, <2>1
      <4>5. QED
        BY <4>2, <4>3, <4>4
    <3>3. r[i] = q[i - 1] /\ r[j] = q[j - 1]
      BY <1>3, <3>1
    <3>4. QED
      BY <1>1, <1>6, <3>2, <3>3
  <2>7. QED
    BY <1>10, <2>1, <2>2, <2>3, <2>4, <2>5, <2>6
<1>11. QED
  BY <1>10 DEF InOrderBy, r, Before

-----------------------------------------------------------------------------
(* Types, and the place of each process.                                    *)

ChildRec == [pc: {"none", "boot", "down", "count", "signal", "dead"}, stopped: BOOLEAN,
             remainingtime: Nat]

Current == IF currProcess = NoOne THEN {} ELSE {currProcess}

Unsent == ToSet(g_queue)

Sent == ToSet(msgq.arrived)

Ready == ToSet(readyQueue)

Located == Unsent \cup Sent \cup Ready \cup Current

\* A child that has work left in its loop has at least one tick of it, and a
\* process that was never forked has all of its work left.
Shape ==
    /\ HPFTypeOK
    /\ \A p \in Procs :
          /\ child[p].pc \in {"boot", "down", "count"} => child[p].remainingtime >= 1
          /\ ~pcb[p].forked => pcb[p].remaining_time = workload.runtime[p]
    /\ pc = "waitpid" => currProcess # NoOne

\* Where a process is, and what its PCB and its child say of it.
Place(p) ==
    /\ p \in Unsent => p \notin Sent
    /\ p \in Unsent \cup Sent => p \notin Ready /\ ~pcb[p].forked /\ pcb[p].state = "W"
    /\ p \in Ready => p # currProcess /\ pcb[p].state = "W"
    /\ p = currProcess => pcb[p].forked /\ pcb[p].state = "R"
    /\ p # currProcess => child[p].pc \in {"none", "dead"} \/ child[p].stopped
    /\ pcb[p].forked <=> child[p].pc # "none"
    /\ pcb[p].state = "F" => pcb[p].forked
    /\ p \in ToSet(workload.order) <=> p \in Located \/ pcb[p].state = "F"

Places ==
    /\ IsInjective(g_queue) /\ IsInjective(msgq.arrived) /\ IsInjective(readyQueue)
    /\ \A p \in Procs : Place(p)

-----------------------------------------------------------------------------

LEMMA WorkloadType ==
  ASSUME workload \in Workloads
  PROVE  /\ workload.order \in Seq(Procs) /\ IsInjective(workload.order)
         /\ workload.arrival \in [Procs -> Nat]
         /\ workload.runtime \in [Procs -> Nat \ {0}]
         /\ workload.priority \in [Procs -> Nat]
BY HPFAssumption

LEMMA ClkType == ASSUME HPFTypeOK PROVE clk \in Nat /\ clk + 1 \in Int
<1>1. clk \in 0..MaxClk /\ MaxClk \in Nat
  BY HPFAssumption DEF HPFTypeOK
<1>2. QED
  BY <1>1

LEMMA PCBType ==
  ASSUME HPFTypeOK, NEW p \in Procs
  PROVE  /\ workload.arrival[p] \in Nat /\ workload.runtime[p] \in Nat \ {0}
         /\ pcb[p] \in PCBRec
         /\ pcb[p].waiting_time \in Int /\ pcb[p].last_stopped \in Int
         /\ pcb[p].remaining_time \in Nat /\ pcb[p].forked \in BOOLEAN
<1>1. workload \in Workloads /\ pcb \in [Procs -> PCBRec]
  BY DEF HPFTypeOK
<1>2. workload.arrival[p] \in Nat /\ workload.runtime[p] \in Nat \ {0}
  BY <1>1, WorkloadType
<1>3. pcb[p] \in PCBRec
  BY <1>1
<1>4. QED
  BY <1>2, <1>3 DEF PCBRec

LEMMA NewPCBType ==
  ASSUME workload \in Workloads, NEW p \in Procs
  PROVE  NewPCB(p) \in PCBRec
<1>1. workload.runtime[p] \in Nat
  BY WorkloadType
<1>2. QED
  BY <1>1 DEF NewPCB, PCBRec

LEMMA SetsKnown ==
  ASSUME HPFTypeOK
  PROVE  /\ g_queue \in Seq(Procs) /\ msgq.arrived \in Seq(Procs) /\ readyQueue \in Seq(Procs)
         /\ Unsent \subseteq Procs /\ Sent \subseteq Procs /\ Ready \subseteq Procs
         /\ Current \subseteq Procs /\ ToSet(workload.order) \subseteq Procs
<1>1. /\ g_queue \in Seq(Procs) /\ msgq.arrived \in Seq(Procs) /\ readyQueue \in Seq(Procs)
      /\ currProcess \in Procs \cup {NoOne} /\ workload.order \in Seq(Procs)
  BY WorkloadType DEF HPFTypeOK
<1>2. \A q \in Seq(Procs) : ToSet(q) \subseteq Procs
  BY DEF ToSet
<1>3. QED
  BY <1>1, <1>2 DEF Unsent, Sent, Ready, Current

\* A step that changes none of this.
LEMMA StillPlaces ==
  ASSUME Places, UNCHANGED <<g_queue, readyQueue, currProcess, child, workload>>,
         msgq'.arrived = msgq.arrived,
         \A p \in Procs : pcb'[p].state = pcb[p].state /\ pcb'[p].forked = pcb[p].forked
  PROVE  Places'
<1>1. Unsent' = Unsent /\ Sent' = Sent /\ Ready' = Ready /\ Current' = Current
  BY DEF Unsent, Sent, Ready, Current
<1>2. QED
  BY <1>1 DEF Places, Place, Located

LEMMA InitShape ==
  ASSUME HPFInit PROVE Shape /\ Places
<1>1. workload \in Workloads /\ g_queue = workload.order
  BY DEF HPFInit, GenInit
<1>2. workload.order \in Seq(Procs) /\ IsInjective(workload.order)
  BY <1>1, WorkloadType
<1>3. pcb \in [Procs -> PCBRec]
  BY <1>1, NewPCBType DEF HPFInit
<1>4. child \in [Procs -> ChildRec]
  BY DEF HPFInit, NoChild, ChildRec
<1>5. /\ g_pc \in {"poll", "send", "waitpid", "exited"}
      /\ g_queue \in Seq(Procs) /\ g_now \in Int /\ lastTime \in Int
      /\ msgq \in [arrived: Seq(Procs), sync: Seq(Int), end: BOOLEAN]
  BY <1>1, <1>2 DEF HPFInit, GenInit, NoMessage
<1>6. perf \in [num_procs: Nat, first_arrival: Int, total_runtime: Nat, finish_time: Int,
                waiting: Int]
  BY DEF HPFInit
<1>7. lastGrant \in [to: Procs \cup {NoOne}, at: Int]
  BY DEF HPFInit
<1>8. /\ sem \in 0..1 /\ shmRT \in Nat /\ readyQueue \in Seq(Procs)
      /\ now \in Int /\ last_tick \in Int /\ wait_until \in Int
      /\ context_switch_until \in Int
      /\ currProcess \in Procs \cup {NoOne} /\ pc = "spin"
  BY DEF HPFInit
<1>9. processFinishedSignal \in BOOLEAN /\ receivingProcesses \in BOOLEAN
  BY Zenon DEF HPFInit
<1>10. clk \in 0..MaxClk
  BY HPFAssumption DEF HPFInit
<1>11. HPFTypeOK
  BY <1>1, <1>3, <1>4, <1>5, <1>6, <1>7, <1>8, <1>9, <1>10 DEF HPFTypeOK, ChildRec
<1>12. Shape
  BY <1>8, <1>11 DEF HPFInit, Shape, NewPCB, NoChild
<1>13. Unsent = ToSet(workload.order) /\ Sent = {} /\ Ready = {} /\ Current = {}
  <2>1. ToSet(<<>>) = {}
    BY DEF ToSet
  <2>2. msgq.arrived = <<>> /\ readyQueue = <<>> /\ currProcess = NoOne
    BY DEF HPFInit, GenInit, NoMessage
  <2>3. QED
    BY <1>1, <2>1, <2>2 DEF Unsent, Sent, Ready, Current
<1>14. \A p \in Procs : Place(p)
  <2>1. \A p \in Procs : /\ p # currProcess
                         /\ pcb[p].state = "W" /\ pcb[p].forked = FALSE
                         /\ child[p].pc = "none"
    BY HPFAssumption DEF HPFInit, NewPCB, NoChild
  <2>2. QED
    BY <1>13, <2>1 DEF Place, Located
<1>15. IsInjective(g_queue) /\ IsInjective(msgq.arrived) /\ IsInjective(readyQueue)
  <2>1. IsInjective(<<>>)
    BY DEF IsInjective
  <2>2. QED
    BY <1>1, <1>2, <2>1 DEF HPFInit, GenInit, NoMessage
<1>16. QED
  BY <1>12, <1>14, <1>15 DEF Places

LEMMA GeneratorStep ==
  ASSUME Shape, Places, Generator PROVE Shape' /\ Places'
<1>1. HPFTypeOK /\ clk \in Int
  BY ClkType DEF Shape
<1>2. UNCHANGED <<clk, workload, child, shmRT, processFinishedSignal, sem, pc, readyQueue,
                  currProcess, pcb, now, last_tick, wait_until, context_switch_until,
                  receivingProcesses, perf, lastGrant>>
  BY DEF Generator, childvars, schedvars, queuevars, loopvars
<1>3. CASE GenSend
  <2> DEFINE p == Head(g_queue)
  <2>1. /\ g_queue \in Seq(Procs) /\ g_queue # <<>>
        /\ msgq \in [arrived: Seq(Procs), sync: Seq(Int), end: BOOLEAN]
        /\ UNCHANGED <<g_pc, g_now, lastTime>>
    BY <1>1, <1>3 DEF HPFTypeOK, GenSend, Arrived
  <2>2. /\ p \in Procs /\ Tail(g_queue) \in Seq(Procs)
        /\ ToSet(g_queue) = {p} \cup ToSet(Tail(g_queue))
        /\ p \notin ToSet(Tail(g_queue)) /\ IsInjective(Tail(g_queue))
    BY <2>1, TailFacts DEF Places
  <2> HIDE DEF p
  <2>3. p \in Unsent /\ p \notin Sent
    BY <2>2 DEF Unsent, Places, Place
  <2>4. /\ Append(msgq.arrived, p) \in Seq(Procs)
        /\ ToSet(Append(msgq.arrived, p)) = ToSet(msgq.arrived) \cup {p}
        /\ IsInjective(Append(msgq.arrived, p))
    BY <2>1, <2>2, <2>3, AppendFacts DEF Places, Sent
  <2>5. g_queue' = Tail(g_queue) /\ msgq' = [msgq EXCEPT !.arrived = Append(@, p)]
    BY <1>3 DEF GenSend, p
  <2>6. msgq'.arrived = Append(msgq.arrived, p)
    BY <2>1, <2>5
  <2>7. HPFTypeOK'
    BY <1>1, <1>2, <2>1, <2>2, <2>4, <2>5 DEF HPFTypeOK
  <2>8. Unsent' = Unsent \ {p} /\ Sent' = Sent \cup {p} /\ Ready' = Ready /\ Current' = Current
    BY <1>2, <2>2, <2>4, <2>5, <2>6 DEF Unsent, Sent, Ready, Current
  <2>9. \A q \in Procs : Place(q)'
    BY <1>2, <2>3, <2>8 DEF Places, Place, Located
  <2>10. QED
    BY <1>2, <2>2, <2>4, <2>5, <2>6, <2>7, <2>9 DEF Shape, Places
<1>4. CASE GenPoll \/ GenSync \/ GenEnd \/ GenShutdown(pc = "exited")
  <2>1. g_queue' = g_queue /\ msgq'.arrived = msgq.arrived
    BY <1>1, <1>4 DEF GenPoll, GenSync, GenEnd, GenShutdown, HPFTypeOK
  <2>2. /\ g_pc' \in {"poll", "send", "waitpid", "exited"}
        /\ g_now' \in Int /\ lastTime' \in Int
        /\ msgq' \in [arrived: Seq(Procs), sync: Seq(Int), end: BOOLEAN]
    <3>1. CASE GenSync
      <4>1. Append(msgq.sync, g_now) \in Seq(Int)
        BY <1>1, AppendFacts DEF HPFTypeOK
      <4>2. QED
        BY <1>1, <3>1, <4>1 DEF HPFTypeOK, GenSync
    <3>2. CASE GenPoll \/ GenEnd \/ GenShutdown(pc = "exited")
      BY <1>1, <3>2 DEF HPFTypeOK, GenPoll, GenEnd, GenShutdown
    <3>3. QED
      BY <1>4, <3>1, <3>2
  <2>3. HPFTypeOK'
    BY <1>1, <1>2, <2>1, <2>2 DEF HPFTypeOK
  <2>4. Shape'
    BY <1>2, <2>3 DEF Shape
  <2>5. QED
    BY <1>2, <2>1, <2>4, StillPlaces
<1>5. QED
  BY <1>3, <1>4 DEF Generator, GenStep

\* A child that takes a step is not stopped, so it is the current process.
LEMMA ChildStep ==
  ASSUME Shape, Places, NEW p \in Procs, Child(p) PROVE Shape' /\ Places'
<1>1. /\ HPFTypeOK /\ child \in [Procs -> ChildRec] /\ child[p] \in ChildRec
      /\ sem \in 0..1 /\ shmRT \in Nat /\ processFinishedSignal \in BOOLEAN
      /\ \A q \in Procs : child[q].pc \in {"boot", "down", "count"} => child[q].remainingtime >= 1
  BY DEF Shape, HPFTypeOK, ChildRec
<1>2. /\ UNCHANGED <<clk, workload, g_pc, g_queue, g_now, lastTime, msgq, pc, readyQueue,
                     currProcess, pcb, now, last_tick, wait_until, context_switch_until,
                     receivingProcesses, perf, lastGrant>>
      /\ child[p].pc \notin {"none", "dead"} /\ ~child[p].stopped
  BY DEF Child, ChildBoot, ChildDown, ChildCount, ChildExit, Runs, genvars, schedvars, queuevars,
         loopvars
<1>3. /\ child' \in [Procs -> ChildRec]
      /\ sem' \in 0..1 /\ shmRT' \in Nat /\ processFinishedSignal' \in BOOLEAN
      /\ \A q \in Procs : child'[q].pc \in {"boot", "down", "count"} =>
                             child'[q].remainingtime >= 1
      /\ \A q \in Procs \ {p} : child'[q] = child[q]
      /\ child'[p].pc # "none"
  <2>1. CASE ChildBoot(p)
    <3>1. PICK l \in {"signal", "down"} : child' = [child EXCEPT ![p].pc = l]
      BY <2>1 DEF ChildBoot
    <3>2. child[p].pc = "boot" /\ UNCHANGED <<sem, shmRT, processFinishedSignal>>
      BY <2>1 DEF ChildBoot, Runs
    <3>3. QED
      BY <1>1, <3>1, <3>2 DEF ChildRec
  <2>2. CASE ChildDown(p)
    BY <1>1, <2>2 DEF ChildDown, Runs, ChildRec
  <2>3. CASE ChildCount(p)
    <3> DEFINE left == child[p].remainingtime - 1
    <3>1. left \in Nat
      <4>1. child[p].remainingtime \in Nat /\ child[p].remainingtime >= 1
        BY <1>1, <2>3 DEF ChildCount, Runs, ChildRec
      <4>2. QED
        BY <4>1
    <3>2. /\ child' = [child EXCEPT ![p].remainingtime = left,
                                    ![p].pc = IF left > 0 THEN "down" ELSE "signal"]
          /\ shmRT' = left /\ UNCHANGED <<sem, processFinishedSignal>>
      BY <2>3 DEF ChildCount, AfterTick
    <3> HIDE DEF left
    <3>3. sem' \in 0..1 /\ shmRT' \in Nat
      BY <1>1, <3>1, <3>2
    <3>4. processFinishedSignal' \in BOOLEAN
      BY <1>1, <3>2, Zenon
    <3>5. /\ child' \in [Procs -> ChildRec]
          /\ \A q \in Procs : child'[q].pc \in {"boot", "down", "count"} =>
                                 child'[q].remainingtime >= 1
          /\ \A q \in Procs \ {p} : child'[q] = child[q]
          /\ child'[p].pc # "none"
      <4> DEFINE l == IF left > 0 THEN "down" ELSE "signal"
                 c == [child[p] EXCEPT !.remainingtime = left, !.pc = l]
      <4>1. child' = [child EXCEPT ![p] = c]
        BY <1>1, <3>2 DEF ChildRec
      <4>2. l \in {"down", "signal"} /\ (l = "down" => left >= 1)
        BY <3>1
      <4> HIDE DEF l
      <4>3. c \in ChildRec /\ c.pc = l /\ c.remainingtime = left
        BY <1>1, <3>1, <4>2 DEF ChildRec
      <4> HIDE DEF c
      <4>4. QED
        BY <1>1, <4>1, <4>2, <4>3
    <3>6. QED
      BY <3>3, <3>4, <3>5
  <2>4. CASE ChildExit(p)
    BY <1>1, <2>4 DEF ChildExit, Runs, ChildRec
  <2>5. QED
    BY <2>1, <2>2, <2>3, <2>4 DEF Child
<1>4. HPFTypeOK'
  BY <1>1, <1>2, <1>3 DEF HPFTypeOK, ChildRec
<1>5. Shape'
  BY <1>2, <1>3, <1>4 DEF Shape
<1>6. p = currProcess
  BY <1>2 DEF Places, Place
<1>7. Unsent' = Unsent /\ Sent' = Sent /\ Ready' = Ready /\ Current' = Current
  BY <1>2 DEF Unsent, Sent, Ready, Current
<1>8. \A q \in Procs : Place(q)'
  BY <1>2, <1>3, <1>6, <1>7 DEF Places, Place, Located
<1>9. QED
  BY <1>2, <1>5, <1>8 DEF Places

\* Most steps of the scheduler leave the children, the PCBs and the queues alone.
LEMMA PlainStep ==
  ASSUME Shape, Places,
         \/ UNCHANGED hpfvars \/ Terminated \/ ClockTick
         \/ UNCHANGED <<clk, workload, genvars>>
            /\ (NewTick \/ Exit \/ FinishCheck \/ Gate \/ ReceiveSync \/ ReceiveEnd \/ WaitOver
                \/ AlgoNothing \/ Grant)
  PROVE  Shape' /\ Places'
<1>1. HPFTypeOK /\ clk \in Nat /\ clk + 1 \in Int
  BY ClkType DEF Shape
<1>2. /\ UNCHANGED <<workload, g_pc, g_queue, g_now, lastTime, child, shmRT, readyQueue, currProcess,
                     pcb, perf>>
      /\ clk' = clk \/ (clk' = clk + 1 /\ clk < MaxClk)
  BY DEF hpfvars, Terminated, ClockTick, NewTick, Exit, FinishCheck, Gate, ReceiveSync, ReceiveEnd,
         WaitOver, AlgoNothing, Grant, genvars, childvars, queuevars, schedvars
<1>3. clk' \in 0..MaxClk
  <2>1. MaxClk \in Nat
    BY HPFAssumption
  <2>2. clk \in 0..MaxClk
    BY <1>1 DEF HPFTypeOK
  <2>3. clk' = clk \/ (clk' = clk + 1 /\ clk < MaxClk)
    BY <1>2
  <2>4. QED
    BY <2>1, <2>2, <2>3
<1>4. /\ msgq' \in [arrived: Seq(Procs), sync: Seq(Int), end: BOOLEAN]
      /\ msgq'.arrived = msgq.arrived
  <2>1. msgq \in [arrived: Seq(Procs), sync: Seq(Int), end: BOOLEAN]
    BY <1>1 DEF HPFTypeOK
  <2>2. CASE ReceiveSync
    <3>1. Tail(msgq.sync) \in Seq(Int)
      BY <2>1, <2>2 DEF ReceiveSync
    <3>2. msgq' = [msgq EXCEPT !.sync = Tail(@)]
      BY <2>2 DEF ReceiveSync
    <3>3. QED
      BY <2>1, <3>1, <3>2
  <2>3. CASE ReceiveEnd
    BY <2>1, <2>3 DEF ReceiveEnd
  <2>4. CASE ~ReceiveSync /\ ~ReceiveEnd
    <3>1. msgq' = msgq
      BY <2>4 DEF hpfvars, Terminated, ClockTick, NewTick, Exit, FinishCheck, Gate,
             WaitOver, AlgoNothing, Grant
    <3>2. QED
      BY <2>1, <3>1
  <2>5. QED
    BY <2>2, <2>3, <2>4
<1>5. sem' \in 0..1 /\ lastGrant' \in [to: Procs \cup {NoOne}, at: Int]
  <2>1. sem \in 0..1 /\ lastGrant \in [to: Procs \cup {NoOne}, at: Int] /\ clk \in Int
        /\ currProcess \in Procs \cup {NoOne}
    BY <1>1 DEF HPFTypeOK
  <2>2. CASE UNCHANGED <<sem, lastGrant>>
    BY <2>1, <2>2
  <2>3. CASE sem' = 1 /\ lastGrant' = [to |-> currProcess, at |-> clk]
    BY <2>1, <2>3
  <2>4. QED
    BY <2>2, <2>3 DEF hpfvars, Terminated, ClockTick, NewTick, Exit, FinishCheck, Gate, ReceiveSync,
         ReceiveEnd, WaitOver, AlgoNothing, Grant, childvars
<1>6. now' \in Int /\ last_tick' \in Int /\ wait_until' \in Int /\ context_switch_until' \in Int
  <2>1. /\ now \in Int /\ last_tick \in Int /\ wait_until \in Int
        /\ context_switch_until \in Int /\ clk \in Int
    BY <1>1 DEF HPFTypeOK
  <2>2. now' \in Int
    BY <2>1 DEF hpfvars, Terminated, ClockTick, NewTick, Exit, FinishCheck, Gate, ReceiveSync,
         ReceiveEnd, WaitOver, AlgoNothing, Grant, loopvars, schedvars
  <2>3. last_tick' \in Int
    BY <2>1 DEF hpfvars, Terminated, ClockTick, NewTick, Exit, FinishCheck, Gate, ReceiveSync,
         ReceiveEnd, WaitOver, AlgoNothing, Grant, loopvars, schedvars
  <2>4. wait_until' \in Int
    BY <2>1 DEF hpfvars, Terminated, ClockTick, NewTick, Exit, FinishCheck, Gate, ReceiveSync,
         ReceiveEnd, WaitOver, AlgoNothing, Grant, loopvars, schedvars
  <2>5. context_switch_until' \in Int
    BY <2>1 DEF hpfvars, Terminated, ClockTick, NewTick, Exit, FinishCheck, Gate, ReceiveSync,
         ReceiveEnd, WaitOver, AlgoNothing, Grant, loopvars, schedvars
  <2>6. QED
    BY <2>2, <2>3, <2>4, <2>5
<1>7. receivingProcesses' \in BOOLEAN
  <2>1. receivingProcesses' = receivingProcesses \/ receivingProcesses' = FALSE
    BY Zenon DEF hpfvars, Terminated, ClockTick, NewTick, Exit, FinishCheck, Gate, ReceiveSync,
         ReceiveEnd, WaitOver, AlgoNothing, Grant, schedvars
  <2>2. QED
    BY <1>1, <2>1, Zenon DEF HPFTypeOK
<1>8. processFinishedSignal' \in BOOLEAN
  <2>1. processFinishedSignal' = processFinishedSignal \/ processFinishedSignal' = FALSE
    BY Zenon DEF hpfvars, Terminated, ClockTick, NewTick, Exit, FinishCheck, Gate, ReceiveSync,
         ReceiveEnd, WaitOver, AlgoNothing, Grant, childvars
  <2>2. QED
    BY <1>1, <2>1, Zenon DEF HPFTypeOK
<1>9. /\ pc' \in {"spin", "finish", "waitpid", "gate", "receive", "algo", "wait", "grant",
                  "exited"}
      /\ pc' = "waitpid" => currProcess # NoOne
  BY <1>1 DEF Shape, HPFTypeOK, hpfvars, Terminated, ClockTick, NewTick, Exit, FinishCheck, Gate,
         ReceiveSync, ReceiveEnd, WaitOver, AlgoNothing, Grant, schedvars, Goto
<1>10. HPFTypeOK'
  BY <1>1, <1>2, <1>3, <1>4, <1>5, <1>6, <1>7, <1>8, <1>9 DEF HPFTypeOK
<1>11. Shape'
  BY <1>2, <1>9, <1>10 DEF Shape
<1>12. QED
  BY <1>2, <1>4, <1>11, StillPlaces

LEMMA NoOneKnown == NoOne \notin Procs
BY HPFAssumption

\* The current process leaves the CPU for good.
LEMMA ReapStep ==
  ASSUME Shape, Places, Reap, UNCHANGED <<clk, workload, genvars>> PROVE Shape' /\ Places'
<1> DEFINE p == currProcess
           b == [pcb[p] EXCEPT !.finish_time = clk, !.state = "F", !.remaining_time = shmRT]
<1>1. HPFTypeOK /\ clk \in Int /\ clk + 1 \in Int /\ p \in Procs /\ shmRT \in Nat
  <2>1. HPFTypeOK /\ currProcess # NoOne
    BY DEF Shape, Reap
  <2>2. QED
    BY <2>1, ClkType DEF HPFTypeOK
<1>2. /\ pcb' = [pcb EXCEPT ![p] = b] /\ currProcess' = NoOne /\ pc' = "gate"
      /\ context_switch_until' = clk + 1 /\ child[p].pc = "dead"
      /\ UNCHANGED <<clk, workload, g_pc, g_queue, g_now, lastTime, msgq, child, shmRT, sem,
                     processFinishedSignal, readyQueue, now, last_tick, wait_until,
                     receivingProcesses, lastGrant>>
  BY DEF Reap, Goto, SwitchUntil, genvars, childvars
<1>3. b \in PCBRec /\ b.state = "F" /\ b.forked = pcb[p].forked
  BY <1>1, PCBType DEF PCBRec
<1>4. pcb' \in [Procs -> PCBRec] /\ pcb'[p] = b /\ \A q \in Procs \ {p} : pcb'[q] = pcb[q]
  <2> HIDE DEF b
  <2>1. QED
    BY <1>1, <1>2, <1>3 DEF HPFTypeOK
<1>5. perf' \in [num_procs: Nat, first_arrival: Int, total_runtime: Nat, finish_time: Int,
                 waiting: Int]
  <2> DEFINE w == perf.waiting + pcb[p].waiting_time
             r == perf.total_runtime + workload.runtime[p]
             n == perf.num_procs + 1
  <2>1. perf \in [num_procs: Nat, first_arrival: Int, total_runtime: Nat, finish_time: Int,
                  waiting: Int]
    BY <1>1 DEF HPFTypeOK
  <2>2. w \in Int /\ r \in Nat /\ n \in Nat
    BY <1>1, <2>1, PCBType
  <2>3. perf' = [perf EXCEPT !.num_procs = n, !.waiting = w, !.total_runtime = r,
                             !.finish_time = clk]
    BY <2>1 DEF Reap
  <2> HIDE DEF n, w, r
  <2>4. QED
    BY <1>1, <2>1, <2>2, <2>3
<1>6. pcb[p].forked /\ p \notin Unsent /\ p \notin Sent /\ p \notin Ready
      /\ p \in ToSet(workload.order)
  <2>1. Place(p)
    BY <1>1 DEF Places
  <2>2. p \in Located
    BY <1>1, NoOneKnown DEF Located, Current
  <2>3. QED
    BY <2>1, <2>2 DEF Place
<1> HIDE DEF b
<1>7. HPFTypeOK'
  BY <1>1, <1>2, <1>4, <1>5, NoOneKnown DEF HPFTypeOK
<1>8. Shape'
  BY <1>1, <1>2, <1>3, <1>4, <1>6, <1>7 DEF Shape
<1>9. Unsent' = Unsent /\ Sent' = Sent /\ Ready' = Ready /\ Current' = {} /\ Current = {p}
  BY <1>1, <1>2, NoOneKnown DEF Unsent, Sent, Ready, Current
<1>10. \A q \in Procs : q = p => Place(q)'
  BY <1>1, <1>2, <1>3, <1>4, <1>6, <1>9, NoOneKnown DEF Place, Located
<1>11. \A q \in Procs \ {p} : Place(q)'
  BY <1>1, <1>2, <1>4, <1>9, NoOneKnown DEF Places, Place, Located
<1>12. QED
  BY <1>2, <1>8, <1>10, <1>11 DEF Places

\* A process leaves the message queue and enters the ready queue once.
LEMMA ReceiveStep ==
  ASSUME Shape, Places, ReceiveProcess, UNCHANGED <<clk, workload, genvars>>
  PROVE  Shape' /\ Places'
<1> DEFINE p == Head(msgq.arrived)
           b == NewPCB(p)
<1>1. /\ HPFTypeOK /\ msgq.arrived \in Seq(Procs) /\ msgq.arrived # <<>>
      /\ msgq \in [arrived: Seq(Procs), sync: Seq(Int), end: BOOLEAN]
      /\ workload \in Workloads
  BY DEF Shape, HPFTypeOK, ReceiveProcess
<1>2. /\ p \in Procs /\ Tail(msgq.arrived) \in Seq(Procs)
      /\ Sent = {p} \cup ToSet(Tail(msgq.arrived))
      /\ p \notin ToSet(Tail(msgq.arrived)) /\ IsInjective(Tail(msgq.arrived))
  BY <1>1, TailFacts DEF Places, Sent
<1> HIDE DEF p
<1>3. /\ pcb' = [pcb EXCEPT ![p] = b]
      /\ readyQueue' = Enqueued(readyQueue, p)
      /\ msgq' = [msgq EXCEPT !.arrived = Tail(@)]
      /\ perf' = [perf EXCEPT !.first_arrival = FirstArrival(p)]
      /\ UNCHANGED <<clk, workload, g_pc, g_queue, g_now, lastTime, child, shmRT, sem, pc,
                     processFinishedSignal, now, last_tick, wait_until, context_switch_until,
                     currProcess, receivingProcesses, lastGrant>>
  BY DEF ReceiveProcess, p, genvars, childvars, loopvars
<1>4. b \in PCBRec /\ b.state = "W" /\ b.forked = FALSE /\ b.remaining_time = workload.runtime[p]
  BY <1>1, <1>2, NewPCBType DEF NewPCB
<1> HIDE DEF b
<1>5. pcb' \in [Procs -> PCBRec] /\ pcb'[p] = b /\ \A q \in Procs \ {p} : pcb'[q] = pcb[q]
  BY <1>1, <1>2, <1>3, <1>4 DEF HPFTypeOK
<1>6. /\ p \notin Unsent /\ p \notin Ready /\ p # currProcess /\ child[p].pc = "none"
      /\ p \in ToSet(workload.order)
  BY <1>2 DEF Places, Place, Located
<1>7. /\ readyQueue' \in Seq(Procs) /\ ToSet(readyQueue') = ToSet(readyQueue) \cup {p}
      /\ IsInjective(readyQueue')
  <2>1. readyQueue \in Seq(Procs) /\ IsInjective(readyQueue) /\ p \notin ToSet(readyQueue)
    BY <1>1, <1>6 DEF HPFTypeOK, Places, Ready
  <2>2. QED
    BY <1>2, <1>3, <2>1, EnqueueSet DEF Enqueued
<1>8. /\ msgq' \in [arrived: Seq(Procs), sync: Seq(Int), end: BOOLEAN]
      /\ msgq'.arrived = Tail(msgq.arrived)
  BY <1>1, <1>2, <1>3
<1>9. perf' \in [num_procs: Nat, first_arrival: Int, total_runtime: Nat, finish_time: Int,
                 waiting: Int]
  <2>1. perf \in [num_procs: Nat, first_arrival: Int, total_runtime: Nat, finish_time: Int,
                  waiting: Int]
    BY <1>1 DEF HPFTypeOK
  <2>2. FirstArrival(p) \in Int
    BY <1>1, <1>2, <2>1, PCBType DEF FirstArrival
  <2>3. QED
    BY <1>3, <2>1, <2>2
<1>10. HPFTypeOK'
  BY <1>1, <1>3, <1>5, <1>7, <1>8, <1>9 DEF HPFTypeOK
<1>11. Shape'
  BY <1>3, <1>4, <1>5, <1>10 DEF Shape
<1>12. /\ Unsent' = Unsent /\ Sent' = Sent \ {p} /\ Ready' = Ready \cup {p} /\ Current' = Current
  BY <1>2, <1>3, <1>7, <1>8 DEF Unsent, Sent, Ready, Current
<1>13. \A q \in Procs : q = p => Place(q)'
  BY <1>2, <1>3, <1>4, <1>5, <1>6, <1>12 DEF Places, Place, Located
<1>14. \A q \in Procs \ {p} : Place(q)'
  BY <1>2, <1>3, <1>5, <1>12 DEF Places, Place, Located
<1>15. QED
  BY <1>2, <1>3, <1>7, <1>8, <1>11, <1>13, <1>14 DEF Places

\* The current process is stopped and returns to the ready queue.
LEMMA PreemptStep ==
  ASSUME Shape, Places, AlgoPreempt, UNCHANGED <<clk, workload, genvars>>
  PROVE  Shape' /\ Places'
<1> DEFINE p == currProcess
           b == [pcb[p] EXCEPT !.last_stopped = clk, !.state = "W", !.remaining_time = shmRT]
           c == [child[p] EXCEPT !.stopped = TRUE]
<1>1. HPFTypeOK /\ clk \in Int /\ clk + 1 \in Int /\ p \in Procs /\ shmRT \in Nat
  BY ClkType DEF Shape, HPFTypeOK, AlgoPreempt
<1>2. /\ pcb' = [pcb EXCEPT ![p] = b]
      /\ readyQueue' = Enqueued(readyQueue, p)
      /\ currProcess' = NoOne /\ wait_until' = clk + 1 /\ pc' = "wait"
      /\ UNCHANGED <<clk, workload, g_pc, g_queue, g_now, lastTime, msgq, shmRT, sem,
                     processFinishedSignal, now, last_tick, context_switch_until,
                     receivingProcesses, perf, lastGrant>>
  BY DEF AlgoPreempt, Saved, Requeued, SwitchUntil, Goto, genvars
<1>3. b \in PCBRec /\ b.state = "W" /\ b.forked = pcb[p].forked
  BY <1>1, PCBType DEF PCBRec
<1>4. child[p] \in ChildRec /\ child \in [Procs -> ChildRec]
  BY <1>1 DEF HPFTypeOK, ChildRec
<1>5. /\ child' = [child EXCEPT ![p] = c]
      /\ c \in ChildRec /\ c.stopped /\ c.pc = child[p].pc
      /\ c.remainingtime = child[p].remainingtime
  BY <1>1, <1>4 DEF AlgoPreempt, Stopped, ChildRec
<1> HIDE DEF b, c
<1>6. pcb' \in [Procs -> PCBRec] /\ pcb'[p] = b /\ \A q \in Procs \ {p} : pcb'[q] = pcb[q]
  BY <1>1, <1>2, <1>3 DEF HPFTypeOK
<1>7. child' \in [Procs -> ChildRec] /\ child'[p] = c /\ \A q \in Procs \ {p} : child'[q] = child[q]
  BY <1>1, <1>4, <1>5
<1>8. pcb[p].forked /\ p \notin Unsent /\ p \notin Sent /\ p \notin Ready
      /\ p \in ToSet(workload.order)
  <2>1. Place(p)
    BY <1>1 DEF Places
  <2>2. p \in Located
    BY <1>1, NoOneKnown DEF Located, Current
  <2>3. QED
    BY <2>1, <2>2 DEF Place
<1>9. /\ readyQueue' \in Seq(Procs) /\ ToSet(readyQueue') = ToSet(readyQueue) \cup {p}
      /\ IsInjective(readyQueue')
  <2>1. readyQueue \in Seq(Procs) /\ IsInjective(readyQueue) /\ p \notin ToSet(readyQueue)
    BY <1>1, <1>8 DEF HPFTypeOK, Places, Ready
  <2>2. QED
    BY <1>1, <1>2, <2>1, EnqueueSet DEF Enqueued
<1>10. HPFTypeOK'
  BY <1>1, <1>2, <1>6, <1>7, <1>9, NoOneKnown DEF HPFTypeOK, ChildRec
<1>11. Shape'
  <2>1. ASSUME NEW q \in Procs
        PROVE  /\ child'[q].pc = child[q].pc /\ child'[q].remainingtime = child[q].remainingtime
               /\ pcb'[q].forked = pcb[q].forked
    BY <1>3, <1>5, <1>6, <1>7
  <2>2. \A q \in Procs :
          /\ child'[q].pc \in {"boot", "down", "count"} => child'[q].remainingtime >= 1
          /\ ~pcb'[q].forked => pcb'[q].remaining_time = workload.runtime[q]
    BY <1>6, <1>8, <2>1 DEF Shape
  <2>3. workload' = workload /\ pc' = "wait"
    BY <1>2
  <2>4. QED
    BY <1>10, <2>2, <2>3 DEF Shape
<1>12. /\ Unsent' = Unsent /\ Sent' = Sent /\ Ready' = Ready \cup {p}
       /\ Current' = {} /\ Current = {p}
  BY <1>1, <1>2, <1>9, NoOneKnown DEF Unsent, Sent, Ready, Current
<1>13. \A q \in Procs : q = p => Place(q)'
  <2>1. SUFFICES ASSUME NEW q \in Procs, q = p PROVE Place(q)'
    OBVIOUS
  <2>2. q \notin Unsent' /\ q \notin Sent' /\ q \in Ready' /\ q # currProcess'
    BY <1>1, <1>2, <1>8, <1>12, <2>1, NoOneKnown
  <2>3. pcb'[q].forked /\ pcb'[q].state = "W"
    BY <1>3, <1>6, <1>8, <2>1
  <2>4. child'[q].stopped /\ child'[q].pc # "none"
    <3>1. Place(p)
      BY <1>1 DEF Places
    <3>2. QED
      BY <1>5, <1>7, <1>8, <2>1, <3>1 DEF Place
  <2>5. q \in ToSet(workload'.order) /\ q \in Located'
    BY <1>2, <1>8, <2>1, <2>2 DEF Located
  <2>6. QED
    BY <2>2, <2>3, <2>4, <2>5 DEF Place
<1>14. \A q \in Procs \ {p} : Place(q)'
  BY <1>1, <1>2, <1>6, <1>7, <1>12, NoOneKnown DEF Places, Place, Located
<1>15. QED
  BY <1>2, <1>9, <1>11, <1>13, <1>14 DEF Places

LEMMA ChargedType ==
  ASSUME HPFTypeOK, NEW p \in Procs
  PROVE  /\ Charged(p) \in PCBRec /\ Charged(p).state = pcb[p].state
         /\ Charged(p).forked = pcb[p].forked
         /\ Charged(p).remaining_time = pcb[p].remaining_time
<1> DEFINE a == pcb[p]
           w == clk - workload.arrival[p]
           b == IF a.start_time # -1 THEN a ELSE [a EXCEPT !.start_time = clk, !.waiting_time = w]
           v == b.waiting_time + clk - a.last_stopped
<1>1. /\ a \in PCBRec /\ a.last_stopped \in Int /\ clk \in Int /\ w \in Int
      /\ workload.arrival[p] \in Nat
  BY PCBType, ClkType
<1>2. Charged(p) = IF a.forked /\ a.last_stopped >= 0 THEN [b EXCEPT !.waiting_time = v] ELSE b
  BY DEF Charged
<1>3. /\ b \in PCBRec /\ b.state = a.state /\ b.forked = a.forked
      /\ b.remaining_time = a.remaining_time /\ b.waiting_time \in Int
  <2> HIDE DEF w, a
  <2>1. QED
    BY <1>1 DEF PCBRec
<1> HIDE DEF b
<1>4. v \in Int
  BY <1>1, <1>3
<1> HIDE DEF v
<1>5. /\ [b EXCEPT !.waiting_time = v] \in PCBRec
      /\ [b EXCEPT !.waiting_time = v].state = b.state
      /\ [b EXCEPT !.waiting_time = v].forked = b.forked
      /\ [b EXCEPT !.waiting_time = v].remaining_time = b.remaining_time
  BY <1>3, <1>4 DEF PCBRec
<1>6. QED
  BY <1>2, <1>3, <1>5

\* The front of the ready queue is forked or continued.
LEMMA DispatchStep ==
  ASSUME Shape, Places, AlgoDispatch, UNCHANGED <<clk, workload, genvars>>
  PROVE  Shape' /\ Places'
<1> DEFINE p == Head(readyQueue)
           b == [Charged(p) EXCEPT !.state = "R", !.forked = TRUE]
           c == IF pcb[p].forked THEN [child[p] EXCEPT !.stopped = FALSE]
                ELSE [NoChild EXCEPT !.pc = "boot", !.remainingtime = pcb[p].remaining_time]
<1>1. HPFTypeOK /\ readyQueue \in Seq(Procs) /\ readyQueue # <<>> /\ child \in [Procs -> ChildRec]
  BY DEF Shape, HPFTypeOK, AlgoDispatch, ChildRec
<1>2. /\ p \in Procs /\ Tail(readyQueue) \in Seq(Procs)
      /\ Ready = {p} \cup ToSet(Tail(readyQueue))
      /\ p \notin ToSet(Tail(readyQueue)) /\ IsInjective(Tail(readyQueue))
  BY <1>1, TailFacts DEF Places, Ready
<1>3. /\ pcb' = [pcb EXCEPT ![p] = b]
      /\ currProcess = NoOne /\ currProcess' = p /\ shmRT' = pcb[p].remaining_time
      /\ readyQueue' = Tail(readyQueue) /\ pc' = "grant"
      /\ UNCHANGED <<clk, workload, g_pc, g_queue, g_now, lastTime, msgq, sem, now, last_tick,
                     processFinishedSignal, wait_until, context_switch_until,
                     receivingProcesses, perf, lastGrant>>
  BY DEF AlgoDispatch, Goto, genvars, loopvars
<1>4. child' = [child EXCEPT ![p] = c]
  BY <1>1, <1>2 DEF AlgoDispatch
<1>5. b \in PCBRec /\ b.state = "R" /\ b.forked = TRUE
  BY <1>1, <1>2, ChargedType DEF PCBRec
<1> HIDE DEF p
<1>6. /\ c \in ChildRec /\ c.pc # "none"
      /\ c.pc \in {"boot", "down", "count"} => c.remainingtime >= 1
  <2>1. CASE pcb[p].forked
    <3>1. /\ child[p] \in ChildRec /\ child[p].pc # "none"
          /\ child[p].pc \in {"boot", "down", "count"} => child[p].remainingtime >= 1
      BY <1>1, <1>2, <2>1 DEF Shape, Places, Place
    <3>2. QED
      BY <2>1, <3>1 DEF ChildRec
  <2>2. CASE ~pcb[p].forked
    <3>1. pcb[p].remaining_time \in Nat /\ pcb[p].remaining_time >= 1
      BY <1>1, <1>2, <2>2, PCBType DEF Shape
    <3>2. QED
      BY <2>2, <3>1 DEF ChildRec, NoChild
  <2>3. QED
    BY <2>1, <2>2
<1> HIDE DEF b, c
<1>7. pcb' \in [Procs -> PCBRec] /\ pcb'[p] = b /\ \A q \in Procs \ {p} : pcb'[q] = pcb[q]
  BY <1>1, <1>2, <1>3, <1>5 DEF HPFTypeOK
<1>8. child' \in [Procs -> ChildRec] /\ child'[p] = c /\ \A q \in Procs \ {p} : child'[q] = child[q]
  BY <1>1, <1>2, <1>4, <1>6
<1>9. /\ p \notin Unsent /\ p \notin Sent /\ p \in ToSet(workload.order)
  BY <1>2 DEF Places, Place, Located
<1>10. pcb[p].remaining_time \in Nat
  BY <1>1, <1>2, PCBType
<1>11. HPFTypeOK'
  BY <1>1, <1>2, <1>3, <1>7, <1>8, <1>10 DEF HPFTypeOK, ChildRec
<1>12. Shape'
  BY <1>1, <1>2, <1>3, <1>5, <1>6, <1>7, <1>8, <1>11 DEF Shape
<1>13. /\ Unsent' = Unsent /\ Sent' = Sent /\ Ready' = Ready \ {p}
       /\ Current = {} /\ Current' = {p}
  BY <1>2, <1>3, NoOneKnown DEF Unsent, Sent, Ready, Current
<1>14. \A q \in Procs : q = p => Place(q)'
  BY <1>2, <1>3, <1>5, <1>6, <1>7, <1>8, <1>9, <1>13 DEF Places, Place, Located
<1>15. \A q \in Procs \ {p} : Place(q)'
  BY <1>2, <1>3, <1>7, <1>8, <1>13, NoOneKnown DEF Places, Place, Located
<1>16. QED
  BY <1>2, <1>3, <1>12, <1>14, <1>15 DEF Places

LEMMA StepShape ==
  ASSUME Shape, Places, [HPFNext]_hpfvars PROVE Shape' /\ Places'
<1>1. CASE UNCHANGED hpfvars \/ Terminated \/ ClockTick
  BY <1>1, PlainStep
<1>2. CASE Generator
  BY <1>2, GeneratorStep
<1>3. CASE \E p \in Procs : Child(p)
  BY <1>3, ChildStep
<1>4. CASE Scheduler
  BY <1>4, PlainStep, ReapStep, ReceiveStep, PreemptStep, DispatchStep DEF Scheduler
<1>5. QED
  BY <1>1, <1>2, <1>3, <1>4 DEF HPFNext

LEMMA ShapeHolds == HPFSpec => [](Shape /\ Places)
<1>1. HPFInit => Shape /\ Places
  BY InitShape
<1>2. (Shape /\ Places) /\ [HPFNext]_hpfvars => (Shape /\ Places)'
  BY StepShape
<1>3. QED
  BY <1>1, <1>2, PTL DEF HPFSpec

\* HPFTypeOK: the queues hold processes, a child never counts below zero, and the
\* fields that HPF_algo, runProcess and the report keep have their types.
THEOREM HPFTypeCorrect == HPFSpec => []HPFTypeOK
<1>1. Shape => HPFTypeOK
  BY DEF Shape
<1>2. QED
  BY <1>1, ShapeHolds, PTL

-----------------------------------------------------------------------------
(* The order of the queues.                                                 *)

\* A partition of what was sent and did not finish.
LEMMA PlacesPartition ==
  ASSUME Shape, Places PROVE QueuesPartition /\ OnlyCurrentRuns
<1> DEFINE run == IF currProcess = NoOne THEN <<>> ELSE <<currProcess>>
           places == readyQueue \o msgq.arrived \o run
<1>1. HPFTypeOK
  BY DEF Shape
<1>2. /\ readyQueue \in Seq(Procs) /\ IsInjective(readyQueue)
      /\ msgq.arrived \in Seq(Procs) /\ IsInjective(msgq.arrived)
  BY <1>1, SetsKnown DEF Places
<1>3. run \in Seq(Procs) /\ ToSet(run) = Current /\ IsInjective(run)
  <2>1. CASE currProcess = NoOne
    BY <2>1 DEF Current, ToSet, IsInjective
  <2>2. CASE currProcess # NoOne
    <3>1. currProcess \in Procs
      BY <1>1, <2>2 DEF HPFTypeOK
    <3>2. DOMAIN <<currProcess>> = {1} /\ <<currProcess>>[1] = currProcess
      OBVIOUS
    <3>3. QED
      BY <2>2, <3>1, <3>2 DEF Current, ToSet, IsInjective
  <2>3. QED
    BY <2>1, <2>2
<1> HIDE DEF run
<1>4. /\ Ready \cap Sent = {} /\ Ready \cap Current = {} /\ Sent \cap Current = {}
      /\ Unsent \cap (Ready \cup Sent \cup Current) = {}
  <2>1. /\ Ready \subseteq Procs /\ Sent \subseteq Procs /\ Unsent \subseteq Procs
        /\ Current \subseteq Procs
    BY <1>1, SetsKnown
  <2>2. \A p \in Procs : p \in Current => p = currProcess
    BY DEF Current
  <2>3. QED
    BY <2>1, <2>2 DEF Places, Place
<1>5. /\ readyQueue \o msgq.arrived \in Seq(Procs)
      /\ ToSet(readyQueue \o msgq.arrived) = Ready \cup Sent
      /\ IsInjective(readyQueue \o msgq.arrived)
  BY <1>2, <1>4, ConcatFacts DEF Ready, Sent
<1>6. ToSet(places) = Ready \cup Sent \cup Current /\ IsInjective(places)
  <2> DEFINE known == readyQueue \o msgq.arrived
  <2>1. ToSet(known) \cap ToSet(run) = {}
    BY <1>3, <1>4, <1>5
  <2>2. known \in Seq(Procs) /\ IsInjective(known) /\ ToSet(known) = Ready \cup Sent
    BY <1>5
  <2> HIDE DEF known
  <2>3. /\ ToSet(known \o run) = ToSet(known) \cup ToSet(run)
        /\ IsInjective(known \o run)
    BY <1>3, <2>1, <2>2, ConcatFacts
  <2>4. QED
    BY <1>3, <2>2, <2>3 DEF known
<1>7. \A p \in ToSet(workload.order) : Received(p) <=> p \notin Unsent
  BY DEF Received, Unsent, ToSet
<1>8. Ready \cup Sent \cup Current =
        {p \in ToSet(workload.order) : Received(p) /\ pcb[p].state # "F"}
  <2>1. /\ Ready \cup Sent \cup Current \subseteq Procs /\ ToSet(workload.order) \subseteq Procs
    BY <1>1, SetsKnown
  <2>2. ASSUME NEW p \in Procs
        PROVE  p \in Ready \cup Sent \cup Current
                 <=> p \in ToSet(workload.order) /\ p \notin Unsent /\ pcb[p].state # "F"
    <3>1. Place(p)
      BY DEF Places
    <3>2. p \in Current => p = currProcess
      BY DEF Current
    <3>3. QED
      BY <1>4, <3>1, <3>2 DEF Place, Located
  <2>3. QED
    BY <1>7, <2>1, <2>2
<1>9. QueuesPartition
  BY <1>6, <1>8 DEF QueuesPartition, run
<1>10. OnlyCurrentRuns
  BY DEF Places, Place, OnlyCurrentRuns
<1>11. QED
  BY <1>9, <1>10

-----------------------------------------------------------------------------

\* In the sequence q, a stands before b.
Before(q, a, b) == \E i, j \in DOMAIN q : i < j /\ q[i] = a /\ q[j] = b

LEMMA BeforeTail ==
  ASSUME NEW T, NEW q \in Seq(T), q # <<>>
  PROVE  /\ \A a, b : Before(Tail(q), a, b) => Before(q, a, b)
         /\ \A b \in ToSet(Tail(q)) : Before(q, Head(q), b)
<1>1. /\ Len(q) \in Nat /\ Len(q) >= 1 /\ DOMAIN q = 1..Len(q)
      /\ DOMAIN Tail(q) = 1..(Len(q) - 1)
      /\ \A i \in 1..(Len(q) - 1) : Tail(q)[i] = q[i + 1]
      /\ Head(q) = q[1]
  OBVIOUS
<1>2. \A i \in DOMAIN Tail(q) : i + 1 \in DOMAIN q /\ 1 < i + 1 /\ Tail(q)[i] = q[i + 1]
  BY <1>1
<1>3. \A i, j \in DOMAIN Tail(q) : i < j => i + 1 < j + 1
  BY <1>1
<1>4. \A a, b : Before(Tail(q), a, b) => Before(q, a, b)
  BY <1>2, <1>3 DEF Before
<1>5. 1 \in DOMAIN q
  BY <1>1
<1>6. \A b \in ToSet(Tail(q)) : Before(q, Head(q), b)
  BY <1>1, <1>2, <1>5 DEF Before, ToSet
<1>7. QED
  BY <1>4, <1>6

LEMMA BeforeAppend ==
  ASSUME NEW T, NEW q \in Seq(T), NEW x
  PROVE  \A a, b : Before(Append(q, x), a, b) => Before(q, a, b) \/ (a \in ToSet(q) /\ b = x)
<1> DEFINE n == Len(q) + 1
           r == Append(q, x)
<1>1. /\ Len(q) \in Nat /\ n \in Nat /\ n - 1 = Len(q) /\ DOMAIN q = 1..Len(q)
      /\ DOMAIN r = 1..n /\ r[n] = x
      /\ \A i \in 1..Len(q) : r[i] = q[i]
  OBVIOUS
<1> HIDE DEF n, r
<1>2. ASSUME NEW i \in DOMAIN r, NEW j \in DOMAIN r, i < j
      PROVE  /\ i \in DOMAIN q /\ r[i] = q[i]
             /\ j = n \/ (j \in DOMAIN q /\ r[j] = q[j])
  <2>1. i \in 1..Len(q)
    BY <1>1, <1>2
  <2>2. j = n \/ j \in 1..Len(q)
    BY <1>1, <1>2
  <2>3. QED
    BY <1>1, <2>1, <2>2
<1>3. QED
  BY <1>1, <1>2 DEF Before, ToSet, r

\* The input file lists the processes in the order they arrive.
SortedFiles ==
    \A w \in Workloads : \A i, j \in DOMAIN w.order :
        i < j => w.arrival[w.order[i]] <= w.arrival[w.order[j]]

InTime(q) == \A a, b \in Procs : Before(q, a, b) => workload.arrival[a] <= workload.arrival[b]

\* The processes are sent and received in the order they arrive, and a process
\* that was received did not arrive after one that was not.
Ordered ==
    /\ InTime(g_queue) /\ InTime(msgq.arrived)
    /\ \A p \in Unsent, q \in Sent \cup Ready \cup Current : workload.arrival[q] <= workload.arrival[p]
    /\ \A p \in Sent, q \in Ready \cup Current : workload.arrival[q] <= workload.arrival[p]
    /\ InOrderBy(readyQueue, workload.priority, workload.arrival)

LEMMA InOrderBefore ==
  ASSUME NEW q, NEW priority, NEW arrival
  PROVE  InOrderBy(q, priority, arrival)
           <=> \A a, b : Before(q, a, b) => Precedes(a, b, priority, arrival)
BY DEF InOrderBy, Before

LEMMA StillOrdered ==
  ASSUME Ordered, UNCHANGED <<g_queue, readyQueue, currProcess, workload>>,
         msgq'.arrived = msgq.arrived
  PROVE  Ordered'
<1>1. Unsent' = Unsent /\ Sent' = Sent /\ Ready' = Ready /\ Current' = Current
  BY DEF Unsent, Sent, Ready, Current
<1>2. QED
  BY <1>1 DEF Ordered, InTime

LEMMA SendOrdered ==
  ASSUME Shape, Places, Ordered, Generator PROVE Ordered'
<1>1. HPFTypeOK /\ UNCHANGED <<workload, readyQueue, currProcess>>
  BY DEF Shape, Generator, schedvars, queuevars
<1>2. CASE GenSend
  <2> DEFINE p == Head(g_queue)
  <2>1. /\ g_queue \in Seq(Procs) /\ g_queue # <<>> /\ msgq.arrived \in Seq(Procs)
    BY <1>1, <1>2 DEF HPFTypeOK, GenSend, Arrived
  <2>2. /\ p \in Procs /\ ToSet(g_queue) = {p} \cup ToSet(Tail(g_queue))
        /\ ToSet(g_queue) \subseteq Procs
    BY <2>1, <1>1, TailFacts, SetsKnown DEF Unsent
  <2>3. /\ \A a, b : Before(Tail(g_queue), a, b) => Before(g_queue, a, b)
        /\ \A b \in ToSet(Tail(g_queue)) : Before(g_queue, p, b)
    BY <2>1, BeforeTail
  <2>4. ToSet(Append(msgq.arrived, p)) = ToSet(msgq.arrived) \cup {p}
    BY <2>1, <2>2, AppendFacts
  <2>5. \A a, b : Before(Append(msgq.arrived, p), a, b)
                    => Before(msgq.arrived, a, b) \/ (a \in ToSet(msgq.arrived) /\ b = p)
    BY <2>1, <2>2, BeforeAppend
  <2>6. g_queue' = Tail(g_queue) /\ msgq'.arrived = Append(msgq.arrived, p)
    BY <1>1, <1>2 DEF GenSend, HPFTypeOK
  <2> HIDE DEF p
  <2>7. /\ Unsent = {p} \cup Unsent' /\ Unsent' \subseteq Procs /\ Sent' = Sent \cup {p}
        /\ Ready' = Ready /\ Current' = Current
    BY <1>1, <2>2, <2>4, <2>6 DEF Unsent, Sent, Ready, Current
  <2>8. \A q \in Unsent' : workload.arrival[p] <= workload.arrival[q]
    BY <2>2, <2>3, <2>6, <2>7 DEF Ordered, InTime, Unsent
  <2>9. \A q \in Sent \cup Ready \cup Current : workload.arrival[q] <= workload.arrival[p]
    BY <2>7 DEF Ordered
  <2>10. InTime(g_queue)' /\ InTime(msgq.arrived)'
    BY <1>1, <2>3, <2>5, <2>6, <2>9 DEF Ordered, InTime, Sent
  <2>11. QED
    BY <1>1, <2>7, <2>8, <2>9, <2>10 DEF Ordered
<1>3. CASE GenPoll \/ GenSync \/ GenEnd \/ GenShutdown(pc = "exited")
  <2>1. g_queue' = g_queue /\ msgq'.arrived = msgq.arrived
    BY <1>1, <1>3 DEF GenPoll, GenSync, GenEnd, GenShutdown, HPFTypeOK
  <2>2. QED
    BY <1>1, <2>1, StillOrdered
<1>4. QED
  BY <1>2, <1>3 DEF Generator, GenStep

LEMMA ReceiveOrdered ==
  ASSUME Shape, Places, Ordered, ReceiveProcess, UNCHANGED <<clk, workload, genvars>>
  PROVE  Ordered'
<1> DEFINE p == Head(msgq.arrived)
           arr == msgq.arrived
<1>1. HPFTypeOK /\ arr \in Seq(Procs) /\ readyQueue \in Seq(Procs) /\ arr # <<>>
      /\ UNCHANGED <<workload, g_queue, currProcess>>
  BY DEF Shape, HPFTypeOK, ReceiveProcess, genvars
<1>2. /\ p \in Procs /\ ToSet(arr) = {p} \cup ToSet(Tail(arr)) /\ ToSet(arr) \subseteq Procs
  BY <1>1, TailFacts, SetsKnown DEF Sent
<1>3. /\ \A a, b : Before(Tail(arr), a, b) => Before(arr, a, b)
      /\ \A b \in ToSet(Tail(arr)) : Before(arr, p, b)
  BY <1>1, BeforeTail
<1>4. msgq'.arrived = Tail(arr) /\ readyQueue' = Enqueued(readyQueue, p)
  BY <1>1 DEF ReceiveProcess, HPFTypeOK
<1> HIDE DEF p
<1>5. ToSet(readyQueue') = ToSet(readyQueue) \cup {p}
  BY <1>1, <1>2, <1>4, EnqueueSet DEF Enqueued
<1>6. /\ Unsent' = Unsent /\ Sent = {p} \cup Sent' /\ Sent' \subseteq Procs
      /\ Ready' = Ready \cup {p} /\ Current' = Current
  BY <1>1, <1>2, <1>4, <1>5 DEF Unsent, Sent, Ready, Current
<1>7. \A q \in Sent' : workload.arrival[p] <= workload.arrival[q]
  BY <1>2, <1>3, <1>4, <1>6 DEF Ordered, InTime, Sent
<1>8. InTime(g_queue)' /\ InTime(msgq.arrived)'
  BY <1>1, <1>3, <1>4 DEF Ordered, InTime
<1>9. InOrderBy(readyQueue, workload.priority, workload.arrival)'
  <2>1. workload.priority \in [Procs -> Nat] /\ workload.arrival \in [Procs -> Nat]
    BY <1>1, WorkloadType DEF HPFTypeOK
  <2>2. readyQueue # <<>> => workload.arrival[Head(readyQueue)] <= workload.arrival[p]
    <3>1. SUFFICES ASSUME readyQueue # <<>>
                   PROVE  workload.arrival[Head(readyQueue)] <= workload.arrival[p]
      OBVIOUS
    <3>2. Head(readyQueue) \in Ready
      BY <1>1, <3>1, TailFacts DEF Ready
    <3>3. QED
      BY <1>6, <3>2 DEF Ordered
  <2>3. InOrderBy(Enqueued(readyQueue, p), workload.priority, workload.arrival)
    BY <1>1, <1>2, <2>1, <2>2, EnqueueOrder DEF Ordered, Enqueued
  <2>4. QED
    BY <1>1, <1>4, <2>3 DEF InOrderBy
<1>10. QED
  BY <1>1, <1>6, <1>7, <1>8, <1>9 DEF Ordered

\* The process preempted goes behind one of a better priority.
LEMMA PreemptOrdered ==
  ASSUME Shape, Places, Ordered, AlgoPreempt, UNCHANGED <<clk, workload, genvars>>
  PROVE  Ordered'
<1> DEFINE p == currProcess
<1>1. /\ HPFTypeOK /\ readyQueue \in Seq(Procs) /\ readyQueue # <<>> /\ p \in Procs /\ p # NoOne
      /\ UNCHANGED <<workload, g_queue, msgq>>
      /\ readyQueue' = Enqueued(readyQueue, p) /\ currProcess' = NoOne
  BY DEF Shape, HPFTypeOK, AlgoPreempt, Requeued, genvars
<1>2. workload.priority \in [Procs -> Nat] /\ workload.arrival \in [Procs -> Nat]
  BY <1>1, WorkloadType DEF HPFTypeOK
<1>3. workload.priority[p] # workload.priority[Head(readyQueue)]
  <2>1. Head(readyQueue) \in Procs
    BY <1>1
  <2>2. workload.priority[Head(readyQueue)] < workload.priority[p]
    BY DEF AlgoPreempt, Preempts
  <2>3. QED
    BY <1>1, <1>2, <2>1, <2>2
<1>4. InOrderBy(Enqueued(readyQueue, p), workload.priority, workload.arrival)
  BY <1>1, <1>2, <1>3, EnqueueOrder DEF Ordered, Enqueued
<1>5. ToSet(readyQueue') = ToSet(readyQueue) \cup {p}
  BY <1>1, EnqueueSet DEF Enqueued
<1>6. /\ Unsent' = Unsent /\ Sent' = Sent
      /\ Ready' \cup Current' = Ready \cup Current
  BY <1>1, <1>5 DEF Unsent, Sent, Ready, Current
<1>7. InOrderBy(readyQueue, workload.priority, workload.arrival)'
  BY <1>1, <1>4 DEF InOrderBy
<1>8. QED
  BY <1>1, <1>6, <1>7 DEF Ordered, InTime

LEMMA DispatchOrdered ==
  ASSUME Shape, Places, Ordered, AlgoDispatch, UNCHANGED <<clk, workload, genvars>>
  PROVE  Ordered'
<1> DEFINE p == Head(readyQueue)
<1>1. /\ HPFTypeOK /\ readyQueue \in Seq(Procs) /\ readyQueue # <<>>
      /\ UNCHANGED <<workload, g_queue, msgq>>
      /\ readyQueue' = Tail(readyQueue) /\ currProcess' = p /\ currProcess = NoOne
  BY DEF Shape, HPFTypeOK, AlgoDispatch, genvars
<1>2. p \in Procs /\ ToSet(readyQueue) = {p} \cup ToSet(Tail(readyQueue))
  BY <1>1, TailFacts
<1>3. \A a, b : Before(Tail(readyQueue), a, b) => Before(readyQueue, a, b)
  BY <1>1, BeforeTail
<1>4. InOrderBy(Tail(readyQueue), workload.priority, workload.arrival)
  BY <1>3, InOrderBefore DEF Ordered
<1>5. /\ Unsent' = Unsent /\ Sent' = Sent
      /\ Ready' \cup Current' = Ready \cup Current
  BY <1>1, <1>2, NoOneKnown DEF Unsent, Sent, Ready, Current
<1>6. InOrderBy(readyQueue, workload.priority, workload.arrival)'
  BY <1>1, <1>4 DEF InOrderBy
<1>7. QED
  BY <1>1, <1>5, <1>6 DEF Ordered, InTime

LEMMA ReapOrdered ==
  ASSUME Shape, Places, Ordered, Reap, UNCHANGED <<clk, workload, genvars>>
  PROVE  Ordered'
<1>1. UNCHANGED <<workload, g_queue, msgq, readyQueue>> /\ currProcess' = NoOne
  BY DEF Reap, genvars
<1>2. Unsent' = Unsent /\ Sent' = Sent /\ Ready' = Ready /\ Current' \subseteq Current
  BY <1>1 DEF Unsent, Sent, Ready, Current
<1>3. QED
  BY <1>1, <1>2 DEF Ordered, InTime, InOrderBy

\* Steps that move no process.
LEMMA PlainOrdered ==
  ASSUME Shape, Places, Ordered,
         \/ UNCHANGED hpfvars \/ Terminated \/ ClockTick \/ \E p \in Procs : Child(p)
         \/ /\ UNCHANGED <<clk, workload, genvars>>
            /\ \/ NewTick \/ Exit \/ FinishCheck \/ Gate \/ ReceiveSync \/ ReceiveEnd \/ WaitOver
               \/ AlgoNothing \/ Grant
  PROVE  Ordered'
<1>1. UNCHANGED <<workload, g_queue, readyQueue, currProcess>>
  BY DEF hpfvars, Terminated, ClockTick, Child, NewTick, Exit, FinishCheck, Gate, ReceiveSync,
         ReceiveEnd, WaitOver, AlgoNothing, Grant, genvars, queuevars, schedvars
<1>2. msgq \in [arrived: Seq(Procs), sync: Seq(Int), end: BOOLEAN]
  BY DEF Shape, HPFTypeOK
<1>3. msgq'.arrived = msgq.arrived
  BY <1>2 DEF hpfvars, Terminated, ClockTick, Child, NewTick, Exit, FinishCheck, Gate, ReceiveSync,
         ReceiveEnd, WaitOver, AlgoNothing, Grant
<1>4. QED
  BY <1>1, <1>3, StillOrdered

LEMMA StepOrdered ==
  ASSUME Shape, Places, Ordered, [HPFNext]_hpfvars PROVE Ordered'
<1>1. CASE UNCHANGED hpfvars \/ Terminated \/ ClockTick \/ \E p \in Procs : Child(p)
  BY <1>1, PlainOrdered
<1>2. CASE Generator
  BY <1>2, SendOrdered
<1>3. CASE Scheduler
  BY <1>3, PlainOrdered, ReapOrdered, ReceiveOrdered, PreemptOrdered, DispatchOrdered DEF Scheduler
<1>4. QED
  BY <1>1, <1>2, <1>3 DEF HPFNext

LEMMA InitOrdered ==
  ASSUME SortedFiles, HPFInit PROVE Ordered
<1>1. /\ workload \in Workloads /\ g_queue = workload.order /\ msgq.arrived = <<>>
      /\ readyQueue = <<>> /\ currProcess = NoOne
  BY DEF HPFInit, GenInit, NoMessage
<1>2. Sent = {} /\ Ready = {} /\ Current = {}
  BY <1>1 DEF Sent, Ready, Current, ToSet
<1>3. InTime(g_queue) /\ InTime(msgq.arrived)
  BY <1>1 DEF InTime, Before, SortedFiles
<1>4. InOrderBy(readyQueue, workload.priority, workload.arrival)
  BY <1>1 DEF InOrderBy
<1>5. QED
  BY <1>2, <1>3, <1>4 DEF Ordered

\* ProcessesInPlace: through arrivals, preemptions and ends a process is in one
\* queue or on the CPU, its child can run only if it is the current one, and the
\* ready queue is in order, although enqueue_priority looks at the front's priority
\* alone; provided that the input file lists the processes in the order they arrive.
THEOREM EveryProcessInPlace ==
  ASSUME SortedFiles PROVE HPFSpec => []ProcessesInPlace
<1>1. HPFInit => Ordered
  BY InitOrdered
<1>2. (Shape /\ Places) /\ Ordered /\ [HPFNext]_hpfvars => Ordered'
  BY StepOrdered
<1>3. (Shape /\ Places) /\ Ordered => ProcessesInPlace
  BY PlacesPartition DEF Ordered, InOrderBy, PriorityOrder, ProcessesInPlace
<1>4. QED
  BY <1>1, <1>2, <1>3, ShapeHolds, PTL DEF HPFSpec

-----------------------------------------------------------------------------
(* The CPU is shared as module CPUSharing says.                             *)

\* The children run the program they were written for.
RightProgram == ArgsNeeded <= ArgsGiven

\* A child never has more work left than its process's runtime, and ends when none
\* is left.  The shared integer belongs to the current process; the others' is in
\* their PCBs, and that of a finished process is used up.
Carried ==
    \A p \in Procs :
        /\ child[p].pc # "none" => child[p].remainingtime <= workload.runtime[p]
        /\ child[p].pc \in {"signal", "dead"} => child[p].remainingtime = 0
        /\ p = currProcess => shmRT = child[p].remainingtime
        /\ p # currProcess /\ pcb[p].forked /\ ~Reaped(p)
             => pcb[p].remaining_time = child[p].remainingtime
        /\ Reaped(p) => pcb[p].remaining_time = 0

\* The state of CPUSharing that a state of the simulation stands for.
Present == {p \in Procs : p \in ToSet(readyQueue) \/ p = currProcess \/ Reaped(p)}

OnCPU == [c \in {1} |-> currProcess]

Used == [p \in Procs |-> IF child[p].pc = "none" THEN 0
                         ELSE workload.runtime[p] - child[p].remainingtime]

Done == {p \in Procs : Reaped(p)}

SharingStep == [Sharing!SharingNext]_(Sharing!sharingvars)

LEMMA StillShared ==
  ASSUME Carried, UNCHANGED <<workload, child, shmRT, readyQueue, currProcess, pcb>>
  PROVE  Carried' /\ SharingStep
<1>1. Present' = Present /\ OnCPU' = OnCPU /\ Used' = Used /\ Done' = Done
  BY DEF Present, OnCPU, Used, Done, Reaped
<1>2. Carried'
  BY DEF Carried, Reaped
<1>3. QED
  BY <1>1, <1>2 DEF SharingStep, Sharing!sharingvars, Present, OnCPU, Used, Done

\* The steps that neither give nor take the CPU, nor use it.
LEMMA PlainShared ==
  ASSUME Carried,
         \/ UNCHANGED hpfvars \/ Terminated \/ ClockTick \/ Generator
         \/ /\ UNCHANGED <<clk, workload, genvars>>
            /\ \/ NewTick \/ Exit \/ FinishCheck \/ Gate \/ ReceiveSync \/ ReceiveEnd \/ WaitOver
               \/ AlgoNothing \/ Grant
  PROVE  Carried' /\ SharingStep
<1>1. UNCHANGED <<workload, child, shmRT, readyQueue, currProcess, pcb>>
  BY DEF hpfvars, Terminated, ClockTick, Generator, NewTick, Exit, FinishCheck, Gate, ReceiveSync,
         ReceiveEnd, WaitOver, AlgoNothing, Grant, childvars, queuevars, schedvars
<1>2. QED
  BY <1>1, StillShared

\* A child that counts a tick is the one that has the CPU: the time it uses is
\* time that was given to it.
LEMMA ChildShared ==
  ASSUME RightProgram, Shape, Places, Carried, NEW p \in Procs, Child(p)
  PROVE  Carried' /\ SharingStep
<1>1. HPFTypeOK /\ ArgsNeeded \in Nat /\ ~(ArgsGiven < ArgsNeeded)
  BY HPFAssumption DEF Shape, RightProgram, ArgsGiven
<1>2. /\ child \in [Procs -> ChildRec] /\ child[p] \in ChildRec
      /\ workload.runtime[p] \in Nat
  BY <1>1, PCBType DEF HPFTypeOK, ChildRec
<1>3. UNCHANGED <<pcb, workload, readyQueue, currProcess>>
  BY DEF Child, schedvars, queuevars
<1>4. p = currProcess /\ p # NoOne
  <2>1. child[p].pc \notin {"none", "dead"} /\ ~child[p].stopped
    BY DEF Child, ChildBoot, ChildDown, ChildCount, ChildExit, Runs
  <2>2. QED
    BY <2>1, NoOneKnown DEF Places, Place
<1>5. Present' = Present /\ OnCPU' = OnCPU /\ Done' = Done
  BY <1>3 DEF Present, OnCPU, Done, Reaped
<1>6. ASSUME \A q \in Procs \ {p} : child'[q] = child[q],
             child[p].pc # "none",
             child'[p].remainingtime <= child[p].remainingtime,
             child'[p].remainingtime \in Nat,
             shmRT' = child'[p].remainingtime,
             child'[p].pc \in {"signal", "dead"} => child'[p].remainingtime = 0
      PROVE  Carried'
  <2>1. child'[p].remainingtime <= workload.runtime[p]
    BY <1>2, <1>6 DEF Carried, ChildRec
  <2>2. QED
    BY <1>3, <1>4, <1>6, <2>1 DEF Carried, Reaped
<1>7. CASE ChildBoot(p) \/ ChildDown(p) \/ ChildExit(p)
  <2>1. /\ \A q \in Procs \ {p} : child'[q] = child[q]
        /\ child'[p].remainingtime = child[p].remainingtime
        /\ child[p].pc # "none" /\ child'[p].pc # "none" /\ shmRT' = shmRT
        /\ child'[p].pc \in {"signal", "dead"} => child[p].pc \in {"signal", "dead"}
    BY <1>1, <1>2, <1>7 DEF ChildBoot, ChildDown, ChildExit, Runs, ChildRec
  <2>2. child'[p].pc \in {"signal", "dead"} => child'[p].remainingtime = 0
    BY <2>1 DEF Carried
  <2>3. Carried'
    BY <1>2, <1>4, <1>6, <2>1, <2>2 DEF Carried, ChildRec
  <2>4. Used' = Used
    BY <1>3, <2>1 DEF Used
  <2>5. QED
    BY <1>3, <1>5, <2>3, <2>4 DEF SharingStep, Sharing!sharingvars, Present, OnCPU, Used, Done
<1>8. CASE ChildCount(p)
  <2> DEFINE left == child[p].remainingtime - 1
  <2>1. /\ \A q \in Procs \ {p} : child'[q] = child[q]
        /\ child'[p].remainingtime = left /\ shmRT' = left
        /\ child'[p].pc = IF left > 0 THEN "down" ELSE "signal"
        /\ child[p].pc = "count"
    BY <1>2, <1>8 DEF ChildCount, Runs, ChildRec, AfterTick
  <2>2. child[p].remainingtime \in Nat /\ child[p].remainingtime >= 1
    BY <1>2, <2>1 DEF Shape, ChildRec
  <2>3. Carried'
    BY <1>6, <2>1, <2>2
  <2>4. child[p].remainingtime <= workload.runtime[p]
    BY <2>1 DEF Carried
  <2>5. /\ Used[p] = workload.runtime[p] - child[p].remainingtime
        /\ Used[p] < workload.runtime[p]
    BY <1>2, <2>1, <2>2, <2>4 DEF Used
  <2>6. Used' = [Used EXCEPT ![p] = @ + 1]
    <3>1. Used'[p] = Used[p] + 1
      BY <1>2, <1>3, <2>1, <2>2, <2>5 DEF Used
    <3>2. \A q \in Procs \ {p} : Used'[q] = Used[q]
      BY <1>3, <2>1 DEF Used
    <3>3. QED
      BY <3>1, <3>2 DEF Used
  <2>7. Sharing!Work(1)
    <3>1. OnCPU[1] = p
      BY <1>4 DEF OnCPU
    <3>2. QED
      BY <1>3, <1>4, <1>5, <2>5, <2>6, <3>1 DEF Sharing!Work, Present, OnCPU, Used, Done
  <2>8. QED
    BY <2>3, <2>7 DEF SharingStep, Sharing!SharingNext
<1>9. QED
  BY <1>7, <1>8 DEF Child

\* A process that arrives is not yet known.
LEMMA ReceiveShared ==
  ASSUME Shape, Places, Carried, ReceiveProcess, UNCHANGED <<clk, workload, genvars>>
  PROVE  Carried' /\ SharingStep
<1> DEFINE p == Head(msgq.arrived)
           b == NewPCB(p)
<1>1. /\ HPFTypeOK /\ msgq.arrived \in Seq(Procs) /\ msgq.arrived # <<>>
      /\ readyQueue \in Seq(Procs) /\ pcb \in [Procs -> PCBRec]
      /\ UNCHANGED <<workload, child, currProcess, shmRT>>
      /\ pcb' = [pcb EXCEPT ![p] = b] /\ readyQueue' = Enqueued(readyQueue, p)
  BY DEF Shape, HPFTypeOK, ReceiveProcess, childvars
<1>2. p \in Procs /\ p \in Sent
  BY <1>1, TailFacts DEF Sent
<1> HIDE DEF p
<1>3. Place(p)
  BY <1>2 DEF Places
<1>4. b.state = "W" /\ b.forked = FALSE
  BY DEF NewPCB
<1> HIDE DEF b
<1>5. ToSet(readyQueue') = ToSet(readyQueue) \cup {p}
  BY <1>1, <1>2, EnqueueSet DEF Enqueued
<1>6. /\ pcb'[p] = b /\ \A q \in Procs \ {p} : pcb'[q] = pcb[q]
      /\ child[p].pc = "none" /\ p # currProcess /\ p \notin ToSet(readyQueue) /\ ~Reaped(p)
  BY <1>1, <1>2, <1>3 DEF Place, Ready, Reaped
<1>7. \A q \in Procs : Reaped(q)' <=> Reaped(q)
  BY <1>4, <1>6 DEF Reaped
<1>8. Carried'
  BY <1>1, <1>4, <1>6, <1>7 DEF Carried
<1>9. Present' = Present \cup {p} /\ p \notin Present
  BY <1>1, <1>2, <1>5, <1>6, <1>7 DEF Present
<1>10. OnCPU' = OnCPU /\ Used' = Used /\ Done' = Done
  BY <1>1, <1>7 DEF OnCPU, Used, Done
<1>11. \E q \in Procs : Sharing!Arrive(q)
  BY <1>1, <1>2, <1>9, <1>10 DEF Sharing!Arrive, Present, OnCPU, Used, Done
<1>12. QED
  BY <1>8, <1>11 DEF SharingStep, Sharing!SharingNext

\* The preempted process is stopped with what it has had, and its remaining time
\* goes from the shared integer to its PCB.
LEMMA PreemptShared ==
  ASSUME Shape, Places, Carried, AlgoPreempt, UNCHANGED <<clk, workload, genvars>>
  PROVE  Carried' /\ SharingStep
<1> DEFINE p == currProcess
           b == [pcb[p] EXCEPT !.last_stopped = clk, !.state = "W", !.remaining_time = shmRT]
           c == [child[p] EXCEPT !.stopped = TRUE]
<1>1. /\ HPFTypeOK /\ p \in Procs /\ p # NoOne /\ readyQueue \in Seq(Procs)
      /\ pcb \in [Procs -> PCBRec] /\ child \in [Procs -> ChildRec]
      /\ UNCHANGED <<workload, shmRT>>
      /\ pcb' = [pcb EXCEPT ![p] = b] /\ readyQueue' = Enqueued(readyQueue, p)
      /\ currProcess' = NoOne
  BY DEF Shape, HPFTypeOK, ChildRec, AlgoPreempt, Saved, Requeued
<1>2. child' = [child EXCEPT ![p] = c]
  BY <1>1 DEF AlgoPreempt, Stopped, ChildRec
<1>3. /\ b.state = "W" /\ b.forked = pcb[p].forked /\ b.remaining_time = shmRT
      /\ c.pc = child[p].pc /\ c.remainingtime = child[p].remainingtime
  BY <1>1 DEF PCBRec, ChildRec
<1> HIDE DEF b, c
<1>4. /\ pcb'[p] = b /\ \A q \in Procs \ {p} : pcb'[q] = pcb[q]
      /\ child'[p] = c /\ \A q \in Procs \ {p} : child'[q] = child[q]
  BY <1>1, <1>2
<1>5. ToSet(readyQueue') = ToSet(readyQueue) \cup {p}
  BY <1>1, EnqueueSet DEF Enqueued
<1>6. \A q \in Procs : /\ child'[q].pc = child[q].pc
                       /\ child'[q].remainingtime = child[q].remainingtime
  BY <1>3, <1>4
<1>7. ~Reaped(p)
  BY <1>1 DEF Places, Place, Reaped
<1>8. \A q \in Procs : Reaped(q)' <=> Reaped(q)
  BY <1>3, <1>4, <1>7 DEF Reaped
<1>9. Carried'
  BY <1>1, <1>3, <1>4, <1>6, <1>7, <1>8, NoOneKnown DEF Carried
<1>10. Present' = Present
  BY <1>1, <1>5, <1>8, NoOneKnown DEF Present
<1>11. Used' = Used /\ Done' = Done
  BY <1>1, <1>6, <1>8 DEF Used, Done
<1>12. OnCPU[1] = p /\ OnCPU' = [OnCPU EXCEPT ![1] = NoOne]
  BY <1>1 DEF OnCPU
<1>13. Sharing!Release(1)
  BY <1>1, <1>10, <1>11, <1>12 DEF Sharing!Release, Present, OnCPU, Used, Done
<1>14. QED
  BY <1>9, <1>13 DEF SharingStep, Sharing!SharingNext

\* The process that gets the CPU is one that waits; a new child starts with the
\* whole runtime before it.
LEMMA DispatchShared ==
  ASSUME Shape, Places, Carried, AlgoDispatch, UNCHANGED <<clk, workload, genvars>>
  PROVE  Carried' /\ SharingStep
<1> DEFINE p == Head(readyQueue)
           b == [Charged(p) EXCEPT !.state = "R", !.forked = TRUE]
           c == IF pcb[p].forked THEN [child[p] EXCEPT !.stopped = FALSE]
                ELSE [NoChild EXCEPT !.pc = "boot", !.remainingtime = pcb[p].remaining_time]
<1>1. /\ HPFTypeOK /\ readyQueue \in Seq(Procs) /\ readyQueue # <<>>
      /\ pcb \in [Procs -> PCBRec] /\ child \in [Procs -> ChildRec]
      /\ UNCHANGED workload
      /\ pcb' = [pcb EXCEPT ![p] = b] /\ readyQueue' = Tail(readyQueue)
      /\ currProcess = NoOne /\ currProcess' = p /\ shmRT' = pcb[p].remaining_time
  BY DEF Shape, HPFTypeOK, ChildRec, AlgoDispatch
<1>2. p \in Procs /\ p \in Ready /\ ToSet(readyQueue) = {p} \cup ToSet(Tail(readyQueue))
  BY <1>1, TailFacts DEF Ready
<1>3. child' = [child EXCEPT ![p] = c]
  BY <1>1, <1>2 DEF AlgoDispatch
<1>4. b.state = "R" /\ b.forked = TRUE
  BY <1>1, <1>2, ChargedType DEF PCBRec
<1> HIDE DEF p
<1>5. /\ pcb[p].forked <=> child[p].pc # "none"
      /\ pcb[p].state = "W" /\ p # NoOne /\ ~Reaped(p)
  BY <1>2, NoOneKnown DEF Places, Place, Reaped
<1>6. /\ ~pcb[p].forked => pcb[p].remaining_time = workload.runtime[p]
      /\ workload.runtime[p] \in Nat /\ pcb[p].remaining_time \in Nat
  BY <1>1, <1>2, PCBType DEF Shape
<1>7. /\ c.pc # "none" /\ c.remainingtime = pcb[p].remaining_time
      /\ pcb[p].forked => c.pc = child[p].pc /\ c.remainingtime = child[p].remainingtime
      /\ ~pcb[p].forked => c.pc = "boot"
  <2>1. CASE pcb[p].forked
    <3>1. child[p] \in ChildRec /\ child[p].pc # "none"
      BY <1>1, <1>2, <1>5, <2>1
    <3>2. pcb[p].remaining_time = child[p].remainingtime
      BY <1>1, <1>2, <1>5, <2>1 DEF Carried
    <3>3. QED
      BY <2>1, <3>1, <3>2 DEF ChildRec
  <2>2. CASE ~pcb[p].forked
    BY <2>2 DEF NoChild
  <2>3. QED
    BY <2>1, <2>2
<1> HIDE DEF b, c
<1>8. /\ pcb'[p] = b /\ \A q \in Procs \ {p} : pcb'[q] = pcb[q]
      /\ child'[p] = c /\ \A q \in Procs \ {p} : child'[q] = child[q]
  BY <1>1, <1>2, <1>3
<1>9. \A q \in Procs : Reaped(q)' <=> Reaped(q)
  BY <1>4, <1>5, <1>8 DEF Reaped
<1>10. /\ c.remainingtime <= workload.runtime[p]
       /\ c.pc \in {"signal", "dead"} => c.remainingtime = 0
  <2>1. CASE pcb[p].forked
    BY <1>2, <1>5, <1>7, <2>1 DEF Carried
  <2>2. CASE ~pcb[p].forked
    BY <1>6, <1>7, <2>2
  <2>3. QED
    BY <2>1, <2>2
<1>11. Carried'
  <2>1. \A q \in Procs \ {p} : q # currProcess
    BY <1>1, NoOneKnown
  <2>2. QED
    BY <1>1, <1>5, <1>7, <1>8, <1>9, <1>10, <2>1 DEF Carried
<1>12. Used' = Used
  <2>1. Used'[p] = Used[p]
    <3>1. CASE pcb[p].forked
      BY <1>1, <1>2, <1>5, <1>7, <1>8, <3>1 DEF Used
    <3>2. CASE ~pcb[p].forked
      BY <1>1, <1>2, <1>5, <1>6, <1>7, <1>8, <3>2 DEF Used
    <3>3. QED
      BY <3>1, <3>2
  <2>2. \A q \in Procs \ {p} : Used'[q] = Used[q]
    BY <1>1, <1>8 DEF Used
  <2>3. QED
    BY <2>1, <2>2 DEF Used
<1>13. Done' = Done /\ Present' = Present
  BY <1>1, <1>2, <1>9, NoOneKnown DEF Present, Done
<1>14. OnCPU[1] = NoOne /\ OnCPU' = [OnCPU EXCEPT ![1] = p]
  BY <1>1 DEF OnCPU
<1>15. p \in Present \ Done
  BY <1>2, <1>5 DEF Present, Done, Ready
<1>16. Sharing!Dispatch(1, p)
  BY <1>1, <1>5, <1>12, <1>13, <1>14, <1>15 DEF Sharing!Dispatch, Present, OnCPU, Used, Done
<1>17. QED
  BY <1>2, <1>11, <1>16 DEF SharingStep, Sharing!SharingNext

\* A child ends when it has counted down its runtime, and only the end of the
\* current child lets waitpid return.
LEMMA ReapShared ==
  ASSUME Shape, Places, Carried, Reap, UNCHANGED <<clk, workload, genvars>>
  PROVE  Carried' /\ SharingStep
<1> DEFINE p == currProcess
           b == [pcb[p] EXCEPT !.finish_time = clk, !.state = "F", !.remaining_time = shmRT]
<1>1. HPFTypeOK /\ p \in Procs /\ p # NoOne
  <2>1. HPFTypeOK /\ currProcess # NoOne
    BY DEF Shape, Reap
  <2>2. QED
    BY <2>1 DEF HPFTypeOK
<1>2. /\ pcb' = [pcb EXCEPT ![p] = b] /\ currProcess' = NoOne /\ child[p].pc = "dead"
      /\ pcb \in [Procs -> PCBRec]
      /\ UNCHANGED <<workload, child, shmRT, readyQueue>>
  BY <1>1 DEF Reap, childvars, HPFTypeOK
<1>3. b.state = "F" /\ b.remaining_time = shmRT
  BY <1>1, <1>2 DEF PCBRec
<1> HIDE DEF b
<1>4. pcb'[p] = b /\ \A q \in Procs \ {p} : pcb'[q] = pcb[q]
  BY <1>1, <1>2
<1>5. \A q \in Procs : Reaped(q)' <=> q = p \/ Reaped(q)
  BY <1>3, <1>4 DEF Reaped
<1>6. child[p].remainingtime = 0 /\ shmRT = 0
  BY <1>1, <1>2 DEF Carried
<1>7. Carried'
  BY <1>1, <1>2, <1>3, <1>4, <1>5, <1>6, NoOneKnown DEF Carried
<1>8. Present' = Present /\ Done' = Done \cup {p} /\ Used' = Used
  BY <1>1, <1>2, <1>5, NoOneKnown DEF Present, Done, Used
<1>9. OnCPU[1] = p /\ OnCPU' = [OnCPU EXCEPT ![1] = NoOne]
  BY <1>2 DEF OnCPU
<1>10. Used[p] = workload.runtime[p]
  <2>1. workload.runtime[p] \in Nat
    BY <1>1, PCBType
  <2>2. QED
    BY <1>1, <1>2, <1>6, <2>1 DEF Used
<1>11. Sharing!Finish(1)
  BY <1>1, <1>2, <1>8, <1>9, <1>10 DEF Sharing!Finish, Present, OnCPU, Used, Done
<1>12. QED
  BY <1>7, <1>11 DEF SharingStep, Sharing!SharingNext

LEMMA StepShared ==
  ASSUME RightProgram, Shape, Places, Carried, [HPFNext]_hpfvars PROVE Carried' /\ SharingStep
<1>1. CASE UNCHANGED hpfvars \/ Terminated \/ ClockTick \/ Generator
  BY <1>1, PlainShared
<1>2. CASE \E p \in Procs : Child(p)
  BY <1>2, ChildShared
<1>3. CASE Scheduler
  BY <1>3, PlainShared, ReceiveShared, PreemptShared, DispatchShared, ReapShared DEF Scheduler
<1>4. QED
  BY <1>1, <1>2, <1>3 DEF HPFNext

LEMMA InitShared ==
  ASSUME HPFInit PROVE Carried /\ Sharing!SharingInit
<1>1. /\ workload \in Workloads /\ readyQueue = <<>> /\ currProcess = NoOne
      /\ \A p \in Procs : child[p].pc = "none" /\ pcb[p].forked = FALSE /\ ~Reaped(p)
  BY DEF HPFInit, NoChild, NewPCB, Reaped
<1>2. Carried
  BY <1>1, NoOneKnown DEF Carried
<1>3. workload.runtime \in [Procs -> Nat]
  BY <1>1, WorkloadType
<1>4. ToSet(<<>>) = {}
  BY DEF ToSet
<1>5. Present = {} /\ Done = {} /\ Used = [p \in Procs |-> 0]
  BY <1>1, <1>4, NoOneKnown DEF Present, Done, Used
<1>6. QED
  BY <1>1, <1>2, <1>3, <1>5 DEF Sharing!SharingInit, Present, Done, Used

LEMMA CarriedHolds ==
  ASSUME RightProgram PROVE HPFSpec => []Carried
<1>1. HPFInit => Carried
  BY InitShared
<1>2. Shape /\ Places /\ Carried /\ [HPFNext]_hpfvars => Carried'
  BY StepShared
<1>3. QED
  BY <1>1, <1>2, ShapeHolds, PTL DEF HPFSpec

\* SharesTheCPU: fork, SIGSTOP, SIGCONT, the permits of the semaphore and waitpid
\* together give each process its runtime, alone on the CPU, and finish it then;
\* provided that the children are of the program with the arguments they get.
THEOREM ImplementsSharing ==
  ASSUME RightProgram PROVE HPFSpec => SharesTheCPU
<1>1. HPFInit => Carried /\ Sharing!SharingInit
  BY InitShared
<1>2. Shape /\ Places /\ Carried /\ [HPFNext]_hpfvars => Carried' /\ SharingStep
  BY StepShared
<1>3. SharingStep <=> [Sharing!SharingNext]_(Sharing!sharingvars)
  BY DEF SharingStep
<1>4. QED
  BY <1>1, <1>2, <1>3, ShapeHolds, PTL DEF HPFSpec, SharesTheCPU, Sharing!SharingSpec

\* FinishedIsComplete: no process is recorded as finished with time remaining; the
\* same proviso is what the run claim_hpf_args shows to be broken in the build.
THEOREM CompleteWhenFinished ==
  ASSUME RightProgram PROVE HPFSpec => []FinishedIsComplete
<1>1. Carried => FinishedIsComplete
  BY DEF Carried, FinishedIsComplete, Reaped
<1>2. QED
  BY <1>1, CarriedHolds, PTL

-----------------------------------------------------------------------------
(* The loop and the clock.                                                  *)

Idle == currProcess = NoOne

\* Between the start of an iteration and its decision, and up to the grant if there
\* is somebody to grant it to, the clock stands still.
Paced ==
    /\ now = last_tick /\ -1 <= last_tick /\ last_tick <= clk
    /\ lastTime <= clk /\ (g_pc = "send" => lastTime <= g_now /\ g_now <= clk)
    /\ pc \in {"finish", "waitpid", "gate", "receive", "algo"} => clk = last_tick
    /\ ~Idle => pc \notin {"wait", "exited"} /\ last_tick >= 1 /\ (pc = "grant" => clk = last_tick)
    /\ ~Idle \/ pc \in {"receive", "algo"} => context_switch_until = -1
    /\ pc = "exited" => readyQueue = <<>> /\ ~receivingProcesses

\* The messages of this tick have not been received yet.
Expecting == \/ pc \in {"finish", "waitpid", "gate", "receive"}
             \/ pc \in {"spin", "wait", "grant"} /\ clk # last_tick

\* Who waits for messages gets one: the generator's last tick message is in the queue
\* until the iteration of that tick takes it, or its end message is.
Told ==
    /\ \A t \in ToSet(msgq.sync) : t <= lastTime
    /\ lastTime = clk /\ Expecting => lastTime \in ToSet(msgq.sync)
    /\ msgq.end \/ g_pc \in {"waitpid", "exited"} => g_queue = <<>>
    /\ g_pc \in {"waitpid", "exited"} => msgq.end \/ ~receivingProcesses
    /\ ~receivingProcesses => g_queue = <<>> /\ msgq.arrived = <<>>
    /\ pc = "receive" => receivingProcesses
    /\ \A p \in Sent : workload.arrival[p] <= clk

\* A tick was granted, if there was somebody to grant it to, and the clock has not
\* gone on.
Granted == pc = "spin" /\ clk = last_tick

\* What a child does with a tick, it has done when the next iteration starts: by then
\* it waits for a permit, or it is dead and its signal is pending.
Settled ==
    /\ sem = 1 => Granted /\ ~Idle /\ child[currProcess].pc \in {"boot", "down"}
    /\ processFinishedSignal => ~Idle /\ child[currProcess].pc = "dead" /\ pc \in {"spin", "finish"}
    /\ ~Idle =>
          /\ ~child[currProcess].stopped
          /\ pc = "waitpid" <=> child[currProcess].pc = "dead" /\ ~processFinishedSignal
          /\ child[currProcess].pc \in {"count", "signal"} => Granted
          /\ child[currProcess].pc = "boot" => pc = "grant" \/ (Granted /\ sem = 1)
          /\ child[currProcess].pc = "dead" => pc \in {"spin", "finish", "waitpid"}
    /\ \A p \in Procs : p # currProcess =>
          child[p].pc \in {"none", "down"} \/ (child[p].pc = "dead" /\ Reaped(p))

Timely == Paced /\ Told /\ Settled

LEMMA TimeTypes ==
  ASSUME Shape
  PROVE  /\ clk \in Nat /\ now \in Int /\ last_tick \in Int /\ lastTime \in Int /\ g_now \in Int
         /\ wait_until \in Int /\ context_switch_until \in Int /\ sem \in 0..1
         /\ currProcess \in Procs \cup {NoOne} /\ NoOne \notin Procs
         /\ lastGrant.at \in Int /\ lastGrant.to \in Procs \cup {NoOne}
         /\ msgq \in [arrived: Seq(Procs), sync: Seq(Int), end: BOOLEAN]
         /\ g_queue \in Seq(Procs) /\ readyQueue \in Seq(Procs)
         /\ child \in [Procs -> ChildRec] /\ pcb \in [Procs -> PCBRec]
<1>1. HPFTypeOK
  BY DEF Shape
<1>2. clk \in Nat
  BY <1>1, ClkType
<1>3. QED
  BY <1>1, <1>2, NoOneKnown DEF HPFTypeOK, ChildRec

LEMMA CurrentChild ==
  ASSUME Shape, Places, ~Idle
  PROVE  /\ currProcess \in Procs /\ pcb[currProcess].forked /\ pcb[currProcess].state = "R"
         /\ child[currProcess].pc \in {"boot", "down", "count", "signal", "dead"}
<1>1. currProcess \in Procs /\ child[currProcess] \in ChildRec
  BY TimeTypes DEF Idle
<1>2. Place(currProcess)
  BY <1>1 DEF Places
<1>3. QED
  BY <1>1, <1>2 DEF Place, ChildRec

\* The clock advances when the scheduler waits for it, the child of the current
\* process has used its tick, and the generator has announced this one.
LEMMA WhenClockTicks ==
  ASSUME Shape, Places, Timely, ClockTick
  PROVE  /\ clk' = clk + 1 /\ g_pc # "send"
         /\ UNCHANGED <<workload, genvars, msgq, childvars, sem, schedvars, lastGrant>>
         /\ \/ Granted /\ ~Idle /\ sem = 0 /\ child[currProcess].pc \in {"down", "dead"}
            \/ Granted /\ Idle
            \/ pc = "wait" /\ clk < wait_until
            \/ pc = "exited"
<1>1. /\ clk' = clk + 1 /\ SchedulerWaits /\ GeneratorWaits(pc = "exited")
      /\ \A p \in Procs : ChildWaits(p)
      /\ UNCHANGED <<workload, genvars, msgq, childvars, sem, schedvars, lastGrant>>
  BY DEF ClockTick
<1>2. g_pc # "send"
  BY <1>1 DEF GeneratorWaits
<1>3. pc # "waitpid"
  <2>1. ASSUME pc = "waitpid" PROVE FALSE
    <3>1. ~Idle
      BY <2>1 DEF Shape, Idle
    <3>2. child[currProcess].pc = "dead"
      BY <2>1, <3>1 DEF Timely, Settled
    <3>3. QED
      BY <1>1, <2>1, <3>2 DEF SchedulerWaits
  <2>2. QED
    BY <2>1
<1>4. pc # "receive"
  <2>1. ASSUME pc = "receive" PROVE FALSE
    <3>1. msgq.sync = <<>> /\ msgq.end = FALSE /\ receivingProcesses
      BY <1>1, <2>1 DEF SchedulerWaits, NoMessage, Timely, Told
    <3>2. ToSet(<<>>) = {}
      BY DEF ToSet
    <3>3. g_pc = "poll" /\ clk = lastTime
      BY <1>1, <3>1 DEF GeneratorWaits, Timely, Told
    <3>4. QED
      BY <2>1, <3>1, <3>2, <3>3 DEF Timely, Told, Expecting
  <2>2. QED
    BY <2>1
<1>5. CASE Granted /\ ~Idle
  <2>1. /\ currProcess \in Procs
        /\ child[currProcess].pc \in {"boot", "down", "count", "signal", "dead"}
    BY <1>5, CurrentChild
  <2>2. ~child[currProcess].stopped
    BY <1>5 DEF Timely, Settled
  <2>3. child[currProcess].pc \in {"down", "dead"} /\ (child[currProcess].pc = "down" => sem = 0)
    BY <1>1, <2>1, <2>2 DEF ChildWaits
  <2>4. sem = 0
    BY <2>3, TimeTypes DEF Timely, Settled
  <2>5. QED
    BY <1>1, <1>2, <1>5, <2>3, <2>4
<1>6. CASE ~(Granted /\ ~Idle)
  BY <1>1, <1>2, <1>3, <1>4, <1>6 DEF SchedulerWaits, Granted
<1>7. QED
  BY <1>5, <1>6

LEMMA PacedStep ==
  ASSUME Shape, Places, Timely, [HPFNext]_hpfvars PROVE Paced'
<1>1. /\ clk \in Nat /\ now \in Int /\ last_tick \in Int /\ lastTime \in Int /\ g_now \in Int
      /\ currProcess \in Procs \cup {NoOne} /\ NoOne \notin Procs /\ context_switch_until \in Int
      /\ Paced
  BY TimeTypes DEF Timely
<1>2. CASE UNCHANGED hpfvars \/ Terminated \/ \E p \in Procs : Child(p)
  <2>1. UNCHANGED <<clk, g_pc, g_now, lastTime, pc, now, last_tick, currProcess, readyQueue,
                    receivingProcesses, context_switch_until>>
    BY <1>2 DEF hpfvars, Terminated, Child, genvars, schedvars, queuevars, loopvars
  <2>2. QED
    BY <1>1, <2>1 DEF Paced, Idle
<1>3. CASE ClockTick
  BY <1>1, <1>3, WhenClockTicks DEF Paced, Idle, Granted, genvars, schedvars, queuevars, loopvars
<1>4. CASE Generator
  BY <1>1, <1>4 DEF Generator, GenStep, GenPoll, GenSend, GenSync, GenEnd, GenShutdown, Paced, Idle,
     schedvars, queuevars, loopvars
<1>5. CASE Scheduler
  <2>1. UNCHANGED <<clk, g_pc, g_now, lastTime>>
    BY <1>5 DEF Scheduler, genvars
  <2>2. CASE NewTick \/ Exit \/ FinishCheck \/ Gate
    BY <1>1, <2>1, <2>2 DEF NewTick, Exit, FinishCheck, Gate, Goto, Paced, Idle, Busy, loopvars, queuevars
  <2>3. CASE ReceiveProcess \/ ReceiveSync \/ ReceiveEnd
    BY <1>1, <2>1, <2>3 DEF ReceiveProcess, ReceiveSync, ReceiveEnd, Goto, Paced, Idle, loopvars, queuevars
  <2>4. CASE Reap
    BY <1>1, <2>1, <2>4 DEF Reap, Goto, Paced, Idle
  <2>5. CASE AlgoPreempt \/ AlgoDispatch \/ AlgoNothing
    BY <1>1, <2>1, <2>5 DEF AlgoPreempt, AlgoDispatch, AlgoNothing, Goto, Paced, Idle, loopvars, queuevars
  <2>6. CASE WaitOver \/ Grant
    BY <1>1, <2>1, <2>6 DEF WaitOver, Grant, Goto, Paced, Idle, loopvars, queuevars
  <2>7. QED
    BY <1>5, <2>2, <2>3, <2>4, <2>5, <2>6 DEF Scheduler
<1>6. QED
  BY <1>2, <1>3, <1>4, <1>5 DEF HPFNext

LEMMA ToldStep ==
  ASSUME Shape, Places, Timely, [HPFNext]_hpfvars PROVE Told'
<1>1. /\ clk \in Nat /\ now \in Int /\ last_tick \in Int /\ lastTime \in Int /\ g_now \in Int
      /\ Paced /\ Told
      /\ msgq \in [arrived: Seq(Procs), sync: Seq(Int), end: BOOLEAN] /\ g_queue \in Seq(Procs)
      /\ \A p \in Procs : workload.arrival[p] \in Nat
  BY TimeTypes, PCBType DEF Timely, Shape
<1>2. CASE UNCHANGED hpfvars \/ Terminated \/ \E p \in Procs : Child(p)
  <2>1. UNCHANGED <<clk, workload, g_pc, g_queue, lastTime, msgq, pc, last_tick, receivingProcesses>>
    BY <1>2 DEF hpfvars, Terminated, Child, genvars, schedvars, loopvars
  <2>2. QED
    BY <1>1, <2>1 DEF Told, Expecting, Sent
<1>3. CASE ClockTick
  <2>1. /\ clk' = clk + 1
        /\ UNCHANGED <<workload, g_pc, g_queue, lastTime, msgq, pc, receivingProcesses>>
    BY <1>3, WhenClockTicks DEF genvars, schedvars
  <2>2. Sent' = Sent /\ \A p \in Sent : workload.arrival[p] <= clk + 1
    BY <1>1, <2>1, SetsKnown DEF Told, Sent, Shape
  <2>3. QED
    BY <1>1, <2>1, <2>2 DEF Told, Paced
<1>4. CASE Generator
  <2>1. UNCHANGED <<clk, workload, pc, last_tick, receivingProcesses>>
    BY <1>4 DEF Generator, schedvars, loopvars
  <2>2. CASE GenPoll \/ GenShutdown(pc = "exited")
    BY <1>1, <2>1, <2>2 DEF GenPoll, GenShutdown, Told, Expecting, Sent
  <2>3. CASE GenSend
    <3> DEFINE p == Head(g_queue)
               a == Append(msgq.arrived, p)
    <3>1. /\ g_queue # <<>> /\ workload.arrival[p] <= g_now /\ g_pc = "send"
          /\ msgq' = [msgq EXCEPT !.arrived = a]
          /\ UNCHANGED <<g_pc, g_now, lastTime>>
      BY <2>3 DEF GenSend, Arrived
    <3>2. p \in Procs /\ ToSet(a) = ToSet(msgq.arrived) \cup {p}
      BY <1>1, <3>1, TailFacts, AppendFacts
    <3> HIDE DEF p, a
    <3>3. msgq'.arrived = a /\ msgq'.sync = msgq.sync /\ msgq'.end = msgq.end
      BY <1>1, <3>1
    <3>4. workload.arrival[p] <= clk
      BY <1>1, <3>1, <3>2 DEF Paced
    <3>5. \A q \in Sent' : workload'.arrival[q] <= clk'
      BY <1>1, <2>1, <3>2, <3>3, <3>4 DEF Sent, Told
    <3>6. QED
      BY <1>1, <2>1, <3>1, <3>3, <3>5 DEF Told, Expecting
  <2>4. CASE GenSync
    <3> DEFINE s == Append(msgq.sync, g_now)
    <3>1. /\ g_pc = "send" /\ msgq' = [msgq EXCEPT !.sync = s] /\ lastTime' = g_now
          /\ g_pc' = "poll" /\ g_queue' = g_queue
      BY <2>4 DEF GenSync
    <3>2. ToSet(s) = ToSet(msgq.sync) \cup {g_now} /\ ToSet(msgq.sync) \subseteq Int
      <4>1. msgq.sync \in Seq(Int)
        BY <1>1
      <4>2. ToSet(msgq.sync) \subseteq Int
        BY <4>1 DEF ToSet
      <4>3. QED
        BY <1>1, <4>1, <4>2, AppendFacts
    <3> HIDE DEF s
    <3>3. msgq'.arrived = msgq.arrived /\ msgq'.sync = s /\ msgq'.end = msgq.end
      BY <1>1, <3>1
    <3>4. \A t \in ToSet(s) : t <= g_now
      BY <1>1, <3>1, <3>2 DEF Told, Paced
    <3>5. QED
      BY <1>1, <2>1, <3>1, <3>2, <3>3, <3>4 DEF Told, Expecting, Sent
  <2>5. CASE GenEnd
    <3>1. msgq'.arrived = msgq.arrived /\ msgq'.sync = msgq.sync /\ msgq'.end = TRUE
      BY <1>1, <2>5 DEF GenEnd
    <3>2. QED
      BY <1>1, <2>1, <2>5, <3>1 DEF GenEnd, Told, Expecting, Sent
  <2>6. QED
    BY <1>4, <2>2, <2>3, <2>4, <2>5 DEF Generator, GenStep
<1>5. CASE Scheduler
  <2>1. UNCHANGED <<clk, workload, g_pc, g_queue, lastTime>>
    BY <1>5 DEF Scheduler, genvars
  <2>2. CASE UNCHANGED <<msgq, receivingProcesses>>
    <3>1. Expecting' => Expecting
      BY <1>1, <1>5, <2>1, <2>2 DEF Scheduler, NewTick, Exit, FinishCheck, Reap, Gate, ReceiveProcess,
         ReceiveSync, ReceiveEnd, AlgoPreempt, WaitOver, AlgoDispatch, AlgoNothing, Grant, Goto,
         loopvars, Expecting, Paced, Idle
    <3>2. pc' = "receive" => pc = "receive" \/ receivingProcesses
      BY <1>5, <2>2 DEF Scheduler, NewTick, Exit, FinishCheck, Reap, Gate, ReceiveProcess,
         ReceiveSync, ReceiveEnd, AlgoPreempt, WaitOver, AlgoDispatch, AlgoNothing, Grant, Goto
    <3>3. QED
      BY <1>1, <2>1, <2>2, <3>1, <3>2 DEF Told, Sent
  <2>3. CASE ReceiveProcess
    <3> DEFINE a == Tail(msgq.arrived)
    <3>1. msgq.arrived # <<>> /\ msgq' = [msgq EXCEPT !.arrived = a]
          /\ UNCHANGED <<pc, last_tick, receivingProcesses>>
      BY <2>3 DEF ReceiveProcess, loopvars
    <3>2. ToSet(a) \subseteq ToSet(msgq.arrived)
      BY <1>1, <3>1, TailFacts
    <3> HIDE DEF a
    <3>3. msgq'.arrived = a /\ msgq'.sync = msgq.sync /\ msgq'.end = msgq.end
      BY <1>1, <3>1
    <3>4. receivingProcesses
      BY <1>1, <2>3 DEF Told, ReceiveProcess
    <3>5. QED
      BY <1>1, <2>1, <3>1, <3>2, <3>3, <3>4 DEF Told, Expecting, Sent
  <2>4. CASE ReceiveSync
    <3> DEFINE s == Tail(msgq.sync)
               t == Head(msgq.sync)
    <3>1. /\ pc = "receive" /\ msgq.sync # <<>> /\ msgq' = [msgq EXCEPT !.sync = s]
          /\ UNCHANGED <<last_tick, receivingProcesses>>
          /\ (pc' = "algo" \/ (pc' = pc /\ t < now))
      <4>1. t \in Int
        BY <1>1, <2>4 DEF ReceiveSync
      <4>2. QED
        BY <1>1, <2>4, <4>1 DEF ReceiveSync, loopvars, SyncReached, Goto
    <3>2. ToSet(msgq.sync) = ToSet(s) \cup {t}
      BY <1>1, <3>1, TailFacts
    <3> HIDE DEF s, t
    <3>3. msgq'.arrived = msgq.arrived /\ msgq'.sync = s /\ msgq'.end = msgq.end
      BY <1>1, <3>1
    <3>4. lastTime = clk /\ pc' = pc => lastTime \in ToSet(s)
      BY <1>1, <3>1, <3>2 DEF Told, Expecting, Paced
    <3>5. QED
      BY <1>1, <2>1, <3>1, <3>2, <3>3, <3>4 DEF Told, Expecting, Sent
  <2>5. CASE ReceiveEnd
    <3>1. /\ msgq.end = TRUE /\ msgq.arrived = <<>> /\ pc' = "algo" /\ receivingProcesses' = FALSE
          /\ msgq'.arrived = msgq.arrived /\ msgq'.sync = msgq.sync /\ msgq'.end = FALSE
      BY <1>1, <2>5 DEF ReceiveEnd, Goto
    <3>2. QED
      BY <1>1, <2>1, <3>1 DEF Told, Expecting, Sent
  <2>6. QED
    BY <1>5, <2>2, <2>3, <2>4, <2>5 DEF Scheduler, NewTick, Exit, FinishCheck, Reap, Gate, AlgoPreempt,
       WaitOver, AlgoDispatch, AlgoNothing, Grant
<1>6. QED
  BY <1>2, <1>3, <1>4, <1>5 DEF HPFNext

\* A child takes a step only as the current one, before the next tick.
LEMMA ChildSettled ==
  ASSUME RightProgram, Shape, Places, Timely, NEW p \in Procs, Child(p) PROVE Settled'
<1>1. /\ sem \in 0..1 /\ NoOne \notin Procs /\ child \in [Procs -> ChildRec]
      /\ child[p] \in ChildRec
      /\ Settled /\ Places /\ ~(ArgsGiven < ArgsNeeded)
  BY TimeTypes, HPFAssumption DEF Timely, RightProgram, ArgsGiven
<1>2. UNCHANGED <<clk, pc, last_tick, currProcess, pcb>>
  BY DEF Child, schedvars, queuevars, loopvars
<1>3. /\ child[p].pc \in {"boot", "down", "count", "signal"} /\ ~child[p].stopped
      /\ \A q \in Procs \ {p} : child'[q] = child[q]
      /\ child'[p].stopped = child[p].stopped
      /\ child'[p].pc # "none"
  BY <1>1 DEF Child, ChildBoot, ChildDown, ChildCount, ChildExit, Runs, AfterTick, ChildRec
<1>4. p = currProcess /\ ~Idle
  BY <1>1, <1>3 DEF Places, Place, Idle
<1>5. /\ Idle' <=> Idle
      /\ Granted' <=> Granted
      /\ \A q \in Procs : q # currProcess =>
            child'[q].pc \in {"none", "down"} \/ (child'[q].pc = "dead" /\ Reaped(q)')
  BY <1>1, <1>2, <1>3, <1>4 DEF Idle, Granted, Settled, Reaped
<1>6. CASE ChildBoot(p)
  <2>1. child[p].pc = "boot" /\ child'[p].pc = "down" /\ UNCHANGED <<sem, processFinishedSignal>>
    BY <1>1, <1>6 DEF ChildBoot, Runs, ChildRec
  <2>2. QED
    BY <1>1, <1>2, <1>3, <1>4, <1>5, <2>1 DEF Settled
<1>7. CASE ChildDown(p)
  <2>1. /\ child[p].pc = "down" /\ child'[p].pc = "count" /\ sem = 1 /\ sem' = 0
        /\ UNCHANGED processFinishedSignal
    BY <1>1, <1>7 DEF ChildDown, Runs, ChildRec
  <2>2. QED
    BY <1>1, <1>2, <1>3, <1>4, <1>5, <2>1 DEF Settled, Granted
<1>8. CASE ChildCount(p)
  <2>1. /\ child[p].pc = "count" /\ child'[p].pc \in {"down", "signal"}
        /\ UNCHANGED <<sem, processFinishedSignal>>
    BY <1>1, <1>8 DEF ChildCount, Runs, AfterTick, ChildRec
  <2>2. QED
    BY <1>1, <1>2, <1>3, <1>4, <1>5, <2>1 DEF Settled, Granted
<1>9. CASE ChildExit(p)
  <2>1. /\ child[p].pc = "signal" /\ child'[p].pc = "dead" /\ processFinishedSignal' = TRUE
        /\ UNCHANGED sem
    BY <1>1, <1>9 DEF ChildExit, Runs, ChildRec
  <2>2. QED
    BY <1>1, <1>2, <1>3, <1>4, <1>5, <2>1 DEF Settled, Granted
<1>10. QED
  BY <1>6, <1>7, <1>8, <1>9 DEF Child

LEMMA SettledStep ==
  ASSUME RightProgram, Shape, Places, Timely, [HPFNext]_hpfvars PROVE Settled'
<1>1. /\ clk \in Nat /\ now \in Int /\ last_tick \in Int /\ sem \in 0..1
      /\ currProcess \in Procs \cup {NoOne} /\ NoOne \notin Procs
      /\ child \in [Procs -> ChildRec] /\ pcb \in [Procs -> PCBRec]
      /\ readyQueue \in Seq(Procs)
      /\ Paced /\ Settled
  BY TimeTypes DEF Timely
<1>2. CASE UNCHANGED hpfvars \/ Terminated \/ Generator
  <2>1. UNCHANGED <<clk, pc, last_tick, currProcess, child, sem, processFinishedSignal, pcb>>
    BY <1>2 DEF hpfvars, Terminated, Generator, childvars, schedvars, queuevars, loopvars
  <2>2. QED
    BY <1>1, <2>1 DEF Settled, Idle, Granted, Reaped
<1>3. CASE ClockTick
  <2>1. /\ clk' = clk + 1
        /\ UNCHANGED <<pc, last_tick, currProcess, child, sem, processFinishedSignal, pcb>>
        /\ ~Idle => Granted /\ sem = 0 /\ child[currProcess].pc \in {"down", "dead"}
    BY <1>1, <1>3, WhenClockTicks DEF childvars, schedvars, queuevars, loopvars, Paced
  <2>2. QED
    BY <1>1, <2>1 DEF Settled, Idle, Granted, Reaped
<1>4. CASE \E p \in Procs : Child(p)
  BY <1>4, ChildSettled
<1>5. CASE Scheduler
  <2>1. clk' = clk
    BY <1>5 DEF Scheduler
  <2>2. CASE NewTick \/ Exit \/ FinishCheck \/ Gate \/ ReceiveProcess \/ ReceiveSync \/ ReceiveEnd
             \/ WaitOver \/ AlgoNothing \/ Grant
    <3>1. /\ UNCHANGED <<child, currProcess>>
          /\ \A p \in Procs : Reaped(p) => Reaped(p)'
      <4>1. CASE ReceiveProcess
        <5> DEFINE q == Head(msgq.arrived)
        <5>1. msgq.arrived \in Seq(Procs) /\ msgq.arrived # <<>>
          BY <4>1 DEF ReceiveProcess, Shape, HPFTypeOK
        <5>2. q \in Procs /\ q \in Sent
          BY <5>1, TailFacts DEF Sent
        <5>3. pcb[q].state = "W"
          BY <5>2 DEF Places, Place
        <5>4. \A p \in Procs \ {q} : pcb'[p] = pcb[p]
          BY <1>1, <4>1, <5>2 DEF ReceiveProcess
        <5> HIDE DEF q
        <5>5. QED
          BY <4>1, <5>3, <5>4 DEF ReceiveProcess, childvars, Reaped
      <4>2. CASE ~ReceiveProcess
        BY <2>2, <4>2 DEF NewTick, Exit, FinishCheck, Gate, ReceiveSync, ReceiveEnd, WaitOver,
           AlgoNothing, Grant, childvars, queuevars, Reaped
      <4>3. QED
        BY <4>1, <4>2
    <3>2. \A p \in Procs : p # currProcess' =>
             child'[p].pc \in {"none", "down"} \/ (child'[p].pc = "dead" /\ Reaped(p)')
      BY <1>1, <3>1 DEF Settled
    <3>3. CASE NewTick \/ Exit
      BY <1>1, <2>1, <3>1, <3>2, <3>3
         DEF NewTick, Exit, Goto, Settled, Idle, Granted, childvars, loopvars, Busy
    <3>4. CASE FinishCheck
      BY <1>1, <2>1, <3>1, <3>2, <3>4 DEF FinishCheck, Goto, Settled, Idle, Granted, loopvars
    <3>5. CASE Gate
      BY <1>1, <2>1, <3>1, <3>2, <3>5 DEF Gate, Goto, Settled, Idle, Granted, childvars
    <3>6. CASE ReceiveProcess \/ ReceiveSync \/ ReceiveEnd \/ WaitOver \/ AlgoNothing
      BY <1>1, <2>1, <3>1, <3>2, <3>6 DEF ReceiveProcess, ReceiveSync, ReceiveEnd, WaitOver,
         AlgoNothing, Goto, Settled, Idle, Granted, childvars, loopvars
    <3>7. CASE Grant
      <4>1. ~Idle => /\ child[currProcess].pc \in {"boot", "down", "count", "signal", "dead"}
                     /\ clk = last_tick
        BY <1>1, <3>7, CurrentChild DEF Paced, Grant
      <4>2. QED
        BY <1>1, <2>1, <3>1, <3>2, <3>7, <4>1 DEF Grant, Goto, Settled, Idle, Granted, childvars, loopvars
    <3>8. QED
      BY <2>2, <3>3, <3>4, <3>5, <3>6, <3>7
  <2>3. CASE Reap
    <3>1. ~Idle /\ currProcess \in Procs
      BY <1>1, <2>3 DEF Reap, Shape, Idle
    <3> DEFINE c == currProcess
               b == [pcb[c] EXCEPT !.finish_time = clk, !.state = "F", !.remaining_time = shmRT]
    <3>2. /\ pcb' = [pcb EXCEPT ![c] = b] /\ child' = child /\ currProcess' = NoOne
          /\ UNCHANGED <<sem, processFinishedSignal>> /\ pc = "waitpid" /\ pc' = "gate"
          /\ child[c].pc = "dead"
      BY <2>3 DEF Reap, childvars, Goto
    <3>3. b.state = "F"
      BY <1>1, <3>1 DEF PCBRec
    <3> HIDE DEF b, c
    <3>4. \A p \in Procs : Reaped(p)' <=> p = c \/ Reaped(p)
      BY <1>1, <3>2, <3>3 DEF Reaped
    <3>5. QED
      BY <1>1, <3>1, <3>2, <3>4 DEF Settled, Idle, Granted, c
  <2>4. CASE AlgoPreempt
    <3>1. ~Idle /\ currProcess \in Procs
      BY <1>1, <2>4 DEF AlgoPreempt, Idle
    <3> DEFINE c == currProcess
    <3>2. /\ pcb' = Saved(c) /\ child' = Stopped(c) /\ currProcess' = NoOne
          /\ UNCHANGED <<sem, processFinishedSignal>> /\ pc = "algo" /\ pc' = "wait"
      BY <2>4 DEF AlgoPreempt, Goto
    <3>3. child[c].pc = "down"
      BY <1>1, <3>1, <3>2, CurrentChild DEF Settled, Granted
    <3> HIDE DEF c
    <3>4. \A p \in Procs : child'[p].pc = child[p].pc
      BY <1>1, <3>2 DEF Stopped, ChildRec
    <3>5. pcb[c].state = "R"
      BY <3>1, CurrentChild DEF c
    <3>6. \A p \in Procs : Reaped(p) => p # c /\ pcb'[p] = pcb[p]
      BY <1>1, <3>2, <3>5 DEF Saved, Reaped
    <3>7. QED
      BY <1>1, <3>1, <3>2, <3>3, <3>4, <3>6 DEF Settled, Idle, Granted, Reaped, c
  <2>5. CASE AlgoDispatch
    <3> DEFINE p == Head(readyQueue)
               d == IF pcb[p].forked THEN [child[p] EXCEPT !.stopped = FALSE]
                    ELSE [NoChild EXCEPT !.pc = "boot", !.remainingtime = pcb[p].remaining_time]
               b == [Charged(p) EXCEPT !.state = "R", !.forked = TRUE]
    <3>1. /\ readyQueue # <<>> /\ pc = "algo" /\ pc' = "grant" /\ Idle /\ currProcess' = p
          /\ pcb' = [pcb EXCEPT ![p] = b]
          /\ child' = [child EXCEPT ![p] = d]
          /\ UNCHANGED <<sem, processFinishedSignal>>
      BY <1>1, <2>5 DEF AlgoDispatch, Goto, Idle
    <3>2. p \in Procs /\ p \in Ready
      BY <1>1, <3>1, TailFacts DEF Ready
    <3>3. pcb[p].state = "W" /\ (pcb[p].forked <=> child[p].pc # "none")
      BY <3>2 DEF Places, Place
    <3>4. d.pc \in {"boot", "down"} /\ d.stopped = FALSE
      <4>1. child[p] \in ChildRec /\ (pcb[p].forked => child[p].pc = "down")
        BY <1>1, <3>1, <3>2, <3>3 DEF Settled, Reaped, Idle
      <4>2. QED
        BY <4>1 DEF ChildRec, NoChild
    <3> HIDE DEF p, d, b
    <3>5. /\ child'[p] = d /\ p # NoOne
          /\ \A q \in Procs \ {p} : child'[q] = child[q] /\ pcb'[q] = pcb[q]
      BY <1>1, <3>1, <3>2
    <3>6. QED
      BY <1>1, <3>1, <3>2, <3>4, <3>5 DEF Settled, Idle, Granted, Reaped
  <2>6. QED
    BY <1>5, <2>2, <2>3, <2>4, <2>5 DEF Scheduler
<1>6. QED
  BY <1>2, <1>3, <1>4, <1>5 DEF HPFNext

LEMMA InitTimely ==
  ASSUME HPFInit PROVE Timely
<1>1. /\ clk = 0 /\ lastTime = -1 /\ g_pc = "poll" /\ msgq = NoMessage
      /\ child = [p \in Procs |-> NoChild] /\ sem = 0 /\ processFinishedSignal = FALSE
      /\ pc = "spin" /\ now = -1 /\ last_tick = -1 /\ currProcess = NoOne /\ receivingProcesses = TRUE
  BY DEF HPFInit, GenInit
<1>2. ToSet(<<>>) = {}
  BY DEF ToSet
<1>3. Idle
  BY <1>1 DEF Idle
<1>4. Paced
  BY <1>1, <1>3 DEF Paced
<1>5. Told
  BY <1>1, <1>2 DEF Told, Sent, NoMessage, Expecting
<1>6. Settled
  BY <1>1, <1>3 DEF Settled, NoChild
<1>7. QED
  BY <1>4, <1>5, <1>6 DEF Timely

LEMMA TimelyHolds ==
  ASSUME RightProgram PROVE HPFSpec => []Timely
<1>1. HPFInit => Timely
  BY InitTimely
<1>2. Shape /\ Places /\ Timely /\ [HPFNext]_hpfvars => Timely'
  BY PacedStep, ToldStep, SettledStep DEF Timely
<1>3. QED
  BY <1>1, <1>2, ShapeHolds, PTL DEF HPFSpec


-----------------------------------------------------------------------------
(* Every tick goes to the right process, and a switch costs one.            *)

\* When the scheduler decides, it knows everybody who has arrived, and it grants the
\* tick to the best of them.
Announced ==
    /\ \A p \in Unsent : workload.arrival[p] > lastTime
    /\ pc = "algo" \/ (pc = "grant" /\ ~Idle) =>
          \A p \in Unsent \cup Sent : workload.arrival[p] > clk
    /\ pc = "grant" /\ ~Idle =>
          \A p \in Ready : workload.priority[currProcess] <= workload.priority[p]

LEMMA FrontIsBest ==
  ASSUME Shape, Ordered, readyQueue # <<>>
  PROVE  \A p \in Ready : workload.priority[Head(readyQueue)] <= workload.priority[p]
<1>1. /\ readyQueue \in Seq(Procs) /\ workload.priority \in [Procs -> Nat]
      /\ \A a, b : Before(readyQueue, a, b) => Precedes(a, b, workload.priority, workload.arrival)
  BY TimeTypes, WorkloadType, InOrderBefore DEF Ordered, Shape, HPFTypeOK
<1>2. /\ Head(readyQueue) \in Procs
      /\ Ready = {Head(readyQueue)} \cup ToSet(Tail(readyQueue))
      /\ Tail(readyQueue) \in Seq(Procs)
      /\ \A b \in ToSet(Tail(readyQueue)) : Before(readyQueue, Head(readyQueue), b)
  BY <1>1, TailFacts, BeforeTail DEF Ready
<1>3. ASSUME NEW p \in Ready
      PROVE  workload.priority[Head(readyQueue)] <= workload.priority[p]
  <2>1. p \in Procs
    BY SetsKnown DEF Shape
  <2>2. p = Head(readyQueue)
        \/ Precedes(Head(readyQueue), p, workload.priority, workload.arrival)
    BY <1>1, <1>2
  <2>3. QED
    BY <1>1, <1>2, <2>1, <2>2 DEF Precedes
<1>4. QED
  BY <1>3

LEMMA AnnouncedStep ==
  ASSUME Shape, Places, Ordered, Timely, Announced, [HPFNext]_hpfvars PROVE Announced'
<1>1. /\ clk \in Nat /\ now \in Int /\ last_tick \in Int /\ lastTime \in Int /\ g_now \in Int
      /\ currProcess \in Procs \cup {NoOne} /\ NoOne \notin Procs
      /\ Paced /\ Told /\ Announced
      /\ msgq \in [arrived: Seq(Procs), sync: Seq(Int), end: BOOLEAN]
      /\ g_queue \in Seq(Procs) /\ readyQueue \in Seq(Procs)
      /\ \A p \in Procs : workload.arrival[p] \in Nat
      /\ Unsent \subseteq Procs /\ Sent \subseteq Procs
  BY TimeTypes, PCBType, SetsKnown DEF Timely, Shape
<1>2. ASSUME UNCHANGED <<clk, workload, g_queue, lastTime, pc, currProcess, readyQueue>>,
             msgq'.arrived = msgq.arrived
      PROVE  Announced'
  BY <1>1, <1>2 DEF Announced, Unsent, Sent, Ready, Idle
<1>3. CASE UNCHANGED hpfvars \/ Terminated \/ \E p \in Procs : Child(p)
  <2>1. UNCHANGED <<clk, workload, g_queue, lastTime, msgq, pc, currProcess, readyQueue>>
    BY <1>3 DEF hpfvars, Terminated, Child, genvars, schedvars, queuevars
  <2>2. QED
    BY <1>2, <2>1
<1>4. CASE ClockTick
  <2>1. /\ UNCHANGED <<workload, g_queue, lastTime, msgq, pc, currProcess, readyQueue>>
        /\ pc # "algo" /\ ~(pc = "grant" /\ ~Idle)
    BY <1>1, <1>4, WhenClockTicks DEF Granted, genvars, schedvars, queuevars
  <2>2. QED
    BY <1>1, <2>1 DEF Announced, Unsent, Idle
<1>5. CASE Generator
  <2>1. UNCHANGED <<clk, workload, pc, currProcess, readyQueue>>
    BY <1>5 DEF Generator, schedvars, queuevars
  <2>2. CASE GenPoll \/ GenShutdown(pc = "exited")
    BY <1>2, <2>1, <2>2 DEF GenPoll, GenShutdown
  <2>3. CASE GenEnd
    BY <1>1, <1>2, <2>1, <2>3 DEF GenEnd
  <2>4. CASE GenSend
    <3> DEFINE p == Head(g_queue)
               a == Append(msgq.arrived, p)
    <3>1. /\ g_queue # <<>> /\ msgq' = [msgq EXCEPT !.arrived = a] /\ g_queue' = Tail(g_queue)
          /\ UNCHANGED lastTime
      BY <2>4 DEF GenSend, Arrived
    <3>2. p \in Procs /\ ToSet(a) = Sent \cup {p} /\ Unsent = Unsent' \cup {p}
      BY <1>1, <3>1, TailFacts, AppendFacts DEF Sent, Unsent
    <3> HIDE DEF p, a
    <3>3. Unsent' \cup Sent' = Unsent \cup Sent /\ Unsent' \subseteq Unsent
      BY <1>1, <3>1, <3>2 DEF Sent
    <3>4. QED
      BY <1>1, <2>1, <3>1, <3>3 DEF Announced, Ready, Idle
  <2>5. CASE GenSync
    <3>1. ~Arrived /\ g_queue' = g_queue /\ lastTime' = g_now /\ msgq'.arrived = msgq.arrived
      BY <1>1, <2>5 DEF GenSync
    <3>2. ASSUME NEW p \in Unsent PROVE workload.arrival[p] > g_now
      <4>1. g_queue # <<>>
        BY <3>2 DEF Unsent, ToSet
      <4>2. /\ Head(g_queue) \in Procs
            /\ p = Head(g_queue) \/ Before(g_queue, Head(g_queue), p)
        BY <1>1, <3>2, <4>1, TailFacts, BeforeTail DEF Unsent
      <4>3. workload.arrival[Head(g_queue)] > g_now
        BY <1>1, <3>1, <4>1, <4>2 DEF Arrived
      <4>4. workload.arrival[Head(g_queue)] <= workload.arrival[p]
        BY <1>1, <3>2, <4>2 DEF Ordered, InTime
      <4>5. QED
        BY <1>1, <3>2, <4>2, <4>3, <4>4
    <3>3. QED
      BY <1>1, <2>1, <3>1, <3>2 DEF Announced, Unsent, Sent, Ready, Idle
  <2>6. QED
    BY <1>5, <2>2, <2>3, <2>4, <2>5 DEF Generator, GenStep
<1>6. CASE Scheduler
  <2>1. UNCHANGED <<clk, workload, g_queue, lastTime>>
    BY <1>6 DEF Scheduler, genvars
  <2>2. Unsent' = Unsent /\ (\A p \in Unsent' : workload'.arrival[p] > lastTime')
    BY <1>1, <2>1 DEF Announced, Unsent
  <2>3. CASE NewTick \/ Exit \/ FinishCheck \/ Reap \/ ReceiveProcess \/ Grant \/ WaitOver \/ AlgoPreempt
    <3>1. pc' # "algo" /\ ~(pc' = "grant" /\ ~Idle')
      BY <1>1, <2>3 DEF NewTick, Exit, FinishCheck, Reap, ReceiveProcess, Grant, WaitOver, AlgoPreempt,
         Goto, Paced, Idle, queuevars
    <3>2. QED
      BY <2>2, <3>1 DEF Announced
  <2>4. CASE Gate
    <3>1. pc' = "algo" => ~receivingProcesses
      BY <2>4 DEF Gate, Goto
    <3>2. ToSet(<<>>) = {}
      BY DEF ToSet
    <3>3. pc' = "algo" => Unsent' \cup Sent' = {}
      BY <1>1, <2>1, <2>4, <3>1, <3>2 DEF Told, Gate, Unsent, Sent
    <3>4. pc' # "grant"
      BY <2>4 DEF Gate, Goto
    <3>5. QED
      BY <2>2, <3>3, <3>4 DEF Announced
  <2>5. CASE ReceiveSync
    <3> DEFINE t == Head(msgq.sync)
    <3>1. pc' = "algo" => t >= now
      BY <2>5 DEF ReceiveSync, SyncReached, Goto
    <3>2. /\ pc = "receive" /\ msgq.arrived = <<>> /\ msgq.sync # <<>> /\ pc' \in {"receive", "algo"}
          /\ msgq'.arrived = <<>>
      BY <1>1, <2>5 DEF ReceiveSync, Goto
    <3>3. t \in Int /\ t \in ToSet(msgq.sync)
      BY <1>1, <3>2, TailFacts
    <3> HIDE DEF t
    <3>4. pc' = "algo" => clk <= lastTime
      BY <1>1, <3>1, <3>2, <3>3 DEF Told, Paced
    <3>5. Sent' = {}
      BY <3>2 DEF Sent, ToSet
    <3>6. pc' = "algo" => \A p \in Unsent : workload.arrival[p] > clk
      BY <1>1, <3>4 DEF Announced
    <3>7. QED
      BY <2>1, <2>2, <3>2, <3>5, <3>6 DEF Announced
  <2>6. CASE ReceiveEnd
    <3>1. g_queue = <<>> /\ msgq'.arrived = <<>> /\ pc' = "algo"
      BY <1>1, <2>6 DEF ReceiveEnd, Told, Goto
    <3>2. Unsent' \cup Sent' = {}
      BY <2>1, <3>1 DEF Unsent, Sent, ToSet
    <3>3. QED
      BY <2>2, <3>1, <3>2 DEF Announced
  <2>7. CASE AlgoDispatch
    <3>1. /\ pc = "algo" /\ pc' = "grant" /\ msgq' = msgq /\ readyQueue # <<>>
          /\ currProcess' = Head(readyQueue) /\ readyQueue' = Tail(readyQueue)
      BY <2>7 DEF AlgoDispatch, Goto
    <3>2. Ready' \subseteq Ready
      BY <1>1, <3>1, TailFacts DEF Ready
    <3>3. \A p \in Ready' : workload.priority[Head(readyQueue)] <= workload.priority[p]
      BY <3>1, <3>2, FrontIsBest
    <3>4. Sent' = Sent
      BY <3>1 DEF Sent
    <3>5. QED
      BY <1>1, <2>1, <2>2, <3>1, <3>3, <3>4 DEF Announced
  <2>8. CASE AlgoNothing
    <3>1. /\ pc = "algo" /\ pc' = "grant" /\ UNCHANGED <<msgq, currProcess, readyQueue>>
      BY <2>8 DEF AlgoNothing, Goto, queuevars
    <3>2. Sent' = Sent /\ Ready' = Ready /\ (Idle' <=> Idle)
      BY <3>1 DEF Sent, Ready, Idle
    <3>3. ASSUME ~Idle, NEW p \in Ready
          PROVE  workload.priority[currProcess] <= workload.priority[p]
      <4>1. readyQueue # <<>>
        BY <3>3 DEF Ready, ToSet
      <4>2. ~Preempts
        BY <1>1, <2>8, <3>1, <3>3, <4>1 DEF AlgoNothing, Paced, Idle
      <4>3. workload.priority[Head(readyQueue)] <= workload.priority[p]
        BY <3>3, <4>1, FrontIsBest
      <4>4. /\ currProcess \in Procs /\ Head(readyQueue) \in Procs /\ p \in Procs
            /\ workload.priority \in [Procs -> Nat]
        BY <1>1, <3>3, <4>1, TailFacts, SetsKnown, WorkloadType DEF Idle, Shape, HPFTypeOK
      <4>5. QED
        BY <4>2, <4>3, <4>4 DEF Preempts
    <3>4. QED
      BY <1>1, <2>1, <2>2, <3>1, <3>2, <3>3 DEF Announced
  <2>9. QED
    BY <1>6, <2>3, <2>4, <2>5, <2>6, <2>7, <2>8 DEF Scheduler
<1>7. QED
  BY <1>3, <1>4, <1>5, <1>6 DEF HPFNext

LEMMA GrantsToBest ==
  ASSUME Shape, Places, Timely, Announced, [HPFNext]_hpfvars, lastGrant' # lastGrant
  PROVE  \A p \in ToSet(workload.order) :
            workload.arrival[p] <= clk /\ pcb[p].state # "F" =>
                workload.priority[lastGrant'.to] <= workload.priority[p]
<1>1. Grant /\ ~Idle /\ lastGrant'.to = currProcess /\ pc = "grant"
  BY DEF HPFNext, hpfvars, Terminated, ClockTick, Generator, Child, Scheduler, NewTick, Exit, FinishCheck,
     Reap, Gate, ReceiveProcess, ReceiveSync, ReceiveEnd, AlgoPreempt, WaitOver, AlgoDispatch,
     AlgoNothing, Grant, Idle
<1>2. ASSUME NEW p \in ToSet(workload.order), workload.arrival[p] <= clk, pcb[p].state # "F"
      PROVE  workload.priority[currProcess] <= workload.priority[p]
  <2>1. /\ p \in Procs /\ clk \in Nat /\ workload.arrival[p] \in Nat
        /\ workload.priority[p] \in Nat
    <3>1. p \in Procs
      BY <1>2, SetsKnown DEF Shape
    <3>2. workload \in Workloads
      BY DEF Shape, HPFTypeOK
    <3>3. QED
      BY <3>1, <3>2, WorkloadType, TimeTypes
  <2>2. p \in Located
    BY <1>2, <2>1 DEF Places, Place
  <2>3. p \notin Unsent \cup Sent
    BY <1>1, <1>2, <2>1 DEF Announced
  <2>4. CASE p \in Ready
    BY <1>1, <2>4 DEF Announced
  <2>5. CASE p = currProcess
    BY <2>1, <2>5
  <2>6. QED
    BY <2>2, <2>3, <2>4, <2>5 DEF Located, Current
<1>3. QED
  BY <1>1, <1>2


\* How long ago the last tick was granted, whenever another process may be next: the
\* tick of a switch is spent at the gate after an end, in wait_N_secs after a
\* preemption.
Spaced ==
    /\ ~Idle /\ currProcess # lastGrant.to =>
          pc = "grant" /\ (lastGrant.to = NoOne \/ lastGrant.at + 2 <= clk)
    /\ lastGrant.to # NoOne =>
          /\ lastGrant.at <= clk
          /\ ~Granted \/ Idle => lastGrant.at < clk
          /\ pc = "wait" => lastGrant.at + 2 <= wait_until
          /\ Idle /\ ~Granted /\ pc \notin {"wait", "exited"}
                  /\ (pc = "gate" => now >= context_switch_until)
               => lastGrant.at + 2 <= clk

LEMMA SpacedStep ==
  ASSUME Shape, Places, Timely, Spaced, [HPFNext]_hpfvars
  PROVE  /\ Spaced'
         /\ lastGrant'.to # lastGrant.to /\ lastGrant.to # NoOne => lastGrant'.at >= lastGrant.at + 2
<1>1. /\ clk \in Nat /\ now \in Int /\ last_tick \in Int /\ wait_until \in Int
      /\ context_switch_until \in Int
      /\ currProcess \in Procs \cup {NoOne} /\ NoOne \notin Procs
      /\ lastGrant.at \in Int /\ lastGrant.to \in Procs \cup {NoOne}
      /\ Paced /\ Spaced
  BY TimeTypes DEF Timely
<1>2. CASE UNCHANGED hpfvars \/ Terminated \/ Generator \/ \E p \in Procs : Child(p)
  <2>1. UNCHANGED <<clk, pc, now, last_tick, wait_until, context_switch_until, currProcess, lastGrant>>
    BY <1>2 DEF hpfvars, Terminated, Generator, Child, schedvars, queuevars, loopvars
  <2>2. QED
    BY <1>1, <2>1 DEF Spaced, Idle, Granted
<1>3. CASE ClockTick
  <2>1. /\ clk' = clk + 1
        /\ UNCHANGED <<pc, now, last_tick, wait_until, context_switch_until, currProcess, lastGrant>>
        /\ Granted \/ pc \in {"wait", "exited"}
    BY <1>3, WhenClockTicks DEF schedvars, queuevars, loopvars
  <2>2. QED
    BY <1>1, <2>1 DEF Spaced, Idle, Granted, Paced
<1>4. CASE Scheduler
  <2>1. clk' = clk
    BY <1>4 DEF Scheduler
  <2>2. CASE NewTick \/ Exit
    BY <1>1, <2>1, <2>2 DEF NewTick, Exit, Goto, Busy, Spaced, Idle, Granted, Paced, loopvars, queuevars
  <2>3. CASE FinishCheck
    BY <1>1, <2>1, <2>3 DEF FinishCheck, Goto, Spaced, Idle, Granted, loopvars, queuevars
  <2>4. CASE Reap
    <3>1. /\ pc = "waitpid" /\ pc' = "gate" /\ currProcess' = NoOne /\ ~Idle
          /\ context_switch_until' = clk + 1
          /\ UNCHANGED <<now, last_tick, wait_until, lastGrant>>
      BY <2>4 DEF Reap, SwitchUntil, Goto, Shape, Idle
    <3>2. QED
      BY <1>1, <2>1, <3>1 DEF Spaced, Idle, Granted, Paced
  <2>5. CASE Gate
    BY <1>1, <2>1, <2>5 DEF Gate, Goto, Spaced, Idle, Granted, Paced, queuevars
  <2>6. CASE ReceiveProcess \/ ReceiveSync \/ ReceiveEnd
    BY <1>1, <2>1, <2>6 DEF ReceiveProcess, ReceiveSync, ReceiveEnd, Goto, Spaced, Idle, Granted,
       loopvars, queuevars
  <2>7. CASE AlgoPreempt
    <3>1. /\ pc = "algo" /\ pc' = "wait" /\ currProcess' = NoOne /\ ~Idle /\ wait_until' = clk + 1
          /\ UNCHANGED <<now, last_tick, lastGrant>>
      BY <2>7 DEF AlgoPreempt, SwitchUntil, Goto, Idle
    <3>2. QED
      BY <1>1, <2>1, <3>1 DEF Spaced, Idle, Granted
  <2>8. CASE AlgoDispatch
    <3>1. /\ pc = "algo" /\ pc' = "grant" /\ Idle /\ UNCHANGED <<loopvars, lastGrant>>
      BY <2>8 DEF AlgoDispatch, Goto, Idle
    <3>2. QED
      BY <1>1, <2>1, <3>1 DEF Spaced, Idle, Granted, loopvars
  <2>9. CASE AlgoNothing \/ WaitOver
    BY <1>1, <2>1, <2>9 DEF AlgoNothing, WaitOver, Goto, Spaced, Idle, Granted, Paced, loopvars, queuevars
  <2>10. CASE Grant
    <3>1. CASE Idle
      BY <1>1, <2>1, <2>10, <3>1 DEF Grant, Goto, Spaced, Idle, Granted, loopvars, queuevars
    <3>2. CASE ~Idle
      <4>1. /\ lastGrant'.to = currProcess /\ lastGrant'.at = clk /\ pc = "grant" /\ pc' = "spin"
            /\ UNCHANGED <<now, last_tick, currProcess>>
        BY <2>10, <3>2 DEF Grant, Goto, Idle, loopvars, queuevars
      <4>2. QED
        BY <1>1, <2>1, <3>2, <4>1 DEF Spaced, Idle, Granted, Paced
    <3>3. QED
      BY <3>1, <3>2
  <2>11. QED
    BY <1>4, <2>2, <2>3, <2>4, <2>5, <2>6, <2>7, <2>8, <2>9, <2>10 DEF Scheduler
<1>5. QED
  BY <1>2, <1>3, <1>4 DEF HPFNext

LEMMA InitSpaced ==
  ASSUME HPFInit PROVE Announced /\ Spaced
<1>1. /\ clk = 0 /\ lastTime = -1 /\ pc = "spin" /\ currProcess = NoOne /\ lastGrant.to = NoOne
      /\ workload \in Workloads /\ g_queue = workload.order
  BY DEF HPFInit, GenInit
<1>2. \A p \in Unsent : workload.arrival[p] \in Nat
  <2>1. Unsent \subseteq Procs
    BY <1>1, WorkloadType DEF Unsent, ToSet
  <2>2. QED
    BY <1>1, <2>1, WorkloadType
<1>3. QED
  BY <1>1, <1>2 DEF Announced, Spaced, Idle

\* TicksGranted: a tick never goes to a process while one with a better priority has
\* arrived, received or not, and is not finished; and between the ticks of two
\* different processes one is left unused.  Provided that the file lists the
\* processes in the order they arrive, and that the children run their program.
THEOREM TicksToTheBest ==
  ASSUME SortedFiles, RightProgram PROVE HPFSpec => TicksGranted
<1> DEFINE Best == \A p \in ToSet(workload.order) :
                      workload.arrival[p] <= clk /\ pcb[p].state # "F" =>
                          workload.priority[lastGrant'.to] <= workload.priority[p]
           Apart == lastGrant'.to # lastGrant.to /\ lastGrant.to # NoOne =>
                       lastGrant'.at >= lastGrant.at + 2
<1>1. HPFInit => Ordered /\ Announced /\ Spaced
  BY InitOrdered, InitSpaced
<1>2. /\ Shape /\ Places /\ Timely /\ Ordered /\ Announced /\ Spaced /\ [HPFNext]_hpfvars
      => /\ (Ordered /\ Announced /\ Spaced)'
         /\ [lastGrant' # lastGrant => Best]_hpfvars
         /\ [Apart]_hpfvars
  BY StepOrdered, AnnouncedStep, SpacedStep, GrantsToBest
<1>3. QED
  BY <1>1, <1>2, ShapeHolds, TimelyHolds, PTL
     DEF HPFSpec, TicksGranted, GrantToHighest, ContextSwitchCosts


-----------------------------------------------------------------------------
(* Time adds up.                                                            *)

\* The current process has used the tick that is passing.
Ran == /\ Granted /\ ~Idle /\ sem = 0
       /\ child[currProcess].pc \in {"down", "signal", "dead"}

Moment == IF Ran THEN clk + 1 ELSE clk

\* What the child of p has done, once there is one.
Ticks(p) == workload.runtime[p] - child[p].remainingtime

\* From its arrival on every tick of a process was used or is charged as waiting: up to
\* this moment for the current one, up to its stop for one that was preempted, up to
\* its end for one that finished.
Charge(p) ==
    /\ ~pcb[p].forked =>
          pcb[p].waiting_time = 0 /\ pcb[p].start_time = -1 /\ pcb[p].last_stopped = -1
    /\ pcb[p].forked => pcb[p].start_time # -1
    /\ p = currProcess => Moment - workload.arrival[p] = Ticks(p) + pcb[p].waiting_time
    /\ p # currProcess /\ pcb[p].forked /\ ~Reaped(p) =>
          /\ pcb[p].last_stopped >= 0
          /\ pcb[p].last_stopped - workload.arrival[p] = Ticks(p) + pcb[p].waiting_time
    /\ Reaped(p) =>
          pcb[p].finish_time - workload.arrival[p] = workload.runtime[p] + pcb[p].waiting_time

Charges == \A p \in Procs : Charge(p)

LEMMA KeepsCharge ==
  ASSUME NEW p \in Procs, Charge(p), workload' = workload, pcb'[p] = pcb[p],
         child'[p].remainingtime = child[p].remainingtime,
         p = currProcess' <=> p = currProcess,
         p = currProcess => Moment' = Moment
  PROVE  Charge(p)'
BY DEF Charge, Ticks, Reaped

\* A child counts a tick when the one granted passes; all its other steps change none
\* of the sums.
LEMMA ChildMoment ==
  ASSUME RightProgram, Shape, Places, Timely, NEW p \in Procs, Child(p)
  PROVE  /\ UNCHANGED <<clk, workload, pcb, currProcess, readyQueue, perf, pc>> /\ p = currProcess /\ ~Idle
         /\ \A q \in Procs \ {p} : child'[q] = child[q]
         /\ child[p].pc # "none" /\ child'[p].pc # "none"
         /\ \/ /\ Moment' = Moment /\ child'[p].remainingtime = child[p].remainingtime
            \/ /\ Moment' = Moment + 1
               /\ child'[p].remainingtime = child[p].remainingtime - 1
               /\ child[p].remainingtime >= 1
<1>1. /\ sem \in 0..1 /\ NoOne \notin Procs /\ child \in [Procs -> ChildRec] /\ clk \in Nat
      /\ child[p] \in ChildRec /\ child[p].remainingtime \in Nat
      /\ Settled /\ Places /\ ~(ArgsGiven < ArgsNeeded)
      /\ child[p].pc \in {"boot", "down", "count"} => child[p].remainingtime >= 1
  BY TimeTypes, HPFAssumption DEF Timely, RightProgram, ArgsGiven, ChildRec, Shape
<1>2. UNCHANGED <<clk, workload, pc, last_tick, currProcess, pcb, readyQueue, perf>>
  BY DEF Child, schedvars, queuevars, loopvars
<1>3. /\ child[p].pc \in {"boot", "down", "count", "signal"} /\ ~child[p].stopped
      /\ \A q \in Procs \ {p} : child'[q] = child[q]
      /\ child'[p].pc # "none"
  BY <1>1 DEF Child, ChildBoot, ChildDown, ChildCount, ChildExit, Runs, AfterTick, ChildRec
<1>4. p = currProcess /\ ~Idle
  BY <1>1, <1>3 DEF Places, Place, Idle
<1>5. (Idle' <=> Idle) /\ (Granted' <=> Granted) /\ currProcess' = p
  BY <1>2, <1>4 DEF Idle, Granted
<1>6. CASE ChildBoot(p)
  <2>1. /\ child[p].pc = "boot" /\ child'[p].pc = "down" /\ UNCHANGED sem
        /\ child'[p].remainingtime = child[p].remainingtime
    BY <1>1, <1>6 DEF ChildBoot, Runs, ChildRec
  <2>2. ~Ran /\ ~Ran'
    BY <1>1, <1>4, <1>5, <2>1 DEF Ran, Settled, Granted
  <2>3. QED
    BY <1>2, <1>3, <1>4, <2>1, <2>2 DEF Moment
<1>7. CASE ChildDown(p)
  <2>1. /\ child[p].pc = "down" /\ child'[p].pc = "count" /\ sem = 1
        /\ child'[p].remainingtime = child[p].remainingtime
    BY <1>1, <1>7 DEF ChildDown, Runs, ChildRec
  <2>2. ~Ran /\ ~Ran'
    BY <1>4, <1>5, <2>1 DEF Ran
  <2>3. QED
    BY <1>2, <1>3, <1>4, <2>1, <2>2 DEF Moment
<1>8. CASE ChildCount(p)
  <2>1. /\ child[p].pc = "count" /\ child'[p].pc \in {"down", "signal"} /\ UNCHANGED sem
        /\ child'[p].remainingtime = child[p].remainingtime - 1
    BY <1>1, <1>8 DEF ChildCount, Runs, AfterTick, ChildRec
  <2>2. ~Ran /\ Ran'
    BY <1>1, <1>4, <1>5, <2>1 DEF Ran, Settled
  <2>3. Moment' = Moment + 1
    BY <1>1, <1>2, <2>2 DEF Moment
  <2>4. QED
    BY <1>1, <1>2, <1>3, <1>4, <2>1, <2>3
<1>9. CASE ChildExit(p)
  <2>1. /\ child[p].pc = "signal" /\ child'[p].pc = "dead" /\ UNCHANGED sem
        /\ child'[p].remainingtime = child[p].remainingtime
    BY <1>1, <1>9 DEF ChildExit, Runs, ChildRec
  <2>2. Ran' <=> Ran
    BY <1>4, <1>5, <2>1 DEF Ran
  <2>3. Moment' = Moment
    BY <1>2, <2>2 DEF Moment
  <2>4. QED
    BY <1>2, <1>3, <1>4, <2>1, <2>3
<1>10. QED
  BY <1>6, <1>7, <1>8, <1>9 DEF Child

\* The scheduler decides when the tick granted has passed.
LEMMA SchedulerMoment ==
  ASSUME Shape, Places, Timely, Scheduler
  PROVE  Moment = clk /\ Moment' = clk /\ clk' = clk /\ workload' = workload
<1>1. /\ clk \in Nat /\ now \in Int /\ last_tick \in Int /\ context_switch_until \in Int
      /\ currProcess \in Procs \cup {NoOne} /\ NoOne \notin Procs
      /\ Paced /\ Settled /\ clk' = clk /\ workload' = workload
  BY TimeTypes DEF Timely, Scheduler
<1>2. ~Ran
  BY DEF Scheduler, NewTick, Exit, FinishCheck, Reap, Gate, ReceiveProcess, ReceiveSync, ReceiveEnd,
     AlgoPreempt, WaitOver, AlgoDispatch, AlgoNothing, Grant, Ran, Granted, Idle, Busy
<1>3. ~Ran'
  <2>1. CASE Grant
    BY <1>1, <2>1 DEF Grant, Ran, Idle, queuevars
  <2>2. CASE Gate
    <3>1. ~Idle => pc' # "spin"
      BY <1>1, <2>2 DEF Gate, Goto, Paced
    <3>2. QED
      BY <2>2, <3>1 DEF Gate, Ran, Granted, Idle, queuevars
  <2>3. CASE ~Grant /\ ~Gate
    <3>1. pc' # "spin"
      BY <2>3 DEF Scheduler, NewTick, Exit, FinishCheck, Reap, ReceiveProcess, ReceiveSync, ReceiveEnd,
         AlgoPreempt, WaitOver, AlgoDispatch, AlgoNothing, Goto
    <3>2. QED
      BY <3>1 DEF Ran, Granted
  <2>4. QED
    BY <2>1, <2>2, <2>3
<1>4. QED
  BY <1>1, <1>2, <1>3 DEF Moment

LEMMA ClockMoment ==
  ASSUME Shape, Places, Timely, ClockTick
  PROVE  /\ Moment' = clk + 1 /\ Moment \in {clk, clk + 1} /\ (~Idle => Moment = clk + 1)
         /\ UNCHANGED <<workload, pcb, child, currProcess, readyQueue, perf, pc>>
<1>1. /\ clk \in Nat /\ last_tick \in Int /\ Paced
  BY TimeTypes DEF Timely
<1>2. /\ clk' = clk + 1
      /\ UNCHANGED <<workload, pcb, child, currProcess, readyQueue, perf, pc, last_tick, sem>>
      /\ ~Idle => Granted /\ sem = 0 /\ child[currProcess].pc \in {"down", "dead"}
  BY <1>1, WhenClockTicks DEF childvars, schedvars, queuevars, loopvars, Paced
<1>3. ~Ran'
  BY <1>1, <1>2 DEF Ran, Granted, Paced
<1>4. ~Idle => Ran
  BY <1>2 DEF Ran
<1>5. QED
  BY <1>1, <1>2, <1>3, <1>4 DEF Moment


LEMMA ChargeTypes ==
  ASSUME Shape, NEW p \in Procs
  PROVE  /\ workload.arrival[p] \in Nat /\ workload.runtime[p] \in Nat \ {0}
         /\ child[p].remainingtime \in Nat /\ Ticks(p) \in Int /\ clk \in Nat
         /\ pcb[p] \in PCBRec /\ pcb[p].start_time \in Int /\ pcb[p].finish_time \in Int
         /\ pcb[p].waiting_time \in Int /\ pcb[p].last_stopped \in Int /\ pcb[p].forked \in BOOLEAN
<1>1. HPFTypeOK /\ child[p] \in ChildRec /\ clk \in Nat
  BY TimeTypes DEF Shape
<1>2. child[p].remainingtime \in Nat
  BY <1>1 DEF ChildRec
<1>3. workload.arrival[p] \in Nat /\ workload.runtime[p] \in Nat \ {0} /\ pcb[p] \in PCBRec
  BY <1>1, PCBType
<1>4. /\ pcb[p].start_time \in Int /\ pcb[p].finish_time \in Int /\ pcb[p].waiting_time \in Int
      /\ pcb[p].last_stopped \in Int /\ pcb[p].forked \in BOOLEAN
  BY <1>3 DEF PCBRec
<1>5. QED
  BY <1>1, <1>2, <1>3, <1>4 DEF Ticks

LEMMA ReapCharges ==
  ASSUME Shape, Places, Timely, Carried, Charges, Reap, Scheduler PROVE Charges'
<1>1. PICK c \in Procs : /\ c = currProcess /\ c # NoOne /\ child[c].pc = "dead"
                          /\ pcb \in [Procs -> PCBRec] /\ NoOne \notin Procs
  BY TimeTypes DEF Reap, Shape
<1> DEFINE b == [pcb[c] EXCEPT !.finish_time = clk, !.state = "F", !.remaining_time = shmRT]
<1>2. pcb' = [pcb EXCEPT ![c] = b] /\ child' = child /\ currProcess' = NoOne
  BY <1>1 DEF Reap, childvars
<1>3. Moment = clk /\ Moment' = clk /\ workload' = workload
  BY SchedulerMoment
<1>4. /\ b.finish_time = clk /\ b.state = "F" /\ b.waiting_time = pcb[c].waiting_time
      /\ b.forked = pcb[c].forked /\ b.start_time = pcb[c].start_time
      /\ b.last_stopped = pcb[c].last_stopped
  BY <1>1 DEF PCBRec
<1>5. child[c].remainingtime = 0
  BY <1>1 DEF Carried
<1> HIDE DEF b
<1>6. Charge(c)'
  <2>1. pcb'[c] = b
    BY <1>1, <1>2
  <2>2. Charge(c)
    BY <1>1 DEF Charges
  <2>3. clk - workload.arrival[c] = workload.runtime[c] + pcb[c].waiting_time
    <3>1. Moment - workload.arrival[c] = Ticks(c) + pcb[c].waiting_time
      BY <1>1, <2>2 DEF Charge
    <3>2. QED
      BY <1>1, <1>3, <1>5, <3>1, ChargeTypes DEF Ticks
  <2>4. CASE pcb[c].forked
    BY <1>1, <1>2, <1>3, <1>4, <2>1, <2>2, <2>3, <2>4 DEF Charge, Reaped
  <2>5. pcb[c].forked
    BY <1>1 DEF Places, Place
  <2>6. QED
    BY <2>4, <2>5
<1>7. ASSUME NEW q \in Procs, q # c PROVE Charge(q)'
  <2>1. Charge(q)
    BY DEF Charges
  <2>2. pcb'[q] = pcb[q] /\ q # currProcess' /\ q # currProcess
    BY <1>1, <1>2, <1>7
  <2>3. QED
    BY <1>2, <1>3, <2>1, <2>2, KeepsCharge
<1>8. QED
  BY <1>6, <1>7 DEF Charges

LEMMA PreemptCharges ==
  ASSUME Shape, Places, Timely, Charges, AlgoPreempt, Scheduler PROVE Charges'
<1>1. PICK c \in Procs : /\ c = currProcess /\ c # NoOne /\ pcb \in [Procs -> PCBRec]
                          /\ NoOne \notin Procs /\ child \in [Procs -> ChildRec]
  BY TimeTypes DEF AlgoPreempt
<1> DEFINE b == [pcb[c] EXCEPT !.last_stopped = clk, !.state = "W", !.remaining_time = shmRT]
<1>2. pcb' = [pcb EXCEPT ![c] = b] /\ child' = Stopped(c) /\ currProcess' = NoOne
  BY <1>1 DEF AlgoPreempt, Saved
<1>3. Moment = clk /\ Moment' = clk /\ workload' = workload
  BY SchedulerMoment
<1>4. /\ b.last_stopped = clk /\ b.state = "W" /\ b.waiting_time = pcb[c].waiting_time
      /\ b.forked = pcb[c].forked /\ b.start_time = pcb[c].start_time
  BY <1>1 DEF PCBRec
<1> HIDE DEF b
<1>5. \A q \in Procs : child'[q].remainingtime = child[q].remainingtime
  BY <1>1, <1>2 DEF Stopped, ChildRec
<1>6. Charge(c)'
  <2>1. pcb'[c] = b
    BY <1>1, <1>2
  <2>2. Charge(c) /\ pcb[c].forked
    BY <1>1 DEF Charges, Places, Place
  <2>3. /\ clk >= 0
        /\ clk - workload.arrival[c] = Ticks(c) + pcb[c].waiting_time
        /\ Ticks(c)' = Ticks(c)
    BY <1>1, <1>3, <1>5, <2>2, ChargeTypes DEF Charge, Ticks
  <2>4. QED
    BY <1>1, <1>2, <1>3, <1>4, <2>1, <2>2, <2>3 DEF Charge, Reaped
<1>7. ASSUME NEW q \in Procs, q # c PROVE Charge(q)'
  <2>1. Charge(q)
    BY DEF Charges
  <2>2. pcb'[q] = pcb[q] /\ q # currProcess' /\ q # currProcess
    BY <1>1, <1>2, <1>7
  <2>3. QED
    BY <1>3, <1>5, <2>1, <2>2, KeepsCharge
<1>8. QED
  BY <1>6, <1>7 DEF Charges

LEMMA DispatchCharges ==
  ASSUME Shape, Places, Timely, Charges, AlgoDispatch, Scheduler PROVE Charges'
<1>1. /\ pcb \in [Procs -> PCBRec] /\ NoOne \notin Procs /\ child \in [Procs -> ChildRec]
      /\ readyQueue \in Seq(Procs) /\ readyQueue # <<>> /\ currProcess = NoOne
  BY TimeTypes DEF AlgoDispatch
<1>2. PICK p \in Procs : p = Head(readyQueue) /\ p \in Ready
  BY <1>1, TailFacts DEF Ready
<1> DEFINE a == Charged(p)
           b == [a EXCEPT !.state = "R", !.forked = TRUE]
           d == IF pcb[p].forked THEN [child[p] EXCEPT !.stopped = FALSE]
                ELSE [NoChild EXCEPT !.pc = "boot", !.remainingtime = pcb[p].remaining_time]
<1>3. /\ pcb' = [pcb EXCEPT ![p] = b] /\ currProcess' = p
      /\ child' = [child EXCEPT ![p] = d]
  BY <1>2 DEF AlgoDispatch
<1>4. Moment' = clk /\ workload' = workload
  BY SchedulerMoment
<1>5. pcb[p].state = "W" /\ Charge(p)
  BY <1>2 DEF Places, Place, Charges
<1>6. /\ workload.arrival[p] \in Nat /\ workload.runtime[p] \in Nat /\ clk \in Nat
      /\ child[p].remainingtime \in Nat
      /\ pcb[p] \in PCBRec /\ pcb[p].waiting_time \in Int /\ pcb[p].last_stopped \in Int
      /\ pcb[p].start_time \in Int
      /\ ~pcb[p].forked => pcb[p].remaining_time = workload.runtime[p]
  BY <1>2, ChargeTypes DEF Shape
<1>7. d.remainingtime = IF pcb[p].forked THEN child[p].remainingtime ELSE workload.runtime[p]
  BY <1>1, <1>2, <1>6 DEF ChildRec, NoChild
<1>8. /\ a \in PCBRec /\ a.start_time # -1
      /\ clk - workload.arrival[p] = (workload.runtime[p] - d.remainingtime) + a.waiting_time
  <2>1. CASE pcb[p].forked
    <3>1. /\ pcb[p].start_time # -1 /\ pcb[p].last_stopped >= 0
          /\ pcb[p].last_stopped - workload.arrival[p] = Ticks(p) + pcb[p].waiting_time
      BY <1>1, <1>2, <1>5, <2>1 DEF Charge, Reaped
    <3> DEFINE w == pcb[p].waiting_time + clk - pcb[p].last_stopped
    <3>2. w \in Int
      BY <1>6
    <3>3. a = [pcb[p] EXCEPT !.waiting_time = w]
      BY <1>6, <2>1, <3>1 DEF Charged
    <3>4. clk - workload.arrival[p] = Ticks(p) + w
      BY <1>6, <3>1 DEF Ticks
    <3> HIDE DEF w, a
    <3>5. a \in PCBRec /\ a.start_time # -1 /\ a.waiting_time = w
      BY <1>6, <3>1, <3>2, <3>3 DEF PCBRec
    <3>6. QED
      BY <1>7, <2>1, <3>4, <3>5 DEF Ticks
  <2>2. CASE ~pcb[p].forked
    <3>1. pcb[p].start_time = -1
      BY <1>5, <2>2 DEF Charge
    <3> DEFINE w == clk - workload.arrival[p]
    <3>2. w \in Int
      BY <1>6
    <3>3. a = [pcb[p] EXCEPT !.start_time = clk, !.waiting_time = w]
      BY <2>2, <3>1 DEF Charged
    <3> HIDE DEF w, a
    <3>4. a \in PCBRec /\ a.start_time = clk /\ a.waiting_time = w
      <4>1. clk \in Int
        BY <1>6
      <4>2. QED
        BY <1>6, <3>2, <3>3, <4>1 DEF PCBRec
    <3>5. QED
      BY <1>6, <1>7, <2>2, <3>4 DEF w
  <2>3. QED
    BY <2>1, <2>2
<1> HIDE DEF a, d
<1>9. /\ b.start_time = a.start_time /\ b.waiting_time = a.waiting_time /\ b.state = "R"
      /\ b.forked = TRUE
  BY <1>8 DEF PCBRec
<1> HIDE DEF b
<1>10. pcb'[p] = b /\ child'[p] = d
  BY <1>1, <1>2, <1>3
<1>11. Charge(p)'
  BY <1>3, <1>4, <1>8, <1>9, <1>10 DEF Charge, Ticks, Reaped
<1>12. ASSUME NEW q \in Procs, q # p PROVE Charge(q)'
  <2>1. Charge(q)
    BY DEF Charges
  <2>2. pcb'[q] = pcb[q] /\ q # currProcess' /\ q # currProcess /\ child'[q] = child[q]
    BY <1>1, <1>2, <1>3, <1>12
  <2>3. QED
    BY <1>4, <2>1, <2>2, KeepsCharge
<1>13. QED
  BY <1>11, <1>12 DEF Charges

LEMMA ReceiveCharges ==
  ASSUME Shape, Places, Timely, Charges, ReceiveProcess, Scheduler PROVE Charges'
<1>1. /\ pcb \in [Procs -> PCBRec] /\ msgq.arrived \in Seq(Procs) /\ msgq.arrived # <<>>
  BY TimeTypes DEF ReceiveProcess
<1>2. PICK p \in Procs : p = Head(msgq.arrived) /\ p \in Sent
  BY <1>1, TailFacts DEF Sent
<1> DEFINE b == NewPCB(p)
<1>3. /\ pcb' = [pcb EXCEPT ![p] = b] /\ UNCHANGED <<currProcess, child>>
  BY <1>2 DEF ReceiveProcess, childvars
<1>4. p # currProcess
  BY <1>2 DEF Places, Place
<1>5. Moment = clk /\ Moment' = clk /\ workload' = workload
  BY SchedulerMoment
<1>6. /\ b.forked = FALSE /\ b.waiting_time = 0 /\ b.start_time = -1 /\ b.last_stopped = -1
      /\ b.state = "W"
  BY DEF NewPCB
<1> HIDE DEF b
<1>7. pcb'[p] = b
  BY <1>1, <1>2, <1>3
<1>8. Charge(p)'
  BY <1>3, <1>4, <1>6, <1>7 DEF Charge, Reaped
<1>9. ASSUME NEW q \in Procs, q # p PROVE Charge(q)'
  <2>1. Charge(q)
    BY DEF Charges
  <2>2. pcb'[q] = pcb[q]
    BY <1>1, <1>2, <1>3, <1>9
  <2>3. QED
    BY <1>3, <1>5, <2>1, <2>2, KeepsCharge
<1>10. QED
  BY <1>8, <1>9 DEF Charges

LEMMA ChargesStep ==
  ASSUME RightProgram, Shape, Places, Timely, Carried, Charges, [HPFNext]_hpfvars PROVE Charges'
<1>1. CASE UNCHANGED hpfvars \/ Terminated \/ Generator
  <2>1. UNCHANGED <<clk, workload, pcb, child, currProcess, sem, pc, last_tick>>
    BY <1>1 DEF hpfvars, Terminated, Generator, childvars, schedvars, queuevars, loopvars
  <2>2. Moment' = Moment
    BY <2>1 DEF Moment, Ran, Granted, Idle
  <2>3. QED
    BY <2>1, <2>2 DEF Charges, Charge, Ticks, Reaped
<1>2. CASE ClockTick
  <2>1. ASSUME NEW p \in Procs PROVE Charge(p)'
    <3>1. p = currProcess => ~Idle
      BY NoOneKnown DEF Idle
    <3>2. QED
      BY <1>2, <3>1, ClockMoment, KeepsCharge DEF Charges
  <2>2. QED
    BY <2>1 DEF Charges
<1>3. ASSUME NEW p \in Procs, Child(p) PROVE Charges'
  <2>1. /\ UNCHANGED <<clk, workload, pcb, currProcess>> /\ p = currProcess
        /\ \A q \in Procs \ {p} : child'[q] = child[q]
    BY <1>3, ChildMoment
  <2>2. ASSUME NEW q \in Procs, q # p PROVE Charge(q)'
    BY <2>1, <2>2, KeepsCharge DEF Charges
  <2>3. Charge(p)'
    <3>1. CASE Moment' = Moment /\ child'[p].remainingtime = child[p].remainingtime
      BY <2>1, <3>1, KeepsCharge DEF Charges
    <3>2. CASE Moment' = Moment + 1 /\ child'[p].remainingtime = child[p].remainingtime - 1
      <4>1. Moment \in Int /\ Ticks(p) \in Int
        BY ChargeTypes, TimeTypes DEF Moment
      <4>2. Ticks(p)' = Ticks(p) + 1
        BY <2>1, <3>2, ChargeTypes DEF Ticks
      <4>3. Charge(p) /\ Moment - workload.arrival[p] = Ticks(p) + pcb[p].waiting_time
        BY <2>1 DEF Charges, Charge
      <4>4. Moment' - workload'.arrival[p] = Ticks(p)' + pcb'[p].waiting_time
        BY <2>1, <3>2, <4>1, <4>2, <4>3, ChargeTypes
      <4>5. QED
        BY <2>1, <4>3, <4>4 DEF Charge, Reaped
    <3>3. QED
      BY <1>3, <3>1, <3>2, ChildMoment
  <2>4. QED
    BY <2>2, <2>3 DEF Charges
<1>4. CASE Scheduler
  <2>1. CASE ~Reap /\ ~AlgoPreempt /\ ~AlgoDispatch /\ ~ReceiveProcess
    <3>1. UNCHANGED <<pcb, child, currProcess>>
      BY <1>4, <2>1 DEF Scheduler, NewTick, Exit, FinishCheck, Gate, ReceiveSync, ReceiveEnd, WaitOver,
         AlgoNothing, Grant, childvars, queuevars
    <3>2. QED
      BY <1>4, <3>1, SchedulerMoment, KeepsCharge DEF Charges
  <2>2. QED
    BY <1>4, <2>1, ReapCharges, PreemptCharges, DispatchCharges, ReceiveCharges
<1>5. QED
  BY <1>1, <1>2, <1>3, <1>4 DEF HPFNext


\* The ticks used, each counted for its process, and those of the finished ones.
Work == {w \in Procs \X (Nat \ {0}) : w[2] <= Used[w[1]]}

Booked == {w \in Work : Reaped(w[1])}

\* The report counts what was done so far, and the CPU had time for it.
Budget ==
    /\ IsFiniteSet(Work) /\ IsFiniteSet(Done)
    /\ perf.num_procs = Cardinality(Done) /\ perf.total_runtime = Cardinality(Booked)
    /\ perf.first_arrival = -1 => Ready = {} /\ \A p \in Procs : ~pcb[p].forked
    /\ perf.first_arrival # -1 => Cardinality(Work) <= Moment - perf.first_arrival
    /\ perf.num_procs > 0 => perf.total_runtime <= perf.finish_time - perf.first_arrival

PerfRec == [num_procs: Nat, first_arrival: Int, total_runtime: Nat, finish_time: Int, waiting: Int]

LEMMA BudgetTypes ==
  ASSUME Shape, Carried
  PROVE  /\ perf \in PerfRec /\ perf.num_procs \in Nat /\ perf.first_arrival \in Int
         /\ perf.total_runtime \in Nat /\ perf.finish_time \in Int
         /\ clk \in Nat /\ Moment \in Nat /\ Moment >= clk
         /\ \A p \in Procs : Used[p] \in Nat /\ workload.runtime[p] \in Nat
<1>1. perf \in PerfRec /\ clk \in Nat
  BY TimeTypes DEF Shape, HPFTypeOK, PerfRec
<1>2. Moment \in Nat /\ Moment >= clk
  BY <1>1 DEF Moment
<1>3. ASSUME NEW p \in Procs PROVE Used[p] \in Nat /\ workload.runtime[p] \in Nat
  BY ChargeTypes DEF Used, Carried
<1>4. QED
  BY <1>1, <1>2, <1>3 DEF PerfRec

LEMMA WorkUnforked ==
  ASSUME Shape, Places, \A p \in Procs : ~pcb[p].forked
  PROVE  Work = {}
BY DEF Places, Place, Used, Work

\* A step that uses no tick and reports none.
LEMMA KeepsBudget ==
  ASSUME Budget, perf' = perf, Used' = Used, \A p \in Procs : Reaped(p)' <=> Reaped(p),
         perf.first_arrival = -1 => Ready' = {} /\ \A p \in Procs : ~pcb'[p].forked,
         Moment \in Nat, Moment' \in Nat, Moment' >= Moment, perf.first_arrival \in Int
  PROVE  Budget'
<1>1. Work' = Work /\ Done' = Done
  BY DEF Work, Done
<1>2. Booked' = Booked
  BY <1>1 DEF Booked, Work
<1>3. Cardinality(Work) \in Nat
  BY FS_CardinalityType DEF Budget
<1> DEFINE n == Cardinality(Work)
<1> HIDE DEF n
<1>4. perf.first_arrival # -1 => n <= Moment' - perf.first_arrival
  BY <1>3 DEF Budget, n
<1>5. QED
  BY <1>1, <1>2, <1>4 DEF Budget, n

LEMMA ChildBudget ==
  ASSUME RightProgram, Shape, Places, Timely, Carried, Budget, NEW p \in Procs, Child(p)
  PROVE  Budget'
<1>1. /\ UNCHANGED <<clk, workload, pcb, currProcess, readyQueue, perf>> /\ p = currProcess
      /\ \A q \in Procs \ {p} : child'[q] = child[q]
      /\ child[p].pc # "none" /\ child'[p].pc # "none"
  BY ChildMoment
<1>2. /\ pcb[p].forked /\ pcb[p].state = "R" /\ Ready' = Ready
      /\ \A q \in Procs : Reaped(q)' <=> Reaped(q)
  BY <1>1 DEF Places, Place, Ready, Reaped
<1>3. Used[p] = workload.runtime[p] - child[p].remainingtime
  BY <1>1 DEF Used
<1>4. Used'[p] = workload.runtime[p] - child'[p].remainingtime
  BY <1>1 DEF Used
<1>5. \A q \in Procs \ {p} : Used'[q] = Used[q]
  BY <1>1 DEF Used
<1>6. CASE Moment' = Moment /\ child'[p].remainingtime = child[p].remainingtime
  <2>1. Used' = Used
    BY <1>3, <1>4, <1>5, <1>6 DEF Used
  <2>2. QED
    BY <1>1, <1>2, <1>6, <2>1, BudgetTypes, KeepsBudget DEF Budget
<1>7. CASE Moment' = Moment + 1 /\ child'[p].remainingtime = child[p].remainingtime - 1
  <2> DEFINE w == <<p, Used[p] + 1>>
             n == Cardinality(Work)
  <2>1. Used[p] \in Nat /\ Used'[p] = Used[p] + 1
    BY <1>3, <1>4, <1>7, BudgetTypes, ChargeTypes
  <2>2. Work' = Work \cup {w} /\ w \notin Work
    <3>1. ASSUME NEW q \in Procs, NEW i \in Nat \ {0}
          PROVE  i <= Used'[q] <=> i <= Used[q] \/ (q = p /\ i = Used[p] + 1)
      BY <1>5, <2>1, BudgetTypes
    <3>2. w \in Procs \X (Nat \ {0}) /\ w = <<p, Used[p] + 1>>
      BY <2>1
    <3> HIDE DEF w
    <3>3. ASSUME NEW q \in Procs, NEW i \in Nat \ {0}
          PROVE  <<q, i>> \in Work' <=> <<q, i>> \in Work \/ <<q, i>> = w
      <4>1. /\ <<q, i>> \in Work <=> i <= Used[q]
            /\ <<q, i>> \in Work' <=> i <= Used'[q]
        BY DEF Work
      <4>2. <<q, i>> = w <=> q = p /\ i = Used[p] + 1
        BY <3>2
      <4>3. QED
        BY <3>1, <4>1, <4>2
    <3>4. Work \subseteq Procs \X (Nat \ {0}) /\ Work' \subseteq Procs \X (Nat \ {0})
      BY DEF Work
    <3>5. Work' = Work \cup {w}
      BY <3>2, <3>3, <3>4
    <3>6. w \notin Work
      <4>1. w[1] = p /\ w[2] = Used[p] + 1
        BY <3>2
      <4>2. ~(w[2] <= Used[w[1]])
        BY <2>1, <4>1
      <4>3. QED
        BY <4>2 DEF Work
    <3>7. QED
      BY <3>5, <3>6
  <2>3. Done' = Done /\ Booked' = Booked
    <3>1. \A x \in Work : x[1] \in Procs
      BY DEF Work
    <3>2. w[1] = p /\ ~Reaped(p)'
      BY <1>2 DEF Reaped
    <3> HIDE DEF w
    <3>3. Booked' = Booked
      BY <1>2, <2>2, <3>1, <3>2 DEF Booked
    <3>4. QED
      BY <1>2, <3>3 DEF Done
  <2>4. IsFiniteSet(Work) /\ n \in Nat
    BY FS_CardinalityType DEF Budget
  <2> HIDE DEF w
  <2>5. IsFiniteSet(Work') /\ Cardinality(Work') = n + 1
    BY <2>2, <2>4, FS_AddElement
  <2>6. perf.first_arrival # -1 /\ n <= Moment - perf.first_arrival
    BY <1>2 DEF Budget
  <2> HIDE DEF n
  <2>7. n + 1 <= Moment' - perf.first_arrival
    BY <1>7, <2>4, <2>6, BudgetTypes
  <2>8. QED
    BY <1>1, <2>3, <2>5, <2>6, <2>7 DEF Budget
<1>8. QED
  BY <1>6, <1>7, ChildMoment

LEMMA ReapBudget ==
  ASSUME Shape, Places, Timely, Carried, Budget, Reap, Scheduler PROVE Budget'
<1>1. PICK c \in Procs : c = currProcess /\ child[c].pc = "dead" /\ pcb \in [Procs -> PCBRec]
  BY TimeTypes DEF Reap, Shape
<1> DEFINE b == [pcb[c] EXCEPT !.finish_time = clk, !.state = "F", !.remaining_time = shmRT]
<1>2. /\ pcb' = [pcb EXCEPT ![c] = b] /\ UNCHANGED <<child, readyQueue>>
      /\ perf'.num_procs = perf.num_procs + 1 /\ perf'.finish_time = clk
      /\ perf'.total_runtime = perf.total_runtime + workload.runtime[c]
      /\ perf'.first_arrival = perf.first_arrival
  BY <1>1, BudgetTypes DEF Reap, childvars, PerfRec
<1>3. Moment = clk /\ Moment' = clk /\ workload' = workload /\ clk \in Nat
  BY SchedulerMoment, TimeTypes
<1>4. b.state = "F"
  BY <1>1 DEF PCBRec
<1> HIDE DEF b
<1>5. ~Reaped(c) /\ (\A p \in Procs : Reaped(p)' <=> p = c \/ Reaped(p)) /\ pcb[c].forked
  BY <1>1, <1>2, <1>4 DEF Reaped, Places, Place
<1>6. Work' = Work
  BY <1>2, <1>3 DEF Work, Used
<1> DEFINE m == workload.runtime[c]
           own == {c} \X (1..m)
           n == Cardinality(Work)
           k == Cardinality(Booked)
<1>7. m \in Nat /\ Used[c] = m /\ child[c].remainingtime = 0
  BY <1>1, BudgetTypes DEF Carried, Used
<1>8. Booked' = Booked \cup own /\ Booked \cap own = {} /\ own \subseteq Work
  <2>1. ASSUME NEW p \in Procs, NEW i \in Nat \ {0}
        PROVE  /\ <<p, i>> \in own <=> p = c /\ i <= m
               /\ <<p, i>> \in Work <=> i <= Used[p]
               /\ <<p, i>> \in Booked <=> i <= Used[p] /\ Reaped(p)
               /\ <<p, i>> \in Booked' <=> i <= Used[p] /\ Reaped(p)'
    BY <1>6, <1>7 DEF Work, Booked
  <2>2. own \subseteq Procs \X (Nat \ {0})
    BY <1>7
  <2>3. Booked \subseteq Procs \X (Nat \ {0}) /\ Booked' \subseteq Procs \X (Nat \ {0})
    BY <1>6 DEF Booked, Work
  <2> HIDE DEF own
  <2>4. QED
    BY <1>5, <1>7, <2>1, <2>2, <2>3
<1>9. IsFiniteSet(own) /\ Cardinality(own) = m
  <2>1. IsFiniteSet(1..m) /\ Cardinality(1..m) = m
    <3>1. m \in Int /\ 1 \in Int /\ (1 > m => m = 0) /\ (~(1 > m) => m - 1 + 1 = m)
      BY <1>7
    <3> HIDE DEF m
    <3>2. QED
      BY <3>1, FS_Interval
  <2>2. IsFiniteSet({c}) /\ Cardinality({c}) = 1
    BY FS_Singleton
  <2>3. IsFiniteSet(own) /\ Cardinality(own) = 1 * Cardinality(1..m)
    BY <2>1, <2>2, FS_Product
  <2>4. QED
    BY <1>7, <2>1, <2>3
<1> HIDE DEF own
<1>10. /\ IsFiniteSet(Work) /\ n \in Nat
       /\ IsFiniteSet(Booked) /\ k \in Nat
  <2>1. Booked \in SUBSET Work
    BY DEF Booked
  <2>2. IsFiniteSet(Work)
    BY DEF Budget
  <2>3. IsFiniteSet(Booked)
    BY <2>1, <2>2, FS_Subset
  <2>4. QED
    BY <2>2, <2>3, FS_CardinalityType
<1>11. Cardinality(Booked') = k + m
  <2>1. Cardinality({}) = 0
    BY FS_EmptySet
  <2>2. Cardinality(Booked \cup own) = k + m - Cardinality(Booked \cap own)
    BY <1>9, <1>10, FS_Union
  <2>3. Cardinality(Booked') = k + m - 0
    BY <1>8, <2>1, <2>2
  <2> HIDE DEF k, m
  <2>4. QED
    BY <1>7, <1>10, <2>3
<1>12. Cardinality(Booked') <= n
  <2>1. Booked' \in SUBSET Work
    BY <1>6 DEF Booked
  <2>2. QED
    BY <1>10, <2>1, FS_Subset
<1>13. IsFiniteSet(Done') /\ Cardinality(Done') = Cardinality(Done) + 1
  <2>1. Done' = Done \cup {c} /\ c \notin Done
    BY <1>5 DEF Done
  <2>2. QED
    BY <2>1, FS_AddElement DEF Budget
<1>14. perf.first_arrival # -1 /\ n <= clk - perf.first_arrival
  BY <1>3, <1>5 DEF Budget
<1>15. perf'.total_runtime = k + m
  BY <1>2 DEF Budget
<1> HIDE DEF n, k, m
<1>16. perf'.total_runtime <= perf'.finish_time - perf'.first_arrival
  BY <1>2, <1>3, <1>7, <1>10, <1>11, <1>12, <1>14, <1>15, BudgetTypes
<1>17. Cardinality(Work') <= Moment' - perf'.first_arrival /\ IsFiniteSet(Work')
  BY <1>2, <1>3, <1>6, <1>10, <1>14 DEF n
<1>18. perf'.num_procs = Cardinality(Done') /\ perf'.total_runtime = Cardinality(Booked')
  BY <1>2, <1>11, <1>13, <1>15 DEF Budget
<1>19. QED
  BY <1>2, <1>13, <1>14, <1>16, <1>17, <1>18 DEF Budget


LEMMA ReceiveBudget ==
  ASSUME Shape, Places, Timely, Carried, Budget, ReceiveProcess, Scheduler PROVE Budget'
<1>1. msgq.arrived \in Seq(Procs) /\ msgq.arrived # <<>> /\ pcb \in [Procs -> PCBRec]
  BY TimeTypes DEF ReceiveProcess
<1>2. PICK p \in Procs : p = Head(msgq.arrived) /\ p \in Sent
  BY <1>1, TailFacts DEF Sent
<1>3. /\ pcb' = [pcb EXCEPT ![p] = NewPCB(p)] /\ child' = child
      /\ perf' = [perf EXCEPT !.first_arrival = FirstArrival(p)]
  BY <1>2 DEF ReceiveProcess, childvars
<1>4. Moment = clk /\ Moment' = clk /\ workload' = workload /\ clk \in Nat
  BY SchedulerMoment, TimeTypes
<1>5. /\ perf'.first_arrival = FirstArrival(p) /\ perf'.num_procs = perf.num_procs
      /\ perf'.total_runtime = perf.total_runtime /\ perf'.finish_time = perf.finish_time
  BY <1>3, BudgetTypes DEF PerfRec
<1>6. \A q \in Procs : Reaped(q)' <=> Reaped(q)
  <2>1. pcb[p].state = "W" /\ NewPCB(p).state = "W"
    BY <1>2 DEF Places, Place, NewPCB
  <2>2. QED
    BY <1>1, <1>3, <2>1 DEF Reaped
<1>7. Work' = Work /\ Done' = Done /\ Booked' = Booked
  <2>1. Work' = Work
    BY <1>3, <1>4 DEF Work, Used
  <2>2. \A x \in Work : x[1] \in Procs
    BY DEF Work
  <2>3. QED
    BY <1>6, <2>1, <2>2 DEF Booked, Done
<1>8. workload.arrival[p] \in Nat /\ workload.arrival[p] <= clk
  BY <1>2, ChargeTypes DEF Timely, Told
<1>9. /\ perf'.first_arrival # -1
      /\ Cardinality(Work) <= clk - perf'.first_arrival
  <2>1. CASE perf.first_arrival = -1
    <3>1. Work = {}
      BY <2>1, WorkUnforked DEF Budget
    <3>2. Cardinality(Work) = 0
      BY <3>1, FS_EmptySet
    <3>3. QED
      BY <1>4, <1>5, <1>8, <2>1, <3>2 DEF FirstArrival
  <2>2. CASE perf.first_arrival # -1
    BY <1>4, <1>5, <2>2 DEF FirstArrival, Budget
  <2>3. QED
    BY <2>1, <2>2
<1>10. perf.num_procs > 0 => perf'.first_arrival = perf.first_arrival
  <2>1. ASSUME perf.first_arrival = -1 PROVE perf.num_procs = 0
    <3>1. Done = {}
      BY <2>1 DEF Budget, Places, Place, Done, Reaped
    <3>2. QED
      BY <3>1, FS_EmptySet DEF Budget
  <2>2. QED
    BY <1>5, <2>1 DEF FirstArrival
<1>11. QED
  BY <1>4, <1>5, <1>7, <1>9, <1>10 DEF Budget

LEMMA DispatchBudget ==
  ASSUME Shape, Places, Timely, Carried, Budget, AlgoDispatch, Scheduler PROVE Budget'
<1>1. /\ readyQueue \in Seq(Procs) /\ readyQueue # <<>> /\ pcb \in [Procs -> PCBRec]
      /\ child \in [Procs -> ChildRec] /\ perf' = perf
  BY TimeTypes DEF AlgoDispatch
<1>2. PICK p \in Procs : p = Head(readyQueue) /\ p \in Ready
  BY <1>1, TailFacts DEF Ready
<1> DEFINE b == [Charged(p) EXCEPT !.state = "R", !.forked = TRUE]
           d == IF pcb[p].forked THEN [child[p] EXCEPT !.stopped = FALSE]
                ELSE [NoChild EXCEPT !.pc = "boot", !.remainingtime = pcb[p].remaining_time]
<1>3. pcb' = [pcb EXCEPT ![p] = b] /\ child' = [child EXCEPT ![p] = d]
  BY <1>2 DEF AlgoDispatch
<1>4. Moment = clk /\ Moment' = clk /\ workload' = workload /\ clk \in Nat
  BY SchedulerMoment, TimeTypes
<1>5. pcb[p].state = "W" /\ (pcb[p].forked <=> child[p].pc # "none")
  BY <1>2 DEF Places, Place
<1>6. b.state = "R"
  <2>1. Charged(p) \in PCBRec
    BY <1>2, ChargedType DEF Shape
  <2>2. QED
    BY <2>1 DEF PCBRec
<1>7. /\ d.pc # "none"
      /\ pcb[p].forked => d.remainingtime = child[p].remainingtime
      /\ ~pcb[p].forked => d.remainingtime = workload.runtime[p]
  <2>1. child[p] \in ChildRec /\ (~pcb[p].forked => pcb[p].remaining_time = workload.runtime[p])
    BY <1>1 DEF Shape
  <2>2. QED
    BY <1>5, <2>1 DEF ChildRec, NoChild
<1> HIDE DEF b, d
<1>8. /\ pcb'[p] = b /\ child'[p] = d
      /\ \A q \in Procs \ {p} : pcb'[q] = pcb[q] /\ child'[q] = child[q]
  BY <1>1, <1>3
<1>9. \A q \in Procs : Reaped(q)' <=> Reaped(q)
  BY <1>5, <1>6, <1>8 DEF Reaped
<1>10. Used' = Used
  <2>1. Used'[p] = Used[p]
    BY <1>4, <1>5, <1>7, <1>8, BudgetTypes DEF Used
  <2>2. \A q \in Procs \ {p} : Used'[q] = Used[q]
    BY <1>4, <1>8 DEF Used
  <2>3. QED
    BY <2>1, <2>2 DEF Used
<1>11. perf.first_arrival # -1
  BY <1>2 DEF Budget
<1>12. QED
  BY <1>1, <1>4, <1>9, <1>10, <1>11, BudgetTypes, KeepsBudget

LEMMA BudgetStep ==
  ASSUME RightProgram, Shape, Places, Timely, Carried, Budget, [HPFNext]_hpfvars PROVE Budget'
<1>1. ASSUME UNCHANGED <<workload, perf, pcb, readyQueue>>,
             \A p \in Procs : /\ child'[p].pc = child[p].pc
                              /\ child'[p].remainingtime = child[p].remainingtime,
             Moment' \in Nat, Moment' >= Moment
      PROVE  Budget'
  <2>1. Used' = Used /\ Ready' = Ready /\ \A p \in Procs : Reaped(p)' <=> Reaped(p)
    BY <1>1 DEF Used, Ready, Reaped
  <2>2. QED
    BY <1>1, <2>1, BudgetTypes, KeepsBudget DEF Budget
<1>2. CASE UNCHANGED hpfvars \/ Terminated \/ Generator
  <2>1. UNCHANGED <<clk, workload, pcb, child, currProcess, readyQueue, perf, sem, pc, last_tick>>
    BY <1>2 DEF hpfvars, Terminated, Generator, childvars, schedvars, queuevars, loopvars
  <2>2. Moment' = Moment
    BY <2>1 DEF Moment, Ran, Granted, Idle
  <2>3. QED
    BY <1>1, <2>1, <2>2, BudgetTypes
<1>3. CASE ClockTick
  <2>1. /\ Moment' = clk + 1 /\ Moment \in {clk, clk + 1} /\ clk \in Nat
        /\ UNCHANGED <<workload, pcb, child, readyQueue, perf>>
    BY <1>3, ClockMoment, TimeTypes
  <2>2. QED
    BY <1>1, <2>1
<1>4. CASE \E p \in Procs : Child(p)
  BY <1>4, ChildBudget
<1>5. CASE Scheduler
  <2>1. Moment = clk /\ Moment' = clk /\ workload' = workload /\ clk \in Nat
    BY <1>5, SchedulerMoment, TimeTypes
  <2>2. CASE AlgoPreempt
    <3>1. PICK c \in Procs : c = currProcess
      BY <2>2, TimeTypes DEF AlgoPreempt
    <3>2. /\ pcb \in [Procs -> PCBRec] /\ child \in [Procs -> ChildRec]
          /\ pcb' = Saved(c) /\ child' = Stopped(c) /\ perf' = perf
      BY <2>2, <3>1, TimeTypes DEF AlgoPreempt
    <3>3. pcb[c].forked /\ pcb[c].state = "R"
      BY <3>1 DEF Places, Place
    <3>4. \A q \in Procs : /\ child'[q].pc = child[q].pc
                           /\ child'[q].remainingtime = child[q].remainingtime
      BY <3>2 DEF Stopped, ChildRec
    <3>5. Used' = Used
      BY <2>1, <3>4 DEF Used
    <3> DEFINE b == [pcb[c] EXCEPT !.last_stopped = clk, !.state = "W", !.remaining_time = shmRT]
    <3>6. b.state = "W"
      BY <3>2 DEF PCBRec
    <3>7. pcb' = [pcb EXCEPT ![c] = b]
      BY <3>2 DEF Saved
    <3> HIDE DEF b
    <3>8. \A q \in Procs : Reaped(q)' <=> Reaped(q)
      BY <3>2, <3>3, <3>6, <3>7 DEF Reaped
    <3>9. perf.first_arrival # -1
      BY <3>3 DEF Budget
    <3>10. QED
      BY <2>1, <3>2, <3>5, <3>8, <3>9, BudgetTypes, KeepsBudget
  <2>3. CASE ~Reap /\ ~AlgoPreempt /\ ~AlgoDispatch /\ ~ReceiveProcess
    <3>1. UNCHANGED <<pcb, child, readyQueue, perf>>
      BY <1>5, <2>3 DEF Scheduler, NewTick, Exit, FinishCheck, Gate, ReceiveSync, ReceiveEnd, WaitOver,
         AlgoNothing, Grant, childvars, queuevars
    <3>2. QED
      BY <1>1, <2>1, <3>1
  <2>4. QED
    BY <1>5, <2>2, <2>3, ReapBudget, DispatchBudget, ReceiveBudget
<1>6. QED
  BY <1>2, <1>3, <1>4, <1>5 DEF HPFNext

LEMMA InitAccounts ==
  ASSUME HPFInit PROVE Charges /\ Budget
<1>1. /\ clk = 0 /\ currProcess = NoOne /\ readyQueue = <<>>
      /\ perf.num_procs = 0 /\ perf.first_arrival = -1 /\ perf.total_runtime = 0
      /\ \A p \in Procs : pcb[p] = NewPCB(p) /\ child[p].pc = "none"
  BY DEF HPFInit, NoChild
<1>2. \A p \in Procs : /\ pcb[p].forked = FALSE /\ pcb[p].state = "W" /\ pcb[p].waiting_time = 0
                       /\ pcb[p].start_time = -1 /\ pcb[p].last_stopped = -1 /\ p # currProcess
  <2> SUFFICES ASSUME NEW p \in Procs
               PROVE  /\ pcb[p].forked = FALSE /\ pcb[p].state = "W" /\ pcb[p].waiting_time = 0
                      /\ pcb[p].start_time = -1 /\ pcb[p].last_stopped = -1 /\ p # currProcess
    OBVIOUS
  <2>1. pcb[p] = NewPCB(p)
    BY <1>1
  <2>2. p # currProcess
    BY <1>1, NoOneKnown
  <2> DEFINE w == workload.runtime[p]
  <2>3. NewPCB(p) = [state |-> "W", forked |-> FALSE, start_time |-> -1, finish_time |-> -1,
                     last_stopped |-> -1, waiting_time |-> 0, remaining_time |-> w]
    BY DEF NewPCB
  <2> HIDE DEF w
  <2>4. QED
    BY <2>1, <2>2, <2>3
<1>3. Charges
  BY <1>2 DEF Charges, Charge, Reaped
<1>4. Done = {} /\ Work = {} /\ Booked = {} /\ Ready = {}
  BY <1>1, <1>2 DEF Done, Reaped, Work, Used, Booked, Ready, ToSet
<1>5. Budget
  BY <1>1, <1>2, <1>4, FS_EmptySet DEF Budget
<1>6. QED
  BY <1>3, <1>5

\* A list without repetition is as long as it has elements.
LEMMA LengthIsCardinality ==
  ASSUME NEW T, NEW q \in Seq(T), IsInjective(q), IsFiniteSet(ToSet(q))
  PROVE  Cardinality(ToSet(q)) = Len(q)
<1>1. Len(q) \in Nat /\ DOMAIN q = 1..Len(q) /\ q \in [1..Len(q) -> ToSet(q)]
  BY DEF ToSet
<1>2. q \in Injection(1..Len(q), ToSet(q)) /\ q \in Surjection(1..Len(q), ToSet(q))
  BY <1>1 DEF Injection, Surjection, ToSet
<1>3. Cardinality(1..Len(q)) = Cardinality(ToSet(q))
  BY <1>2, FS_Injection
<1> DEFINE n == Len(q)
<1>4. n \in Int /\ 1 \in Int /\ (1 > n => n = 0) /\ (~(1 > n) => n - 1 + 1 = n)
  BY <1>1
<1> HIDE DEF n
<1>5. Cardinality(1..n) = n
  BY <1>4, FS_Interval
<1>6. QED
  BY <1>3, <1>5 DEF n

LEMMA AllReported ==
  ASSUME Shape, Places, Timely, Budget, pc = "exited"
  PROVE  perf.num_procs = Len(workload.order)
<1>1. Idle /\ readyQueue = <<>> /\ g_queue = <<>> /\ msgq.arrived = <<>>
  BY DEF Timely, Paced, Told
<1>2. Located = {}
  BY <1>1 DEF Located, Unsent, Sent, Ready, Current, Idle, ToSet
<1>3. workload.order \in Seq(Procs) /\ IsInjective(workload.order) /\ ToSet(workload.order) \subseteq Procs
  BY WorkloadType, SetsKnown DEF Shape, HPFTypeOK
<1>4. ToSet(workload.order) = Done
  BY <1>2, <1>3 DEF Places, Place, Done, Reaped
<1>5. QED
  BY <1>3, <1>4, LengthIsCardinality DEF Budget

\* Accounting: whoever finishes has been charged for every tick between its arrival
\* and its end that it did not run, over preemptions, resumes and the ticks that a
\* switch costs; the report counts each process once, and no more CPU time than
\* passed.  Provided that the children run their program.
THEOREM TimeAddsUp ==
  ASSUME RightProgram PROVE HPFSpec => []Accounting
<1>1. HPFInit => Charges /\ Budget
  BY InitAccounts
<1>2. Shape /\ Places /\ Timely /\ Carried /\ Charges /\ Budget /\ [HPFNext]_hpfvars
      => (Charges /\ Budget)'
  BY ChargesStep, BudgetStep
<1>3. Shape /\ Places /\ Timely /\ Carried /\ Charges /\ Budget => Accounting
  <2> SUFFICES ASSUME Shape, Places, Timely, Carried, Charges, Budget PROVE Accounting
    OBVIOUS
  <2>1. AccountingAtFinish
    BY DEF Charges, Charge, Carried, Reaped, AccountingAtFinish
  <2>2. PerfConsistent
    BY AllReported DEF Budget, Done, Reaped, PerfConsistent
  <2>3. QED
    BY <2>1, <2>2 DEF Accounting
<1>4. QED
  BY <1>1, <1>2, <1>3, ShapeHolds, TimelyHolds, CarriedHolds, PTL DEF HPFSpec

=============================================================================
