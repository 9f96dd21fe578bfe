------------------------- MODULE LinkedQueue_proofs -------------------------
(***************************************************************************)
(* Theorems about module LinkedQueue, for any heap, any processes and any  *)
(* order of operations, when no handler interrupts one: the linked list is *)
(* whole between two operations and implements the sequence of PCBQueue.   *)
(***************************************************************************)
EXTENDS LinkedQueue, SequenceFacts, FiniteSetTheorems

-----------------------------------------------------------------------------
(* A sequence with one element more and with one less.                     *)

Inserted(r, k, x) ==
    [i \in 1..(Len(r) + 1) |-> IF i < k THEN r[i] ELSE IF i = k THEN x ELSE r[i - 1]]

Removed(r, k) == [i \in 1..(Len(r) - 1) |-> IF i < k THEN r[i] ELSE r[i + 1]]

LEMMA SeqParts ==
  ASSUME NEW T, NEW r \in Seq(T)
  PROVE  /\ Len(r) \in Nat /\ DOMAIN r = 1..Len(r)
         /\ \A i \in 1..Len(r) : r[i] \in T
         /\ r = <<>> <=> Len(r) = 0
OBVIOUS

LEMMA SeqFromFunction ==
  ASSUME NEW T, NEW n \in Nat, NEW f \in [1..n -> T]
  PROVE  f \in Seq(T) /\ Len(f) = n /\ DOMAIN f = 1..n
OBVIOUS

LEMMA SeqSame ==
  ASSUME NEW T, NEW q \in Seq(T), NEW r \in Seq(T), Len(q) = Len(r),
         \A i \in 1..Len(q) : q[i] = r[i]
  PROVE  q = r
OBVIOUS

LEMMA InsertedParts ==
  ASSUME NEW T, NEW r \in Seq(T), NEW x \in T, NEW k \in 1..(Len(r) + 1)
  PROVE  /\ Inserted(r, k, x) \in Seq(T)
         /\ Len(Inserted(r, k, x)) = Len(r) + 1
         /\ DOMAIN Inserted(r, k, x) = 1..(Len(r) + 1)
         /\ Inserted(r, k, x)[k] = x
         /\ \A i \in 1..(k - 1) : Inserted(r, k, x)[i] = r[i]
         /\ \A i \in (k + 1)..(Len(r) + 1) : Inserted(r, k, x)[i] = r[i - 1]
<1> DEFINE s == Inserted(r, k, x)
<1>1. Len(r) \in Nat /\ \A i \in 1..Len(r) : r[i] \in T
  BY SeqParts
<1>2. s \in [1..(Len(r) + 1) -> T]
  BY <1>1 DEF Inserted
<1>3. s \in Seq(T) /\ Len(s) = Len(r) + 1 /\ DOMAIN s = 1..(Len(r) + 1)
  <2> HIDE DEF s
  <2>1. Len(r) + 1 \in Nat
    BY <1>1
  <2>2. QED
    BY <1>2, <2>1, SeqFromFunction
<1>4. \A i \in 1..(Len(r) + 1) : s[i] = IF i < k THEN r[i] ELSE IF i = k THEN x ELSE r[i - 1]
  BY DEF Inserted
<1> HIDE DEF s
<1>5. /\ s[k] = x
      /\ \A i \in 1..(k - 1) : s[i] = r[i]
      /\ \A i \in (k + 1)..(Len(r) + 1) : s[i] = r[i - 1]
  BY <1>1, <1>4
<1>6. QED
  BY <1>3, <1>5 DEF s

LEMMA RemovedParts ==
  ASSUME NEW T, NEW r \in Seq(T), NEW k \in 1..Len(r)
  PROVE  /\ Removed(r, k) \in Seq(T)
         /\ Len(Removed(r, k)) = Len(r) - 1
         /\ DOMAIN Removed(r, k) = 1..(Len(r) - 1)
         /\ \A i \in 1..(k - 1) : Removed(r, k)[i] = r[i]
         /\ \A i \in k..(Len(r) - 1) : Removed(r, k)[i] = r[i + 1]
<1> DEFINE s == Removed(r, k)
<1>1. Len(r) \in Nat /\ \A i \in 1..Len(r) : r[i] \in T
  BY SeqParts
<1>2. s \in [1..(Len(r) - 1) -> T]
  BY <1>1 DEF Removed
<1>3. s \in Seq(T) /\ Len(s) = Len(r) - 1 /\ DOMAIN s = 1..(Len(r) - 1)
  <2> HIDE DEF s
  <2>1. Len(r) - 1 \in Nat
    BY <1>1
  <2>2. QED
    BY <1>2, <2>1, SeqFromFunction
<1>4. \A i \in 1..(Len(r) - 1) : s[i] = IF i < k THEN r[i] ELSE r[i + 1]
  BY DEF Removed
<1> HIDE DEF s
<1>5. /\ \A i \in 1..(k - 1) : s[i] = r[i]
      /\ \A i \in k..(Len(r) - 1) : s[i] = r[i + 1]
  BY <1>1, <1>4
<1>6. QED
  BY <1>3, <1>5 DEF s

LEMMA InsertedIs ==
  ASSUME NEW T, NEW r \in Seq(T), NEW x \in T, NEW k \in 1..(Len(r) + 1),
         NEW s \in Seq(T), Len(s) = Len(r) + 1, s[k] = x,
         \A i \in 1..(k - 1) : s[i] = r[i],
         \A i \in (k + 1)..(Len(r) + 1) : s[i] = r[i - 1]
  PROVE  s = Inserted(r, k, x)
<1>1. Len(r) \in Nat
  BY SeqParts
<1> DEFINE w == Inserted(r, k, x)
<1>2. /\ w \in Seq(T) /\ Len(w) = Len(r) + 1 /\ w[k] = x
      /\ \A i \in 1..(k - 1) : w[i] = r[i]
      /\ \A i \in (k + 1)..(Len(r) + 1) : w[i] = r[i - 1]
  BY InsertedParts
<1> HIDE DEF w
<1>3. ASSUME NEW i \in 1..Len(s)
      PROVE  s[i] = w[i]
  <2>1. i \in 1..(k - 1) \/ i = k \/ i \in (k + 1)..(Len(r) + 1)
    BY <1>1
  <2>2. QED
    BY <1>2, <2>1
<1>4. s = w
  BY <1>2, <1>3, SeqSame
<1>5. QED
  BY <1>4 DEF w

LEMMA RemovedIs ==
  ASSUME NEW T, NEW r \in Seq(T), NEW k \in 1..Len(r),
         NEW s \in Seq(T), Len(s) = Len(r) - 1,
         \A i \in 1..(k - 1) : s[i] = r[i],
         \A i \in k..(Len(r) - 1) : s[i] = r[i + 1]
  PROVE  s = Removed(r, k)
<1>1. Len(r) \in Nat
  BY SeqParts
<1> DEFINE w == Removed(r, k)
<1>2. /\ w \in Seq(T) /\ Len(w) = Len(r) - 1
      /\ \A i \in 1..(k - 1) : w[i] = r[i]
      /\ \A i \in k..(Len(r) - 1) : w[i] = r[i + 1]
  BY RemovedParts
<1> HIDE DEF w
<1>3. ASSUME NEW i \in 1..Len(s)
      PROVE  s[i] = w[i]
  <2>1. i \in 1..(k - 1) \/ i \in k..(Len(r) - 1)
    BY <1>1
  <2>2. QED
    BY <1>2, <2>1
<1>4. s = w
  BY <1>2, <1>3, SeqSame
<1>5. QED
  BY <1>4 DEF w

LEMMA ConcatParts ==
  ASSUME NEW T, NEW a \in Seq(T), NEW b \in Seq(T)
  PROVE  /\ a \o b \in Seq(T) /\ Len(a \o b) = Len(a) + Len(b)
         /\ \A i \in 1..Len(a) : (a \o b)[i] = a[i]
         /\ \A i \in (Len(a) + 1)..(Len(a) + Len(b)) : (a \o b)[i] = b[i - Len(a)]
<1>1. Len(a) \in Nat /\ Len(b) \in Nat
  BY SeqParts
<1>2. a \o b \in Seq(T) /\ Len(a \o b) = Len(a) + Len(b)
  OBVIOUS
<1>3. \A i \in 1..(Len(a) + Len(b)) : (a \o b)[i] = IF i <= Len(a) THEN a[i] ELSE b[i - Len(a)]
  OBVIOUS
<1> DEFINE c == a \o b
<1> HIDE DEF c
<1>4. \A i \in 1..(Len(a) + Len(b)) : c[i] = IF i <= Len(a) THEN a[i] ELSE b[i - Len(a)]
  BY <1>3 DEF c
<1>5. /\ \A i \in 1..Len(a) : c[i] = a[i]
      /\ \A i \in (Len(a) + 1)..(Len(a) + Len(b)) : c[i] = b[i - Len(a)]
  BY <1>1, <1>4
<1>6. QED
  BY <1>2, <1>5 DEF c

LEMMA SubSeqParts ==
  ASSUME NEW T, NEW r \in Seq(T), NEW m \in Int, NEW n \in Int, 1 <= m, m <= n + 1, n <= Len(r)
  PROVE  /\ SubSeq(r, m, n) \in Seq(T) /\ Len(SubSeq(r, m, n)) = n - m + 1
         /\ \A i \in 1..(n - m + 1) : SubSeq(r, m, n)[i] = r[m + i - 1]
<1>1. Len(r) \in Nat
  BY SeqParts
<1>2. SubSeq(r, m, n) \in Seq(T)
  BY <1>1
<1>3. Len(SubSeq(r, m, n)) = n - m + 1
  BY <1>1
<1>4. \A i \in 1..(n - m + 1) : SubSeq(r, m, n)[i] = r[m + i - 1]
  BY <1>1
<1>5. QED
  BY <1>2, <1>3, <1>4

\* The library's operators that the model uses.
LEMMA AppendInserts ==
  ASSUME NEW T, NEW r \in Seq(T), NEW x \in T
  PROVE  Append(r, x) = Inserted(r, Len(r) + 1, x)
<1>1. Len(r) \in Nat /\ Len(r) + 1 \in 1..(Len(r) + 1)
  BY SeqParts
<1>2. /\ Append(r, x) \in Seq(T) /\ Len(Append(r, x)) = Len(r) + 1
      /\ \A i \in 1..Len(r) : Append(r, x)[i] = r[i]
      /\ Append(r, x)[Len(r) + 1] = x
  OBVIOUS
<1> DEFINE s == Append(r, x)
           k == Len(r) + 1
<1>3. \A i \in 1..(k - 1) : s[i] = r[i]
  BY <1>1, <1>2
<1>4. \A i \in (k + 1)..(Len(r) + 1) : s[i] = r[i - 1]
  BY <1>1
<1> HIDE DEF s, k
<1>5. s = Inserted(r, k, x)
  BY <1>1, <1>2, <1>3, <1>4, InsertedIs DEF s, k
<1>6. QED
  BY <1>5 DEF s, k

LEMMA InsertAtInserts ==
  ASSUME NEW T, NEW r \in Seq(T), NEW x \in T, NEW k \in 1..(Len(r) + 1)
  PROVE  InsertAt(r, k, x) = Inserted(r, k, x)
<1> DEFINE a == SubSeq(r, 1, k - 1)
           b == SubSeq(r, k, Len(r))
           c == a \o <<x>>
           s == c \o b
<1>1. Len(r) \in Nat /\ k \in Nat
  BY SeqParts
<1>2. /\ a \in Seq(T) /\ Len(a) = k - 1 /\ \A i \in 1..(k - 1) : a[i] = r[i]
  BY <1>1, SubSeqParts
<1>3. /\ b \in Seq(T) /\ Len(b) = Len(r) - k + 1
      /\ \A i \in 1..(Len(r) - k + 1) : b[i] = r[k + i - 1]
  BY <1>1, SubSeqParts
<1>4. <<x>> \in Seq(T) /\ Len(<<x>>) = 1 /\ <<x>>[1] = x
  OBVIOUS
<1> HIDE DEF a, b
<1>5. /\ c \in Seq(T) /\ Len(c) = k
      /\ \A i \in 1..(k - 1) : c[i] = r[i]
      /\ c[k] = x
  <2>1. /\ c \in Seq(T) /\ Len(c) = Len(a) + 1
        /\ \A i \in 1..Len(a) : c[i] = a[i]
        /\ \A i \in (Len(a) + 1)..(Len(a) + 1) : c[i] = <<x>>[i - Len(a)]
    BY <1>2, <1>4, ConcatParts
  <2> HIDE DEF c
  <2>2. c[k] = <<x>>[1]
    <3>1. k \in (Len(a) + 1)..(Len(a) + 1) /\ k - Len(a) = 1
      BY <1>1, <1>2
    <3>2. QED
      BY <2>1, <3>1
  <2>3. \A i \in 1..(k - 1) : c[i] = r[i]
    BY <1>1, <1>2, <2>1
  <2>4. Len(c) = k
    BY <1>1, <1>2, <2>1
  <2>5. QED
    BY <1>4, <2>1, <2>2, <2>3, <2>4
<1> HIDE DEF c
<1>6. /\ s \in Seq(T) /\ Len(s) = k + (Len(r) - k + 1)
      /\ \A i \in 1..k : s[i] = c[i]
      /\ \A i \in (k + 1)..(k + (Len(r) - k + 1)) : s[i] = b[i - k]
  BY <1>3, <1>5, ConcatParts
<1> HIDE DEF s
<1>7. Len(s) = Len(r) + 1 /\ s[k] = x
  BY <1>1, <1>5, <1>6
<1>8. \A i \in 1..(k - 1) : s[i] = r[i]
  BY <1>1, <1>5, <1>6
<1>9. ASSUME NEW i \in (k + 1)..(Len(r) + 1)
      PROVE  s[i] = r[i - 1]
  <2>1. i \in (k + 1)..(k + (Len(r) - k + 1)) /\ i - k \in 1..(Len(r) - k + 1)
        /\ k + (i - k) - 1 = i - 1
    BY <1>1
  <2>2. QED
    BY <1>3, <1>6, <2>1
<1>10. s = Inserted(r, k, x)
  BY <1>6, <1>7, <1>8, <1>9, InsertedIs
<1>11. QED
  BY <1>10 DEF InsertAt, a, b, c, s

LEMMA PrependInserts ==
  ASSUME NEW T, NEW r \in Seq(T), NEW x \in T
  PROVE  <<x>> \o r = Inserted(r, 1, x)
<1> DEFINE s == <<x>> \o r
<1>1. Len(r) \in Nat
  BY SeqParts
<1>2. <<x>> \in Seq(T) /\ Len(<<x>>) = 1 /\ <<x>>[1] = x
  OBVIOUS
<1>3. /\ s \in Seq(T) /\ Len(s) = 1 + Len(r)
      /\ \A i \in 1..1 : s[i] = <<x>>[i]
      /\ \A i \in (1 + 1)..(1 + Len(r)) : s[i] = r[i - 1]
  BY <1>2, ConcatParts
<1> HIDE DEF s
<1>4. s[1] = x
  BY <1>2, <1>3
<1>5. s = Inserted(r, 1, x)
  BY <1>1, <1>3, <1>4, InsertedIs
<1>6. QED
  BY <1>5 DEF s

LEMMA TailRemoves ==
  ASSUME NEW T, NEW r \in Seq(T), r # <<>>
  PROVE  Tail(r) = Removed(r, 1)
<1>1. Len(r) \in Nat /\ 1 \in 1..Len(r)
  BY SeqParts
<1>2. /\ Tail(r) \in Seq(T) /\ Len(Tail(r)) = Len(r) - 1
      /\ \A i \in 1..(Len(r) - 1) : Tail(r)[i] = r[i + 1]
  OBVIOUS
<1> DEFINE s == Tail(r)
           k == 1
<1>3. /\ \A i \in 1..(k - 1) : s[i] = r[i]
      /\ \A i \in k..(Len(r) - 1) : s[i] = r[i + 1]
  BY <1>1, <1>2
<1>4. k \in 1..Len(r) /\ s \in Seq(T) /\ Len(s) = Len(r) - 1
  BY <1>1, <1>2
<1> HIDE DEF s, k
<1>5. s = Removed(r, k)
  BY <1>3, <1>4, RemovedIs
<1>6. QED
  BY <1>5 DEF s, k

LEMMA FrontRemoves ==
  ASSUME NEW T, NEW r \in Seq(T), r # <<>>
  PROVE  Front(r) = Removed(r, Len(r))
<1> DEFINE s == SubSeq(r, 1, Len(r) - 1)
           k == Len(r)
<1>1. Len(r) \in Nat /\ Len(r) \in 1..Len(r) /\ Len(r) >= 1
  BY SeqParts
<1>2. /\ s \in Seq(T) /\ Len(s) = (Len(r) - 1) - 1 + 1
      /\ \A i \in 1..((Len(r) - 1) - 1 + 1) : s[i] = r[1 + i - 1]
  <2> DEFINE n == Len(r) - 1
  <2>1. n \in Int /\ 1 <= n + 1 /\ n <= Len(r)
    BY <1>1
  <2> HIDE DEF n
  <2>2. /\ SubSeq(r, 1, n) \in Seq(T) /\ Len(SubSeq(r, 1, n)) = n - 1 + 1
        /\ \A i \in 1..(n - 1 + 1) : SubSeq(r, 1, n)[i] = r[1 + i - 1]
    BY <2>1, SubSeqParts
  <2>3. QED
    BY <2>2 DEF n
<1> HIDE DEF s
<1>3. /\ Len(s) = Len(r) - 1
      /\ \A i \in 1..(k - 1) : s[i] = r[i]
      /\ \A i \in k..(Len(r) - 1) : s[i] = r[i + 1]
  BY <1>1, <1>2
<1>4. k \in 1..Len(r)
  BY <1>1
<1> HIDE DEF k
<1>5. s = Removed(r, k)
  BY <1>2, <1>3, <1>4, RemovedIs
<1>6. QED
  BY <1>5 DEF Front, s, k

LEMMA RemoveAtRemoves ==
  ASSUME NEW T, NEW r \in Seq(T), NEW k \in 1..Len(r)
  PROVE  RemoveAt(r, k) = Removed(r, k)
<1> DEFINE a == SubSeq(r, 1, k - 1)
           b == SubSeq(r, k + 1, Len(r))
           s == a \o b
<1>1. Len(r) \in Nat /\ k \in Nat
  BY SeqParts
<1>2. a \in Seq(T) /\ Len(a) = k - 1 /\ \A i \in 1..(k - 1) : a[i] = r[i]
  BY <1>1, SubSeqParts
<1>3. b \in Seq(T) /\ Len(b) = Len(r) - k /\ \A i \in 1..(Len(r) - k) : b[i] = r[k + i]
  <2>1. /\ b \in Seq(T) /\ Len(b) = Len(r) - (k + 1) + 1
        /\ \A i \in 1..(Len(r) - (k + 1) + 1) : b[i] = r[(k + 1) + i - 1]
    BY <1>1, SubSeqParts
  <2> HIDE DEF b
  <2>2. QED
    BY <1>1, <2>1
<1> HIDE DEF a, b
<1>4. /\ s \in Seq(T) /\ Len(s) = (k - 1) + (Len(r) - k)
      /\ \A i \in 1..(k - 1) : s[i] = a[i]
      /\ \A i \in ((k - 1) + 1)..((k - 1) + (Len(r) - k)) : s[i] = b[i - (k - 1)]
  <2>1. /\ s \in Seq(T) /\ Len(s) = Len(a) + Len(b)
        /\ \A i \in 1..Len(a) : s[i] = a[i]
        /\ \A i \in (Len(a) + 1)..(Len(a) + Len(b)) : s[i] = b[i - Len(a)]
    BY <1>2, <1>3, ConcatParts
  <2>2. Len(a) = k - 1 /\ Len(b) = Len(r) - k
    BY <1>2, <1>3
  <2> HIDE DEF s
  <2>3. QED
    BY <2>1, <2>2, Zenon
<1> HIDE DEF s
<1>5. Len(s) = Len(r) - 1 /\ \A i \in 1..(k - 1) : s[i] = r[i]
  BY <1>1, <1>2, <1>4
<1>6. ASSUME NEW i \in k..(Len(r) - 1)
      PROVE  s[i] = r[i + 1]
  <2>1. i \in ((k - 1) + 1)..((k - 1) + (Len(r) - k)) /\ i - (k - 1) \in 1..(Len(r) - k)
        /\ k + (i - (k - 1)) = i + 1
    BY <1>1
  <2>2. QED
    BY <1>3, <1>4, <2>1
<1>7. s = Removed(r, k)
  BY <1>4, <1>5, <1>6, RemovedIs
<1>8. QED
  BY <1>7 DEF RemoveAt, a, b, s

-----------------------------------------------------------------------------
(* Linked lists.                                                           *)

NodeAfter(r, i) == IF i < Len(r) THEN r[i + 1] ELSE NULL

EndOf(r) == IF Len(r) = 0 THEN NULL ELSE r[Len(r)]

\* The nodes of r, each once, are linked from start to NULL in this order.
Chain(r, start, link) ==
    /\ r \in Seq(Nodes) /\ IsInjective(r)
    /\ start = NodeAfter(r, 0)
    /\ \A i \in 1..Len(r) : link[r[i]] = NodeAfter(r, i)

LEMMA Injective ==
  ASSUME NEW T, NEW r \in Seq(T)
  PROVE  IsInjective(r) <=> \A i, j \in 1..Len(r) : r[i] = r[j] => i = j
BY SeqParts DEF IsInjective

LEMMA InToSet ==
  ASSUME NEW T, NEW r \in Seq(T), NEW x
  PROVE  x \in ToSet(r) <=> \E i \in 1..Len(r) : r[i] = x
BY SeqParts DEF ToSet

\* A list with no node twice is no longer than the heap.
LEMMA ChainLength ==
  ASSUME NEW r \in Seq(Nodes), IsInjective(r)
  PROVE  Cardinality(Nodes) \in Nat /\ Len(r) <= Cardinality(Nodes)
<1>1. IsFiniteSet(Nodes)
  BY QueueAssumption
<1>2. Cardinality(Nodes) \in Nat /\ Len(r) \in Nat
  BY <1>1, FS_CardinalityType, SeqParts
<1>3. IsFiniteSet(1..Len(r)) /\ Cardinality(1..Len(r)) = Len(r)
  <2> DEFINE n == Len(r)
  <2>1. n \in Nat
    BY <1>2
  <2> HIDE DEF n
  <2>2. IsFiniteSet(1..n) /\ Cardinality(1..n) = IF 1 > n THEN 0 ELSE n - 1 + 1
    BY <2>1, FS_Interval
  <2>3. Cardinality(1..n) = n
    BY <2>1, <2>2
  <2>4. QED
    BY <2>2, <2>3 DEF n
<1>4. r \in [1..Len(r) -> Nodes]
  OBVIOUS
<1>5. ASSUME Cardinality(Nodes) < Len(r)
      PROVE  FALSE
  <2>1. \E i, j \in 1..Len(r) : i # j /\ r[i] = r[j]
    <3> DEFINE S == 1..Len(r)
    <3>1. IsFiniteSet(S) /\ Cardinality(Nodes) < Cardinality(S) /\ r \in [S -> Nodes]
      BY <1>3, <1>4, <1>5
    <3> HIDE DEF S
    <3>2. \E i, j \in S : i # j /\ r[i] = r[j]
      BY <1>1, <3>1, FS_PigeonHole
    <3>3. QED
      BY <3>2 DEF S
  <2>2. QED
    BY <2>1, Injective
<1>6. QED
  BY <1>2, <1>5

\* The program's way through the list meets the nodes of r, in this order.
LEMMA ChainFollowed ==
  ASSUME NEW r, NEW start, NEW link, Chain(r, start, link)
  PROVE  Following(start, link) = r
<1> DEFINE N == Cardinality(Nodes)
           Step(f, k) == IF k = 1 THEN start ELSE IF f[k - 1] = NULL THEN NULL ELSE link[f[k - 1]]
           at == CHOOSE f : f = [k \in 1..N |-> Step(f, k)]
           good == [k \in 1..N |-> IF k <= Len(r) THEN r[k] ELSE NULL]
<1>1. r \in Seq(Nodes) /\ Len(r) \in Nat /\ N \in Nat /\ Len(r) <= N /\ DOMAIN r = 1..Len(r)
  BY ChainLength, SeqParts DEF Chain
<1>2. \A i \in 1..Len(r) : r[i] \in Nodes /\ r[i] # NULL
  BY <1>1, SeqParts, QueueAssumption
<1>3. start = NodeAfter(r, 0) /\ \A i \in 1..Len(r) : link[r[i]] = NodeAfter(r, i)
  BY DEF Chain
<1>4. Following(start, link) = [k \in {j \in 1..N : at[j] # NULL} |-> at[k]]
  BY DEF Following
<1> HIDE DEF N
<1>5. \A k \in 1..N : good[k] = Step(good, k)
  <2>1. ASSUME NEW k \in 1..N, k = 1
        PROVE  good[k] = start
    BY <1>1, <1>3, <2>1 DEF NodeAfter
  <2>2. ASSUME NEW k \in 1..N, k # 1
        PROVE  good[k] = IF good[k - 1] = NULL THEN NULL ELSE link[good[k - 1]]
    <3>1. k - 1 \in 1..N /\ k \in Nat
      BY <1>1, <2>2
    <3>2. CASE k - 1 <= Len(r)
      <4>1. good[k - 1] = r[k - 1] /\ k - 1 \in 1..Len(r)
        BY <1>1, <3>1, <3>2
      <4>2. link[good[k - 1]] = NodeAfter(r, k - 1) /\ good[k - 1] # NULL
        BY <1>2, <1>3, <4>1
      <4>3. NodeAfter(r, k - 1) = good[k]
        BY <1>1, <3>1, <3>2 DEF NodeAfter
      <4>4. QED
        BY <4>2, <4>3
    <3>3. CASE ~(k - 1 <= Len(r))
      BY <1>1, <3>1, <3>3
    <3>4. QED
      BY <3>2, <3>3
  <2>3. QED
    BY <2>1, <2>2
<1>6. good = [k \in 1..N |-> Step(good, k)]
  <2>1. DOMAIN good = 1..N /\ good = [k \in 1..N |-> good[k]]
    OBVIOUS
  <2> HIDE DEF good
  <2>2. QED
    BY <1>5, <2>1
<1>7. at = [k \in 1..N |-> Step(at, k)]
  <2> HIDE DEF good
  <2>1. \E f : f = [k \in 1..N |-> Step(f, k)]
    BY <1>6
  <2>2. QED
    BY <2>1
<1> HIDE DEF at
<1>8. \A k \in 1..N : at[k] = Step(at, k)
  BY <1>7
<1> HIDE DEF good
<1>9. \A k \in 1..N : at[k] = good[k]
  <2> DEFINE S == {k \in 1..N : at[k] # good[k]}
  <2> SUFFICES ASSUME S # {}
               PROVE  FALSE
    OBVIOUS
  <2>1. S \in SUBSET Nat
    BY <1>1
  <2>2. PICK k \in S : \A j \in S : k <= j
    <3> HIDE DEF S
    <3>1. QED
      BY <2>1, LeastExists
  <2>3. k \in 1..N /\ at[k] # good[k]
    BY <2>2
  <2>4. k # 1
    BY <1>5, <1>8, <2>3
  <2>5. k - 1 \in 1..N /\ k - 1 \notin S
    BY <1>1, <2>2, <2>3, <2>4
  <2>6. at[k - 1] = good[k - 1]
    BY <2>5
  <2>7. QED
    BY <1>5, <1>8, <2>3, <2>6
<1>10. \A k \in 1..N : at[k] = IF k <= Len(r) THEN r[k] ELSE NULL
  BY <1>9 DEF good
<1>11. {j \in 1..N : at[j] # NULL} = 1..Len(r)
  BY <1>1, <1>2, <1>10
<1>12. \A k \in 1..Len(r) : at[k] = r[k]
  BY <1>1, <1>10
<1>13. r = [k \in 1..Len(r) |-> r[k]]
  BY <1>1
<1>14. QED
  BY <1>4, <1>11, <1>12, <1>13

\* Who is in a list with one node more, or one less.
LEMMA InsertedMembers ==
  ASSUME NEW T, NEW r \in Seq(T), NEW x \in T, NEW k \in 1..(Len(r) + 1)
  PROVE  /\ ToSet(Inserted(r, k, x)) = ToSet(r) \cup {x}
         /\ IsInjective(r) /\ x \notin ToSet(r) => IsInjective(Inserted(r, k, x))
<1> DEFINE s == Inserted(r, k, x)
<1>1. /\ s \in Seq(T) /\ Len(s) = Len(r) + 1 /\ s[k] = x
      /\ \A i \in 1..(k - 1) : s[i] = r[i]
      /\ \A i \in (k + 1)..(Len(r) + 1) : s[i] = r[i - 1]
  BY InsertedParts
<1>2. Len(r) \in Nat /\ k \in Nat
  BY SeqParts
<1> HIDE DEF s
<1>3. ASSUME NEW i \in 1..Len(s)
      PROVE  \/ i = k
             \/ i < k /\ i \in 1..Len(r) /\ s[i] = r[i]
             \/ i > k /\ i - 1 \in 1..Len(r) /\ s[i] = r[i - 1]
  <2>1. CASE i < k
    BY <1>1, <1>2, <2>1
  <2>2. CASE i > k
    <3>1. i \in (k + 1)..(Len(r) + 1)
      BY <1>1, <1>2, <2>2
    <3>2. QED
      BY <1>1, <1>2, <2>2, <3>1
  <2>3. QED
    BY <1>1, <1>2, <2>1, <2>2
<1>4. ASSUME NEW j \in 1..Len(r)
      PROVE  \E i \in 1..Len(s) : s[i] = r[j]
  <2>1. CASE j < k
    BY <1>1, <1>2, <2>1
  <2>2. CASE ~(j < k)
    <3>1. j + 1 \in (k + 1)..(Len(r) + 1) /\ j + 1 \in 1..Len(s) /\ (j + 1) - 1 = j
      BY <1>1, <1>2, <2>2
    <3>2. s[j + 1] = r[(j + 1) - 1]
      BY <1>1, <3>1
    <3>3. QED
      BY <3>1, <3>2
  <2>3. QED
    BY <2>1, <2>2
<1>5. ToSet(s) = ToSet(r) \cup {x}
  <2>1. k \in 1..Len(s)
    BY <1>1, <1>2
  <2>2. ASSUME NEW y \in ToSet(s)
        PROVE  y \in ToSet(r) \cup {x}
    <3>1. PICK i \in 1..Len(s) : s[i] = y
      BY <1>1, <2>2, InToSet
    <3>2. y = x \/ \E j \in 1..Len(r) : r[j] = y
      BY <1>1, <1>3, <3>1
    <3>3. QED
      BY <3>2, InToSet
  <2>3. ASSUME NEW y \in ToSet(r)
        PROVE  y \in ToSet(s)
    BY <1>1, <1>4, <2>3, InToSet
  <2>4. x \in ToSet(s)
    BY <1>1, <2>1, InToSet
  <2>5. QED
    BY <2>2, <2>3, <2>4
<1>6. ASSUME IsInjective(r), x \notin ToSet(r)
      PROVE  IsInjective(s)
  <2>1. \A i, j \in 1..Len(r) : r[i] = r[j] => i = j
    BY <1>6, Injective
  <2>2. \A i \in 1..Len(r) : r[i] # x
    BY <1>6, InToSet
  <2>3. ASSUME NEW i \in 1..Len(s), NEW j \in 1..Len(s), s[i] = s[j]
        PROVE  i = j
    <3>1. CASE i = k
      BY <1>1, <1>3, <2>2, <2>3, <3>1
    <3>2. CASE j = k
      BY <1>1, <1>3, <2>2, <2>3, <3>2
    <3>3. CASE i # k /\ j # k
      <4> DEFINE from(l) == IF l < k THEN l ELSE l - 1
      <4>1. ASSUME NEW l \in 1..Len(s), l # k
            PROVE  from(l) \in 1..Len(r) /\ s[l] = r[from(l)]
        BY <1>1, <1>2, <1>3, <4>1
      <4>2. \A l, m \in 1..Len(s) : l # k /\ m # k /\ from(l) = from(m) => l = m
        BY <1>1, <1>2
      <4> HIDE DEF from
      <4>3. from(i) = from(j)
        BY <2>1, <2>3, <3>3, <4>1
      <4>4. QED
        BY <3>3, <4>2, <4>3
    <3>4. QED
      BY <3>1, <3>2, <3>3
  <2>4. QED
    BY <1>1, <2>3, Injective
<1>7. QED
  BY <1>5, <1>6 DEF s

LEMMA RemovedMembers ==
  ASSUME NEW T, NEW r \in Seq(T), NEW k \in 1..Len(r), IsInjective(r)
  PROVE  /\ IsInjective(Removed(r, k))
         /\ ToSet(Removed(r, k)) = ToSet(r) \ {r[k]}
<1> DEFINE s == Removed(r, k)
<1>1. /\ s \in Seq(T) /\ Len(s) = Len(r) - 1
      /\ \A i \in 1..(k - 1) : s[i] = r[i]
      /\ \A i \in k..(Len(r) - 1) : s[i] = r[i + 1]
  BY RemovedParts
<1>2. Len(r) \in Nat /\ k \in Nat
  BY SeqParts
<1>3. \A i, j \in 1..Len(r) : r[i] = r[j] => i = j
  BY Injective
<1> HIDE DEF s
<1> DEFINE from(i) == IF i < k THEN i ELSE i + 1
<1>4. ASSUME NEW i \in 1..Len(s)
      PROVE  from(i) \in 1..Len(r) /\ from(i) # k /\ s[i] = r[from(i)]
  BY <1>1, <1>2
<1>5. ASSUME NEW j \in 1..Len(r), j # k
      PROVE  \E i \in 1..Len(s) : s[i] = r[j]
  <2>1. CASE j < k
    BY <1>1, <1>2, <2>1
  <2>2. CASE ~(j < k)
    <3>1. j - 1 \in k..(Len(r) - 1) /\ j - 1 \in 1..Len(s) /\ (j - 1) + 1 = j
      BY <1>1, <1>2, <1>5, <2>2
    <3>2. s[j - 1] = r[(j - 1) + 1]
      BY <1>1, <3>1
    <3>3. QED
      BY <3>1, <3>2
  <2>3. QED
    BY <2>1, <2>2
<1>6. \A i, j \in 1..Len(s) : from(i) = from(j) => i = j
  BY <1>1, <1>2
<1> HIDE DEF from
<1>7. IsInjective(s)
  <2>1. ASSUME NEW i \in 1..Len(s), NEW j \in 1..Len(s), s[i] = s[j]
        PROVE  i = j
    <3>1. from(i) = from(j)
      BY <1>3, <1>4, <2>1
    <3>2. QED
      BY <1>6, <3>1
  <2>2. QED
    BY <1>1, <2>1, Injective
<1>8. ToSet(s) = ToSet(r) \ {r[k]}
  <2>1. ASSUME NEW y \in ToSet(s)
        PROVE  y \in ToSet(r) \ {r[k]}
    BY <1>1, <1>3, <1>4, <2>1, InToSet
  <2>2. ASSUME NEW y \in ToSet(r) \ {r[k]}
        PROVE  y \in ToSet(s)
    <3>1. PICK j \in 1..Len(r) : r[j] = y
      BY <2>2, InToSet
    <3>2. QED
      BY <1>1, <1>5, <2>2, <3>1, InToSet
  <2>3. QED
    BY <2>1, <2>2
<1>9. QED
  BY <1>7, <1>8 DEF s

\* What is held by a list with one node more, or one less.
LEMMA HeldType ==
  ASSUME NEW r \in Seq(Nodes), NEW p, NEW T, \A m \in Nodes : p[m] \in T
  PROVE  /\ Held(r, p) \in Seq(T) /\ Len(Held(r, p)) = Len(r)
         /\ DOMAIN Held(r, p) = 1..Len(r)
         /\ \A i \in 1..Len(r) : Held(r, p)[i] = p[r[i]]
<1> DEFINE h == Held(r, p)
<1>1. Len(r) \in Nat /\ DOMAIN r = 1..Len(r) /\ \A i \in 1..Len(r) : r[i] \in Nodes
  BY SeqParts
<1>2. h \in [1..Len(r) -> T] /\ \A i \in 1..Len(r) : h[i] = p[r[i]]
  BY <1>1 DEF Held
<1> HIDE DEF h
<1>3. h \in Seq(T) /\ Len(h) = Len(r) /\ DOMAIN h = 1..Len(r)
  BY <1>1, <1>2, SeqFromFunction
<1>4. QED
  BY <1>2, <1>3 DEF h

LEMMA HeldInserted ==
  ASSUME NEW r \in Seq(Nodes), NEW p, NEW n \in Nodes,
         NEW k \in 1..(Len(r) + 1)
  PROVE  Held(Inserted(r, k, n), p) = Inserted(Held(r, p), k, p[n])
<1> DEFINE T == {p[m] : m \in Nodes}
<1>0. \A m \in Nodes : p[m] \in T
  OBVIOUS
<1> HIDE DEF T
<1> DEFINE s == Inserted(r, k, n)
           h == Held(r, p)
           w == Held(s, p)
           x == p[n]
<1>1. /\ s \in Seq(Nodes) /\ Len(s) = Len(r) + 1 /\ s[k] = n
      /\ \A i \in 1..(k - 1) : s[i] = r[i]
      /\ \A i \in (k + 1)..(Len(r) + 1) : s[i] = r[i - 1]
  BY InsertedParts
<1>2. Len(r) \in Nat /\ k \in Nat
  BY SeqParts
<1>3. h \in Seq(T) /\ Len(h) = Len(r) /\ \A i \in 1..Len(r) : h[i] = p[r[i]]
  BY <1>0, HeldType
<1> HIDE DEF s, h
<1>4. w \in Seq(T) /\ Len(w) = Len(s) /\ \A i \in 1..Len(s) : w[i] = p[s[i]]
  BY <1>0, <1>1, HeldType
<1> HIDE DEF w
<1>5. x \in T /\ Len(w) = Len(h) + 1 /\ w[k] = x /\ k \in 1..(Len(h) + 1)
  BY <1>0, <1>1, <1>2, <1>3, <1>4
<1>6. \A i \in 1..(k - 1) : w[i] = h[i]
  BY <1>1, <1>2, <1>3, <1>4
<1>7. ASSUME NEW i \in (k + 1)..(Len(h) + 1)
      PROVE  w[i] = h[i - 1]
  <2>1. i \in (k + 1)..(Len(r) + 1) /\ i \in 1..Len(s) /\ i - 1 \in 1..Len(r)
    BY <1>1, <1>2, <1>3
  <2>2. s[i] = r[i - 1]
    BY <1>1, <2>1
  <2>3. w[i] = p[s[i]] /\ h[i - 1] = p[r[i - 1]]
    BY <1>3, <1>4, <2>1
  <2>4. QED
    BY <2>2, <2>3
<1> HIDE DEF x
<1>8. w = Inserted(h, k, x)
  BY <1>3, <1>4, <1>5, <1>6, <1>7, InsertedIs
<1>9. QED
  BY <1>8 DEF w, h, s, x

LEMMA HeldRemoved ==
  ASSUME NEW r \in Seq(Nodes), NEW p, NEW k \in 1..Len(r)
  PROVE  Held(Removed(r, k), p) = Removed(Held(r, p), k)
<1> DEFINE T == {p[m] : m \in Nodes}
<1>0. \A m \in Nodes : p[m] \in T
  OBVIOUS
<1> HIDE DEF T
<1> DEFINE s == Removed(r, k)
           h == Held(r, p)
           w == Held(s, p)
<1>1. /\ s \in Seq(Nodes) /\ Len(s) = Len(r) - 1
      /\ \A i \in 1..(k - 1) : s[i] = r[i]
      /\ \A i \in k..(Len(r) - 1) : s[i] = r[i + 1]
  BY RemovedParts
<1>2. Len(r) \in Nat /\ k \in Nat
  BY SeqParts
<1>3. h \in Seq(T) /\ Len(h) = Len(r) /\ \A i \in 1..Len(r) : h[i] = p[r[i]]
  BY <1>0, HeldType
<1> HIDE DEF s, h
<1>4. w \in Seq(T) /\ Len(w) = Len(s) /\ \A i \in 1..Len(s) : w[i] = p[s[i]]
  BY <1>0, <1>1, HeldType
<1> HIDE DEF w
<1>5. Len(w) = Len(h) - 1 /\ k \in 1..Len(h)
  BY <1>0, <1>1, <1>2, <1>3, <1>4
<1>6. ASSUME NEW i \in 1..(k - 1)
      PROVE  w[i] = h[i]
  <2>1. i \in 1..Len(s) /\ i \in 1..Len(r)
    BY <1>1, <1>2
  <2>2. QED
    BY <1>1, <1>3, <1>4, <2>1
<1>7. ASSUME NEW i \in k..(Len(h) - 1)
      PROVE  w[i] = h[i + 1]
  <2>1. i \in k..(Len(r) - 1) /\ i \in 1..Len(s) /\ i + 1 \in 1..Len(r)
    BY <1>1, <1>2, <1>3
  <2>2. s[i] = r[i + 1]
    BY <1>1, <2>1
  <2>3. w[i] = p[s[i]] /\ h[i + 1] = p[r[i + 1]]
    BY <1>3, <1>4, <2>1
  <2>4. QED
    BY <2>2, <2>3
<1>8. w = Removed(h, k)
  BY <1>3, <1>4, <1>5, <1>6, <1>7, RemovedIs
<1>9. QED
  BY <1>8 DEF w, h, s

\* What the links must be for one node more, or one less, to be in the list.
LEMMA ChainInserted ==
  ASSUME NEW r, NEW start, NEW link, Chain(r, start, link),
         NEW n \in Nodes, n \notin ToSet(r), NEW k \in 1..(Len(r) + 1),
         NEW start2, start2 = IF k = 1 THEN n ELSE start,
         NEW link2, link2[n] = NodeAfter(r, k - 1),
         k > 1 => link2[r[k - 1]] = n,
         \A i \in 1..Len(r) : i # k - 1 => link2[r[i]] = link[r[i]]
  PROVE  Chain(Inserted(r, k, n), start2, link2)
<1> DEFINE s == Inserted(r, k, n)
<1>1. r \in Seq(Nodes) /\ IsInjective(r) /\ Len(r) \in Nat /\ k \in Nat
  BY SeqParts DEF Chain
<1>2. /\ start = NodeAfter(r, 0)
      /\ \A i \in 1..Len(r) : link[r[i]] = NodeAfter(r, i)
  BY DEF Chain
<1>3. /\ s \in Seq(Nodes) /\ Len(s) = Len(r) + 1 /\ s[k] = n
      /\ \A i \in 1..(k - 1) : s[i] = r[i]
      /\ \A i \in (k + 1)..(Len(r) + 1) : s[i] = r[i - 1]
  BY <1>1, InsertedParts
<1>4. IsInjective(s)
  BY <1>1, InsertedMembers
<1> HIDE DEF s
<1>5. start2 = NodeAfter(s, 0)
  <2>1. NodeAfter(s, 0) = s[1]
    BY <1>1, <1>3 DEF NodeAfter
  <2>2. CASE k = 1
    BY <1>3, <2>1, <2>2
  <2>3. CASE k # 1
    <3>1. 1 \in 1..(k - 1) /\ NodeAfter(r, 0) = r[1]
      BY <1>1, <2>3 DEF NodeAfter
    <3>2. QED
      BY <1>2, <1>3, <2>1, <2>3, <3>1
  <2>4. QED
    BY <2>2, <2>3
<1>6. ASSUME NEW i \in 1..Len(s)
      PROVE  link2[s[i]] = NodeAfter(s, i)
  <2>1. CASE i < k - 1
    <3>1. i \in 1..(k - 1) /\ i + 1 \in 1..(k - 1) /\ i \in 1..Len(r) /\ i # k - 1 /\ i < Len(r) /\ i < Len(s)
      BY <1>1, <1>3, <2>1
    <3>2. s[i] = r[i] /\ s[i + 1] = r[i + 1]
      BY <1>3, <3>1
    <3>3. link2[r[i]] = r[i + 1]
      BY <1>2, <3>1 DEF NodeAfter
    <3>4. QED
      BY <3>1, <3>2, <3>3 DEF NodeAfter
  <2>2. CASE i = k - 1
    <3>1. i \in 1..(k - 1) /\ k > 1 /\ i < Len(s) /\ i + 1 = k
      BY <1>1, <1>3, <2>2
    <3>2. QED
      BY <1>3, <2>2, <3>1 DEF NodeAfter
  <2>3. CASE i = k
    <3>1. CASE k = Len(r) + 1
      <4>1. ~(k - 1 < Len(r)) /\ ~(i < Len(s))
        BY <1>1, <1>3, <2>3, <3>1
      <4>2. QED
        BY <1>3, <2>3, <4>1 DEF NodeAfter
    <3>2. CASE k # Len(r) + 1
      <4>1. k - 1 < Len(r) /\ i < Len(s) /\ i + 1 \in (k + 1)..(Len(r) + 1)
            /\ (i + 1) - 1 = k /\ (k - 1) + 1 = k
        BY <1>1, <1>3, <2>3, <3>2
      <4>2. s[i + 1] = r[(i + 1) - 1]
        BY <1>3, <4>1
      <4>3. NodeAfter(r, k - 1) = r[k] /\ NodeAfter(s, i) = r[k]
        BY <4>1, <4>2 DEF NodeAfter
      <4>4. QED
        BY <1>3, <2>3, <4>3
    <3>3. QED
      BY <3>1, <3>2
  <2>4. CASE i > k
    <3>1. i \in (k + 1)..(Len(r) + 1) /\ i - 1 \in 1..Len(r) /\ i - 1 # k - 1 /\ (i - 1) + 1 = i
      BY <1>1, <1>3, <2>4
    <3>2. s[i] = r[i - 1] /\ link2[r[i - 1]] = NodeAfter(r, i - 1)
      BY <1>2, <1>3, <3>1
    <3>3. CASE i < Len(s)
      <4>1. i - 1 < Len(r) /\ i + 1 \in (k + 1)..(Len(r) + 1) /\ (i + 1) - 1 = i
        BY <1>1, <1>3, <2>4, <3>3
      <4>2. s[i + 1] = r[i]
        BY <1>3, <4>1
      <4>3. NodeAfter(r, i - 1) = r[i] /\ NodeAfter(s, i) = s[i + 1]
        BY <3>1, <3>3, <4>1 DEF NodeAfter
      <4>4. QED
        BY <3>2, <4>2, <4>3
    <3>4. CASE ~(i < Len(s))
      <4>1. ~(i - 1 < Len(r))
        BY <1>1, <1>3, <3>4
      <4>2. QED
        BY <3>2, <3>4, <4>1 DEF NodeAfter
    <3>5. QED
      BY <3>3, <3>4
  <2>5. QED
    BY <1>1, <1>3, <2>1, <2>2, <2>3, <2>4
<1>7. QED
  BY <1>3, <1>4, <1>5, <1>6 DEF Chain, s

LEMMA ChainRemoved ==
  ASSUME NEW r, NEW start, NEW link, Chain(r, start, link), NEW k \in 1..Len(r),
         NEW start2, start2 = IF k = 1 THEN link[r[1]] ELSE start,
         NEW link2, k > 1 => link2[r[k - 1]] = link[r[k]],
         \A i \in 1..Len(r) : i # k - 1 /\ i # k => link2[r[i]] = link[r[i]]
  PROVE  Chain(Removed(r, k), start2, link2)
<1> DEFINE s == Removed(r, k)
<1>1. r \in Seq(Nodes) /\ IsInjective(r) /\ Len(r) \in Nat /\ k \in Nat
  BY SeqParts DEF Chain
<1>2. /\ start = NodeAfter(r, 0)
      /\ \A i \in 1..Len(r) : link[r[i]] = NodeAfter(r, i)
  BY DEF Chain
<1>3. /\ s \in Seq(Nodes) /\ Len(s) = Len(r) - 1
      /\ \A i \in 1..(k - 1) : s[i] = r[i]
      /\ \A i \in k..(Len(r) - 1) : s[i] = r[i + 1]
  BY <1>1, RemovedParts
<1>4. IsInjective(s)
  BY <1>1, RemovedMembers
<1> HIDE DEF s
<1>5. ASSUME NEW i \in k..Len(r)
      PROVE  NodeAfter(s, i - 1) = NodeAfter(r, i)
  <2>1. CASE i < Len(r)
    <3>1. i \in k..(Len(r) - 1) /\ i - 1 < Len(s) /\ (i - 1) + 1 = i
      BY <1>1, <1>3, <2>1
    <3>2. QED
      BY <1>3, <2>1, <3>1 DEF NodeAfter
  <2>2. CASE ~(i < Len(r))
    <3>1. ~(i - 1 < Len(s))
      BY <1>1, <1>3, <2>2
    <3>2. QED
      BY <2>2, <3>1 DEF NodeAfter
  <2>3. QED
    BY <2>1, <2>2
<1>6. ASSUME NEW i \in 0..(k - 2)
      PROVE  NodeAfter(s, i) = NodeAfter(r, i)
  <2>1. i + 1 \in 1..(k - 1) /\ i < Len(s) /\ i < Len(r)
    BY <1>1, <1>3
  <2>2. QED
    BY <1>3, <2>1 DEF NodeAfter
<1>7. start2 = NodeAfter(s, 0)
  <2>1. CASE k = 1
    <3>1. 1 \in k..Len(r) /\ 1 \in 1..Len(r) /\ 1 - 1 = 0
      BY <1>1, <2>1
    <3>2. QED
      BY <1>2, <1>5, <2>1, <3>1
  <2>2. CASE k # 1
    <3>1. 0 \in 0..(k - 2)
      BY <1>1, <2>2
    <3>2. QED
      BY <1>2, <1>6, <2>2, <3>1
  <2>3. QED
    BY <2>1, <2>2
<1>8. ASSUME NEW i \in 1..Len(s)
      PROVE  link2[s[i]] = NodeAfter(s, i)
  <2>1. CASE i < k - 1
    <3>1. i \in 1..(k - 1) /\ i \in 0..(k - 2) /\ i \in 1..Len(r) /\ i # k - 1 /\ i # k
      BY <1>1, <1>3, <2>1
    <3>2. QED
      BY <1>2, <1>3, <1>6, <3>1
  <2>2. CASE i = k - 1
    <3>1. i \in 1..(k - 1) /\ k > 1 /\ k \in k..Len(r)
      BY <1>1, <1>3, <2>2
    <3>2. link2[r[k - 1]] = NodeAfter(r, k)
      BY <1>2, <3>1
    <3>3. QED
      BY <1>3, <1>5, <2>2, <3>1, <3>2
  <2>3. CASE i >= k
    <3>1. i \in k..(Len(r) - 1) /\ i + 1 \in 1..Len(r) /\ i + 1 \in k..Len(r)
          /\ i + 1 # k - 1 /\ i + 1 # k /\ (i + 1) - 1 = i
      BY <1>1, <1>3, <2>3
    <3>2. link2[r[i + 1]] = NodeAfter(r, i + 1) /\ s[i] = r[i + 1]
      BY <1>2, <1>3, <3>1
    <3>3. NodeAfter(s, i) = NodeAfter(r, i + 1)
      BY <1>5, <3>1
    <3>4. QED
      BY <3>2, <3>3
  <2>4. QED
    BY <1>1, <1>3, <2>1, <2>2, <2>3
<1>9. QED
  BY <1>3, <1>4, <1>7, <1>8 DEF Chain, s

LEMMA ChainKept ==
  ASSUME NEW r, NEW start, NEW link, Chain(r, start, link),
         NEW link2, \A i \in 1..Len(r) : link2[r[i]] = link[r[i]]
  PROVE  Chain(r, start, link2)
BY DEF Chain

LEMMA EndInserted ==
  ASSUME NEW r \in Seq(Nodes), NEW n \in Nodes, NEW k \in 1..(Len(r) + 1)
  PROVE  EndOf(Inserted(r, k, n)) = IF k = Len(r) + 1 THEN n ELSE EndOf(r)
<1> DEFINE s == Inserted(r, k, n)
<1>1. /\ Len(s) = Len(r) + 1 /\ s[k] = n
      /\ \A i \in (k + 1)..(Len(r) + 1) : s[i] = r[i - 1]
  BY InsertedParts
<1>2. Len(r) \in Nat /\ k \in Nat
  BY SeqParts
<1> HIDE DEF s
<1>3. EndOf(s) = s[Len(r) + 1]
  BY <1>1, <1>2 DEF EndOf
<1>4. CASE k = Len(r) + 1
  BY <1>1, <1>3, <1>4 DEF s
<1>5. CASE k # Len(r) + 1
  <2>1. Len(r) + 1 \in (k + 1)..(Len(r) + 1) /\ (Len(r) + 1) - 1 = Len(r) /\ Len(r) # 0
    BY <1>2, <1>5
  <2>2. s[Len(r) + 1] = r[Len(r)]
    BY <1>1, <2>1
  <2>3. QED
    BY <1>3, <1>5, <2>1, <2>2 DEF EndOf, s
<1>6. QED
  BY <1>4, <1>5

LEMMA EndRemoved ==
  ASSUME NEW r \in Seq(Nodes), NEW k \in 1..Len(r)
  PROVE  EndOf(Removed(r, k)) = IF k < Len(r) THEN EndOf(r)
                                ELSE IF Len(r) = 1 THEN NULL ELSE r[Len(r) - 1]
<1> DEFINE s == Removed(r, k)
<1>1. /\ Len(s) = Len(r) - 1
      /\ \A i \in 1..(k - 1) : s[i] = r[i]
      /\ \A i \in k..(Len(r) - 1) : s[i] = r[i + 1]
  BY RemovedParts
<1>2. Len(r) \in Nat /\ k \in Nat
  BY SeqParts
<1> HIDE DEF s
<1>3. CASE Len(r) = 1
  BY <1>1, <1>2, <1>3 DEF EndOf, s
<1>4. CASE Len(r) # 1 /\ k < Len(r)
  <2>1. Len(r) - 1 \in k..(Len(r) - 1) /\ (Len(r) - 1) + 1 = Len(r) /\ Len(r) # 0 /\ Len(s) # 0
    BY <1>1, <1>2, <1>4
  <2>2. s[Len(r) - 1] = r[Len(r)]
    BY <1>1, <2>1
  <2>3. QED
    BY <1>1, <1>4, <2>1, <2>2 DEF EndOf, s
<1>5. CASE Len(r) # 1 /\ ~(k < Len(r))
  <2>1. Len(r) - 1 \in 1..(k - 1) /\ Len(s) # 0
    BY <1>1, <1>2, <1>5
  <2>2. s[Len(r) - 1] = r[Len(r) - 1]
    BY <1>1, <2>1
  <2>3. QED
    BY <1>1, <1>5, <2>1, <2>2 DEF EndOf, s
<1>6. QED
  BY <1>3, <1>4, <1>5

-----------------------------------------------------------------------------
(* The invariant: there is a list t, of the nodes as they were before the  *)
(* operation in progress, and every assignment made so far is accounted    *)
(* for.  WellFormed alone is not inductive: it says nothing of the states  *)
(* within an operation, nor of who the nodes hold.                         *)

Entering == pc \in {"link", "front", "rear", "count"}

Leaving == pc \in {"take", "advance", "clear", "free", "uncount"}

Longer(t) == Inserted(t, Len(t) + 1, node)

Shorter(t) == Removed(t, 1)

\* How the links and the two ends stand at each assignment.
Linked(t) ==
    /\ pc \in {"idle", "link", "take", "advance"} => Chain(t, front, next) /\ rear = EndOf(t)
    /\ pc = "link" => next[node] = NULL
    /\ pc = "front" => t = <<>> /\ next[node] = NULL /\ rear = node
    /\ pc \in {"rear", "count"} => Chain(Longer(t), front, next)
    /\ pc = "count" => rear = node
    /\ pc \in {"clear", "free", "uncount"} => Chain(Shorter(t), front, next)
    /\ pc = "clear" => rear = EndOf(t)
    /\ pc \in {"free", "uncount"} => rear = EndOf(Shorter(t))

\* The nodes allocated: malloc and free are two of the assignments.
Allocated(t) ==
    IF Entering THEN ToSet(t) \cup {node}
    ELSE IF pc = "uncount" THEN ToSet(t) \ {node} ELSE ToSet(t)

\* The nodes whose processes are in the queue, or on the way in or out.
Members(t) == IF Entering THEN ToSet(t) \cup {node} ELSE ToSet(t)

Progress(t) ==
    /\ t \in Seq(Nodes) /\ IsInjective(t) /\ size = Len(t)
    /\ pc = "idle" \/ Entering \/ Leaving
    /\ pc # "idle" => before = Held(t, pcb)
    /\ Entering => node \in Nodes \ ToSet(t)
    /\ Leaving => t # <<>> /\ (pc # "take" => node = t[1])
    /\ used = Allocated(t)
    /\ Linked(t)
    /\ \A m, n \in Members(t) : pcb[m] = pcb[n] => m = n
    /\ inside = {pcb[n] : n \in Members(t)}

QueueTypes ==
    /\ pcb \in [Nodes -> Procs \cup {Nothing}]
    /\ next \in [Nodes -> Nodes \cup {NULL}]
    /\ inside \subseteq Procs

QInv == QueueTypes /\ \E t : Progress(t)


LEMMA ListFacts ==
  ASSUME NEW t \in Seq(Nodes), IsInjective(t)
  PROVE  /\ Len(t) \in Nat /\ (t = <<>> <=> Len(t) = 0)
         /\ \A i \in 1..Len(t) : t[i] \in Nodes /\ t[i] # NULL /\ t[i] \in ToSet(t)
         /\ \A x \in ToSet(t) : x \in Nodes /\ \E i \in 1..Len(t) : t[i] = x
         /\ \A i, j \in 1..Len(t) : t[i] = t[j] => i = j
<1>1. NULL \notin Nodes
  BY QueueAssumption
<1>2. \A i \in 1..Len(t) : t[i] \in Nodes
  BY SeqParts
<1>3. \A x : x \in ToSet(t) <=> \E i \in 1..Len(t) : t[i] = x
  BY InToSet
<1>4. QED
  BY <1>1, <1>2, <1>3, SeqParts, Injective

LEMMA HeldKept ==
  ASSUME NEW r, NEW p, NEW p2, \A i \in DOMAIN r : p2[r[i]] = p[r[i]]
  PROVE  Held(r, p2) = Held(r, p)
BY DEF Held

\* The queue that the list stands for is its processes, at every assignment.
Abstract == IF pc = "idle" THEN Contents ELSE before

LEMMA AbstractIs ==
  ASSUME NEW t, Progress(t)
  PROVE  Abstract = Held(t, pcb)
<1>1. CASE pc = "idle"
  <2>1. Chain(t, front, next)
    BY <1>1 DEF Progress, Linked
  <2>2. Following(front, next) = t
    BY <2>1, ChainFollowed
  <2>3. QED
    BY <1>1, <2>2 DEF Abstract, Contents, Reached
<1>2. CASE pc # "idle"
  BY <1>2 DEF Progress, Abstract
<1>3. QED
  BY <1>1, <1>2

LEMMA AbstractWillBe ==
  ASSUME NEW t, Progress(t)'
  PROVE  Abstract' = Held(t, pcb')
<1>1. CASE pc' = "idle"
  <2>1. Chain(t, front', next')
    BY <1>1 DEF Progress, Linked
  <2>2. Following(front', next') = t
    BY <2>1, ChainFollowed
  <2>3. QED
    BY <1>1, <2>2 DEF Abstract, Contents, Reached
<1>2. CASE pc' # "idle"
  BY <1>2 DEF Progress, Abstract
<1>3. QED
  BY <1>1, <1>2

-----------------------------------------------------------------------------
(* The assignments of enqueue and of dequeue.  Each but the last leaves    *)
(* the list t and what it holds as they were.                              *)

LEMMA InitProgresses ==
  ASSUME LinkedInit
  PROVE  QueueTypes /\ Progress(<<>>) /\ Sequence!QueueInit
<1>1. QueueTypes
  BY DEF LinkedInit, QueueTypes
<1>2. <<>> \in Seq(Nodes) /\ Len(<<>>) = 0 /\ IsInjective(<<>>) /\ ToSet(<<>>) = {}
  BY DEF IsInjective, ToSet
<1>3. Chain(<<>>, front, next) /\ rear = EndOf(<<>>)
  BY <1>2 DEF LinkedInit, Chain, NodeAfter, EndOf
<1>4. Progress(<<>>)
  BY <1>2, <1>3 DEF LinkedInit, Progress, Linked, Allocated, Members, Entering, Leaving
<1>5. Abstract = <<>>
  <2>1. Abstract = Held(<<>>, pcb)
    BY <1>4, AbstractIs
  <2>2. QED
    BY <2>1 DEF Held
<1>6. QED
  BY <1>1, <1>4, <1>5 DEF LinkedInit, Sequence!QueueInit, Abstract

LEMMA NewNodeProgresses ==
  ASSUME QueueTypes, NEW t, Progress(t), NEW p \in Procs, NewNode(p)
  PROVE  QueueTypes' /\ Progress(t)' /\ Held(t, pcb') = Held(t, pcb)
<1>1. /\ pc = "idle" /\ t \in Seq(Nodes) /\ IsInjective(t) /\ size = Len(t)
      /\ used = ToSet(t) /\ Chain(t, front, next) /\ rear = EndOf(t)
      /\ \A m, n \in ToSet(t) : pcb[m] = pcb[n] => m = n
      /\ inside = {pcb[n] : n \in ToSet(t)}
  BY DEF NewNode, Progress, Linked, Allocated, Members, Entering, Leaving
<1>2. PICK n \in Nodes \ used :
        /\ used' = used \cup {n} /\ node' = n
        /\ pcb' = [pcb EXCEPT ![n] = p] /\ next' = [next EXCEPT ![n] = NULL]
  BY DEF NewNode
<1>3. /\ p \notin inside /\ inside' = inside \cup {p} /\ before' = Contents /\ pc' = "link"
      /\ front' = front /\ rear' = rear /\ size' = size
  BY DEF NewNode, Goto, ends
<1>4. /\ QueueTypes'
      /\ pcb'[n] = p /\ next'[n] = NULL
      /\ \A m \in Nodes \ {n} : pcb'[m] = pcb[m] /\ next'[m] = next[m]
  BY <1>2, <1>3 DEF QueueTypes
<1>5. /\ DOMAIN t = 1..Len(t) /\ \A x \in ToSet(t) : x \in Nodes \ {n}
      /\ \A i \in 1..Len(t) : t[i] \in Nodes \ {n}
  BY <1>1, <1>2, SeqParts, ListFacts
<1>6. Held(t, pcb') = Held(t, pcb)
  <2>1. \A i \in DOMAIN t : pcb'[t[i]] = pcb[t[i]]
    BY <1>4, <1>5
  <2>2. QED
    BY <2>1, HeldKept
<1>7. Chain(t, front', next')
  <2>1. \A i \in 1..Len(t) : next'[t[i]] = next[t[i]]
    BY <1>4, <1>5
  <2>2. QED
    BY <1>1, <1>3, <2>1, ChainKept
<1>8. before' = Held(t, pcb')
  <2>1. Abstract = Held(t, pcb)
    BY AbstractIs
  <2>2. QED
    BY <1>1, <1>3, <1>6, <2>1 DEF Abstract
<1>9. \A m, k \in ToSet(t) \cup {n} : pcb'[m] = pcb'[k] => m = k
  BY <1>1, <1>3, <1>4, <1>5
<1>10. inside' = {pcb'[m] : m \in ToSet(t) \cup {n}}
  BY <1>1, <1>3, <1>4, <1>5
<1>11. Progress(t)'
  BY <1>1, <1>2, <1>3, <1>4, <1>7, <1>8, <1>9, <1>10
     DEF Progress, Linked, Allocated, Members, Entering, Leaving
<1>12. QED
  BY <1>4, <1>6, <1>11

\* An assignment that changes no node's process and no node allocated.
Unmoved == UNCHANGED <<used, pcb, size, done, inside>>

LEMMA UnmovedKeeps ==
  ASSUME QueueTypes, Unmoved, next' \in [Nodes -> Nodes \cup {NULL}], NEW t
  PROVE  QueueTypes' /\ Held(t, pcb') = Held(t, pcb)
BY DEF QueueTypes, Unmoved

LEMMA LinkFirstProgresses ==
  ASSUME QueueTypes, NEW t, Progress(t), LinkFirst
  PROVE  QueueTypes' /\ Progress(t)' /\ Unmoved
<1>1. /\ pc = "link" /\ rear = NULL /\ rear' = node /\ pc' = "front" /\ Unmoved
      /\ next' = next /\ front' = front /\ node' = node /\ before' = before
  BY DEF LinkFirst, Goto, Unmoved, fields
<1>2. t \in Seq(Nodes) /\ IsInjective(t) /\ rear = EndOf(t) /\ next[node] = NULL
  BY <1>1 DEF Progress, Linked
<1>3. t = <<>>
  BY <1>1, <1>2, ListFacts DEF EndOf
<1>4. QueueTypes'
  BY <1>1 DEF QueueTypes, Unmoved
<1>5. Progress(t)'
  BY <1>1, <1>2, <1>3 DEF Unmoved, Progress, Linked, Allocated, Members, Entering, Leaving
<1>6. QED
  BY <1>1, <1>4, <1>5

LEMMA LinkFrontProgresses ==
  ASSUME QueueTypes, NEW t, Progress(t), LinkFront
  PROVE  QueueTypes' /\ Progress(t)' /\ Unmoved
<1>1. /\ pc = "front" /\ front' = node /\ pc' = "count" /\ Unmoved
      /\ next' = next /\ rear' = rear /\ node' = node /\ before' = before
  BY DEF LinkFront, Goto, Unmoved, fields
<1>2. t = <<>> /\ t \in Seq(Nodes) /\ IsInjective(t) /\ rear = node /\ next[node] = NULL
      /\ node \in Nodes \ ToSet(t)
  BY <1>1 DEF Progress, Linked, Entering
<1>3. Chain(t, NULL, next)
  BY <1>2 DEF Chain, NodeAfter
<1>4. Chain(Inserted(t, Len(t) + 1, node), node, next)
  <2> DEFINE k == Len(t) + 1
  <2>1. Len(t) = 0 /\ k = 1 /\ k \in 1..(Len(t) + 1)
    BY <1>2
  <2>2. next[node] = NodeAfter(t, k - 1)
    BY <1>2, <2>1 DEF NodeAfter
  <2>3. node = IF k = 1 THEN node ELSE NULL
    BY <2>1
  <2> HIDE DEF k
  <2>4. \A i \in 1..Len(t) : i # k - 1 => next[t[i]] = next[t[i]]
    OBVIOUS
  <2>5. k > 1 => next[t[k - 1]] = node
    BY <2>1
  <2>6. Chain(Inserted(t, k, node), node, next)
    BY <1>2, <1>3, <2>1, <2>2, <2>3, <2>4, <2>5, ChainInserted
  <2>7. QED
    BY <2>6 DEF k
<1>5. QueueTypes'
  BY <1>1 DEF QueueTypes, Unmoved
<1>6. Progress(t)'
  BY <1>1, <1>2, <1>4
     DEF Unmoved, Progress, Linked, Allocated, Members, Entering, Leaving, Longer
<1>7. QED
  BY <1>1, <1>5, <1>6

LEMMA LinkLastProgresses ==
  ASSUME QueueTypes, NEW t, Progress(t), LinkLast
  PROVE  QueueTypes' /\ Progress(t)' /\ Unmoved
<1>1. /\ pc = "link" /\ rear # NULL /\ next' = [next EXCEPT ![rear] = node] /\ pc' = "rear" /\ Unmoved
      /\ front' = front /\ node' = node /\ before' = before /\ rear' = rear
  BY DEF LinkLast, Goto, Unmoved, ends
<1>2. /\ t \in Seq(Nodes) /\ IsInjective(t) /\ rear = EndOf(t) /\ next[node] = NULL
      /\ Chain(t, front, next) /\ node \in Nodes \ ToSet(t)
  BY <1>1 DEF Progress, Linked, Entering
<1>3. /\ Len(t) \in Nat /\ Len(t) # 0 /\ rear = t[Len(t)]
      /\ \A i \in 1..Len(t) : t[i] \in Nodes /\ t[i] \in ToSet(t)
      /\ \A i, j \in 1..Len(t) : t[i] = t[j] => i = j
  BY <1>1, <1>2, ListFacts DEF EndOf
<1>4. /\ next' \in [Nodes -> Nodes \cup {NULL}]
      /\ next'[rear] = node /\ \A m \in Nodes \ {rear} : next'[m] = next[m]
  BY <1>1, <1>2, <1>3 DEF QueueTypes
<1>5. Chain(Inserted(t, Len(t) + 1, node), front, next')
  <2> DEFINE k == Len(t) + 1
  <2>1. k > 1 /\ k - 1 = Len(t) /\ k \in 1..(Len(t) + 1)
    BY <1>3
  <2>2. next'[node] = NodeAfter(t, k - 1)
    BY <1>2, <1>3, <1>4, <2>1 DEF NodeAfter
  <2>3. front = IF k = 1 THEN node ELSE front
    BY <2>1
  <2> HIDE DEF k
  <2>4. \A i \in 1..Len(t) : i # k - 1 => next'[t[i]] = next[t[i]]
    BY <1>3, <1>4, <2>1
  <2>5. next'[t[k - 1]] = node
    BY <1>3, <1>4, <2>1
  <2>6. Chain(Inserted(t, k, node), front, next')
    BY <1>2, <2>1, <2>2, <2>3, <2>4, <2>5, ChainInserted
  <2>7. QED
    BY <2>6 DEF k
<1>6. QueueTypes'
  BY <1>1, <1>4 DEF QueueTypes, Unmoved
<1>7. Progress(t)'
  BY <1>1, <1>2, <1>5
     DEF Unmoved, Progress, Linked, Allocated, Members, Entering, Leaving, Longer
<1>8. QED
  BY <1>1, <1>6, <1>7

LEMMA LinkRearProgresses ==
  ASSUME QueueTypes, NEW t, Progress(t), LinkRear
  PROVE  QueueTypes' /\ Progress(t)' /\ Unmoved
<1>1. /\ pc = "rear" /\ rear' = node /\ pc' = "count" /\ Unmoved
      /\ next' = next /\ front' = front /\ node' = node /\ before' = before
  BY DEF LinkRear, NewRear, Goto, Unmoved, fields
<1>2. QueueTypes'
  BY <1>1 DEF QueueTypes, Unmoved
<1>3. Progress(t)'
  BY <1>1 DEF Unmoved, Progress, Linked, Allocated, Members, Entering, Leaving, Longer
<1>4. QED
  BY <1>1, <1>2, <1>3

LEMMA CallDequeueProgresses ==
  ASSUME QueueTypes, NEW t, Progress(t), CallDequeue
  PROVE  QueueTypes' /\ Progress(t)' /\ Unmoved
<1>1. /\ pc = "idle" /\ front # NULL /\ before' = Contents /\ pc' = "take" /\ Unmoved
      /\ next' = next /\ front' = front /\ rear' = rear
  BY DEF CallDequeue, isEmpty, Goto, Unmoved, fields, ends
<1>2. Chain(t, front, next)
  BY <1>1 DEF Progress, Linked
<1>3. t # <<>>
  BY <1>1, <1>2, SeqParts DEF Chain, NodeAfter
<1>4. before' = Held(t, pcb')
  <2>1. Abstract = Held(t, pcb)
    BY AbstractIs
  <2>2. QED
    BY <1>1, <2>1 DEF Abstract, Unmoved
<1>5. QueueTypes'
  BY <1>1 DEF QueueTypes, Unmoved
<1>6. Progress(t)'
  BY <1>1, <1>3, <1>4 DEF Unmoved, Progress, Linked, Allocated, Members, Entering, Leaving
<1>7. QED
  BY <1>1, <1>5, <1>6

LEMMA TakeFrontProgresses ==
  ASSUME QueueTypes, NEW t, Progress(t), TakeFront
  PROVE  QueueTypes' /\ Progress(t)' /\ Unmoved
<1>1. pc = "take"
  BY DEF TakeFront
<1>2. Chain(t, front, next) /\ t # <<>>
  BY <1>1 DEF Progress, Linked, Leaving
<1>3. front = t[1] /\ front # NULL
  BY <1>2, ListFacts DEF Chain, NodeAfter
<1>4. /\ node' = front /\ pc' = "advance" /\ Unmoved
      /\ next' = next /\ front' = front /\ rear' = rear /\ before' = before
  BY <1>3 DEF TakeFront, isEmpty, Goto, Unmoved, fields, ends
<1>5. QueueTypes'
  BY <1>4 DEF QueueTypes, Unmoved
<1>6. Progress(t)'
  BY <1>1, <1>3, <1>4 DEF Unmoved, Progress, Linked, Allocated, Members, Entering, Leaving
<1>7. QED
  BY <1>4, <1>5, <1>6

LEMMA AdvanceProgresses ==
  ASSUME QueueTypes, NEW t, Progress(t), Advance
  PROVE  QueueTypes' /\ Progress(t)' /\ Unmoved
<1>1. pc = "advance"
  BY DEF Advance
<1>2. Chain(t, front, next) /\ t # <<>> /\ t \in Seq(Nodes) /\ IsInjective(t)
  BY <1>1 DEF Progress, Linked, Leaving
<1>3. front = t[1] /\ front # NULL /\ Len(t) \in Nat /\ Len(t) >= 1
  BY <1>2, ListFacts DEF Chain, NodeAfter
<1>4. /\ front' = next[front] /\ pc' = "clear" /\ Unmoved
      /\ next' = next /\ node' = node /\ rear' = rear /\ before' = before
  BY <1>3 DEF Advance, Goto, Unmoved, fields
<1>5. Chain(Removed(t, 1), front', next)
  <2> DEFINE k == 1
  <2>1. k \in 1..Len(t) /\ k = 1
    BY <1>3
  <2> HIDE DEF k
  <2>2. front' = IF k = 1 THEN next[t[1]] ELSE front
    BY <1>3, <1>4, <2>1
  <2>3. k > 1 => next[t[k - 1]] = next[t[k]]
    BY <2>1
  <2>4. \A i \in 1..Len(t) : i # k - 1 /\ i # k => next[t[i]] = next[t[i]]
    OBVIOUS
  <2>5. Chain(Removed(t, k), front', next)
    BY <1>2, <2>1, <2>2, <2>3, <2>4, ChainRemoved
  <2>6. QED
    BY <2>1, <2>5
<1>6. QueueTypes'
  BY <1>4 DEF QueueTypes, Unmoved
<1>7. Progress(t)'
  BY <1>1, <1>4, <1>5
     DEF Unmoved, Progress, Linked, Allocated, Members, Entering, Leaving, Shorter
<1>8. QED
  BY <1>4, <1>6, <1>7

LEMMA ClearRearProgresses ==
  ASSUME QueueTypes, NEW t, Progress(t), ClearRear
  PROVE  QueueTypes' /\ Progress(t)' /\ Unmoved
<1>1. /\ pc = "clear" /\ rear' = IF front = NULL THEN NULL ELSE rear
      /\ pc' = "free" /\ Unmoved
      /\ next' = next /\ front' = front /\ node' = node /\ before' = before
  BY DEF ClearRear, RearAfter, isEmpty, Goto, Unmoved, fields
<1>2. /\ Chain(Removed(t, 1), front, next) /\ rear = EndOf(t)
      /\ t # <<>> /\ t \in Seq(Nodes) /\ IsInjective(t)
  BY <1>1 DEF Progress, Linked, Leaving, Shorter
<1>3. rear' = EndOf(Removed(t, 1))
  <2> DEFINE s == Removed(t, 1)
  <2>1. Len(t) \in Nat /\ Len(t) >= 1 /\ 1 \in 1..Len(t)
    BY <1>2, ListFacts
  <2>2. Len(s) = Len(t) - 1 /\ s \in Seq(Nodes)
    BY <1>2, <2>1, RemovedParts
  <2>3. EndOf(s) = IF 1 < Len(t) THEN EndOf(t) ELSE IF Len(t) = 1 THEN NULL ELSE t[Len(t) - 1]
    BY <1>2, <2>1, EndRemoved
  <2>4. IsInjective(s) /\ front = NodeAfter(s, 0)
    BY <1>2 DEF Chain
  <2> HIDE DEF s
  <2>5. front = NULL <=> Len(t) = 1
    BY <2>1, <2>2, <2>4, ListFacts DEF NodeAfter
  <2>6. rear' = EndOf(s)
    <3>1. CASE Len(t) = 1
      BY <1>1, <2>3, <2>5, <3>1
    <3>2. CASE 1 < Len(t) /\ Len(t) # 1
      <4>1. EndOf(s) = EndOf(t)
        BY <2>3, <3>2
      <4>2. QED
        BY <1>1, <1>2, <2>5, <3>2, <4>1
    <3>3. \A n \in Nat : n >= 1 => n = 1 \/ (1 < n /\ n # 1)
      OBVIOUS
    <3>4. QED
      BY <2>1, <3>1, <3>2, <3>3
  <2>7. QED
    BY <2>6 DEF s
<1>4. QueueTypes'
  BY <1>1 DEF QueueTypes, Unmoved
<1>5. Progress(t)'
  BY <1>1, <1>3
     DEF Unmoved, Progress, Linked, Allocated, Members, Entering, Leaving, Shorter
<1>6. QED
  BY <1>1, <1>4, <1>5

LEMMA FreeProgresses ==
  ASSUME QueueTypes, NEW t, Progress(t), Free
  PROVE  QueueTypes' /\ Progress(t)' /\ pcb' = pcb /\ done' = done
<1>1. /\ pc = "free" /\ pc' = "uncount" /\ used' = used \ {node}
      /\ UNCHANGED <<pcb, next, front, rear, size, node, done, inside, before>>
  BY DEF Free, Goto, ends
<1>2. QueueTypes'
  BY <1>1 DEF QueueTypes
<1>3. Progress(t)'
  BY <1>1 DEF Progress, Linked, Allocated, Members, Entering, Leaving, Shorter
<1>4. QED
  BY <1>1, <1>2, <1>3

-----------------------------------------------------------------------------
(* The steps that complete an operation: the list loses a node or has one  *)
(* more, and so does the sequence.                                         *)

LEMMA IdleFacts ==
  ASSUME NEW t, Progress(t), pc = "idle"
  PROVE  /\ t \in Seq(Nodes) /\ IsInjective(t) /\ size = Len(t) /\ used = ToSet(t)
         /\ Chain(t, front, next) /\ rear = EndOf(t)
         /\ \A m, n \in ToSet(t) : pcb[m] = pcb[n] => m = n
         /\ inside = {pcb[n] : n \in ToSet(t)}
         /\ Reached = t /\ Contents = Held(t, pcb)
<1>1. /\ t \in Seq(Nodes) /\ IsInjective(t) /\ size = Len(t) /\ used = ToSet(t)
      /\ Chain(t, front, next) /\ rear = EndOf(t)
      /\ \A m, n \in ToSet(t) : pcb[m] = pcb[n] => m = n
      /\ inside = {pcb[n] : n \in ToSet(t)}
  BY DEF Progress, Linked, Allocated, Members, Entering, Leaving
<1>2. Reached = t
  BY <1>1, ChainFollowed DEF Reached
<1>3. QED
  BY <1>1, <1>2 DEF Contents

LEMMA IdleAgain ==
  ASSUME NEW u, pc' = "idle",
         u \in Seq(Nodes), IsInjective(u), size' = Len(u), used' = ToSet(u),
         Chain(u, front', next'), rear' = EndOf(u),
         \A m, n \in ToSet(u) : pcb'[m] = pcb'[n] => m = n,
         inside' = {pcb'[n] : n \in ToSet(u)}
  PROVE  Progress(u)'
BY DEF Progress, Linked, Allocated, Members, Entering, Leaving

\* A node leaves the list, and its process the queue.
LEMMA NodeLeft ==
  ASSUME QueueTypes, NEW t \in Seq(Nodes), IsInjective(t), size = Len(t),
         \A m, n \in ToSet(t) : pcb[m] = pcb[n] => m = n,
         inside = {pcb[n] : n \in ToSet(t)},
         NEW k \in 1..Len(t), NEW u, u = Removed(t, k),
         used' = ToSet(t) \ {t[k]}, size' = size - 1, inside' = inside \ {pcb[t[k]]},
         pcb' = pcb, next' \in [Nodes -> Nodes \cup {NULL}], pc' = "idle",
         Chain(u, front', next'), rear' = EndOf(u)
  PROVE  QueueTypes' /\ Progress(u)' /\ Held(u, pcb') = Removed(Held(t, pcb), k)
<1>1. /\ u \in Seq(Nodes) /\ Len(u) = Len(t) - 1
      /\ IsInjective(u) /\ ToSet(u) = ToSet(t) \ {t[k]}
  BY RemovedParts, RemovedMembers
<1>2. t[k] \in ToSet(t)
  BY ListFacts
<1>3. inside' = {pcb'[n] : n \in ToSet(u)}
  BY <1>1, <1>2
<1>4. \A m, n \in ToSet(u) : pcb'[m] = pcb'[n] => m = n
  BY <1>1
<1>5. Progress(u)'
  BY <1>1, <1>3, <1>4, IdleAgain
<1>6. QueueTypes'
  BY DEF QueueTypes
<1>7. Held(u, pcb') = Removed(Held(t, pcb), k)
  BY HeldRemoved
<1>8. QED
  BY <1>5, <1>6, <1>7

\* A node enters the list, with a process that is not in the queue.
LEMMA NodeEntered ==
  ASSUME QueueTypes, NEW t \in Seq(Nodes), IsInjective(t), size = Len(t),
         \A m, i \in ToSet(t) : pcb[m] = pcb[i] => m = i,
         inside = {pcb[m] : m \in ToSet(t)},
         NEW n \in Nodes, n \notin ToSet(t), NEW p \in Procs, p \notin inside,
         NEW k \in 1..(Len(t) + 1), NEW u, u = Inserted(t, k, n),
         used' = ToSet(t) \cup {n}, size' = size + 1, inside' = inside \cup {p},
         pcb' \in [Nodes -> Procs \cup {Nothing}], pcb'[n] = p,
         \A m \in Nodes \ {n} : pcb'[m] = pcb[m],
         next' \in [Nodes -> Nodes \cup {NULL}], pc' = "idle",
         Chain(u, front', next'), rear' = EndOf(u)
  PROVE  QueueTypes' /\ Progress(u)' /\ Held(u, pcb') = Inserted(Held(t, pcb), k, p)
<1>1. /\ u \in Seq(Nodes) /\ Len(u) = Len(t) + 1
      /\ IsInjective(u) /\ ToSet(u) = ToSet(t) \cup {n}
  BY InsertedParts, InsertedMembers
<1>2. \A m \in ToSet(t) : m \in Nodes \ {n}
  BY ListFacts
<1>3. /\ pcb' \in [Nodes -> Procs \cup {Nothing}] /\ pcb'[n] = p
      /\ \A m \in Nodes \ {n} : pcb'[m] = pcb[m]
  OBVIOUS
<1>4. inside' = {pcb'[m] : m \in ToSet(u)}
  BY <1>1, <1>2, <1>3
<1>5. \A m, i \in ToSet(u) : pcb'[m] = pcb'[i] => m = i
  BY <1>1, <1>2, <1>3
<1>6. Progress(u)'
  BY <1>1, <1>4, <1>5, IdleAgain
<1>7. QueueTypes'
  BY <1>3 DEF QueueTypes
<1>8. Held(t, pcb') = Held(t, pcb)
  <2>1. \A i \in DOMAIN t : pcb'[t[i]] = pcb[t[i]]
    BY <1>2, <1>3, SeqParts, ListFacts
  <2>2. QED
    BY <2>1, HeldKept
<1>9. Held(u, pcb') = Inserted(Held(t, pcb'), k, pcb'[n])
  BY HeldInserted
<1>10. QED
  BY <1>3, <1>6, <1>7, <1>8, <1>9

\* The search for the node before another finds one, or the other is the first.
LEMMA BeforeIs ==
  ASSUME NEW t, Chain(t, front, next), NEW k \in 1..Len(t)
  PROVE  BeforeNode(t[k]) = IF k = 1 THEN {} ELSE {t[k - 1]}
<1>1. Reached = t
  BY ChainFollowed DEF Reached
<1>2. /\ t \in Seq(Nodes) /\ IsInjective(t)
      /\ \A i \in 1..Len(t) : next[t[i]] = NodeAfter(t, i)
  BY DEF Chain
<1>3. /\ Len(t) \in Nat
      /\ \A i \in 1..Len(t) : t[i] \in Nodes /\ t[i] # NULL /\ t[i] \in ToSet(t)
      /\ \A x \in ToSet(t) : \E i \in 1..Len(t) : t[i] = x
      /\ \A i, j \in 1..Len(t) : t[i] = t[j] => i = j
  BY <1>2, ListFacts
<1>4. ASSUME NEW i \in 1..Len(t)
      PROVE  next[t[i]] = t[k] <=> i + 1 = k
  <2>1. CASE i < Len(t)
    <3>1. i + 1 \in 1..Len(t) /\ next[t[i]] = t[i + 1]
      BY <1>2, <1>3, <2>1 DEF NodeAfter
    <3>2. QED
      BY <1>3, <3>1
  <2>2. CASE ~(i < Len(t))
    <3>1. next[t[i]] = NULL
      BY <1>2, <2>2 DEF NodeAfter
    <3>2. QED
      BY <1>3, <2>2, <3>1
  <2>3. QED
    BY <2>1, <2>2
<1>5. BeforeNode(t[k]) = {m \in ToSet(t) : next[m] = t[k]}
  BY <1>1 DEF BeforeNode
<1>6. CASE k = 1
  <2>1. ASSUME NEW m \in ToSet(t)
        PROVE  next[m] # t[k]
    <3>1. PICK i \in 1..Len(t) : t[i] = m
      BY <1>3
    <3>2. i + 1 # k
      BY <1>6
    <3>3. QED
      BY <1>4, <3>1, <3>2
  <2>2. QED
    BY <1>5, <1>6, <2>1
<1>7. CASE k # 1
  <2>1. k - 1 \in 1..Len(t) /\ (k - 1) + 1 = k
    BY <1>3, <1>7
  <2>2. next[t[k - 1]] = t[k] /\ t[k - 1] \in ToSet(t)
    BY <1>3, <1>4, <2>1
  <2>3. ASSUME NEW m \in ToSet(t), next[m] = t[k]
        PROVE  m = t[k - 1]
    <3>1. PICK i \in 1..Len(t) : t[i] = m
      BY <1>3
    <3>2. i + 1 = k
      BY <1>4, <2>3, <3>1
    <3>3. i = k - 1
      BY <1>3, <3>2
    <3>4. QED
      BY <3>1, <3>3
  <2>4. QED
    BY <1>5, <1>7, <2>2, <2>3
<1>8. QED
  BY <1>6, <1>7

\* The processes of a list, in the types of the program.
LEMMA HeldNow ==
  ASSUME QueueTypes, NEW t \in Seq(Nodes)
  PROVE  /\ Held(t, pcb) \in Seq(Procs \cup {Nothing}) /\ Len(Held(t, pcb)) = Len(t)
         /\ DOMAIN Held(t, pcb) = 1..Len(t)
         /\ \A i \in 1..Len(t) : Held(t, pcb)[i] = pcb[t[i]]
         /\ \A x : x \in ToSet(Held(t, pcb)) <=> \E n \in ToSet(t) : pcb[n] = x
<1> DEFINE T == Procs \cup {Nothing}
<1>1. \A m \in Nodes : pcb[m] \in T
  BY DEF QueueTypes
<1> HIDE DEF T
<1>2. /\ Held(t, pcb) \in Seq(T) /\ Len(Held(t, pcb)) = Len(t)
      /\ DOMAIN Held(t, pcb) = 1..Len(t)
      /\ \A i \in 1..Len(t) : Held(t, pcb)[i] = pcb[t[i]]
  BY <1>1, HeldType
<1> DEFINE h == Held(t, pcb)
<1> HIDE DEF h
<1>3. \A x : x \in ToSet(h) <=> \E i \in 1..Len(h) : h[i] = x
  BY <1>2, InToSet DEF h
<1>4. \A x : x \in ToSet(t) <=> \E i \in 1..Len(t) : t[i] = x
  BY InToSet
<1>5. \A x : x \in ToSet(h) <=> \E n \in ToSet(t) : pcb[n] = x
  BY <1>2, <1>3, <1>4 DEF h
<1>6. QED
  BY <1>2, <1>5 DEF T, h

LEMMA SameOperators ==
  /\ \A s : Sequence!ToSet(s) = ToSet(s) /\ Sequence!Last(s) = Last(s) /\ Sequence!Front(s) = Front(s)
  /\ \A s, i : Sequence!RemoveAt(s, i) = RemoveAt(s, i)
  /\ \A s, i, x : Sequence!InsertAt(s, i, x) = InsertAt(s, i, x)
<1>1. \A s : Sequence!ToSet(s) = ToSet(s) /\ Sequence!Last(s) = Last(s) /\ Sequence!Front(s) = Front(s)
  BY DEF Sequence!ToSet, ToSet, Sequence!Last, Last, Sequence!Front, Front
<1>2. \A s, i : Sequence!RemoveAt(s, i) = RemoveAt(s, i)
  BY DEF Sequence!RemoveAt, RemoveAt
<1>3. \A s, i, x : Sequence!InsertAt(s, i, x) = InsertAt(s, i, x)
  BY DEF Sequence!InsertAt, InsertAt
<1>4. QED
  BY <1>1, <1>2, <1>3

\* The steps of the sequence, told of the list.
LEMMA AbstractSteps ==
  ASSUME NEW p \in Procs
  PROVE  /\ p \notin ToSet(Abstract) /\ done' = <<"enqueue", p>> /\ Abstract' = Append(Abstract, p)
            => Sequence!QueueNext
         /\ /\ p \notin ToSet(Abstract) /\ done' = <<"enqueue_priority", p>>
            /\ Abstract' = Sequence!EnqueuePriority(Abstract, p, priority, arrival)
            => Sequence!QueueNext
         /\ \A i \in DOMAIN Abstract :
               /\ Abstract[i] = p /\ done' = <<"dequeue_by_id", p>>
               /\ Abstract' = RemoveAt(Abstract, i)
               => Sequence!QueueNext
         /\ /\ p \notin ToSet(Abstract) /\ done' = <<"dequeue_by_id", Nothing>>
            /\ Abstract' = Abstract
            => Sequence!QueueNext
<1>1. ASSUME p \notin ToSet(Abstract), done' = <<"enqueue", p>>, Abstract' = Append(Abstract, p)
      PROVE  Sequence!QueueNext
  <2>1. Sequence!Put(p)
    BY <1>1, SameOperators DEF Abstract, Sequence!Put
  <2>2. QED
    BY <2>1 DEF Sequence!QueueNext
<1>2. ASSUME p \notin ToSet(Abstract), done' = <<"enqueue_priority", p>>,
             Abstract' = Sequence!EnqueuePriority(Abstract, p, priority, arrival)
      PROVE  Sequence!QueueNext
  <2>1. Sequence!PutInOrder(p)
    BY <1>2, SameOperators DEF Abstract, Sequence!PutInOrder
  <2>2. QED
    BY <2>1 DEF Sequence!QueueNext
<1>3. ASSUME NEW i \in DOMAIN Abstract, Abstract[i] = p, done' = <<"dequeue_by_id", p>>,
             Abstract' = RemoveAt(Abstract, i)
      PROVE  Sequence!QueueNext
  <2>1. Sequence!TakeById(p)
    BY <1>3, SameOperators DEF Abstract, Sequence!TakeById
  <2>2. QED
    BY <2>1 DEF Sequence!QueueNext
<1>4. ASSUME p \notin ToSet(Abstract), done' = <<"dequeue_by_id", Nothing>>, Abstract' = Abstract
      PROVE  Sequence!QueueNext
  <2>1. Sequence!TakeNoId(p)
    BY <1>4, SameOperators DEF Abstract, Sequence!TakeNoId
  <2>2. QED
    BY <2>1 DEF Sequence!QueueNext
<1>5. QED
  BY <1>1, <1>2, <1>3, <1>4

LEMMA AbstractEnds ==
  /\ /\ Abstract # <<>> /\ done' = <<"dequeue", Head(Abstract)>> /\ Abstract' = Tail(Abstract)
     => Sequence!QueueNext
  /\ /\ Abstract # <<>> /\ done' = <<"dequeue_rear", Last(Abstract)>> /\ Abstract' = Front(Abstract)
     => Sequence!QueueNext
  /\ /\ Abstract = <<>> /\ done' = <<"dequeue_rear", Nothing>> /\ Abstract' = Abstract
     => Sequence!QueueNext
  /\ Abstract' = Abstract /\ done' = done => UNCHANGED Sequence!queuevars
<1>1. ASSUME Abstract # <<>>, done' = <<"dequeue", Head(Abstract)>>, Abstract' = Tail(Abstract)
      PROVE  Sequence!QueueNext
  BY <1>1 DEF Abstract, Sequence!Take, Sequence!QueueNext
<1>2. ASSUME Abstract # <<>>, done' = <<"dequeue_rear", Last(Abstract)>>, Abstract' = Front(Abstract)
      PROVE  Sequence!QueueNext
  BY <1>2, SameOperators DEF Abstract, Sequence!TakeRear, Sequence!QueueNext
<1>3. ASSUME Abstract = <<>>, done' = <<"dequeue_rear", Nothing>>, Abstract' = Abstract
      PROVE  Sequence!QueueNext
  BY <1>3 DEF Abstract, Sequence!TakeNoRear, Sequence!QueueNext
<1>4. ASSUME Abstract' = Abstract, done' = done
      PROVE  UNCHANGED Sequence!queuevars
  BY <1>4 DEF Abstract, Sequence!queuevars
<1>5. QED
  BY <1>1, <1>2, <1>3, <1>4

LEMMA CountInCompletes ==
  ASSUME QueueTypes, NEW t, Progress(t), CountIn
  PROVE  \E u : QueueTypes' /\ Progress(u)' /\ Sequence!QueueNext
<1>1. /\ pc = "count" /\ pc' = "idle" /\ size' = size + 1 /\ done' = <<"enqueue", pcb[node]>>
      /\ UNCHANGED <<used, pcb, next, front, rear, inside>>
  BY DEF CountIn, Return, Goto, fields
<1> DEFINE p == pcb[node]
           k == Len(t) + 1
<1>2. /\ t \in Seq(Nodes) /\ IsInjective(t) /\ size = Len(t)
      /\ node \in Nodes /\ node \notin ToSet(t) /\ used = ToSet(t) \cup {node}
      /\ Chain(Inserted(t, k, node), front, next) /\ rear = node
      /\ \A m, n \in ToSet(t) \cup {node} : pcb[m] = pcb[n] => m = n
      /\ inside = {pcb[n] : n \in ToSet(t) \cup {node}}
  BY <1>1 DEF Progress, Linked, Allocated, Members, Entering, Leaving, Longer
<1>3. Len(t) \in Nat /\ k \in 1..(Len(t) + 1) /\ k = Len(t) + 1
  BY <1>2, SeqParts
<1>4. p \in Procs
  BY <1>2 DEF QueueTypes
<1>5. /\ pcb \in [Nodes -> Procs \cup {Nothing}] /\ QueueTypes'
  BY <1>1 DEF QueueTypes
<1> HIDE DEF p, k
<1>6. PICK u : u = Inserted(t, k, node)
  OBVIOUS
<1>7. /\ u \in Seq(Nodes) /\ Len(u) = Len(t) + 1 /\ IsInjective(u) /\ ToSet(u) = ToSet(t) \cup {node}
      /\ rear = EndOf(u)
  BY <1>2, <1>3, <1>6, InsertedParts, InsertedMembers, EndInserted
<1>8. Progress(u)'
  <2>1. /\ \A m, n \in ToSet(u) : pcb'[m] = pcb'[n] => m = n
        /\ inside' = {pcb'[n] : n \in ToSet(u)}
    BY <1>1, <1>2, <1>7
  <2>2. size' = Len(u) /\ used' = ToSet(u) /\ Chain(u, front', next') /\ rear' = EndOf(u)
    BY <1>1, <1>2, <1>6, <1>7
  <2>3. QED
    BY <1>1, <1>7, <2>1, <2>2, IdleAgain
<1>9. Abstract = Held(t, pcb) /\ Abstract' = Held(u, pcb)
  BY <1>1, <1>8, AbstractIs, AbstractWillBe
<1>10. Abstract' = Append(Abstract, p)
  <2> DEFINE h == Held(t, pcb)
  <2>1. Held(u, pcb) = Inserted(h, k, p)
    BY <1>2, <1>3, <1>5, <1>6, HeldInserted DEF p
  <2>2. h \in Seq(Procs \cup {Nothing}) /\ Len(h) = Len(t)
    BY <1>2, HeldNow
  <2> HIDE DEF h
  <2>3. Append(h, p) = Inserted(h, Len(h) + 1, p)
    BY <1>4, <2>2, AppendInserts
  <2>4. QED
    BY <1>3, <1>9, <2>1, <2>2, <2>3 DEF h
<1>11. p \notin ToSet(Abstract)
  <2>1. \A x : x \in ToSet(Held(t, pcb)) <=> \E n \in ToSet(t) : pcb[n] = x
    BY <1>2, HeldNow
  <2>2. QED
    BY <1>2, <1>9, <2>1 DEF p
<1>12. Sequence!QueueNext
  BY <1>1, <1>4, <1>10, <1>11, AbstractSteps DEF p
<1>13. QED
  BY <1>5, <1>8, <1>12

LEMMA CountOutCompletes ==
  ASSUME QueueTypes, NEW t, Progress(t), CountOut
  PROVE  \E u : QueueTypes' /\ Progress(u)' /\ Sequence!QueueNext
<1>1. /\ pc = "uncount" /\ pc' = "idle" /\ size' = size - 1 /\ done' = <<"dequeue", pcb[node]>>
      /\ inside' = inside \ {pcb[node]} /\ UNCHANGED <<used, pcb, next, front, rear>>
  BY DEF CountOut, Return, Goto, fields
<1>2. /\ t \in Seq(Nodes) /\ IsInjective(t) /\ size = Len(t) /\ t # <<>>
      /\ node = t[1] /\ used = ToSet(t) \ {node}
      /\ Chain(Removed(t, 1), front, next) /\ rear = EndOf(Removed(t, 1))
      /\ \A m, n \in ToSet(t) : pcb[m] = pcb[n] => m = n
      /\ inside = {pcb[n] : n \in ToSet(t)}
  BY <1>1 DEF Progress, Linked, Allocated, Members, Entering, Leaving, Shorter
<1>3. Len(t) \in Nat /\ 1 \in 1..Len(t)
  BY <1>2, SeqParts
<1>4. PICK u : u = Removed(t, 1)
  OBVIOUS
<1>5. QueueTypes' /\ Progress(u)' /\ Held(u, pcb') = Removed(Held(t, pcb), 1)
  <2>1. next' \in [Nodes -> Nodes \cup {NULL}]
    BY <1>1 DEF QueueTypes
  <2>2. Chain(u, front', next') /\ rear' = EndOf(u)
    BY <1>1, <1>2, <1>4
  <2>3. used' = ToSet(t) \ {t[1]} /\ inside' = inside \ {pcb[t[1]]}
    BY <1>1, <1>2
  <2>4. QED
    BY <1>1, <1>2, <1>3, <1>4, <2>1, <2>2, <2>3, NodeLeft
<1>6. Abstract = Held(t, pcb) /\ Abstract' = Held(u, pcb')
  BY <1>5, AbstractIs, AbstractWillBe
<1>7. Sequence!QueueNext
  <2> DEFINE h == Held(t, pcb)
  <2>1. /\ h \in Seq(Procs \cup {Nothing}) /\ Len(h) = Len(t) /\ h[1] = pcb[t[1]]
    BY <1>2, <1>3, HeldNow
  <2> HIDE DEF h
  <2>2. h # <<>> /\ Head(h) = h[1] /\ Tail(h) = Removed(h, 1)
    BY <1>3, <2>1, TailRemoves
  <2>3. Abstract # <<>> /\ done' = <<"dequeue", Head(Abstract)>> /\ Abstract' = Tail(Abstract)
    BY <1>1, <1>2, <1>5, <1>6, <2>1, <2>2 DEF h
  <2>4. QED
    BY <2>3, AbstractEnds
<1>8. QED
  BY <1>5, <1>7

LEMMA DequeueRearCompletes ==
  ASSUME Interrupts = FALSE, QueueTypes, NEW t, Progress(t), DequeueRear
  PROVE  \E u : QueueTypes' /\ Progress(u)' /\ Sequence!QueueNext
<1>1. pc = "idle"
  BY DEF DequeueRear
<1>2. /\ t \in Seq(Nodes) /\ IsInjective(t) /\ size = Len(t) /\ used = ToSet(t)
      /\ Chain(t, front, next) /\ rear = EndOf(t)
      /\ \A m, n \in ToSet(t) : pcb[m] = pcb[n] => m = n
      /\ inside = {pcb[n] : n \in ToSet(t)}
  BY <1>1, IdleFacts
<1>3. /\ Len(t) \in Nat /\ (t = <<>> <=> Len(t) = 0)
      /\ \A i \in 1..Len(t) : t[i] \in Nodes /\ t[i] # NULL /\ t[i] \in ToSet(t)
      /\ \A i, j \in 1..Len(t) : t[i] = t[j] => i = j
  BY <1>2, ListFacts
<1>4. front = NodeAfter(t, 0) /\ \A i \in 1..Len(t) : next[t[i]] = NodeAfter(t, i)
  BY <1>2 DEF Chain
<1>5. /\ Len(t) = 0 => front = NULL
      /\ Len(t) # 0 => front = t[1] /\ front # NULL /\ rear = t[Len(t)]
  BY <1>2, <1>3, <1>4 DEF NodeAfter, EndOf
<1>6. Abstract = Held(t, pcb)
  BY AbstractIs
<1> DEFINE h == Held(t, pcb)
<1>7. /\ h \in Seq(Procs \cup {Nothing}) /\ Len(h) = Len(t)
      /\ \A i \in 1..Len(t) : h[i] = pcb[t[i]]
  BY <1>2, HeldNow
<1> HIDE DEF h
<1>8. Len(t) # 0 => /\ h # <<>> /\ Last(h) = pcb[t[Len(t)]] /\ Front(h) = Removed(h, Len(t))
  <2>1. ASSUME Len(t) # 0
        PROVE  h # <<>> /\ Last(h) = h[Len(h)] /\ Front(h) = Removed(h, Len(h))
    BY <1>7, <2>1, FrontRemoves DEF Last
  <2>2. QED
    BY <1>3, <1>7, <2>1
<1>9. ~RearLost
  <2> SUFFICES ASSUME RearLost
               PROVE  FALSE
    OBVIOUS
  <2>1. front # NULL /\ front # rear /\ BeforeNode(rear) = {}
    BY DEF RearLost, isEmpty
  <2>2. Len(t) # 0 /\ Len(t) # 1 /\ Len(t) \in 1..Len(t)
    BY <1>3, <1>5, <2>1
  <2>3. BeforeNode(t[Len(t)]) = {t[Len(t) - 1]}
    BY <1>2, <2>2, BeforeIs
  <2>4. QED
    BY <1>5, <2>1, <2>2, <2>3
<1>10. (RearNone \/ RearAlone \/ RearOfMany) /\ pc' = "idle" /\ node' = node
  BY <1>1, <1>9 DEF DequeueRear
<1>11. CASE RearNone
  <2>1. /\ front = NULL /\ done' = <<"dequeue_rear", Nothing>>
        /\ UNCHANGED <<used, pcb, next, front, rear, size, inside>>
    BY <1>11 DEF RearNone, GiveNothing, isEmpty, fields, ends
  <2>2. QueueTypes'
    BY <2>1 DEF QueueTypes
  <2>3. Progress(t)'
    BY <1>2, <1>10, <2>1, IdleAgain
  <2>4. Abstract' = Held(t, pcb)
    BY <2>1, <2>3, AbstractWillBe
  <2>5. Abstract = <<>>
    BY <1>5, <1>6, <1>7, <2>1 DEF h
  <2>6. Sequence!QueueNext
    BY <1>6, <2>1, <2>4, <2>5, AbstractEnds
  <2>7. QED
    BY <2>2, <2>3, <2>6
<1>12. CASE RearAlone \/ RearOfMany
  <2> DEFINE k == Len(t)
  <2>1. Len(t) # 0 /\ k \in 1..Len(t)
    BY <1>3, <1>5, <1>12 DEF RearAlone, RearOfMany, isEmpty
  <2>2. /\ used' = ToSet(t) \ {t[k]} /\ size' = size - 1 /\ inside' = inside \ {pcb[t[k]]}
        /\ pcb' = pcb /\ done' = <<"dequeue_rear", pcb[t[k]]>>
    BY <1>2, <1>5, <1>12, <2>1 DEF RearAlone, RearOfMany, GiveOut
  <2>3. PICK u : u = Removed(t, k)
    OBVIOUS
  <2> SUFFICES ASSUME TRUE
               PROVE  /\ next' \in [Nodes -> Nodes \cup {NULL}]
                      /\ Chain(u, front', next') /\ rear' = EndOf(u)
    <3>1. /\ next' \in [Nodes -> Nodes \cup {NULL}]
          /\ Chain(u, front', next') /\ rear' = EndOf(u)
      OBVIOUS
    <3> HIDE DEF k
    <3>2. QueueTypes' /\ Progress(u)' /\ Held(u, pcb') = Removed(h, k)
      BY <1>2, <1>10, <2>1, <2>2, <2>3, <3>1, NodeLeft DEF h
    <3>3. Abstract' = Held(u, pcb')
      BY <3>2, AbstractWillBe
    <3>4. /\ Abstract # <<>> /\ done' = <<"dequeue_rear", Last(Abstract)>>
          /\ Abstract' = Front(Abstract)
      BY <1>6, <1>8, <2>1, <2>2, <3>2, <3>3 DEF h, k
    <3>5. QED
      BY <3>2, <3>4, AbstractEnds
  <2>4. CASE RearAlone
    <3>1. front = rear /\ front' = NULL /\ rear' = NULL /\ next' = next
      BY <2>4 DEF RearAlone
    <3>2. Len(t) = 1
      <4>1. 1 \in 1..Len(t) /\ Len(t) \in 1..Len(t) /\ t[1] = t[Len(t)]
        BY <1>3, <1>5, <2>1, <3>1
      <4>2. 1 = Len(t)
        BY <1>3, <4>1
      <4>3. QED
        BY <4>2
    <3>3. next[t[1]] = NULL
      BY <1>4, <3>2 DEF NodeAfter
    <3>4. Chain(Removed(t, 1), NULL, next)
      <4>1. 1 \in 1..Len(t) /\ ~(1 > 1)
        BY <3>2
      <4>2. NULL = IF 1 = 1 THEN next[t[1]] ELSE front
        BY <3>3
      <4>3. \A i \in 1..Len(t) : next[t[i]] = next[t[i]]
        OBVIOUS
      <4>4. QED
        BY <1>2, <4>1, <4>2, <4>3, ChainRemoved
    <3>5. EndOf(Removed(t, 1)) = NULL
      <4>1. 1 \in 1..Len(t) /\ ~(1 < Len(t))
        BY <3>2
      <4>2. QED
        BY <1>2, <3>2, <4>1, EndRemoved
    <3>6. QED
      BY <2>3, <3>1, <3>2, <3>4, <3>5 DEF QueueTypes
  <2>5. CASE RearOfMany
    <3>1. front # rear /\ front' = front
      BY <2>5 DEF RearOfMany
    <3>2. Len(t) # 1 /\ k - 1 \in 1..Len(t) /\ k > 1 /\ k # 1
      BY <1>3, <1>5, <2>1, <3>1
    <3>3. BeforeNode(rear) = {t[k - 1]}
      BY <1>2, <1>5, <2>1, <3>2, BeforeIs
    <3>4. rear' = t[k - 1] /\ next' = [next EXCEPT ![t[k - 1]] = NULL]
      BY <2>5, <3>3 DEF RearOfMany
    <3>5. /\ next' \in [Nodes -> Nodes \cup {NULL}] /\ next'[t[k - 1]] = NULL
          /\ \A m \in Nodes \ {t[k - 1]} : next'[m] = next[m]
      BY <1>3, <3>2, <3>4 DEF QueueTypes
    <3>6. next[t[k]] = NULL
      BY <1>4, <2>1 DEF NodeAfter
    <3>7. rear' = EndOf(u)
      <4>1. ~(k < Len(t))
        BY <1>3
      <4>2. QED
        BY <1>2, <2>1, <2>3, <3>2, <3>4, <4>1, EndRemoved
    <3> HIDE DEF k
    <3>8. \A i \in 1..Len(t) : i # k - 1 /\ i # k => next'[t[i]] = next[t[i]]
      BY <1>3, <3>2, <3>5
    <3>9. front' = IF k = 1 THEN next[t[1]] ELSE front
      BY <3>1, <3>2
    <3>10. next'[t[k - 1]] = next[t[k]]
      BY <3>5, <3>6
    <3>11. Chain(u, front', next')
      BY <1>2, <2>1, <2>3, <3>8, <3>9, <3>10, ChainRemoved
    <3>12. QED
      BY <3>5, <3>7, <3>11
  <2>6. QED
    BY <1>12, <2>4, <2>5
<1>13. QED
  BY <1>10, <1>11, <1>12

LEMMA DequeueByIdCompletes ==
  ASSUME QueueTypes, NEW t, Progress(t), NEW p \in Procs, DequeueById(p)
  PROVE  \E u : QueueTypes' /\ Progress(u)' /\ Sequence!QueueNext
<1>1. pc = "idle" /\ pc' = "idle"
  BY DEF DequeueById
<1>2. /\ t \in Seq(Nodes) /\ IsInjective(t) /\ size = Len(t) /\ used = ToSet(t)
      /\ Chain(t, front, next) /\ rear = EndOf(t)
      /\ \A m, n \in ToSet(t) : pcb[m] = pcb[n] => m = n
      /\ inside = {pcb[n] : n \in ToSet(t)} /\ Reached = t
  BY <1>1, IdleFacts
<1>3. /\ Len(t) \in Nat /\ (t = <<>> <=> Len(t) = 0)
      /\ \A i \in 1..Len(t) : t[i] \in Nodes /\ t[i] # NULL /\ t[i] \in ToSet(t)
      /\ \A x \in ToSet(t) : \E i \in 1..Len(t) : t[i] = x
      /\ \A i, j \in 1..Len(t) : t[i] = t[j] => i = j
  BY <1>2, ListFacts
<1>4. front = NodeAfter(t, 0) /\ \A i \in 1..Len(t) : next[t[i]] = NodeAfter(t, i)
  BY <1>2 DEF Chain
<1>5. Len(t) # 0 => front = t[1] /\ rear = t[Len(t)]
  BY <1>2, <1>3, <1>4 DEF NodeAfter, EndOf
<1>6. Abstract = Held(t, pcb)
  BY AbstractIs
<1> DEFINE h == Held(t, pcb)
<1>7. /\ h \in Seq(Procs \cup {Nothing}) /\ Len(h) = Len(t) /\ DOMAIN h = 1..Len(t)
      /\ \A i \in 1..Len(t) : h[i] = pcb[t[i]]
      /\ \A x : x \in ToSet(h) <=> \E n \in ToSet(t) : pcb[n] = x
  BY <1>2, HeldNow
<1> HIDE DEF h
<1> DEFINE here == {n \in ToSet(t) : pcb[n] = p}
<1>8. \/ here = {} /\ GiveNothing("dequeue_by_id")
      \/ /\ front \in here
         /\ GiveOut("dequeue_by_id", front)
         /\ front' = next[front]
         /\ rear' = IF next[front] = NULL THEN NULL ELSE rear
         /\ UNCHANGED next
      \/ \E n \in here \ {front} : \E m \in BeforeNode(n) :
            /\ GiveOut("dequeue_by_id", n)
            /\ next' = [next EXCEPT ![m] = next[n]]
            /\ rear' = RearWithout(n, m)
            /\ UNCHANGED front
  BY <1>2 DEF DequeueById
<1>9. CASE here = {} /\ GiveNothing("dequeue_by_id")
  <2>1. /\ done' = <<"dequeue_by_id", Nothing>>
        /\ UNCHANGED <<used, pcb, next, front, rear, size, inside>>
    BY <1>9 DEF GiveNothing, fields, ends
  <2>2. QueueTypes'
    BY <2>1 DEF QueueTypes
  <2>3. Progress(t)'
    BY <1>1, <1>2, <2>1, IdleAgain
  <2>4. Abstract' = Held(t, pcb)
    BY <2>1, <2>3, AbstractWillBe
  <2>5. p \notin ToSet(Abstract)
    BY <1>6, <1>7, <1>9 DEF h
  <2>6. Sequence!QueueNext
    BY <1>6, <2>1, <2>4, <2>5, AbstractSteps
  <2>7. QED
    BY <2>2, <2>3, <2>6
\* A node with p leaves, wherever it is: what is left to see is the list.
<1>10. ASSUME NEW k \in 1..Len(t), NEW u, u = Removed(t, k), pcb[t[k]] = p,
              GiveOut("dequeue_by_id", t[k]),
              next' \in [Nodes -> Nodes \cup {NULL}],
              Chain(u, front', next'), rear' = EndOf(u)
       PROVE  QueueTypes' /\ Progress(u)' /\ Sequence!QueueNext
  <2>1. /\ used' = ToSet(t) \ {t[k]} /\ size' = size - 1 /\ inside' = inside \ {pcb[t[k]]}
        /\ pcb' = pcb /\ done' = <<"dequeue_by_id", p>>
    BY <1>2, <1>10 DEF GiveOut
  <2>2. QueueTypes' /\ Progress(u)' /\ Held(u, pcb') = Removed(h, k)
    BY <1>1, <1>2, <1>10, <2>1, NodeLeft DEF h
  <2>3. Abstract' = Held(u, pcb')
    BY <2>2, AbstractWillBe
  <2>4. RemoveAt(h, k) = Removed(h, k) /\ k \in DOMAIN h /\ h[k] = p
    BY <1>7, <1>10, RemoveAtRemoves
  <2>5. Abstract = h
    BY <1>6 DEF h
  <2>6. k \in DOMAIN Abstract /\ Abstract[k] = p /\ Abstract' = RemoveAt(Abstract, k)
    BY <2>2, <2>3, <2>4, <2>5
  <2>7. Sequence!QueueNext
    BY <2>1, <2>6, AbstractSteps
  <2>8. QED
    BY <2>2, <2>7
<1>11. CASE /\ front \in here
            /\ GiveOut("dequeue_by_id", front)
            /\ front' = next[front]
            /\ rear' = IF next[front] = NULL THEN NULL ELSE rear
            /\ UNCHANGED next
  <2>1. Len(t) # 0 /\ 1 \in 1..Len(t) /\ front = t[1] /\ pcb[t[1]] = p
    BY <1>3, <1>5, <1>11
  <2>2. PICK u : u = Removed(t, 1)
    OBVIOUS
  <2>3. Chain(u, front', next')
    <3> DEFINE k == 1
    <3>1. k \in 1..Len(t) /\ k = 1
      BY <2>1
    <3> HIDE DEF k
    <3>2. front' = IF k = 1 THEN next[t[1]] ELSE front
      BY <1>11, <2>1, <3>1
    <3>3. k > 1 => next'[t[k - 1]] = next[t[k]]
      BY <3>1
    <3>4. \A i \in 1..Len(t) : i # k - 1 /\ i # k => next'[t[i]] = next[t[i]]
      BY <1>11
    <3>5. Chain(Removed(t, k), front', next')
      BY <1>2, <3>1, <3>2, <3>3, <3>4, ChainRemoved
    <3>6. QED
      BY <2>2, <3>1, <3>5
  <2>4. rear' = EndOf(u)
    <3>1. EndOf(u) = IF 1 < Len(t) THEN EndOf(t) ELSE IF Len(t) = 1 THEN NULL ELSE t[Len(t) - 1]
      BY <1>2, <2>1, <2>2, EndRemoved
    <3>2. CASE Len(t) = 1
      <4>1. next[t[1]] = NULL
        BY <1>4, <2>1, <3>2 DEF NodeAfter
      <4>2. ~(1 < Len(t))
        BY <3>2
      <4>3. QED
        BY <1>11, <2>1, <3>1, <3>2, <4>1, <4>2
    <3>3. CASE 1 < Len(t)
      <4>1. next[t[1]] = t[2] /\ t[2] # NULL
        BY <1>3, <1>4, <2>1, <3>3 DEF NodeAfter
      <4>2. QED
        BY <1>2, <1>11, <2>1, <3>1, <3>3, <4>1
    <3>4. \A n \in Nat : n # 0 => n = 1 \/ 1 < n
      OBVIOUS
    <3>5. QED
      BY <1>3, <2>1, <3>2, <3>3, <3>4
  <2>5. GiveOut("dequeue_by_id", t[1]) /\ next' \in [Nodes -> Nodes \cup {NULL}]
    BY <1>11, <2>1 DEF QueueTypes
  <2>6. QED
    BY <1>10, <2>1, <2>2, <2>3, <2>4, <2>5
<1>12. ASSUME NEW n \in here \ {front}, NEW m \in BeforeNode(n),
              GiveOut("dequeue_by_id", n), next' = [next EXCEPT ![m] = next[n]],
              rear' = RearWithout(n, m), UNCHANGED front
       PROVE  \E u : QueueTypes' /\ Progress(u)' /\ Sequence!QueueNext
  <2>1. PICK k \in 1..Len(t) : t[k] = n
    BY <1>3, <1>12
  <2>2. Len(t) # 0 /\ k # 1
    BY <1>3, <1>5, <1>12, <2>1
  <2>3. k - 1 \in 1..Len(t) /\ k > 1
    BY <1>3, <2>2
  <2>4. m = t[k - 1]
    <3>1. BeforeNode(t[k]) = IF k = 1 THEN {} ELSE {t[k - 1]}
      BY <1>2, BeforeIs
    <3>2. QED
      BY <1>12, <2>1, <2>2, <3>1
  <2>5. /\ next' \in [Nodes -> Nodes \cup {NULL}] /\ next'[t[k - 1]] = next[t[k]]
        /\ \A x \in Nodes \ {t[k - 1]} : next'[x] = next[x]
    BY <1>3, <1>12, <2>1, <2>3, <2>4 DEF QueueTypes
  <2>6. PICK u : u = Removed(t, k)
    OBVIOUS
  <2>7. Chain(u, front', next')
    <3>1. \A i \in 1..Len(t) : i # k - 1 /\ i # k => next'[t[i]] = next[t[i]]
      BY <1>3, <2>3, <2>5
    <3>2. front' = IF k = 1 THEN next[t[1]] ELSE front
      BY <1>12, <2>2
    <3>3. QED
      BY <1>2, <2>5, <2>6, <3>1, <3>2, ChainRemoved
  <2>8. rear' = EndOf(u)
    <3>1. EndOf(u) = IF k < Len(t) THEN EndOf(t) ELSE IF Len(t) = 1 THEN NULL ELSE t[Len(t) - 1]
      BY <1>2, <2>6, EndRemoved
    <3>2. CASE k = Len(t)
      <4>1. ~(k < Len(t)) /\ Len(t) # 1
        BY <2>2, <3>2
      <4>2. rear = n
        BY <1>5, <2>1, <2>2, <3>2
      <4>3. QED
        BY <1>12, <2>4, <3>1, <3>2, <4>1, <4>2 DEF RearWithout
    <3>3. CASE k # Len(t)
      <4>1. k < Len(t) /\ Len(t) \in 1..Len(t)
        BY <1>3, <2>2, <3>3
      <4>2. rear # n
        BY <1>3, <1>5, <2>1, <2>2, <3>3, <4>1
      <4>3. QED
        BY <1>2, <1>12, <3>1, <4>1, <4>2 DEF RearWithout
    <3>4. QED
      BY <3>2, <3>3
  <2>9. QED
    BY <1>10, <1>12, <2>1, <2>5, <2>6, <2>7, <2>8
<1>13. QED
  BY <1>8, <1>9, <1>11, <1>12

\* The place that the program finds is the one that the sequence gives: behind
\* the last of the processes, after the front, that precede the new one.
LEMMA PlaceIs ==
  ASSUME QueueTypes, NEW t, Progress(t), pc = "idle", NEW p \in Procs, t # <<>>,
         ~(priority[p] < priority[pcb[front]])
  PROVE  \E i \in 1..Len(t) :
            /\ PriorityPlace(p) = t[i]
            /\ Sequence!EnqueuePriority(Held(t, pcb), p, priority, arrival)
                  = Inserted(Held(t, pcb), i + 1, p)
<1>1. /\ t \in Seq(Nodes) /\ IsInjective(t)
      /\ Chain(t, front, next) /\ Reached = t
  BY IdleFacts
<1>2. /\ Len(t) \in Nat /\ Len(t) # 0 /\ 1 \in 1..Len(t)
      /\ \A i \in 1..Len(t) : t[i] \in Nodes /\ t[i] # NULL
  BY <1>1, ListFacts
<1>3. front = t[1] /\ \A i \in 1..Len(t) : next[t[i]] = NodeAfter(t, i)
  BY <1>1, <1>2 DEF Chain, NodeAfter
<1> DEFINE h == Held(t, pcb)
           after(c) == Precedence!Precedes(c, p, priority, arrival)
           goes(n) == next[n] = NULL \/ ~after(pcb[next[n]])
           S == {i \in 1..Len(t) : goes(t[i])}
<1>4. /\ h \in Seq(Procs \cup {Nothing}) /\ Len(h) = Len(t)
      /\ \A i \in 1..Len(t) : h[i] = pcb[t[i]]
  BY <1>1, HeldNow
<1>5. PriorityPlace(p) = t[Min(S)]
  BY <1>1 DEF PriorityPlace
<1> HIDE DEF h, after
<1>6. \A i \in 1..Len(t) : i \in S <=> i = Len(t) \/ ~after(h[i + 1])
  <2>1. ASSUME NEW i \in 1..Len(t)
        PROVE  goes(t[i]) <=> i = Len(t) \/ ~after(h[i + 1])
    <3>1. CASE i = Len(t)
      BY <1>3, <3>1 DEF NodeAfter
    <3>2. CASE i # Len(t)
      <4>1. i < Len(t) /\ i + 1 \in 1..Len(t)
        BY <1>2, <3>2
      <4>2. next[t[i]] = t[i + 1] /\ t[i + 1] # NULL /\ h[i + 1] = pcb[t[i + 1]]
        BY <1>2, <1>3, <1>4, <4>1 DEF NodeAfter
      <4>3. QED
        BY <3>2, <4>2
    <3>3. QED
      BY <3>1, <3>2
  <2> HIDE DEF goes
  <2>2. QED
    BY <2>1
<1>7. S \subseteq 1..Len(t) /\ S # {}
  <2>1. Len(t) \in 1..Len(t)
    BY <1>2
  <2>2. QED
    BY <1>6, <2>1
<1> HIDE DEF S
<1>8. PICK i \in S : Min(S) = i /\ \A j \in S : i <= j
  <2>1. S \in SUBSET Nat
    BY <1>2, <1>7
  <2>2. \E i \in S : \A j \in S : i <= j
    BY <1>7, <2>1, LeastExists
  <2>3. Min(S) \in S /\ \A j \in S : Min(S) <= j
    BY <2>2 DEF Min
  <2>4. QED
    BY <2>3
<1>9. i \in 1..Len(t) /\ PriorityPlace(p) = t[i]
  BY <1>5, <1>7, <1>8
<1>10. Sequence!EnqueuePriority(h, p, priority, arrival) = Inserted(h, i + 1, p)
  <2> DEFINE fits(k) == /\ k = Len(h) \/ ~after(h[k + 1])
                        /\ \A j \in 2..k : after(h[j])
             place == CHOOSE k \in 1..Len(h) : fits(k)
  <2>1. fits(i)
    <3>1. i = Len(h) \/ ~after(h[i + 1])
      BY <1>4, <1>6, <1>8, <1>9
    <3>2. ASSUME NEW j \in 2..i
          PROVE  after(h[j])
      <4>1. j - 1 \in 1..Len(t) /\ ~(i <= j - 1) /\ (j - 1) + 1 = j
        BY <1>2, <1>9
      <4>2. j - 1 \notin S
        BY <1>8, <4>1
      <4>3. QED
        BY <1>6, <4>1, <4>2
    <3>3. QED
      BY <3>1, <3>2
  <2>2. ASSUME NEW k \in 1..Len(h), fits(k)
        PROVE  k = i
    <3>1. k \in S
      BY <1>4, <1>6, <2>2
    <3>2. i <= k
      BY <1>8, <3>1
    <3>3. CASE i < k
      <4>1. i + 1 \in 2..k /\ i # Len(t)
        BY <1>2, <1>4, <1>9, <3>3
      <4>2. after(h[i + 1])
        BY <2>2, <4>1
      <4>3. QED
        BY <1>6, <1>8, <1>9, <4>1, <4>2
    <3>4. QED
      BY <1>2, <1>4, <1>9, <3>2, <3>3
  <2>3. place = i
    <3> HIDE DEF fits
    <3>1. i \in 1..Len(h)
      BY <1>4, <1>9
    <3>2. QED
      BY <2>1, <2>2, <3>1
  <2>4. ~Sequence!GoesToFront(h, p, priority)
    <3>1. h # <<>> /\ Head(h) = pcb[front]
      BY <1>2, <1>3, <1>4
    <3>2. QED
      BY <3>1 DEF Sequence!GoesToFront
  <2>5. Sequence!EnqueuePriority(h, p, priority, arrival) = InsertAt(h, place + 1, p)
    <3>1. Sequence!EnqueuePriority(h, p, priority, arrival) = Sequence!InsertAt(h, place + 1, p)
      BY <2>4 DEF Sequence!EnqueuePriority, Sequence!Precedes, Precedence!Precedes, after
    <3>2. QED
      BY <3>1, SameOperators
  <2>6. i + 1 \in 1..(Len(h) + 1) /\ p \in Procs \cup {Nothing}
    BY <1>2, <1>4, <1>9
  <2> HIDE DEF place
  <2>7. InsertAt(h, i + 1, p) = Inserted(h, i + 1, p)
    BY <1>4, <2>6, InsertAtInserts
  <2>8. QED
    BY <2>3, <2>5, <2>7
<1>11. QED
  BY <1>9, <1>10 DEF h

LEMMA EnqueuePriorityCompletes ==
  ASSUME QueueTypes, NEW t, Progress(t), NEW p \in Procs, EnqueuePriority(p)
  PROVE  \E u : QueueTypes' /\ Progress(u)' /\ Sequence!QueueNext
<1>1. /\ pc = "idle" /\ pc' = "idle" /\ p \notin inside /\ size' = size + 1
      /\ inside' = inside \cup {p} /\ done' = <<"enqueue_priority", p>>
  BY DEF EnqueuePriority
<1>2. /\ t \in Seq(Nodes) /\ IsInjective(t) /\ size = Len(t) /\ used = ToSet(t)
      /\ Chain(t, front, next) /\ rear = EndOf(t)
      /\ \A m, i \in ToSet(t) : pcb[m] = pcb[i] => m = i
      /\ inside = {pcb[m] : m \in ToSet(t)}
  BY <1>1, IdleFacts
<1>3. /\ Len(t) \in Nat /\ (t = <<>> <=> Len(t) = 0)
      /\ \A i \in 1..Len(t) : t[i] \in Nodes /\ t[i] # NULL /\ t[i] \in ToSet(t)
      /\ \A i, j \in 1..Len(t) : t[i] = t[j] => i = j
  BY <1>2, ListFacts
<1>4. front = NodeAfter(t, 0) /\ \A i \in 1..Len(t) : next[t[i]] = NodeAfter(t, i)
  BY <1>2 DEF Chain
<1>5. /\ Len(t) = 0 => front = NULL /\ rear = NULL
      /\ Len(t) # 0 => front = t[1] /\ front # NULL /\ rear = t[Len(t)] /\ rear # NULL
  <2>1. Len(t) # 0 => 1 \in 1..Len(t) /\ Len(t) \in 1..Len(t)
    BY <1>3
  <2>2. QED
    BY <1>2, <1>3, <1>4, <2>1 DEF NodeAfter, EndOf
<1>6. Abstract = Held(t, pcb)
  BY AbstractIs
<1> DEFINE h == Held(t, pcb)
<1>7. /\ h \in Seq(Procs \cup {Nothing}) /\ Len(h) = Len(t)
      /\ \A i \in 1..Len(t) : h[i] = pcb[t[i]]
      /\ \A x : x \in ToSet(h) <=> \E m \in ToSet(t) : pcb[m] = x
  BY <1>2, HeldNow
<1> HIDE DEF h
<1>8. PICK n \in Nodes \ used :
        /\ used' = used \cup {n}
        /\ pcb' = [pcb EXCEPT ![n] = p]
        /\ IF isEmpty \/ priority[p] < priority[pcb[front]]
           THEN /\ next' = [next EXCEPT ![n] = front]
                /\ front' = n
                /\ rear' = IF rear = NULL THEN n ELSE rear
           ELSE LET c == PriorityPlace(p)
                IN  /\ next' = [next EXCEPT ![n] = next[c], ![c] = n]
                    /\ rear' = IF next[c] = NULL THEN n ELSE rear
                    /\ UNCHANGED front
  BY DEF EnqueuePriority
<1>9. n \in Nodes /\ n \notin ToSet(t) /\ \A i \in 1..Len(t) : t[i] # n
  BY <1>2, <1>3, <1>8
<1>10. p \notin ToSet(Abstract)
  BY <1>1, <1>2, <1>6, <1>7 DEF h
\* A new node enters somewhere: what is left to see is the list.
<1>11. ASSUME NEW k \in 1..(Len(t) + 1), NEW u, u = Inserted(t, k, n),
              Sequence!EnqueuePriority(h, p, priority, arrival) = Inserted(h, k, p),
              next' \in [Nodes -> Nodes \cup {NULL}],
              Chain(u, front', next'), rear' = EndOf(u)
       PROVE  QueueTypes' /\ Progress(u)' /\ Sequence!QueueNext
  <2>1. /\ used' = ToSet(t) \cup {n} /\ pcb' \in [Nodes -> Procs \cup {Nothing}]
        /\ pcb'[n] = p /\ \A m \in Nodes \ {n} : pcb'[m] = pcb[m]
    BY <1>2, <1>8, <1>9 DEF QueueTypes
  <2>2. QueueTypes' /\ Progress(u)' /\ Held(u, pcb') = Inserted(h, k, p)
    <3>1. n \in Nodes /\ n \notin ToSet(t) /\ p \notin inside /\ u = Inserted(t, k, n)
      BY <1>1, <1>9, <1>11
    <3>2. /\ size' = size + 1 /\ inside' = inside \cup {p} /\ pc' = "idle"
          /\ next' \in [Nodes -> Nodes \cup {NULL}] /\ Chain(u, front', next') /\ rear' = EndOf(u)
      BY <1>1, <1>11
    <3>3. /\ QueueTypes' /\ Progress(u)'
          /\ Held(u, pcb') = Inserted(Held(t, pcb), k, p)
      BY <1>2, <2>1, <3>1, <3>2, NodeEntered
    <3>4. QED
      BY <3>3 DEF h
  <2>3. Abstract' = Held(u, pcb')
    BY <2>2, AbstractWillBe
  <2>4. Abstract = h
    BY <1>6 DEF h
  <2>5. Abstract' = Sequence!EnqueuePriority(Abstract, p, priority, arrival)
    BY <1>11, <2>2, <2>3, <2>4
  <2>6. Sequence!QueueNext
    BY <1>1, <1>10, <2>5, AbstractSteps
  <2>7. QED
    BY <2>2, <2>6
<1>12. CASE isEmpty \/ priority[p] < priority[pcb[front]]
  <2>1. /\ next' = [next EXCEPT ![n] = front] /\ front' = n
        /\ rear' = IF rear = NULL THEN n ELSE rear
    BY <1>8, <1>12
  <2>2. front \in Nodes \cup {NULL}
    BY <1>3, <1>5
  <2>3. /\ next' \in [Nodes -> Nodes \cup {NULL}] /\ next'[n] = front
        /\ \A m \in Nodes \ {n} : next'[m] = next[m]
    BY <1>9, <2>1, <2>2 DEF QueueTypes
  <2> DEFINE k == 1
  <2>4. k \in 1..(Len(t) + 1) /\ k = 1 /\ k - 1 = 0
    BY <1>3
  <2>5. Sequence!EnqueuePriority(h, p, priority, arrival) = Inserted(h, 1, p)
    <3>1. Sequence!GoesToFront(h, p, priority)
      <4>1. CASE Len(t) = 0
        BY <1>7, <4>1 DEF Sequence!GoesToFront
      <4>2. CASE Len(t) # 0
        <5>1. 1 \in 1..Len(t) /\ h # <<>> /\ Head(h) = h[1] /\ ~isEmpty
          BY <1>3, <1>5, <1>7, <4>2 DEF isEmpty
        <5>2. Head(h) = pcb[front]
          BY <1>5, <1>7, <4>2, <5>1
        <5>3. QED
          BY <1>12, <5>1, <5>2 DEF Sequence!GoesToFront
      <4>3. QED
        BY <4>1, <4>2
    <3>2. Sequence!EnqueuePriority(h, p, priority, arrival) = <<p>> \o h
      BY <3>1 DEF Sequence!EnqueuePriority
    <3>3. p \in Procs \cup {Nothing}
      OBVIOUS
    <3>4. QED
      BY <1>7, <3>2, <3>3, PrependInserts
  <2> HIDE DEF k
  <2>6. PICK u : u = Inserted(t, k, n)
    OBVIOUS
  <2>7. Chain(u, front', next')
    <3>1. front' = IF k = 1 THEN n ELSE front
      BY <2>1, <2>4
    <3>2. next'[n] = NodeAfter(t, k - 1)
      BY <1>4, <2>3, <2>4
    <3>3. k > 1 => next'[t[k - 1]] = n
      BY <2>4
    <3>4. \A i \in 1..Len(t) : i # k - 1 => next'[t[i]] = next[t[i]]
      BY <1>3, <1>9, <2>3
    <3>5. QED
      BY <1>2, <1>9, <2>4, <2>6, <3>1, <3>2, <3>3, <3>4, ChainInserted
  <2>8. rear' = EndOf(u)
    <3>1. EndOf(u) = IF k = Len(t) + 1 THEN n ELSE EndOf(t)
      BY <1>2, <1>9, <2>4, <2>6, EndInserted
    <3>2. k = Len(t) + 1 <=> Len(t) = 0
      BY <1>3, <2>4
    <3>3. QED
      BY <1>2, <1>5, <2>1, <3>1, <3>2
  <2>9. QED
    BY <1>11, <2>3, <2>4, <2>5, <2>6, <2>7, <2>8
<1>13. CASE ~(isEmpty \/ priority[p] < priority[pcb[front]])
  <2>1. Len(t) # 0 /\ t # <<>>
    BY <1>3, <1>5, <1>13 DEF isEmpty
  <2>2. PICK i \in 1..Len(t) :
          /\ PriorityPlace(p) = t[i]
          /\ Sequence!EnqueuePriority(Held(t, pcb), p, priority, arrival)
                = Inserted(Held(t, pcb), i + 1, p)
    BY <1>1, <1>13, <2>1, PlaceIs
  <2>3. /\ next' = [next EXCEPT ![n] = next[t[i]], ![t[i]] = n]
        /\ rear' = IF next[t[i]] = NULL THEN n ELSE rear
        /\ front' = front
    BY <1>8, <1>13, <2>2
  <2>4. /\ next' \in [Nodes -> Nodes \cup {NULL}]
        /\ next'[n] = next[t[i]] /\ next'[t[i]] = n
        /\ \A m \in Nodes \ {n, t[i]} : next'[m] = next[m]
    BY <1>3, <1>9, <2>3 DEF QueueTypes
  <2> DEFINE k == i + 1
  <2>5. k \in 1..(Len(t) + 1) /\ k # 1 /\ k > 1 /\ k - 1 = i
    BY <1>3
  <2>6. Sequence!EnqueuePriority(h, p, priority, arrival) = Inserted(h, k, p)
    BY <2>2 DEF h
  <2> HIDE DEF k
  <2>7. PICK u : u = Inserted(t, k, n)
    OBVIOUS
  <2>8. Chain(u, front', next')
    <3>1. front' = IF k = 1 THEN n ELSE front
      BY <2>3, <2>5
    <3>2. next'[n] = NodeAfter(t, k - 1) /\ next'[t[k - 1]] = n
      BY <1>4, <2>4, <2>5
    <3>3. \A j \in 1..Len(t) : j # k - 1 => next'[t[j]] = next[t[j]]
      BY <1>3, <1>9, <2>4, <2>5
    <3>4. QED
      BY <1>2, <1>9, <2>5, <2>7, <3>1, <3>2, <3>3, ChainInserted
  <2>9. rear' = EndOf(u)
    <3>1. EndOf(u) = IF k = Len(t) + 1 THEN n ELSE EndOf(t)
      BY <1>2, <1>9, <2>5, <2>7, EndInserted
    <3>2. next[t[i]] = NULL <=> k = Len(t) + 1
      <4>1. CASE i < Len(t)
        <5>1. i + 1 \in 1..Len(t) /\ next[t[i]] = t[i + 1]
          BY <1>3, <1>4, <4>1 DEF NodeAfter
        <5>2. QED
          BY <1>3, <2>5, <4>1, <5>1
      <4>2. CASE ~(i < Len(t))
        BY <1>3, <1>4, <2>5, <4>2 DEF NodeAfter
      <4>3. QED
        BY <4>1, <4>2
    <3>3. QED
      BY <1>2, <2>3, <3>1, <3>2
  <2>10. QED
    BY <1>11, <2>4, <2>5, <2>6, <2>7, <2>8, <2>9
<1>14. QED
  BY <1>12, <1>13

-----------------------------------------------------------------------------
(* Every step keeps the invariant and is one of the sequence, or nothing.  *)

LEMMA AssignmentsKeep ==
  ASSUME QueueTypes, NEW t, Progress(t),
         \/ \E p \in Procs : NewNode(p)
         \/ LinkFirst \/ LinkFront \/ LinkLast \/ LinkRear
         \/ CallDequeue \/ TakeFront \/ Advance \/ ClearRear \/ Free
  PROVE  QueueTypes' /\ Progress(t)' /\ UNCHANGED Sequence!queuevars
<1>1. QueueTypes' /\ Progress(t)' /\ Held(t, pcb') = Held(t, pcb) /\ done' = done
  <2>1. ASSUME NEW p \in Procs, NewNode(p)
        PROVE  QueueTypes' /\ Progress(t)' /\ Held(t, pcb') = Held(t, pcb) /\ done' = done
    BY <2>1, NewNodeProgresses DEF NewNode
  <2>2. ASSUME QueueTypes' /\ Progress(t)' /\ Unmoved
        PROVE  QueueTypes' /\ Progress(t)' /\ Held(t, pcb') = Held(t, pcb) /\ done' = done
    BY <2>2 DEF Unmoved
  <2>3. QED
    BY <2>1, <2>2, LinkFirstProgresses, LinkFrontProgresses, LinkLastProgresses,
       LinkRearProgresses, CallDequeueProgresses, TakeFrontProgresses, AdvanceProgresses,
       ClearRearProgresses, FreeProgresses
<1>2. Abstract = Held(t, pcb) /\ Abstract' = Held(t, pcb')
  BY <1>1, AbstractIs, AbstractWillBe
<1>3. QED
  BY <1>1, <1>2, AbstractEnds

LEMMA StepImplements ==
  ASSUME Interrupts = FALSE, QInv, [LinkedNext]_queuevars
  PROVE  QInv' /\ [Sequence!QueueNext]_(Sequence!queuevars)
<1>1. QueueTypes
  BY DEF QInv
<1>2. PICK t : Progress(t)
  BY DEF QInv
<1>3. ASSUME NEW u, QueueTypes', Progress(u)'
      PROVE  QInv'
  BY <1>3 DEF QInv
<1>4. CASE \/ \E p \in Procs : NewNode(p)
           \/ LinkFirst \/ LinkFront \/ LinkLast \/ LinkRear
           \/ CallDequeue \/ TakeFront \/ Advance \/ ClearRear \/ Free
  <2>1. QueueTypes' /\ Progress(t)' /\ UNCHANGED Sequence!queuevars
    BY <1>1, <1>2, <1>4, AssignmentsKeep
  <2>2. QED
    BY <1>3, <2>1
<1>5. CASE CountIn \/ CountOut \/ DequeueRear \/ \E p \in Procs : EnqueuePriority(p) \/ DequeueById(p)
  <2>1. \E u : QueueTypes' /\ Progress(u)' /\ Sequence!QueueNext
    BY <1>1, <1>2, <1>5, CountInCompletes, CountOutCompletes, DequeueRearCompletes,
       EnqueuePriorityCompletes, DequeueByIdCompletes
  <2>2. QED
    BY <1>3, <2>1
<1>6. CASE UNCHANGED queuevars
  <2>1. /\ UNCHANGED <<used, pcb, next, front, rear, size, pc, node>>
        /\ UNCHANGED <<done, inside, before>>
    BY <1>6 DEF queuevars, fields, ends
  <2>2. QueueTypes'
    BY <1>1, <2>1 DEF QueueTypes
  <2>3. Progress(t)'
    BY <1>2, <2>1
       DEF Progress, Linked, Allocated, Members, Entering, Leaving, Longer, Shorter
  <2>4. Abstract = Held(t, pcb) /\ Abstract' = Held(t, pcb')
    BY <1>2, <2>3, AbstractIs, AbstractWillBe
  <2>5. UNCHANGED Sequence!queuevars
    BY <2>1, <2>4, AbstractEnds
  <2>6. QED
    BY <1>3, <2>2, <2>3, <2>5
<1>7. QED
  BY <1>4, <1>5, <1>6 DEF LinkedNext

LEMMA InitInvariant ==
  ASSUME LinkedInit
  PROVE  QInv
BY InitProgresses DEF QInv

\* What the invariant says between two operations.
LEMMA InvariantWhole ==
  ASSUME QInv
  PROVE  WellFormed /\ NothingLost
<1>1. QueueTypes
  BY DEF QInv
<1>2. PICK t : Progress(t)
  BY DEF QInv
<1>3. pc # "crashed"
  BY <1>2 DEF Progress, Entering, Leaving
<1>4. ASSUME pc = "idle"
      PROVE  /\ IsInjective(Reached) /\ ToSet(Reached) = used /\ size = Len(Reached)
             /\ IF Reached = <<>> THEN rear = NULL ELSE rear = Last(Reached) /\ next[rear] = NULL
             /\ ToSet(Contents) = inside
  <2>1. /\ t \in Seq(Nodes) /\ IsInjective(t) /\ size = Len(t) /\ used = ToSet(t)
        /\ Chain(t, front, next) /\ rear = EndOf(t)
        /\ inside = {pcb[n] : n \in ToSet(t)}
        /\ Reached = t /\ Contents = Held(t, pcb)
    BY <1>2, <1>4, IdleFacts
  <2>2. Len(t) \in Nat /\ (t = <<>> <=> Len(t) = 0)
    BY <2>1, ListFacts
  <2>3. IF t = <<>> THEN rear = NULL ELSE rear = Last(t) /\ next[rear] = NULL
    <3>1. CASE t = <<>>
      BY <2>1, <2>2, <3>1 DEF EndOf
    <3>2. CASE t # <<>>
      <4>1. rear = t[Len(t)] /\ Len(t) \in 1..Len(t) /\ Last(t) = t[Len(t)]
        BY <2>1, <2>2, <3>2 DEF EndOf, Last
      <4>2. next[t[Len(t)]] = NodeAfter(t, Len(t))
        BY <2>1, <4>1 DEF Chain
      <4>3. NodeAfter(t, Len(t)) = NULL
        BY <2>2 DEF NodeAfter
      <4>4. QED
        BY <3>2, <4>1, <4>2, <4>3
    <3>3. QED
      BY <3>1, <3>2
  <2>4. \A x : x \in ToSet(Held(t, pcb)) <=> \E n \in ToSet(t) : pcb[n] = x
    BY <1>1, <2>1, HeldNow
  <2>5. ToSet(Contents) = inside
    BY <2>1, <2>4
  <2>6. QED
    BY <2>1, <2>3, <2>5
<1>5. WellFormed
  BY <1>3, <1>4 DEF WellFormed
<1>6. NothingLost
  BY <1>4 DEF NothingLost
<1>7. QED
  BY <1>5, <1>6

\* The inductive invariant: at every assignment of enqueue and of dequeue the nodes
\* and the two ends are those of one list, with what the operation has done so far.
THEOREM ListInvariant ==
  ASSUME Interrupts = FALSE
  PROVE  LinkedSpec => []QInv
<1>1. QInv /\ [LinkedNext]_queuevars => QInv'
  BY StepImplements
<1>2. QED
  BY <1>1, InitInvariant, PTL DEF LinkedSpec

\* When no handler interrupts an operation of Sch_PCB.c, the list is whole between
\* two of them: it uses exactly the nodes allocated, each once, ends at the rear and
\* is as long as its count; and no operation reads through NULL.
THEOREM ListIsWhole ==
  ASSUME Interrupts = FALSE
  PROVE  LinkedSpec => []WellFormed
<1>1. QInv => WellFormed
  BY InvariantWhole
<1>2. QED
  BY <1>1, ListInvariant, PTL

\* When no handler interrupts an operation of Sch_PCB.c, those in the list are those
\* who were put in and not given out: what the handler of SIGURG breaks.
THEOREM NobodyIsLost ==
  ASSUME Interrupts = FALSE
  PROVE  LinkedSpec => []NothingLost
<1>1. QInv => NothingLost
  BY InvariantWhole
<1>2. QED
  BY <1>1, ListInvariant, PTL

\* When no handler interrupts an operation of Sch_PCB.c, the linked list implements
\* the sequence that the modules of the schedulers use: each of its operations gives
\* out whom the sequence does, and leaves the others in the order of the sequence.
THEOREM ListImplementsSequence ==
  ASSUME Interrupts = FALSE
  PROVE  LinkedSpec => ImplementsSequence
<1>1. QInv /\ [LinkedNext]_queuevars => [Sequence!QueueNext]_(Sequence!queuevars)
  BY StepImplements
<1>2. LinkedInit => Sequence!QueueInit
  BY InitProgresses
<1>3. QED
  BY <1>1, <1>2, ListInvariant, PTL DEF LinkedSpec, ImplementsSequence, Sequence!QueueSpec

=============================================================================
