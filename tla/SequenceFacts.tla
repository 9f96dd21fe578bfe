---------------------------- MODULE SequenceFacts ----------------------------
(***************************************************************************)
(* Facts about numbers and sequences that the proofs of the schedulers     *)
(* share: a least element, and what the queues of the program contain      *)
(* after an enqueue, a dequeue or a concatenation.                         *)
(***************************************************************************)
EXTENDS QueueLoops, Integers, SequencesExt, TLAPS, WellFoundedInduction

Less == {ss \in Nat \X Nat : ss[1] < ss[2]}

\* The order of the natural numbers is well founded (the library's theorem,
\* with its operator parameter expanded).
LEMMA LessWellFounded == IsWellFoundedOn(Less, Nat)
  BY NatLessThanWellFounded DEF OpToRel, Less

LEMMA InLess ==
  ASSUME NEW i \in Nat, NEW j \in Nat, j < i
  PROVE  <<j, i>> \in Less
<1>1. <<j, i>> \in Nat \X Nat
  OBVIOUS
<1>2. <<j, i>>[1] < <<j, i>>[2]
  OBVIOUS
<1>3. QED
  BY <1>1, <1>2 DEF Less

\* A set of natural numbers that is not empty has a smallest element.
LEMMA LeastExists ==
  ASSUME NEW S \in SUBSET Nat, S # {}
  PROVE  \E i \in S : \A j \in S : i <= j
<1>1. PICK i \in S : \A j \in S : ~(<<j, i>> \in Less)
  BY LessWellFounded, WFMin
<1>2. \A j \in S : ~(j < i)
  BY <1>1, InLess
<1>3. QED
  BY <1>2

LEMMA AppendFacts ==
  ASSUME NEW T, NEW q \in Seq(T), NEW x \in T
  PROVE  /\ Append(q, x) \in Seq(T)
         /\ Append(q, x) # <<>>
         /\ ToSet(Append(q, x)) = ToSet(q) \cup {x}
         /\ IsInjective(q) /\ x \notin ToSet(q) => IsInjective(Append(q, x))
<1>1. /\ Append(q, x) \in Seq(T)
      /\ DOMAIN Append(q, x) = 1..Len(q) + 1
      /\ DOMAIN q = 1..Len(q)
      /\ Len(q) \in Nat
      /\ \A i \in 1..Len(q) : Append(q, x)[i] = q[i]
      /\ Append(q, x)[Len(q) + 1] = x
  OBVIOUS
<1>2. ToSet(Append(q, x)) = ToSet(q) \cup {x}
  BY <1>1 DEF ToSet
<1>3. ASSUME IsInjective(q), x \notin ToSet(q)
      PROVE  IsInjective(Append(q, x))
  BY <1>1, <1>3 DEF ToSet, IsInjective
<1>4. Append(q, x) # <<>>
  <2>1. Len(Append(q, x)) = Len(q) + 1
    OBVIOUS
  <2>2. Len(q) + 1 # 0
    BY <1>1
  <2>3. QED
    BY <2>1, <2>2
<1>5. QED
  BY <1>1, <1>2, <1>3, <1>4

LEMMA TailFacts ==
  ASSUME NEW T, NEW q \in Seq(T), q # <<>>
  PROVE  /\ Head(q) \in T /\ Tail(q) \in Seq(T)
         /\ ToSet(q) = {Head(q)} \cup ToSet(Tail(q))
         /\ IsInjective(q) => Head(q) \notin ToSet(Tail(q)) /\ IsInjective(Tail(q))
<1>1. /\ Tail(q) \in Seq(T)
      /\ DOMAIN q = 1..Len(q)
      /\ Len(q) \in Nat /\ Len(q) >= 1
      /\ DOMAIN Tail(q) = 1..(Len(q) - 1)
      /\ \A i \in 1..(Len(q) - 1) : Tail(q)[i] = q[i + 1]
      /\ Head(q) = q[1] /\ Head(q) \in T
  OBVIOUS
<1>2. \A i \in 1..Len(q) : i = 1 \/ (i - 1 \in 1..(Len(q) - 1) /\ q[i] = Tail(q)[i - 1])
  BY <1>1
<1>3. ToSet(q) = {Head(q)} \cup ToSet(Tail(q))
  <2>1. \A i \in 1..(Len(q) - 1) : i + 1 \in 1..Len(q)
    BY <1>1
  <2>2. 1 \in 1..Len(q)
    BY <1>1
  <2>3. \A x \in ToSet(q) : x \in {Head(q)} \cup ToSet(Tail(q))
    <3>1. SUFFICES ASSUME NEW i \in 1..Len(q)
                   PROVE  q[i] \in {Head(q)} \cup ToSet(Tail(q))
      BY <1>1 DEF ToSet
    <3>2. QED
      BY <1>1, <1>2 DEF ToSet
  <2>4. \A x \in {Head(q)} \cup ToSet(Tail(q)) : x \in ToSet(q)
    BY <1>1, <2>1, <2>2 DEF ToSet
  <2>5. QED
    BY <2>3, <2>4
<1>4. ASSUME IsInjective(q)
      PROVE  Head(q) \notin ToSet(Tail(q)) /\ IsInjective(Tail(q))
  <2>1. \A i, j \in 1..Len(q) : q[i] = q[j] => i = j
    BY <1>1, <1>4 DEF IsInjective
  <2>2. Head(q) \notin ToSet(Tail(q))
    BY <1>1, <2>1 DEF ToSet
  <2>3. IsInjective(Tail(q))
    BY <1>1, <2>1 DEF IsInjective
  <2>4. QED
    BY <2>2, <2>3
<1>5. QED
  BY <1>1, <1>3, <1>4

LEMMA ConcatFacts ==
  ASSUME NEW T, NEW q \in Seq(T), NEW r \in Seq(T)
  PROVE  /\ q \o r \in Seq(T)
         /\ q # <<>> => q \o r # <<>>
         /\ ToSet(q \o r) = ToSet(q) \cup ToSet(r)
         /\ IsInjective(q) /\ IsInjective(r) /\ ToSet(q) \cap ToSet(r) = {} => IsInjective(q \o r)
<1> DEFINE c == q \o r
<1>1. /\ c \in Seq(T)
      /\ Len(c) = Len(q) + Len(r)
      /\ Len(q) \in Nat /\ Len(r) \in Nat
      /\ DOMAIN c = 1..(Len(q) + Len(r)) /\ DOMAIN q = 1..Len(q) /\ DOMAIN r = 1..Len(r)
      /\ \A i \in 1..(Len(q) + Len(r)) : c[i] = IF i <= Len(q) THEN q[i] ELSE r[i - Len(q)]
  OBVIOUS
<1>2. q # <<>> => c # <<>>
  OBVIOUS
<1> HIDE DEF c
<1>3. \A i \in 1..Len(q) : i \in 1..(Len(q) + Len(r)) /\ c[i] = q[i]
  BY <1>1
<1>4. \A i \in 1..Len(r) : Len(q) + i \in 1..(Len(q) + Len(r)) /\ c[Len(q) + i] = r[i]
  BY <1>1
<1>5. \A i \in 1..(Len(q) + Len(r)) : \/ i \in 1..Len(q) /\ c[i] = q[i]
                                      \/ i - Len(q) \in 1..Len(r) /\ c[i] = r[i - Len(q)]
  BY <1>1
<1>6. ToSet(c) = ToSet(q) \cup ToSet(r)
  <2>1. ASSUME NEW x \in ToSet(c) PROVE x \in ToSet(q) \cup ToSet(r)
    <3>1. PICK i \in 1..(Len(q) + Len(r)) : x = c[i]
      BY <1>1 DEF ToSet
    <3>2. QED
      BY <1>1, <1>5, <3>1 DEF ToSet
  <2>2. ASSUME NEW x \in ToSet(q) PROVE x \in ToSet(c)
    <3>1. PICK i \in 1..Len(q) : x = q[i]
      BY <1>1 DEF ToSet
    <3>2. QED
      BY <1>1, <1>3, <3>1 DEF ToSet
  <2>3. ASSUME NEW x \in ToSet(r) PROVE x \in ToSet(c)
    <3>1. PICK i \in 1..Len(r) : x = r[i]
      BY <1>1 DEF ToSet
    <3>2. QED
      BY <1>1, <1>4, <3>1 DEF ToSet
  <2>4. QED
    BY <2>1, <2>2, <2>3
<1>7. ASSUME IsInjective(q), IsInjective(r), ToSet(q) \cap ToSet(r) = {}
      PROVE  IsInjective(c)
  <2>1. \A i \in 1..Len(q), j \in 1..Len(r) : q[i] # r[j]
    <3>1. \A i \in 1..Len(q) : q[i] \in ToSet(q)
      BY <1>1 DEF ToSet
    <3>2. \A i \in 1..Len(r) : r[i] \in ToSet(r)
      BY <1>1 DEF ToSet
    <3>3. QED
      BY <1>7, <3>1, <3>2
  <2>2. SUFFICES ASSUME NEW i \in 1..(Len(q) + Len(r)), NEW j \in 1..(Len(q) + Len(r)), c[i] = c[j]
                 PROVE  i = j
    BY <1>1 DEF IsInjective
  <2>3. /\ \A a, b \in 1..Len(q) : q[a] = q[b] => a = b
        /\ \A a, b \in 1..Len(r) : r[a] = r[b] => a = b
    BY <1>1, <1>7 DEF IsInjective
  <2>4. CASE i \in 1..Len(q) /\ j \in 1..Len(q)
    BY <1>3, <2>2, <2>3, <2>4
  <2>5. CASE i \notin 1..Len(q) /\ j \notin 1..Len(q)
    <3>1. i - Len(q) = j - Len(q)
      BY <1>5, <2>2, <2>3, <2>5
    <3>2. QED
      BY <1>1, <3>1
  <2>6. CASE i \in 1..Len(q) /\ j \notin 1..Len(q)
    BY <1>5, <1>3, <2>1, <2>2, <2>6
  <2>7. CASE i \notin 1..Len(q) /\ j \in 1..Len(q)
    BY <1>5, <1>3, <2>1, <2>2, <2>7
  <2>8. QED
    BY <2>4, <2>5, <2>6, <2>7
<1>8. QED
  BY <1>1, <1>2, <1>6, <1>7 DEF c

-----------------------------------------------------------------------------
(* What the loops of QueueLoops compute.                                    *)

\* The recursive function that InOrder(q, S) is the last value of.
Filtered(f, q, S, n) ==
    f = [i \in 0..n |-> IF i = 0 THEN <<>>
                        ELSE IF q[i] \in S THEN Append(f[i - 1], q[i]) ELSE f[i - 1]]

\* There is such a function: the shortest prefix of q without one would extend a
\* prefix that has one.
LEMMA FilteredExists ==
  ASSUME NEW q, NEW S, NEW n \in Nat
  PROVE  \E f : Filtered(f, q, S, n)
<1> DEFINE Bad == {m \in Nat : ~\E f : Filtered(f, q, S, m)}
<1>1. SUFFICES ASSUME Bad # {} PROVE FALSE
  OBVIOUS
<1>2. PICK m \in Bad : \A j \in Bad : m <= j
  BY <1>1, LeastExists
<1>3. m # 0
  <2>1. Filtered([i \in 0..0 |-> <<>>], q, S, 0)
    BY DEF Filtered
  <2>2. QED
    BY <1>2, <2>1
<1>4. m - 1 \in Nat /\ m - 1 \notin Bad /\ m \in Nat
  BY <1>2, <1>3
<1>5. PICK f : Filtered(f, q, S, m - 1)
  BY <1>4
<1> DEFINE g == [i \in 0..m |-> IF i = m
                               THEN IF q[m] \in S THEN Append(f[m - 1], q[m]) ELSE f[m - 1]
                               ELSE f[i]]
<1>6. \A i \in 0..m : g[i] = IF i = 0 THEN <<>>
                             ELSE IF q[i] \in S THEN Append(g[i - 1], q[i]) ELSE g[i - 1]
  <2>1. \A i \in 0..m - 1 : g[i] = f[i]
    BY <1>4
  <2>2. \A i \in 0..m - 1 : f[i] = IF i = 0 THEN <<>>
                                   ELSE IF q[i] \in S THEN Append(f[i - 1], q[i]) ELSE f[i - 1]
    BY <1>5 DEF Filtered
  <2>3. g[m] = IF q[m] \in S THEN Append(f[m - 1], q[m]) ELSE f[m - 1]
    BY <1>4
  <2> HIDE DEF g
  <2>4. TAKE i \in 0..m
  <2>5. CASE i = m
    BY <1>3, <1>4, <2>1, <2>3, <2>5
  <2>6. CASE i \in 0..m - 1
    BY <1>4, <2>1, <2>2, <2>6
  <2>7. QED
    BY <1>4, <2>5, <2>6
<1>7. g = [i \in 0..m |-> IF i = 0 THEN <<>>
                         ELSE IF q[i] \in S THEN Append(g[i - 1], q[i]) ELSE g[i - 1]]
  <2>1. g = [i \in 0..m |-> g[i]]
    OBVIOUS
  <2> HIDE DEF g
  <2>2. QED
    BY <1>6, <2>1
<1>8. Filtered(g, q, S, m)
  BY <1>7 DEF Filtered
<1>9. QED
  BY <1>2, <1>8

LEMMA InOrderSteps ==
  ASSUME NEW T, NEW q \in Seq(T), NEW S
  PROVE  \E f : /\ InOrder(q, S) = f[Len(q)]
               /\ \A i \in 0..Len(q) :
                     f[i] = IF i = 0 THEN <<>>
                            ELSE IF q[i] \in S THEN Append(f[i - 1], q[i]) ELSE f[i - 1]
<1>1. Len(q) \in Nat
  OBVIOUS
<1> DEFINE F == CHOOSE g : Filtered(g, q, S, Len(q))
<1>2. Filtered(F, q, S, Len(q))
  BY <1>1, FilteredExists, Zenon
<1>3. InOrder(q, S) = F[Len(q)]
  BY Zenon DEF InOrder, Filtered
<1> HIDE DEF F
<1>4. QED
  BY <1>2, <1>3 DEF Filtered

\* InOrder keeps exactly the elements of q that are in S, each as often as q.
LEMMA InOrderFacts ==
  ASSUME NEW T, NEW q \in Seq(T), NEW S
  PROVE  /\ InOrder(q, S) \in Seq(T)
         /\ ToSet(InOrder(q, S)) = ToSet(q) \cap S
         /\ IsInjective(q) => IsInjective(InOrder(q, S))
<1>1. Len(q) \in Nat /\ DOMAIN q = 1..Len(q) /\ \A i \in 1..Len(q) : q[i] \in T
  OBVIOUS
<1>2. PICK f : /\ InOrder(q, S) = f[Len(q)]
               /\ \A i \in 0..Len(q) :
                     f[i] = IF i = 0 THEN <<>>
                            ELSE IF q[i] \in S THEN Append(f[i - 1], q[i]) ELSE f[i - 1]
  BY InOrderSteps
<1>3. \A i \in 0..Len(q) : f[i] = IF i = 0 THEN <<>>
                                  ELSE IF q[i] \in S THEN Append(f[i - 1], q[i]) ELSE f[i - 1]
  BY <1>2
<1> DEFINE Good(n) == /\ f[n] \in Seq(T)
                      /\ ToSet(f[n]) = {q[j] : j \in 1..n} \cap S
                      /\ IsInjective(q) => IsInjective(f[n])
           Bad == {n \in 0..Len(q) : ~Good(n)}
<1>4. Bad = {}
  <2>1. SUFFICES ASSUME Bad # {} PROVE FALSE
    OBVIOUS
  <2>2. PICK n \in Bad : \A j \in Bad : n <= j
    <3>1. Bad \in SUBSET Nat
      BY <1>1
    <3> HIDE DEF Bad
    <3>2. QED
      BY <2>1, <3>1, LeastExists
  <2>3. n \in 0..Len(q)
    BY <2>2
  <2>4. CASE n = 0
    <3>1. f[0] = <<>>
      BY <1>1, <1>3
    <3>2. Good(0)
      BY <3>1 DEF ToSet, IsInjective
    <3>3. QED
      BY <2>2, <2>4, <3>2
  <2>5. CASE n # 0
    <3>1. n - 1 \in 0..Len(q) /\ n \in 1..Len(q) /\ n - 1 \notin Bad
      <4>1. n - 1 \in 0..Len(q) /\ n \in 1..Len(q) /\ ~(n <= n - 1)
        BY <1>1, <2>3, <2>5
      <4> HIDE DEF Bad
      <4>2. QED
        BY <2>2, <4>1
    <3>2. Good(n - 1)
      BY <3>1
    <3>3. {q[j] : j \in 1..n} = {q[j] : j \in 1..(n - 1)} \cup {q[n]}
      <4>1. \A j \in 1..n : j = n \/ j \in 1..(n - 1)
        BY <1>1, <3>1
      <4>2. \A j \in 1..(n - 1) : j \in 1..n
        BY <1>1, <3>1
      <4>3. n \in 1..n
        BY <1>1, <3>1
      <4>4. QED
        BY <4>1, <4>2, <4>3
    <3>4. q[n] \in T
      BY <1>1, <3>1
    <3>5. CASE q[n] \in S
      <4>1. f[n] = Append(f[n - 1], q[n])
        BY <1>3, <2>3, <2>5, <3>5
      <4>2. IsInjective(q) => q[n] \notin {q[j] : j \in 1..(n - 1)}
        BY <1>1, <3>1 DEF IsInjective
      <4>3. /\ f[n - 1] \in Seq(T)
            /\ ToSet(f[n - 1]) = {q[j] : j \in 1..(n - 1)} \cap S
            /\ IsInjective(q) => IsInjective(f[n - 1])
        BY <3>2
      <4>4. /\ f[n] \in Seq(T)
            /\ ToSet(f[n]) = ToSet(f[n - 1]) \cup {q[n]}
            /\ IsInjective(f[n - 1]) /\ q[n] \notin ToSet(f[n - 1]) => IsInjective(f[n])
        BY <3>4, <4>1, <4>3, AppendFacts
      <4>5. ToSet(f[n]) = {q[j] : j \in 1..n} \cap S
        BY <3>3, <3>5, <4>3, <4>4
      <4>6. Good(n)
        BY <4>2, <4>3, <4>4, <4>5
      <4>7. QED
        BY <2>2, <4>6
    <3>6. CASE q[n] \notin S
      <4>1. f[n] = f[n - 1]
        BY <1>3, <2>3, <2>5, <3>6
      <4>2. Good(n)
        BY <3>2, <3>3, <3>6, <4>1
      <4>3. QED
        BY <2>2, <4>2
    <3>7. QED
      BY <3>5, <3>6
  <2>6. QED
    BY <2>4, <2>5
<1>5. Good(Len(q))
  <2>1. Len(q) \in 0..Len(q)
    BY <1>1
  <2> HIDE DEF Good
  <2>2. QED
    BY <1>4, <2>1
<1>6. ToSet(q) = {q[j] : j \in 1..Len(q)}
  BY <1>1 DEF ToSet
<1>7. QED
  BY <1>2, <1>5, <1>6

\* What s holds comes from the first n places of q, from a different one each.
Comes(s, q, n) ==
    /\ \A a \in DOMAIN s : \E i \in 1..n : q[i] = s[a]
    /\ \A a, b \in DOMAIN s : a # b => \E i, j \in 1..n : i # j /\ q[i] = s[a] /\ q[j] = s[b]

LEMMA AppendComes ==
  ASSUME NEW T, NEW s \in Seq(T), NEW q, NEW n \in Nat, n # 0, q[n] \in T, Comes(s, q, n - 1)
  PROVE  Comes(Append(s, q[n]), q, n)
<1> DEFINE t == Append(s, q[n])
<1>1. /\ Len(s) \in Nat /\ DOMAIN s = 1..Len(s) /\ DOMAIN t = 1..(Len(s) + 1)
      /\ \A a \in 1..Len(s) : t[a] = s[a]
      /\ t[Len(s) + 1] = q[n]
  OBVIOUS
<1>2. \A a \in 1..(Len(s) + 1) : a \in 1..Len(s) \/ a = Len(s) + 1
  BY <1>1
<1>3. n \in 1..n /\ \A i \in 1..(n - 1) : i \in 1..n /\ i # n
  OBVIOUS
<1> HIDE DEF t
<1>4. \A a \in 1..Len(s) : \E i \in 1..(n - 1) : q[i] = t[a]
  BY <1>1 DEF Comes
<1>5. ASSUME NEW a \in 1..Len(s), NEW b \in 1..Len(s), a # b
      PROVE  \E i, j \in 1..(n - 1) : i # j /\ q[i] = t[a] /\ q[j] = t[b]
  <2>1. PICK i \in 1..(n - 1), j \in 1..(n - 1) : i # j /\ q[i] = s[a] /\ q[j] = s[b]
    BY <1>1, <1>5, Zenon DEF Comes
  <2>2. QED
    BY <1>1, <2>1
<1>6. \A a \in 1..(Len(s) + 1) : \E i \in 1..n : q[i] = t[a]
  BY <1>1, <1>2, <1>3, <1>4
<1>7. ASSUME NEW a \in 1..(Len(s) + 1), NEW b \in 1..(Len(s) + 1), a # b
      PROVE  \E i, j \in 1..n : i # j /\ q[i] = t[a] /\ q[j] = t[b]
  <2>1. CASE a \in 1..Len(s) /\ b \in 1..Len(s)
    <3>1. PICK i \in 1..(n - 1), j \in 1..(n - 1) : i # j /\ q[i] = t[a] /\ q[j] = t[b]
      BY <1>5, <1>7, <2>1
    <3>2. QED
      BY <1>3, <3>1
  <2>2. CASE a \in 1..Len(s) /\ b = Len(s) + 1
    <3>1. PICK i \in 1..(n - 1) : q[i] = t[a]
      BY <1>4, <2>2
    <3>2. QED
      BY <1>1, <1>3, <2>2, <3>1
  <2>3. CASE a = Len(s) + 1 /\ b \in 1..Len(s)
    <3>1. PICK i \in 1..(n - 1) : q[i] = t[b]
      BY <1>4, <2>3
    <3>2. QED
      BY <1>1, <1>3, <2>3, <3>1
  <2>4. QED
    BY <1>2, <1>7, <2>1, <2>2, <2>3
<1>8. Comes(t, q, n)
  <2>1. \A a \in DOMAIN t : a \in 1..(Len(s) + 1)
    BY <1>1
  <2>2. \A a \in DOMAIN t : \E i \in 1..n : q[i] = t[a]
    BY <1>6, <2>1
  <2>3. \A a, b \in DOMAIN t : a # b => \E i, j \in 1..n : i # j /\ q[i] = t[a] /\ q[j] = t[b]
    BY <1>7, <2>1, Zenon
  <2>4. QED
    BY <2>2, <2>3, Zenon DEF Comes
<1>9. QED
  BY <1>8 DEF t

\* Two places of InOrder(q, S) hold what two places of q hold.
LEMMA InOrderKeepsApart ==
  ASSUME NEW T, NEW q \in Seq(T), NEW S
  PROVE  Comes(InOrder(q, S), q, Len(q))
<1>1. Len(q) \in Nat /\ \A i \in 1..Len(q) : q[i] \in T
  OBVIOUS
<1>2. PICK f : /\ InOrder(q, S) = f[Len(q)]
               /\ \A i \in 0..Len(q) :
                     f[i] = IF i = 0 THEN <<>>
                            ELSE IF q[i] \in S THEN Append(f[i - 1], q[i]) ELSE f[i - 1]
  BY InOrderSteps
<1> DEFINE Bad == {n \in 0..Len(q) : ~(f[n] \in Seq(T) /\ Comes(f[n], q, n))}
<1>3. Bad = {}
  <2>1. SUFFICES ASSUME Bad # {} PROVE FALSE
    OBVIOUS
  <2>2. PICK n \in Bad : \A j \in Bad : n <= j
    <3>1. Bad \in SUBSET Nat
      BY <1>1
    <3> HIDE DEF Bad
    <3>2. QED
      BY <2>1, <3>1, LeastExists
  <2>3. n \in 0..Len(q) /\ ~(f[n] \in Seq(T) /\ Comes(f[n], q, n))
    BY <2>2
  <2>4. n # 0
    <3>1. f[0] = <<>>
      BY <1>1, <1>2
    <3>2. Comes(<<>>, q, 0)
      BY DEF Comes
    <3>3. <<>> \in Seq(T)
      OBVIOUS
    <3>4. QED
      BY <2>3, <3>1, <3>2, <3>3, Zenon
  <2>5. n - 1 \in 0..Len(q) /\ n \in 1..Len(q) /\ n \in Nat /\ n - 1 \notin Bad
    <3>1. n - 1 \in 0..Len(q) /\ n \in 1..Len(q) /\ n \in Nat /\ ~(n <= n - 1)
      BY <1>1, <2>3, <2>4
    <3> HIDE DEF Bad
    <3>2. QED
      BY <2>2, <3>1
  <2>6. f[n - 1] \in Seq(T) /\ Comes(f[n - 1], q, n - 1)
    BY <2>5
  <2>7. q[n] \in T
    BY <1>1, <2>5
  <2>8. CASE q[n] \in S
    <3>1. f[n] = Append(f[n - 1], q[n])
      BY <1>2, <2>3, <2>4, <2>8
    <3>2. Comes(Append(f[n - 1], q[n]), q, n)
      BY <2>4, <2>5, <2>6, <2>7, AppendComes
    <3>3. Append(f[n - 1], q[n]) \in Seq(T)
      BY <2>6, <2>7
    <3>4. QED
      BY <2>3, <3>1, <3>2, <3>3
  <2>9. CASE q[n] \notin S
    <3>1. f[n] = f[n - 1]
      BY <1>2, <2>3, <2>4, <2>9
    <3>2. \A i \in 1..(n - 1) : i \in 1..n
      BY <2>5
    <3>3. Comes(f[n], q, n)
      BY <2>6, <3>1, <3>2 DEF Comes
    <3>4. QED
      BY <2>3, <2>6, <3>1, <3>3
  <2>10. QED
    BY <2>8, <2>9
<1>4. Len(q) \in 0..Len(q)
  BY <1>1
<1>5. f[Len(q)] \in Seq(T) /\ Comes(f[Len(q)], q, Len(q))
  BY <1>3, <1>4
<1>6. QED
  BY <1>2, <1>5

\* The recursive function that Total(q, f) is the last value of.
Summed(g, q, f, n) == g = [i \in 0..n |-> IF i = 0 THEN 0 ELSE g[i - 1] + f[q[i]]]

LEMMA SummedExists ==
  ASSUME NEW q, NEW f, NEW n \in Nat
  PROVE  \E g : Summed(g, q, f, n)
<1> DEFINE Bad == {m \in Nat : ~\E g : Summed(g, q, f, m)}
<1>1. SUFFICES ASSUME Bad # {} PROVE FALSE
  OBVIOUS
<1>2. PICK m \in Bad : \A j \in Bad : m <= j
  BY <1>1, LeastExists
<1>3. m # 0
  <2>1. Summed([i \in 0..0 |-> 0], q, f, 0)
    BY DEF Summed
  <2>2. QED
    BY <1>2, <2>1
<1>4. m - 1 \in Nat /\ m - 1 \notin Bad /\ m \in Nat
  BY <1>2, <1>3
<1>5. PICK h : Summed(h, q, f, m - 1)
  BY <1>4
<1> DEFINE g == [i \in 0..m |-> IF i = m THEN h[m - 1] + f[q[m]] ELSE h[i]]
<1>6. \A i \in 0..m : g[i] = IF i = 0 THEN 0 ELSE g[i - 1] + f[q[i]]
  <2>1. \A i \in 0..m - 1 : g[i] = h[i]
    BY <1>4
  <2>2. \A i \in 0..m - 1 : h[i] = IF i = 0 THEN 0 ELSE h[i - 1] + f[q[i]]
    BY <1>5 DEF Summed
  <2>3. g[m] = h[m - 1] + f[q[m]]
    BY <1>4
  <2> HIDE DEF g
  <2>4. TAKE i \in 0..m
  <2>5. CASE i = m
    BY <1>3, <1>4, <2>1, <2>3, <2>5
  <2>6. CASE i \in 0..m - 1
    BY <1>4, <2>1, <2>2, <2>6
  <2>7. QED
    BY <1>4, <2>5, <2>6
<1>7. g = [i \in 0..m |-> IF i = 0 THEN 0 ELSE g[i - 1] + f[q[i]]]
  <2>1. g = [i \in 0..m |-> g[i]]
    OBVIOUS
  <2> HIDE DEF g
  <2>2. QED
    BY <1>6, <2>1
<1>8. Summed(g, q, f, m)
  BY <1>7 DEF Summed
<1>9. QED
  BY <1>2, <1>8

\* A sum of natural numbers is one.
LEMMA TotalNat ==
  ASSUME NEW T, NEW q \in Seq(T), NEW f \in [T -> Nat]
  PROVE  Total(q, f) \in Nat
<1>1. Len(q) \in Nat /\ DOMAIN q = 1..Len(q) /\ \A i \in 1..Len(q) : f[q[i]] \in Nat
  OBVIOUS
<1>2. PICK g : Summed(g, q, f, Len(q)) /\ Total(q, f) = g[Len(q)]
  <2> DEFINE F == CHOOSE h : Summed(h, q, f, Len(q))
  <2>1. Summed(F, q, f, Len(q))
    BY <1>1, SummedExists, Zenon
  <2>2. Total(q, f) = F[Len(q)]
    BY Zenon DEF Total, Summed
  <2>3. QED
    BY <2>1, <2>2, Zenon
<1>3. \A i \in 0..Len(q) : g[i] = IF i = 0 THEN 0 ELSE g[i - 1] + f[q[i]]
  BY <1>2 DEF Summed
<1> DEFINE Bad == {n \in 0..Len(q) : g[n] \notin Nat}
<1>4. Bad = {}
  <2>1. SUFFICES ASSUME Bad # {} PROVE FALSE
    OBVIOUS
  <2>2. PICK n \in Bad : \A j \in Bad : n <= j
    <3>1. Bad \in SUBSET Nat
      BY <1>1
    <3> HIDE DEF Bad
    <3>2. QED
      BY <2>1, <3>1, LeastExists
  <2>3. n \in 0..Len(q) /\ g[n] \notin Nat
    BY <2>2
  <2>4. n # 0
    BY <1>1, <1>3, <2>3
  <2>5. n - 1 \in 0..Len(q) /\ n \in 1..Len(q) /\ n - 1 \notin Bad
    <3>1. n - 1 \in 0..Len(q) /\ n \in 1..Len(q) /\ ~(n <= n - 1)
      BY <1>1, <2>3, <2>4
    <3> HIDE DEF Bad
    <3>2. QED
      BY <2>2, <3>1
  <2>6. g[n] = g[n - 1] + f[q[n]]
    BY <1>3, <2>3, <2>4
  <2>7. QED
    BY <1>1, <2>3, <2>5, <2>6
<1>5. Len(q) \in 0..Len(q)
  BY <1>1
<1>6. QED
  BY <1>2, <1>4, <1>5

-----------------------------------------------------------------------------
(* Induction over the positions of a sequence, and the sums that change    *)
(* with a function or a sequence.                                          *)

\* A set with 0 and with the successor of each of its elements, up to n.
LEMMA Upwards ==
  ASSUME NEW n \in Nat, NEW S, 0 \in S, \A i \in 1..n : i - 1 \in S => i \in S
  PROVE  \A i \in 0..n : i \in S
<1> DEFINE Bad == {i \in 0..n : i \notin S}
<1>1. SUFFICES ASSUME Bad # {} PROVE FALSE
  OBVIOUS
<1>2. PICK m \in Bad : \A j \in Bad : m <= j
  <2>1. Bad \in SUBSET Nat
    OBVIOUS
  <2> HIDE DEF Bad
  <2>2. QED
    BY <1>1, <2>1, LeastExists
<1>3. m \in 1..n /\ m \notin S
  BY <1>2
<1>4. m - 1 \in 0..n /\ ~(m <= m - 1)
  BY <1>3
<1>5. m - 1 \in S
  BY <1>2, <1>4
<1>6. QED
  BY <1>3, <1>5

\* Total by its recursion.
LEMMA TotalSteps ==
  ASSUME NEW T, NEW q \in Seq(T), NEW f
  PROVE  \E g : /\ Total(q, f) = g[Len(q)] /\ g[0] = 0
                /\ \A i \in 1..Len(q) : g[i] = g[i - 1] + f[q[i]]
<1>1. Len(q) \in Nat
  OBVIOUS
<1> DEFINE g == CHOOSE h : Summed(h, q, f, Len(q))
<1>2. Summed(g, q, f, Len(q))
  BY <1>1, SummedExists, Zenon
<1>3. Total(q, f) = g[Len(q)]
  BY Zenon DEF Total, Summed
<1> HIDE DEF g
<1>4. \A i \in 0..Len(q) : g[i] = IF i = 0 THEN 0 ELSE g[i - 1] + f[q[i]]
  BY <1>2 DEF Summed
<1>5. g[0] = 0 /\ \A i \in 1..Len(q) : g[i] = g[i - 1] + f[q[i]]
  BY <1>1, <1>4
<1>6. QED
  BY <1>3, <1>5

\* The sums of two functions that differ in one place, which is in q once.
LEMMA TotalChanges ==
  ASSUME NEW T, NEW q \in Seq(T), IsInjective(q), NEW f \in [T -> Int], NEW h \in [T -> Int],
         NEW k \in DOMAIN q, \A x \in T : x # q[k] => h[x] = f[x]
  PROVE  Total(q, f) \in Int /\ Total(q, h) = Total(q, f) + (h[q[k]] - f[q[k]])
<1>1. /\ Len(q) \in Nat /\ DOMAIN q = 1..Len(q) /\ k \in 1..Len(q)
      /\ \A i \in 1..Len(q) : q[i] \in T /\ f[q[i]] \in Int /\ h[q[i]] \in Int
  OBVIOUS
<1>2. \A i \in 1..Len(q) : i # k => h[q[i]] = f[q[i]]
  BY <1>1 DEF IsInjective
<1>3. PICK a : /\ Total(q, f) = a[Len(q)] /\ a[0] = 0
               /\ \A i \in 1..Len(q) : a[i] = a[i - 1] + f[q[i]]
  BY TotalSteps
<1>4. PICK b : /\ Total(q, h) = b[Len(q)] /\ b[0] = 0
               /\ \A i \in 1..Len(q) : b[i] = b[i - 1] + h[q[i]]
  BY TotalSteps
<1> DEFINE d == h[q[k]] - f[q[k]]
           S == {i \in 0..Len(q) : a[i] \in Int /\ b[i] = a[i] + (IF i < k THEN 0 ELSE d)}
<1>5. d \in Int
  BY <1>1
<1> HIDE DEF d
<1>6. 0 \in S
  BY <1>1, <1>3, <1>4
<1>7. ASSUME NEW i \in 1..Len(q), i - 1 \in S PROVE i \in S
  <2>1. /\ a[i - 1] \in Int /\ b[i - 1] = a[i - 1] + (IF i - 1 < k THEN 0 ELSE d)
        /\ a[i] = a[i - 1] + f[q[i]] /\ b[i] = b[i - 1] + h[q[i]]
        /\ f[q[i]] \in Int /\ h[q[i]] \in Int
    BY <1>1, <1>3, <1>4, <1>7
  <2>2. CASE i = k
    <3>1. h[q[i]] = f[q[i]] + d
      BY <1>1, <2>2 DEF d
    <3>2. QED
      BY <1>1, <1>5, <2>1, <2>2, <3>1
  <2>3. CASE i # k
    BY <1>1, <1>2, <1>5, <2>1, <2>3
  <2>4. QED
    BY <2>2, <2>3
<1>8. Len(q) \in S
  <2> HIDE DEF S
  <2>1. \A i \in 0..Len(q) : i \in S
    BY <1>1, <1>6, <1>7, Upwards
  <2>2. QED
    BY <1>1, <2>1
<1>9. QED
  BY <1>1, <1>3, <1>4, <1>8 DEF d

\* Functions with the same values on q have the same sum.
LEMMA TotalSame ==
  ASSUME NEW T, NEW q \in Seq(T), NEW f, NEW h, \A i \in DOMAIN q : f[q[i]] = h[q[i]]
  PROVE  Total(q, f) = Total(q, h)
<1>1. Len(q) \in Nat /\ DOMAIN q = 1..Len(q)
  OBVIOUS
<1>2. PICK a : /\ Total(q, f) = a[Len(q)] /\ a[0] = 0
               /\ \A i \in 1..Len(q) : a[i] = a[i - 1] + f[q[i]]
  BY TotalSteps
<1>3. PICK b : /\ Total(q, h) = b[Len(q)] /\ b[0] = 0
               /\ \A i \in 1..Len(q) : b[i] = b[i - 1] + h[q[i]]
  BY TotalSteps
<1> DEFINE S == {i \in 0..Len(q) : b[i] = a[i]}
<1>4. 0 \in S
  BY <1>1, <1>2, <1>3
<1>5. ASSUME NEW i \in 1..Len(q), i - 1 \in S PROVE i \in S
  BY <1>1, <1>2, <1>3, <1>5
<1>6. Len(q) \in S
  <2> HIDE DEF S
  <2>1. \A i \in 0..Len(q) : i \in S
    BY <1>1, <1>4, <1>5, Upwards
  <2>2. QED
    BY <1>1, <2>1
<1>7. QED
  BY <1>2, <1>3, <1>6

\* The sum over a concatenation.
LEMMA TotalConcat ==
  ASSUME NEW T, NEW q \in Seq(T), NEW r \in Seq(T), NEW f \in [T -> Int]
  PROVE  /\ Total(q, f) \in Int /\ Total(r, f) \in Int
         /\ Total(q \o r, f) = Total(q, f) + Total(r, f)
<1> DEFINE s == q \o r
<1>1. /\ Len(q) \in Nat /\ Len(r) \in Nat /\ s \in Seq(T) /\ Len(s) = Len(q) + Len(r)
      /\ \A i \in 1..Len(q) : s[i] = q[i] /\ f[q[i]] \in Int
      /\ \A i \in 1..Len(r) : s[Len(q) + i] = r[i] /\ f[r[i]] \in Int
  <2>1. s \in Seq(T) /\ Len(s) = Len(q) + Len(r) /\ Len(q) \in Nat /\ Len(r) \in Nat
    OBVIOUS
  <2>2. \A i \in 1..Len(q) : s[i] = q[i] /\ q[i] \in T
    OBVIOUS
  <2>3. \A i \in 1..Len(r) : s[Len(q) + i] = r[i] /\ r[i] \in T
    OBVIOUS
  <2>4. QED
    BY <2>1, <2>2, <2>3
<1> HIDE DEF s
<1>2. PICK a : /\ Total(q, f) = a[Len(q)] /\ a[0] = 0
               /\ \A i \in 1..Len(q) : a[i] = a[i - 1] + f[q[i]]
  BY TotalSteps
<1>3. PICK b : /\ Total(r, f) = b[Len(r)] /\ b[0] = 0
               /\ \A i \in 1..Len(r) : b[i] = b[i - 1] + f[r[i]]
  BY TotalSteps
<1>4. PICK g : /\ Total(s, f) = g[Len(s)] /\ g[0] = 0
               /\ \A i \in 1..Len(s) : g[i] = g[i - 1] + f[s[i]]
  BY <1>1, TotalSteps
<1> DEFINE S == {i \in 0..Len(q) : a[i] \in Int /\ g[i] = a[i]}
           R == {i \in 0..Len(r) : b[i] \in Int /\ g[Len(q) + i] = a[Len(q)] + b[i]}
<1>5. a[Len(q)] \in Int /\ g[Len(q)] = a[Len(q)]
  <2>1. 0 \in S
    BY <1>1, <1>2, <1>4
  <2>2. ASSUME NEW i \in 1..Len(q), i - 1 \in S PROVE i \in S
    <3>1. i \in 1..Len(s) /\ s[i] = q[i] /\ f[q[i]] \in Int
      BY <1>1
    <3>2. QED
      BY <1>1, <1>2, <1>4, <2>2, <3>1
  <2>3. Len(q) \in S
    <3> HIDE DEF S
    <3>1. \A i \in 0..Len(q) : i \in S
      BY <1>1, <2>1, <2>2, Upwards
    <3>2. QED
      BY <1>1, <3>1
  <2>4. QED
    BY <2>3
<1>6. b[Len(r)] \in Int /\ g[Len(q) + Len(r)] = a[Len(q)] + b[Len(r)]
  <2>1. 0 \in R
    BY <1>1, <1>3, <1>5
  <2>2. ASSUME NEW i \in 1..Len(r), i - 1 \in R PROVE i \in R
    <3>1. /\ Len(q) + i \in 1..Len(s) /\ s[Len(q) + i] = r[i] /\ f[r[i]] \in Int
          /\ Len(q) + (i - 1) = (Len(q) + i) - 1
      BY <1>1
    <3>2. g[Len(q) + i] = g[Len(q) + (i - 1)] + f[r[i]] /\ b[i] = b[i - 1] + f[r[i]]
      BY <1>3, <1>4, <3>1
    <3>3. b[i - 1] \in Int /\ g[Len(q) + (i - 1)] = a[Len(q)] + b[i - 1] /\ i \in 0..Len(r)
      BY <1>1, <2>2
    <3>4. b[i] \in Int /\ g[Len(q) + i] = a[Len(q)] + b[i]
      BY <1>5, <3>1, <3>2, <3>3
    <3>5. QED
      BY <3>3, <3>4
  <2>3. Len(r) \in R
    <3> HIDE DEF R
    <3>1. \A i \in 0..Len(r) : i \in R
      BY <1>1, <2>1, <2>2, Upwards
    <3>2. QED
      BY <1>1, <3>1
  <2>4. QED
    BY <2>3
<1>7. Total(s, f) = Total(q, f) + Total(r, f)
  BY <1>1, <1>2, <1>3, <1>4, <1>6
<1>8. Total(q, f) \in Int /\ Total(r, f) \in Int
  BY <1>2, <1>3, <1>5, <1>6
<1>9. QED
  BY <1>7, <1>8, Zenon DEF s

LEMMA TotalOne ==
  ASSUME NEW T, NEW x \in T, NEW f \in [T -> Int]
  PROVE  <<x>> \in Seq(T) /\ Total(<<x>>, f) = f[x]
<1>1. <<x>> \in Seq(T) /\ Len(<<x>>) = 1 /\ <<x>>[1] = x /\ f[x] \in Int
  OBVIOUS
<1>2. PICK a : /\ Total(<<x>>, f) = a[Len(<<x>>)] /\ a[0] = 0
               /\ \A i \in 1..Len(<<x>>) : a[i] = a[i - 1] + f[<<x>>[i]]
  BY <1>1, TotalSteps, Zenon
<1>3. a[1] = a[0] + f[x]
  BY <1>1, <1>2
<1>4. QED
  BY <1>1, <1>2, <1>3

LEMMA TotalNone ==
  ASSUME NEW T, NEW f
  PROVE  <<>> \in Seq(T) /\ Total(<<>>, f) = 0
<1>1. <<>> \in Seq(T) /\ Len(<<>>) = 0
  OBVIOUS
<1>2. PICK a : /\ Total(<<>>, f) = a[Len(<<>>)] /\ a[0] = 0
  BY <1>1, TotalSteps
<1>3. QED
  BY <1>1, <1>2

LEMMA TotalZero ==
  ASSUME NEW T, NEW q \in Seq(T)
  PROVE  Total(q, [x \in T |-> 0]) = 0
<1> DEFINE f == [x \in T |-> 0]
<1>1. Len(q) \in Nat /\ \A i \in 1..Len(q) : f[q[i]] = 0
  OBVIOUS
<1>2. PICK a : /\ Total(q, f) = a[Len(q)] /\ a[0] = 0
               /\ \A i \in 1..Len(q) : a[i] = a[i - 1] + f[q[i]]
  BY TotalSteps
<1> HIDE DEF f
<1> DEFINE S == {i \in 0..Len(q) : a[i] = 0}
<1>3. 0 \in S
  BY <1>1, <1>2
<1>4. ASSUME NEW i \in 1..Len(q), i - 1 \in S PROVE i \in S
  BY <1>1, <1>2, <1>4
<1>5. Len(q) \in S
  <2> HIDE DEF S
  <2>1. \A i \in 0..Len(q) : i \in S
    BY <1>1, <1>3, <1>4, Upwards
  <2>2. QED
    BY <1>1, <2>1
<1>6. QED
  BY <1>2, <1>5 DEF f

=============================================================================
