---------------------------- MODULE DualCPU_proofs ----------------------------
(***************************************************************************)
(* Proofs about DualCPU, for any processes and inputs and whatever the     *)
(* clock does.  First what the operations on queues and messages do to the *)
(* processes in them; then the inductive invariants: Shape (types, whose   *)
(* child runs, how many acknowledgements there can be), Places (where each *)
(* process is), Traced (what its PCB and its child say of it) and Paced    *)
(* (who has passed the gate, and how the clock, the dispatcher's tick and  *)
(* the stalls relate).                                                     *)
(***************************************************************************)
EXTENDS DualCPU, SequenceFacts, FiniteSetTheorems

-----------------------------------------------------------------------------
(* The processes in a sequence.  Ghost may be there several times.         *)

Real(q) == ToSet(q) \cap Procs

Once(q) == \A i, j \in DOMAIN q : q[i] = q[j] /\ q[i] \in Procs => i = j

LEMMA RealIs ==
  ASSUME NEW q \in Seq(AllProcs)
  PROVE  /\ \A p : p \in Real(q) <=> p \in Procs /\ \E i \in 1..Len(q) : q[i] = p
         /\ Once(q) <=> \A i, j \in 1..Len(q) : q[i] = q[j] /\ q[i] \in Procs => i = j
  BY DEF Real, ToSet, Once

LEMMA EmptyPlace == Real(<<>>) = {} /\ Once(<<>>)
  BY DEF Real, ToSet, Once

LEMMA SinglePlace ==
  ASSUME NEW x \in AllProcs
  PROVE  <<x>> \in Seq(AllProcs) /\ Real(<<x>>) = {x} \cap Procs /\ Once(<<x>>)
  BY DEF Real, ToSet, Once

\* r is q with x behind it.
LEMMA ExtendPlace ==
  ASSUME NEW q \in Seq(AllProcs), NEW r \in Seq(AllProcs), NEW x,
         Len(r) = Len(q) + 1, \A i \in 1..Len(q) : r[i] = q[i], r[Len(q) + 1] = x
  PROVE  /\ Real(r) = Real(q) \cup ({x} \cap Procs)
         /\ Once(r) <=> Once(q) /\ x \notin Real(q)
<1>1. Len(q) \in Nat
  OBVIOUS
<1>2. \A i \in 1..Len(r) : i \in 1..Len(q) \/ i = Len(q) + 1
  BY <1>1
<1>3. Len(q) + 1 \in 1..Len(r) /\ \A i \in 1..Len(q) : i \in 1..Len(r) /\ i # Len(q) + 1
  BY <1>1
<1>4. Real(r) = Real(q) \cup ({x} \cap Procs)
  <2>1. \A p : p \in Real(r) <=> p \in Real(q) \cup ({x} \cap Procs)
    BY <1>2, <1>3, RealIs
  <2>2. QED
    BY <2>1
<1>5. ASSUME Once(r) PROVE Once(q) /\ x \notin Real(q)
  BY <1>3, <1>5, RealIs
<1>6. ASSUME Once(q), x \notin Real(q) PROVE Once(r)
  <2>1. SUFFICES ASSUME NEW i \in 1..Len(r), NEW j \in 1..Len(r), r[i] = r[j], r[i] \in Procs
                 PROVE  i = j
    BY RealIs
  <2>2. CASE i \in 1..Len(q) /\ j \in 1..Len(q)
    BY <1>6, <2>1, <2>2, RealIs
  <2>3. CASE i \in 1..Len(q) /\ j = Len(q) + 1
    BY <1>6, <2>1, <2>3, RealIs
  <2>4. CASE i = Len(q) + 1 /\ j \in 1..Len(q)
    BY <1>6, <2>1, <2>4, RealIs
  <2>5. QED
    BY <1>2, <2>2, <2>3, <2>4
<1>7. QED
  BY <1>4, <1>5, <1>6

\* r is what is left of q without the first k; s are the processes among these.
LEMMA SplitPlace ==
  ASSUME NEW q \in Seq(AllProcs), NEW r \in Seq(AllProcs), NEW s \in Seq(AllProcs),
         NEW k \in 0..Len(q), Len(r) = Len(q) - k, \A i \in 1..Len(r) : r[i] = q[k + i],
         Len(s) <= k, \A i \in 1..Len(s) : s[i] = q[i],
         \A i \in 1..k : i <= Len(s) \/ q[i] \notin Procs
  PROVE  /\ Real(q) = Real(s) \cup Real(r)
         /\ Once(q) => Once(s) /\ Once(r) /\ Real(s) \cap Real(r) = {}
<1>1. Len(q) \in Nat /\ Len(r) \in Nat /\ Len(s) \in Nat /\ k \in Nat
  OBVIOUS
<1>2. \A i \in 1..Len(r) : k + i \in 1..Len(q)
  BY <1>1
<1>3. \A i \in 1..Len(s) : i \in 1..Len(q)
  BY <1>1
<1>4. \A i \in 1..Len(q) : \/ i \in 1..Len(s)
                           \/ q[i] \notin Procs
                           \/ i - k \in 1..Len(r) /\ r[i - k] = q[i]
  BY <1>1
<1>5. Real(q) = Real(s) \cup Real(r)
  <2>1. ASSUME NEW p \in Real(q) PROVE p \in Real(s) \cup Real(r)
    <3>1. PICK i \in 1..Len(q) : q[i] = p /\ p \in Procs
      BY <2>1, RealIs
    <3>2. QED
      BY <1>4, <3>1, RealIs
  <2>2. ASSUME NEW p \in Real(s) PROVE p \in Real(q)
    <3>1. PICK i \in 1..Len(s) : s[i] = p /\ p \in Procs
      BY <2>2, RealIs
    <3>2. QED
      BY <1>3, <3>1, RealIs
  <2>3. ASSUME NEW p \in Real(r) PROVE p \in Real(q)
    <3>1. PICK i \in 1..Len(r) : r[i] = p /\ p \in Procs
      BY <2>3, RealIs
    <3>2. QED
      BY <1>2, <3>1, RealIs
  <2>4. QED
    BY <2>1, <2>2, <2>3
<1>6. ASSUME Once(q) PROVE Once(s) /\ Once(r) /\ Real(s) \cap Real(r) = {}
  <2>1. \A i, j \in 1..Len(q) : q[i] = q[j] /\ q[i] \in Procs => i = j
    BY <1>6, RealIs
  <2>2. Once(s)
    BY <1>3, <2>1, RealIs
  <2>3. Once(r)
    <3>1. SUFFICES ASSUME NEW i \in 1..Len(r), NEW j \in 1..Len(r), r[i] = r[j], r[i] \in Procs
                   PROVE  i = j
      BY RealIs
    <3>2. k + i = k + j
      BY <1>2, <2>1, <3>1
    <3>3. QED
      BY <1>1, <3>2
  <2>4. \A i \in 1..Len(s), j \in 1..Len(r) : s[i] = r[j] => s[i] \notin Procs
    <3>1. \A i \in 1..Len(s), j \in 1..Len(r) : i # k + j
      BY <1>1
    <3>2. QED
      BY <1>2, <1>3, <2>1, <3>1
  <2>5. ASSUME NEW p, p \in Real(s), p \in Real(r) PROVE FALSE
    <3>1. PICK i \in 1..Len(s) : s[i] = p /\ p \in Procs
      BY <2>5, RealIs
    <3>2. PICK j \in 1..Len(r) : r[j] = p
      BY <2>5, RealIs
    <3>3. QED
      BY <2>4, <3>1, <3>2
  <2>6. QED
    BY <2>2, <2>3, <2>5
<1>7. QED
  BY <1>5, <1>6

LEMMA ConcatPlace ==
  ASSUME NEW q \in Seq(AllProcs), NEW r \in Seq(AllProcs)
  PROVE  /\ q \o r \in Seq(AllProcs)
         /\ Real(q \o r) = Real(q) \cup Real(r)
         /\ Once(q) /\ Once(r) /\ Real(q) \cap Real(r) = {} => Once(q \o r)
<1> DEFINE t == q \o r
<1>1. t \in Seq(AllProcs) /\ Len(t) = Len(q) + Len(r)
  OBVIOUS
<1>2. Len(q) \in Nat /\ Len(r) \in Nat
  OBVIOUS
<1>3. \A i \in 1..Len(q) : i \in 1..Len(t) /\ t[i] = q[i]
  BY <1>2
<1>4. \A i \in 1..Len(r) : Len(q) + i \in 1..Len(t) /\ t[Len(q) + i] = r[i]
  BY <1>2
<1>5. \A i \in 1..Len(t) : \/ i \in 1..Len(q)
                           \/ i - Len(q) \in 1..Len(r) /\ t[i] = r[i - Len(q)]
  BY <1>2
<1> HIDE DEF t
<1>6. Real(t) = Real(q) \cup Real(r)
  <2>1. ASSUME NEW p \in Real(t) PROVE p \in Real(q) \cup Real(r)
    <3>1. PICK i \in 1..Len(t) : t[i] = p /\ p \in Procs
      BY <1>1, <2>1, RealIs
    <3>2. QED
      BY <1>3, <1>5, <3>1, RealIs
  <2>2. ASSUME NEW p \in Real(q) PROVE p \in Real(t)
    <3>1. PICK i \in 1..Len(q) : q[i] = p /\ p \in Procs
      BY <2>2, RealIs
    <3>2. QED
      BY <1>1, <1>3, <3>1, RealIs
  <2>3. ASSUME NEW p \in Real(r) PROVE p \in Real(t)
    <3>1. PICK i \in 1..Len(r) : r[i] = p /\ p \in Procs
      BY <2>3, RealIs
    <3>2. QED
      BY <1>1, <1>4, <3>1, RealIs
  <2>4. QED
    BY <2>1, <2>2, <2>3
<1>7. ASSUME Once(q), Once(r), Real(q) \cap Real(r) = {} PROVE Once(t)
  <2>1. \A i \in 1..Len(q), j \in 1..Len(r) : q[i] = r[j] => q[i] \notin Procs
    BY <1>7, RealIs
  <2>2. SUFFICES ASSUME NEW i \in 1..Len(t), NEW j \in 1..Len(t), t[i] = t[j], t[i] \in Procs
                 PROVE  i = j
    BY <1>1, RealIs
  <2>3. CASE i \in 1..Len(q) /\ j \in 1..Len(q)
    BY <1>3, <1>7, <2>2, <2>3, RealIs
  <2>4. CASE i \notin 1..Len(q) /\ j \notin 1..Len(q)
    <3>1. i - Len(q) = j - Len(q)
      BY <1>5, <1>7, <2>2, <2>4, RealIs
    <3>2. QED
      BY <1>1, <1>2, <3>1
  <2>5. CASE i \in 1..Len(q) /\ j \notin 1..Len(q)
    BY <1>3, <1>5, <2>1, <2>2, <2>5
  <2>6. CASE i \notin 1..Len(q) /\ j \in 1..Len(q)
    BY <1>3, <1>5, <2>1, <2>2, <2>6
  <2>7. QED
    BY <2>3, <2>4, <2>5, <2>6
<1>8. QED
  BY <1>1, <1>6, <1>7 DEF t

LEMMA AppendPlace ==
  ASSUME NEW q \in Seq(AllProcs), NEW x \in AllProcs
  PROVE  /\ Append(q, x) \in Seq(AllProcs)
         /\ Real(Append(q, x)) = Real(q) \cup ({x} \cap Procs)
         /\ Once(Append(q, x)) <=> Once(q) /\ x \notin Real(q)
<1> DEFINE r == Append(q, x)
<1>1. /\ r \in Seq(AllProcs) /\ Len(r) = Len(q) + 1
      /\ \A i \in 1..Len(q) : r[i] = q[i]
      /\ r[Len(q) + 1] = x
  OBVIOUS
<1> HIDE DEF r
<1>2. /\ Real(r) = Real(q) \cup ({x} \cap Procs)
      /\ Once(r) <=> Once(q) /\ x \notin Real(q)
  BY <1>1, ExtendPlace
<1>3. QED
  BY <1>1, <1>2 DEF r

LEMMA TailPlace ==
  ASSUME NEW q \in Seq(AllProcs), q # <<>>
  PROVE  /\ Head(q) \in AllProcs /\ Tail(q) \in Seq(AllProcs)
         /\ Real(q) = ({Head(q)} \cap Procs) \cup Real(Tail(q))
         /\ Once(q) => Once(Tail(q)) /\ Head(q) \notin Real(Tail(q))
<1> DEFINE r == Tail(q)
           s == <<Head(q)>>
<1>1. /\ Head(q) \in AllProcs /\ r \in Seq(AllProcs) /\ s \in Seq(AllProcs)
      /\ 1 \in 0..Len(q) /\ Len(r) = Len(q) - 1 /\ \A i \in 1..Len(r) : r[i] = q[1 + i]
      /\ Len(s) = 1 /\ s[1] = q[1]
  OBVIOUS
<1>2. Real(s) = {Head(q)} \cap Procs
  BY <1>1, SinglePlace
<1> HIDE DEF r, s
<1>3. PICK k \in 0..Len(q) : k = 1
  BY <1>1
<1>4. /\ Real(q) = Real(s) \cup Real(r)
      /\ Once(q) => Once(s) /\ Once(r) /\ Real(s) \cap Real(r) = {}
  <2>1. Len(r) = Len(q) - k /\ \A i \in 1..Len(r) : r[i] = q[k + i]
    BY <1>1, <1>3
  <2>2. Len(s) <= k /\ \A i \in 1..Len(s) : s[i] = q[i]
    BY <1>1, <1>3
  <2>3. \A i \in 1..k : i <= Len(s) \/ q[i] \notin Procs
    BY <1>1, <1>3
  <2>4. QED
    BY <1>1, <2>1, <2>2, <2>3, SplitPlace
<1>5. Head(q) \in Real(r) => Head(q) \in Procs
  BY DEF Real
<1>6. /\ Head(q) \in AllProcs /\ r \in Seq(AllProcs)
      /\ Real(q) = ({Head(q)} \cap Procs) \cup Real(r)
      /\ Once(q) => Once(r) /\ Head(q) \notin Real(r)
  BY <1>1, <1>2, <1>4, <1>5
<1>7. QED
  BY <1>6 DEF r

LEMMA FrontPlace ==
  ASSUME NEW q \in Seq(AllProcs), q # <<>>
  PROVE  /\ Last(q) \in AllProcs /\ Front(q) \in Seq(AllProcs)
         /\ Real(q) = Real(Front(q)) \cup ({Last(q)} \cap Procs)
         /\ Once(q) => Once(Front(q)) /\ Last(q) \notin Real(Front(q))
<1> DEFINE r == SubSeq(q, 1, Len(q) - 1)
<1>1. Len(q) \in Nat /\ Len(q) # 0
  OBVIOUS
<1>2. q[Len(q)] \in AllProcs
  BY <1>1
<1>3. /\ r \in Seq(AllProcs) /\ Len(r) = Len(q) - 1
      /\ \A i \in 1..Len(r) : r[i] = q[i]
  BY <1>1
<1>4. Front(q) = r /\ Last(q) = q[Len(q)]
  BY DEF Front, Last
<1> HIDE DEF r
<1>5. Len(q) = Len(r) + 1 /\ \A i \in 1..Len(r) : q[i] = r[i]
  BY <1>1, <1>3
<1>6. q[Len(r) + 1] = q[Len(q)]
  BY <1>5
<1>7. /\ Real(q) = Real(r) \cup ({q[Len(q)]} \cap Procs)
      /\ Once(q) <=> Once(r) /\ q[Len(q)] \notin Real(r)
  BY <1>2, <1>3, <1>5, <1>6, ExtendPlace
<1>8. QED
  BY <1>2, <1>3, <1>4, <1>7

-----------------------------------------------------------------------------
(* The messages, and the processes they carry.                             *)

\* What the dispatcher sends, and what the sub-schedulers send.
Order == [mtype: {MTYPE_NEW_PROCESS}, proc: AllProcs] \cup [mtype: {MTYPE_TERMINATE}, proc: {Ghost}]

Answer == [mtype: {MTYPE_STEAL_RESPONSE}, proc: AllProcs]
          \cup [mtype: {MTYPE_ACK, MTYPE_STEAL_EMPTY}, proc: {Ghost}]

Message == [mtype: Int, proc: AllProcs]

LEMMA SeqOfMore ==
  ASSUME NEW A, NEW B, A \subseteq B
  PROVE  \A q \in Seq(A) : q \in Seq(B)
  OBVIOUS

LEMMA MessageIs ==
  /\ \A q \in Seq(Order) : q \in Seq(Message)
  /\ \A q \in Seq(Answer) : q \in Seq(Message)
  /\ \A m \in Order : m.proc \in AllProcs /\ (m.mtype = MTYPE_TERMINATE => m.proc = Ghost)
  /\ \A m \in Answer : m.proc \in AllProcs /\ (m.mtype # MTYPE_STEAL_RESPONSE => m.proc = Ghost)
<1>1. Ghost \in AllProcs
  BY DEF AllProcs
<1>2. /\ MTYPE_NEW_PROCESS \in Int /\ MTYPE_TERMINATE \in Int /\ MTYPE_STEAL_RESPONSE \in Int
      /\ MTYPE_ACK \in Int /\ MTYPE_STEAL_EMPTY \in Int
      /\ MTYPE_NEW_PROCESS # MTYPE_TERMINATE
  BY DEF MTYPE_NEW_PROCESS, MTYPE_TERMINATE, MTYPE_STEAL_RESPONSE, MTYPE_ACK, MTYPE_STEAL_EMPTY
<1>3. Order \subseteq Message /\ Answer \subseteq Message
  BY <1>1, <1>2 DEF Order, Answer, Message
<1>4. /\ \A m \in Order : m.proc \in AllProcs /\ (m.mtype = MTYPE_TERMINATE => m.proc = Ghost)
      /\ \A m \in Answer : m.proc \in AllProcs /\ (m.mtype # MTYPE_STEAL_RESPONSE => m.proc = Ghost)
  BY <1>1, <1>2 DEF Order, Answer
<1>5. (\A q \in Seq(Order) : q \in Seq(Message)) /\ (\A q \in Seq(Answer) : q \in Seq(Message))
  BY <1>3
<1>6. QED
  BY <1>4, <1>5

LEMMA CarriedIs ==
  ASSUME NEW q \in Seq(Message)
  PROVE  /\ Carried(q) \in Seq(AllProcs) /\ Len(Carried(q)) = Len(q)
         /\ \A i \in 1..Len(q) : Carried(q)[i] = q[i].proc
<1>1. DOMAIN q = 1..Len(q) /\ Len(q) \in Nat /\ \A i \in 1..Len(q) : q[i].proc \in AllProcs
  <2>1. DOMAIN q = 1..Len(q) /\ Len(q) \in Nat /\ \A i \in 1..Len(q) : q[i] \in Message
    OBVIOUS
  <2>2. \A m \in Message : m.proc \in AllProcs
    BY DEF Message
  <2>3. QED
    BY <2>1, <2>2
<1>2. Carried(q) = [i \in 1..Len(q) |-> q[i].proc]
  BY <1>1 DEF Carried
<1>3. QED
  BY <1>1, <1>2

LEMMA AppendCarried ==
  ASSUME NEW q \in Seq(Message), NEW m \in Message
  PROVE  /\ Real(Carried(Append(q, m))) = Real(Carried(q)) \cup ({m.proc} \cap Procs)
         /\ Once(Carried(Append(q, m))) <=> Once(Carried(q)) /\ m.proc \notin Real(Carried(q))
<1> DEFINE a == Append(q, m)
           r == Carried(a)
           s == Carried(q)
<1>1. a \in Seq(Message) /\ Len(a) = Len(q) + 1 /\ \A i \in 1..Len(q) : a[i] = q[i]
  OBVIOUS
<1>2. a[Len(q) + 1] = m /\ Len(q) \in Nat
  OBVIOUS
<1> HIDE DEF a
<1>3. r \in Seq(AllProcs) /\ Len(r) = Len(a) /\ \A i \in 1..Len(a) : r[i] = a[i].proc
  BY <1>1, CarriedIs
<1>4. s \in Seq(AllProcs) /\ Len(s) = Len(q) /\ \A i \in 1..Len(q) : s[i] = q[i].proc
  BY CarriedIs
<1> HIDE DEF r, s
<1>5. Len(r) = Len(s) + 1
  BY <1>1, <1>3, <1>4
<1>6. \A i \in 1..Len(s) : r[i] = s[i]
  BY <1>1, <1>2, <1>3, <1>4
<1>7. r[Len(s) + 1] = m.proc
  BY <1>1, <1>2, <1>3, <1>4
<1>8. /\ Real(r) = Real(s) \cup ({m.proc} \cap Procs)
      /\ Once(r) <=> Once(s) /\ m.proc \notin Real(s)
  BY <1>3, <1>4, <1>5, <1>6, <1>7, ExtendPlace
<1>9. QED
  BY <1>8 DEF r, s, a

LEMMA TailCarried ==
  ASSUME NEW q \in Seq(Message), q # <<>>
  PROVE  /\ Tail(q) \in Seq(Message) /\ Head(q) \in Message
         /\ Real(Carried(q)) = ({Head(q).proc} \cap Procs) \cup Real(Carried(Tail(q)))
         /\ Once(Carried(q)) =>
               Once(Carried(Tail(q))) /\ Head(q).proc \notin Real(Carried(Tail(q)))
<1> DEFINE a == Tail(q)
           r == Carried(a)
           s == Carried(q)
<1>1. /\ a \in Seq(Message) /\ Len(a) = Len(q) - 1 /\ \A i \in 1..Len(a) : a[i] = q[1 + i]
      /\ Head(q) \in Message /\ Head(q) = q[1] /\ Len(q) \in Nat /\ Len(q) >= 1
  OBVIOUS
<1> HIDE DEF a
<1>2. r \in Seq(AllProcs) /\ Len(r) = Len(a) /\ \A i \in 1..Len(a) : r[i] = a[i].proc
  BY <1>1, CarriedIs
<1>3. s \in Seq(AllProcs) /\ Len(s) = Len(q) /\ \A i \in 1..Len(q) : s[i] = q[i].proc
  BY CarriedIs
<1> HIDE DEF r, s
<1> DEFINE h == <<Head(q).proc>>
<1>4. h \in Seq(AllProcs) /\ Real(h) = {Head(q).proc} \cap Procs /\ Len(h) = 1 /\ h[1] = s[1]
  <2>1. Head(q).proc \in AllProcs /\ s[1] = Head(q).proc
    BY <1>1, <1>3 DEF Message
  <2>2. QED
    BY <2>1, SinglePlace
<1> HIDE DEF h
<1>5. 1 \in 0..Len(s) /\ Len(r) = Len(s) - 1
  BY <1>1, <1>2, <1>3
<1>6. \A i \in 1..Len(r) : r[i] = s[1 + i]
  <2>1. \A i \in 1..Len(r) : i \in 1..Len(a) /\ 1 + i \in 1..Len(q)
    BY <1>1, <1>2
  <2>2. QED
    BY <1>1, <1>2, <1>3, <2>1
<1>7. /\ Len(h) <= 1 /\ \A i \in 1..Len(h) : h[i] = s[i]
      /\ \A i \in 1..1 : i <= Len(h) \/ s[i] \notin Procs
  BY <1>4
<1>8. /\ Real(s) = Real(h) \cup Real(r)
      /\ Once(s) => Once(h) /\ Once(r) /\ Real(h) \cap Real(r) = {}
  BY <1>2, <1>3, <1>4, <1>5, <1>6, <1>7, SplitPlace
<1>9. Head(q).proc \in Real(r) => Head(q).proc \in Procs
  BY DEF Real
<1>10. /\ Real(s) = ({Head(q).proc} \cap Procs) \cup Real(r)
       /\ Once(s) => Once(r) /\ Head(q).proc \notin Real(r)
  BY <1>4, <1>8, <1>9
<1>11. QED
  BY <1>1, <1>10 DEF r, s, a

\* Taking the acknowledgements out of the answers.
\* A message that describes Ghost adds nothing, and takes nothing away.
LEMMA GhostCarried ==
  ASSUME NEW q \in Seq(Message)
  PROVE  /\ \A m \in Message : m.proc = Ghost =>
               /\ Real(Carried(Append(q, m))) = Real(Carried(q))
               /\ Once(Carried(q)) => Once(Carried(Append(q, m)))
         /\ q # <<>> /\ Head(q).proc = Ghost =>
               /\ Real(Carried(Tail(q))) = Real(Carried(q))
               /\ Once(Carried(q)) => Once(Carried(Tail(q)))
<1> DEFINE R == Real(Carried(q))
<1>1. Ghost \notin Procs /\ {Ghost} \cap Procs = {} /\ Ghost \notin R
  BY DualAssumption DEF Real
<1>2. ASSUME NEW m \in Message, m.proc = Ghost
      PROVE  /\ Real(Carried(Append(q, m))) = R
             /\ Once(Carried(q)) => Once(Carried(Append(q, m)))
  <2> DEFINE Y == Real(Carried(Append(q, m)))
  <2>1. /\ Y = R \cup ({m.proc} \cap Procs)
        /\ Once(Carried(Append(q, m))) <=> Once(Carried(q)) /\ m.proc \notin R
    BY AppendCarried
  <2> HIDE DEF R, Y
  <2>2. /\ Y = R \cup ({Ghost} \cap Procs)
        /\ Once(Carried(Append(q, m))) <=> Once(Carried(q)) /\ Ghost \notin R
    BY <1>2, <2>1
  <2>3. Y = R
    BY <1>1, <2>2
  <2>4. QED
    BY <1>1, <2>2, <2>3 DEF Y
<1>3. ASSUME q # <<>>, Head(q).proc = Ghost
      PROVE  /\ Real(Carried(Tail(q))) = R
             /\ Once(Carried(q)) => Once(Carried(Tail(q)))
  <2> DEFINE Y == Real(Carried(Tail(q)))
  <2>1. /\ R = ({Head(q).proc} \cap Procs) \cup Y
        /\ Once(Carried(q)) => Once(Carried(Tail(q)))
    BY <1>3, TailCarried
  <2> HIDE DEF R, Y
  <2>2. R = ({Ghost} \cap Procs) \cup Y
    BY <1>3, <2>1
  <2>3. Y = R
    BY <1>1, <2>2
  <2>4. QED
    BY <2>1, <2>3 DEF Y
<1>4. QED
  BY <1>2, <1>3

LEMMA FilterCarried ==
  ASSUME NEW q \in Seq(Answer)
  PROVE  /\ InOrder(q, ToSet(q) \ {AckMsg}) \in Seq(Answer)
         /\ Real(Carried(InOrder(q, ToSet(q) \ {AckMsg}))) = Real(Carried(q))
         /\ Once(Carried(q)) => Once(Carried(InOrder(q, ToSet(q) \ {AckMsg})))
         /\ \A i \in DOMAIN InOrder(q, ToSet(q) \ {AckMsg}) :
               InOrder(q, ToSet(q) \ {AckMsg})[i] # AckMsg
<1> DEFINE S == ToSet(q) \ {AckMsg}
           a == InOrder(q, S)
           r == Carried(a)
           s == Carried(q)
<1>1. a \in Seq(Answer) /\ ToSet(a) = ToSet(q) \cap S /\ Comes(a, q, Len(q))
  <2> HIDE DEF S
  <2>1. QED
    BY InOrderFacts, InOrderKeepsApart
<1>2. ToSet(a) = ToSet(q) \ {AckMsg}
  BY <1>1
<1> HIDE DEF a, S
<1>3. q \in Seq(Message) /\ a \in Seq(Message)
  BY <1>1, MessageIs
<1>4. r \in Seq(AllProcs) /\ Len(r) = Len(a) /\ \A i \in 1..Len(a) : r[i] = a[i].proc
  BY <1>3, CarriedIs
<1>5. s \in Seq(AllProcs) /\ Len(s) = Len(q) /\ \A i \in 1..Len(q) : s[i] = q[i].proc
  BY <1>3, CarriedIs
<1> HIDE DEF r, s
<1>6. AckMsg.proc \notin Procs
  BY DualAssumption DEF AckMsg, Msg
<1>7. DOMAIN a = 1..Len(a) /\ DOMAIN q = 1..Len(q)
  BY <1>3
<1>8. /\ \A m : m \in ToSet(a) <=> \E i \in 1..Len(a) : a[i] = m
      /\ \A m : m \in ToSet(q) <=> \E i \in 1..Len(q) : q[i] = m
  BY <1>7 DEF ToSet
<1>9. Real(r) = Real(s)
  <2>1. ASSUME NEW p \in Real(r) PROVE p \in Real(s)
    <3>1. PICK i \in 1..Len(r) : r[i] = p /\ p \in Procs
      BY <1>4, <2>1, RealIs
    <3>2. PICK j \in 1..Len(q) : q[j] = a[i]
      BY <1>2, <1>4, <1>8, <3>1
    <3>3. s[j] = p /\ j \in 1..Len(s)
      BY <1>4, <1>5, <3>1, <3>2
    <3>4. QED
      BY <1>5, <3>1, <3>3, RealIs
  <2>2. ASSUME NEW p \in Real(s) PROVE p \in Real(r)
    <3>1. PICK i \in 1..Len(s) : s[i] = p /\ p \in Procs
      BY <1>5, <2>2, RealIs
    <3>2. q[i] # AckMsg
      BY <1>5, <1>6, <3>1
    <3>3. PICK j \in 1..Len(a) : a[j] = q[i]
      BY <1>2, <1>5, <1>8, <3>1, <3>2
    <3>4. r[j] = p /\ j \in 1..Len(r)
      BY <1>4, <1>5, <3>1, <3>3
    <3>5. QED
      BY <1>4, <3>1, <3>4, RealIs
  <2>3. QED
    BY <2>1, <2>2
<1>10. ASSUME Once(s) PROVE Once(r)
  <2>1. SUFFICES ASSUME NEW i \in 1..Len(r), NEW j \in 1..Len(r), r[i] = r[j], r[i] \in Procs, i # j
                 PROVE  FALSE
    BY <1>4, RealIs
  <2>2. PICK x \in 1..Len(q), y \in 1..Len(q) : x # y /\ q[x] = a[i] /\ q[y] = a[j]
    BY <1>1, <1>4, <1>7, <2>1, Zenon DEF Comes
  <2>3. s[x] = s[y] /\ s[x] \in Procs
    BY <1>4, <1>5, <2>1, <2>2
  <2>4. QED
    BY <1>5, <1>10, <2>2, <2>3, RealIs
<1>11. \A i \in DOMAIN a : a[i] # AckMsg
  BY <1>2, <1>7, <1>8
<1>12. QED
  BY <1>1, <1>9, <1>10, <1>11 DEF r, s, a, S

-----------------------------------------------------------------------------
(* Counting the acknowledgements.                                          *)

AckPlaces(q) == {i \in DOMAIN q : q[i] = AckMsg}

LEMMA AckPlacesFinite ==
  ASSUME NEW q \in Seq(Answer)
  PROVE  IsFiniteSet(AckPlaces(q)) /\ Cardinality(AckPlaces(q)) \in Nat
<1>1. Len(q) \in Nat /\ DOMAIN q = 1..Len(q)
  OBVIOUS
<1>2. IsFiniteSet(1..Len(q))
  BY <1>1, FS_Interval
<1>3. AckPlaces(q) \in SUBSET (1..Len(q))
  BY <1>1 DEF AckPlaces
<1>4. IsFiniteSet(AckPlaces(q))
  BY <1>2, <1>3, FS_Subset
<1>5. QED
  BY <1>4, FS_CardinalityType

LEMMA AppendAcks ==
  ASSUME NEW q \in Seq(Answer), NEW m \in Answer
  PROVE  Cardinality(AckPlaces(Append(q, m)))
            = Cardinality(AckPlaces(q)) + IF m = AckMsg THEN 1 ELSE 0
<1> DEFINE r == Append(q, m)
           L == Len(q) + 1
<1>1. /\ DOMAIN r = 1..L /\ DOMAIN q = 1..Len(q) /\ Len(q) \in Nat
      /\ \A i \in 1..Len(q) : r[i] = q[i]
      /\ r[L] = m
  OBVIOUS
<1>2. \A i : i \in 1..L <=> i \in 1..Len(q) \/ i = L
  BY <1>1
<1>3. L \notin 1..Len(q)
  BY <1>1
<1> HIDE DEF r, L
<1>4. m = AckMsg => AckPlaces(r) = AckPlaces(q) \cup {L}
  <2>1. ASSUME m = AckMsg PROVE \A i : i \in AckPlaces(r) <=> i \in AckPlaces(q) \cup {L}
    BY <1>1, <1>2, <2>1 DEF AckPlaces
  <2>2. QED
    BY <2>1
<1>5. m # AckMsg => AckPlaces(r) = AckPlaces(q)
  <2>1. ASSUME m # AckMsg PROVE \A i : i \in AckPlaces(r) <=> i \in AckPlaces(q)
    BY <1>1, <1>2, <2>1 DEF AckPlaces
  <2>2. QED
    BY <2>1
<1>6. L \notin AckPlaces(q)
  BY <1>1, <1>3 DEF AckPlaces
<1> DEFINE A == AckPlaces(q)
<1>7. IsFiniteSet(A) /\ Cardinality(A) \in Nat
  BY AckPlacesFinite
<1> HIDE DEF A
<1>8. Cardinality(A \cup {L}) = IF L \in A THEN Cardinality(A) ELSE Cardinality(A) + 1
  BY <1>7, FS_AddElement
<1>9. Cardinality(AckPlaces(r)) = Cardinality(A) + IF m = AckMsg THEN 1 ELSE 0
  <2>1. CASE m = AckMsg
    BY <1>4, <1>6, <1>8, <2>1 DEF A
  <2>2. CASE m # AckMsg
    BY <1>5, <1>7, <2>2 DEF A
  <2>3. QED
    BY <2>1, <2>2
<1>10. QED
  BY <1>9 DEF r, A

LEMMA TailAcks ==
  ASSUME NEW q \in Seq(Answer), q # <<>>
  PROVE  Cardinality(AckPlaces(Tail(q))) <= Cardinality(AckPlaces(q))
<1> DEFINE r == Tail(q)
           A == AckPlaces(q)
           B == AckPlaces(r)
           f == [i \in B |-> i + 1]
<1>1. /\ DOMAIN r = 1..(Len(q) - 1) /\ DOMAIN q = 1..Len(q) /\ Len(q) \in Nat
      /\ \A i \in 1..(Len(q) - 1) : r[i] = q[i + 1] /\ i + 1 \in 1..Len(q)
  OBVIOUS
<1> HIDE DEF r
<1>2. IsFiniteSet(A)
  BY AckPlacesFinite
<1>3. B \subseteq Int /\ \A i \in B : i + 1 \in A
  BY <1>1 DEF AckPlaces
<1> HIDE DEF A, B
<1>4. f \in [B -> A] /\ \A a, b \in B : f[a] = f[b] => a = b
  BY <1>3
<1>5. f \in Injection(B, A)
  BY <1>4 DEF Injection, IsInjective
<1>6. Cardinality(B) <= Cardinality(A)
  BY <1>2, <1>5, FS_Injection
<1>7. QED
  BY <1>6 DEF A, B, r

LEMMA FilterAcks ==
  ASSUME NEW q \in Seq(Answer)
  PROVE  Cardinality(AckPlaces(InOrder(q, ToSet(q) \ {AckMsg}))) = 0
<1>1. AckPlaces(InOrder(q, ToSet(q) \ {AckMsg})) = {}
  BY FilterCarried DEF AckPlaces
<1>2. QED
  BY <1>1, FS_EmptySet

\* The sub-schedulers that have sent their acknowledgement.
Ended == {c \in CPUs : sub[c].pc \in {"closing", "exited"}}

\* No sub-scheduler acknowledges its end twice, although the dispatcher may take one
\* of the acknowledgements for something else.
EndsCounted == subs_terminated + Cardinality(Acks) <= Cardinality(Ended)

LEMMA CPUsFinite ==
  /\ IsFiniteSet(CPUs) /\ Cardinality(CPUs) = 2
  /\ \A S \in SUBSET CPUs : IsFiniteSet(S) /\ Cardinality(S) \in 0..2
<1>1. CPUs = {1} \cup {2} /\ 2 \notin {1}
  BY DEF CPUs
<1>2. IsFiniteSet(CPUs) /\ Cardinality(CPUs) = 2
  <2>1. IsFiniteSet({1}) /\ Cardinality({1}) = 1
    BY FS_Singleton
  <2>2. IsFiniteSet({1} \cup {2}) /\ Cardinality({1} \cup {2}) = Cardinality({1}) + 1
    BY <1>1, <2>1, FS_AddElement, Zenon
  <2>3. QED
    BY <1>1, <2>1, <2>2
<1>3. ASSUME NEW S \in SUBSET CPUs PROVE IsFiniteSet(S) /\ Cardinality(S) \in 0..2
  <2>1. IsFiniteSet(S) /\ Cardinality(S) <= 2
    BY <1>2, FS_Subset
  <2>2. Cardinality(S) \in Nat
    BY <2>1, FS_CardinalityType
  <2>3. QED
    BY <2>1, <2>2
<1>4. QED
  BY <1>2, <1>3

-----------------------------------------------------------------------------
(* The types, with what they need: whose child can run, and that a sub-    *)
(* scheduler waits for the end of the process it has only.                 *)

PCBRec == [state: {"W", "R", "F"}, forked: BOOLEAN, start_time: Int, finish_time: Int,
           last_stopped: Int, waiting_time: Int, remaining_time: Nat]

ChildRec == [pc: {"none", "down", "signal", "dead"}, cpu: CPUs, stopped: BOOLEAN,
             remainingtime: Nat]

PerfRec == [num_procs: Nat, first_arrival: Int, total_runtime: Nat, finish_time: Int,
            waiting: Int]

InputTypes ==
    /\ clk \in 0..MaxClk /\ workload \in Workloads
    /\ g_queue \in Seq(Procs) /\ g_now \in Int
    /\ msgq \in [arrived: Seq(Procs), sync: Seq(Int), end: BOOLEAN]

ChildTypes ==
    /\ child \in [AllProcs -> ChildRec]
    /\ sem \in [CPUs -> 0..1] /\ shmRT \in [CPUs -> Nat] /\ processFinished \in [CPUs -> BOOLEAN]

MessageTypes ==
    /\ submsg \in [CPUs -> Seq(Order)] /\ resp \in Seq(Answer)
    /\ urg \subseteq CPUs /\ usr2 \subseteq CPUs

LoadTypes ==
    load \in [CPUs -> LoadRec] /\ projected \in [CPUs -> LoadRec] /\ gate \in 0..2

MainTypes ==
    /\ pc \in {"spin", "receive", "algo", "route", "threshold", "steal", "moved", "wait", "open",
               "after", "waitpid", "exited"}
    /\ now \in Int /\ wait_until \in Int /\ movedAt \in Int /\ wait_sub \in Nat
    /\ readyQueue \in Seq(Procs) /\ subs_terminated \in Nat
    /\ receivingProcesses \in BOOLEAN /\ term_sent \in BOOLEAN /\ stalled \in BOOLEAN

SubTypes ==
    /\ sub \in [CPUs -> SubRec] /\ pcb \in [AllProcs -> PCBRec] /\ perf \in [CPUs -> PerfRec]

\* Only the child of the process that a sub-scheduler has runs, as long as it has
\* work left.
Served ==
    /\ \A p \in AllProcs :
          /\ child[p].pc = "down" => child[p].remainingtime > 0
          /\ child[p].pc \in {"signal", "dead"} => child[p].remainingtime = 0
          /\ child[p].pc \in {"down", "signal"} => sub[child[p].cpu].curr = p
    /\ \A c \in CPUs : processFinished[c] \/ sub[c].pc = "finish" => sub[c].curr # NoOne

Shape ==
    /\ InputTypes /\ ChildTypes /\ MessageTypes /\ LoadTypes /\ MainTypes /\ SubTypes
    /\ Served /\ EndsCounted

LEMMA WorkloadFacts ==
  ASSUME workload \in Workloads
  PROVE  /\ workload.order \in Seq(Procs) /\ IsInjective(workload.order)
         /\ workload.arrival \in [Procs -> Nat] /\ workload.runtime \in [Procs -> Nat \ {0}]
         /\ \A p \in AllProcs : Runtime(p) \in Nat /\ Arrival(p) \in Nat
<1>1. /\ workload.order \in Seq(Procs) /\ IsInjective(workload.order)
      /\ workload.arrival \in [Procs -> Nat] /\ workload.runtime \in [Procs -> Nat \ {0}]
  BY DualAssumption
<1>2. ASSUME NEW p \in AllProcs PROVE Runtime(p) \in Nat /\ Arrival(p) \in Nat
  <2>1. CASE p = Ghost
    BY <2>1 DEF Runtime, Arrival
  <2>2. CASE p # Ghost
    <3>1. p \in Procs
      BY <2>2 DEF AllProcs
    <3>2. QED
      BY <1>1, <2>2, <3>1 DEF Runtime, Arrival
  <2>3. QED
    BY <2>1, <2>2
<1>3. QED
  BY <1>1, <1>2

LEMMA NewPCBType ==
  ASSUME workload \in Workloads, NEW p \in AllProcs
  PROVE  NewPCB(p) \in PCBRec
  BY WorkloadFacts DEF NewPCB, PCBRec

LEMMA RemainingNat ==
  ASSUME NEW q \in Seq(AllProcs), NEW r \in [AllProcs -> PCBRec]
  PROVE  Remaining(q, r) \in Nat
<1> DEFINE f == [p \in AllProcs |-> r[p].remaining_time]
<1>1. f \in [AllProcs -> Nat]
  BY DEF PCBRec
<1> HIDE DEF f
<1>2. Total(q, f) \in Nat
  BY <1>1, TotalNat
<1>3. QED
  BY <1>2 DEF f, Remaining

LEMMA LoadType ==
  ASSUME Shape, NEW c \in CPUs, NEW q \in Seq(AllProcs), NEW r \in [AllProcs -> PCBRec]
  PROVE  LoadOf(c, q, r) \in LoadRec
<1>1. Remaining(q, r) \in Nat /\ Len(q) \in Nat
  BY RemainingNat
<1>2. RunningRT(c) \in Nat
  <2>1. shmRT[c] \in Nat
    BY DEF Shape, ChildTypes
  <2>2. QED
    BY <2>1 DEF RunningRT, NotBelow0
<1>3. Remaining(q, r) + RunningRT(c) \in Nat
  BY <1>1, <1>2
<1>4. QED
  BY <1>1, <1>3 DEF LoadOf, LoadRec

-----------------------------------------------------------------------------
(* What the loop on msgrcv takes.                                          *)

LEMMA EndAtIs ==
  ASSUME Shape, NEW c \in CPUs
  PROVE  /\ EndAt(c) \in 0..Len(submsg[c])
         /\ EndAt(c) # 0 => submsg[c][EndAt(c)].mtype = MTYPE_TERMINATE
<1> DEFINE ends == {i \in DOMAIN submsg[c] : submsg[c][i].mtype = MTYPE_TERMINATE}
<1>1. submsg[c] \in Seq(Order)
  BY DEF Shape, MessageTypes
<1>2. DOMAIN submsg[c] = 1..Len(submsg[c]) /\ Len(submsg[c]) \in Nat
  BY <1>1
<1>3. EndAt(c) = IF ends = {} THEN 0 ELSE Min(ends)
  BY DEF EndAt
<1>4. ASSUME ends # {} PROVE Min(ends) \in ends
  <2>1. ends \in SUBSET Nat
    BY <1>2
  <2> HIDE DEF ends
  <2>2. \E i \in ends : \A j \in ends : i <= j
    BY <1>4, <2>1, LeastExists
  <2>3. QED
    BY <2>2 DEF Min
<1>5. \A i \in ends : i \in 0..Len(submsg[c]) /\ submsg[c][i].mtype = MTYPE_TERMINATE
  BY <1>2
<1> HIDE DEF ends
<1>6. QED
  BY <1>2, <1>3, <1>4, <1>5

LeftBehind(c) == SubSeq(submsg[c], Taken(c) + 1, Len(submsg[c]))

LEMMA TakenIs ==
  ASSUME Shape, NEW c \in CPUs
  PROVE  /\ Taken(c) \in 0..Len(submsg[c])
         /\ NewProcs(c) \in Seq(AllProcs) /\ Len(NewProcs(c)) <= Taken(c)
         /\ \A i \in 1..Len(NewProcs(c)) : NewProcs(c)[i] = submsg[c][i].proc
         /\ \A i \in 1..Taken(c) : i <= Len(NewProcs(c)) \/ submsg[c][i].proc \notin Procs
         /\ LeftBehind(c) \in Seq(Order) /\ Len(LeftBehind(c)) = Len(submsg[c]) - Taken(c)
         /\ \A i \in 1..Len(LeftBehind(c)) : LeftBehind(c)[i] = submsg[c][Taken(c) + i]
<1> DEFINE q == submsg[c]
           e == EndAt(c)
           t == Taken(c)
           n == IF e = 0 THEN t ELSE t - 1
<1>1. q \in Seq(Order)
  BY DEF Shape, MessageTypes
<1>2. Len(q) \in Nat /\ \A i \in 1..Len(q) : q[i] \in Order
  BY <1>1
<1>3. e \in 0..Len(q) /\ (e # 0 => q[e].mtype = MTYPE_TERMINATE)
  BY EndAtIs
<1>4. t = IF e = 0 THEN Len(q) ELSE e
  BY DEF Taken
<1>5. NewProcs(c) = [i \in 1..n |-> q[i].proc]
  BY DEF NewProcs
<1>6. LeftBehind(c) = SubSeq(q, t + 1, Len(q))
  BY DEF LeftBehind
<1> HIDE DEF q, e, t
<1>7. t \in 0..Len(q) /\ n \in Nat /\ n <= t
  BY <1>2, <1>3, <1>4
<1>8. \A i \in 1..n : i \in 1..Len(q) /\ q[i].proc \in AllProcs
  BY <1>2, <1>7, MessageIs
<1>9. NewProcs(c) \in Seq(AllProcs) /\ Len(NewProcs(c)) = n /\ \A i \in 1..n : NewProcs(c)[i] = q[i].proc
  <2> HIDE DEF n
  <2>1. QED
    BY <1>5, <1>7, <1>8
<1>10. \A i \in 1..t : i <= n \/ q[i].proc \notin Procs
  <2>1. SUFFICES ASSUME NEW i \in 1..t, ~(i <= n) PROVE q[i].proc \notin Procs
    OBVIOUS
  <2>2. e # 0 /\ i = e /\ i \in 1..Len(q)
    BY <1>3, <1>4, <1>7, <2>1
  <2>3. q[i].proc = Ghost
    BY <1>2, <1>3, <2>2, MessageIs
  <2>4. QED
    BY <2>3, DualAssumption
<1>11. /\ LeftBehind(c) \in Seq(Order) /\ Len(LeftBehind(c)) = Len(q) - t
       /\ \A i \in 1..(Len(q) - t) : LeftBehind(c)[i] = q[t + i]
  BY <1>1, <1>2, <1>6, <1>7
<1> HIDE DEF n
<1>12. /\ Len(NewProcs(c)) <= t
       /\ \A i \in 1..t : i <= Len(NewProcs(c)) \/ q[i].proc \notin Procs
       /\ \A i \in 1..Len(NewProcs(c)) : NewProcs(c)[i] = q[i].proc
       /\ \A i \in 1..Len(LeftBehind(c)) : LeftBehind(c)[i] = q[t + i]
  BY <1>7, <1>9, <1>10, <1>11
<1>13. QED
  BY <1>7, <1>9, <1>11, <1>12 DEF q, t

LEMMA DrainTypes ==
  ASSUME Shape, NEW c \in CPUs
  PROVE  /\ Drained(c) \in SubRec
         /\ Drained(c).ready = sub[c].ready \o NewProcs(c)
         /\ Drained(c).curr = sub[c].curr /\ Drained(c).pc = sub[c].pc
         /\ DrainedPCB(c) \in [AllProcs -> PCBRec]
         /\ DrainMessages(c) => submsg' = [submsg EXCEPT ![c] = LeftBehind(c)]
         /\ DrainMessages(c) => submsg' \in [CPUs -> Seq(Order)]
         /\ NoteFirstArrival(c) => perf' \in [CPUs -> PerfRec]
<1>1. /\ sub[c] \in SubRec /\ pcb \in [AllProcs -> PCBRec] /\ workload \in Workloads
      /\ submsg \in [CPUs -> Seq(Order)] /\ perf \in [CPUs -> PerfRec]
  BY DEF Shape, SubTypes, InputTypes, MessageTypes
<1>2. NewProcs(c) \in Seq(AllProcs) /\ LeftBehind(c) \in Seq(Order)
  BY TakenIs
<1>3. sub[c].ready \in Seq(AllProcs) /\ sub[c].receiving \in BOOLEAN
  BY <1>1 DEF SubRec
<1> DEFINE r == sub[c].ready \o NewProcs(c)
           b == sub[c].receiving /\ EndAt(c) = 0
<1>4. r \in Seq(AllProcs) /\ b \in BOOLEAN
  BY <1>2, <1>3
<1>5. Drained(c) = [sub[c] EXCEPT !.ready = r, !.receiving = b]
  BY DEF Drained
<1> HIDE DEF r, b
<1>6. /\ Drained(c) \in SubRec /\ Drained(c).ready = r
      /\ Drained(c).curr = sub[c].curr /\ Drained(c).pc = sub[c].pc
  BY <1>1, <1>4, <1>5 DEF SubRec
<1>7. DrainedPCB(c) \in [AllProcs -> PCBRec]
  BY <1>1, NewPCBType DEF DrainedPCB
<1>8. DrainMessages(c) => submsg' = [submsg EXCEPT ![c] = LeftBehind(c)]
  BY DEF DrainMessages, LeftBehind
<1>9. NoteFirstArrival(c) => perf' \in [CPUs -> PerfRec]
  <2>1. SUFFICES ASSUME NoteFirstArrival(c), NewProcs(c) # <<>>,
                        perf' = [perf EXCEPT ![c].first_arrival = Arrival(Head(NewProcs(c)))]
                 PROVE  perf' \in [CPUs -> PerfRec]
    BY <1>1 DEF NoteFirstArrival
  <2>2. Head(NewProcs(c)) \in AllProcs
    BY <1>2, <2>1
  <2> DEFINE a == Arrival(Head(NewProcs(c)))
  <2>3. a \in Int
    BY <1>1, <2>2, WorkloadFacts
  <2>4. perf' = [perf EXCEPT ![c].first_arrival = a]
    BY <2>1
  <2> HIDE DEF a
  <2>5. QED
    BY <1>1, <2>3, <2>4 DEF PerfRec
<1>10. QED
  BY <1>1, <1>2, <1>6, <1>7, <1>8, <1>9 DEF r

-----------------------------------------------------------------------------
(* Shape is preserved.                                                     *)

LEMMA ServedKept ==
  ASSUME Served, child \in [AllProcs -> ChildRec],
         \A p \in AllProcs : /\ child'[p].pc = child[p].pc /\ child'[p].cpu = child[p].cpu
                             /\ child'[p].remainingtime = child[p].remainingtime,
         processFinished' = processFinished,
         \A c \in CPUs : /\ sub'[c].curr = sub[c].curr
                         /\ sub'[c].pc = "finish" => sub[c].pc = "finish" \/ processFinished[c]
  PROVE  Served'
<1>1. \A p \in AllProcs : child[p].cpu \in CPUs
  BY DEF ChildRec
<1>2. QED
  BY <1>1 DEF Served

LEMMA EndsKept ==
  ASSUME EndsCounted, resp \in Seq(Answer), resp' \in Seq(Answer),
         subs_terminated \in Nat, subs_terminated' = subs_terminated,
         Cardinality(AckPlaces(resp')) <= Cardinality(AckPlaces(resp)),
         \A c \in CPUs : sub[c].pc \in {"closing", "exited"} => sub'[c].pc \in {"closing", "exited"}
  PROVE  EndsCounted'
<1> DEFINE a == Cardinality(AckPlaces(resp))
           b == Cardinality(AckPlaces(resp'))
           d == Ended'
           f == Ended
<1>1. a \in Nat /\ b \in Nat
  BY AckPlacesFinite
<1>2. f \in SUBSET d /\ d \in SUBSET CPUs /\ f \in SUBSET CPUs
  BY DEF Ended
<1>3. subs_terminated + a <= Cardinality(f)
  BY DEF EndsCounted, Acks, AckPlaces
<1>4. EndsCounted' <=> subs_terminated' + b <= Cardinality(d)
  BY DEF EndsCounted, Acks, AckPlaces
<1> HIDE DEF a, b, d, f
<1>5. IsFiniteSet(d) /\ Cardinality(d) \in Nat /\ Cardinality(f) \in Nat
  BY <1>2, CPUsFinite
<1>6. Cardinality(f) <= Cardinality(d)
  BY <1>2, <1>5, FS_Subset
<1>7. b <= a
  BY DEF a, b
<1>8. QED
  BY <1>1, <1>3, <1>4, <1>5, <1>6, <1>7

LEMMA AckTypes ==
  /\ AckMsg \in Answer
  /\ Msg(MTYPE_STEAL_EMPTY, Ghost) \in Answer /\ Msg(MTYPE_STEAL_EMPTY, Ghost) # AckMsg
  /\ \A p \in AllProcs : /\ Msg(MTYPE_STEAL_RESPONSE, p) \in Answer
                         /\ Msg(MTYPE_STEAL_RESPONSE, p) # AckMsg
                         /\ Msg(MTYPE_NEW_PROCESS, p) \in Order
  /\ Msg(MTYPE_TERMINATE, Ghost) \in Order
  /\ Ghost \in AllProcs
<1>1. Ghost \in AllProcs
  BY DEF AllProcs
<1>2. \A t, p : Msg(t, p).mtype = t /\ Msg(t, p) = [mtype |-> t, proc |-> p]
  BY DEF Msg
<1>3. MTYPE_ACK # MTYPE_STEAL_EMPTY /\ MTYPE_ACK # MTYPE_STEAL_RESPONSE
  BY DEF MTYPE_STEAL_RESPONSE, MTYPE_ACK, MTYPE_STEAL_EMPTY
<1>4. AckMsg = Msg(MTYPE_ACK, Ghost)
  BY DEF AckMsg
<1>5. /\ \A p \in AllProcs : Msg(MTYPE_STEAL_RESPONSE, p) # AckMsg
      /\ Msg(MTYPE_STEAL_EMPTY, Ghost) # AckMsg
  BY <1>2, <1>3, <1>4
<1>6. QED
  BY <1>1, <1>2, <1>4, <1>5 DEF Order, Answer

\* Starting from Shape, what the dispatcher leaves alone keeps its type.
LEMMA MainOnly ==
  ASSUME Shape, UNCHANGED <<childvars, subvars>>,
         InputTypes', MessageTypes', LoadTypes', MainTypes',
         \/ subs_terminated' = subs_terminated
            /\ Cardinality(AckPlaces(resp')) <= Cardinality(AckPlaces(resp))
         \/ EndsCounted'
  PROVE  Shape'
<1>1. ChildTypes' /\ SubTypes'
  BY DEF Shape, ChildTypes, SubTypes, childvars, subvars
<1>2. Served'
  BY DEF Shape, Served, childvars, subvars
<1>3. EndsCounted'
  <2>1. /\ EndsCounted /\ resp \in Seq(Answer) /\ resp' \in Seq(Answer)
        /\ subs_terminated \in Nat /\ sub' = sub
    BY DEF Shape, MessageTypes, MainTypes, subvars
  <2>2. QED
    BY <2>1, EndsKept
<1>4. QED
  BY <1>1, <1>2, <1>3 DEF Shape

LEMMA SentType ==
  ASSUME submsg \in [CPUs -> Seq(Order)], NEW c \in CPUs, NEW m \in Order
  PROVE  Sent(c, m) \in [CPUs -> Seq(Order)]
  BY DEF Sent

LEMMA AddedType ==
  ASSUME workload \in Workloads, NEW l \in [CPUs -> LoadRec], NEW c \in CPUs, NEW p \in AllProcs
  PROVE  Added(l, c, p) \in [CPUs -> LoadRec] /\ Removed(l, c, p) \in [CPUs -> LoadRec]
<1>1. Runtime(p) \in Nat /\ l[c].count \in Nat /\ l[c].rt \in Nat
  BY WorkloadFacts DEF LoadRec
<1> DEFINE a == [count |-> l[c].count + 1, rt |-> l[c].rt + Runtime(p)]
           r == [count |-> NotBelow0(l[c].count - 1), rt |-> NotBelow0(l[c].rt - Runtime(p))]
<1>2. a \in LoadRec /\ r \in LoadRec
  BY <1>1 DEF LoadRec, NotBelow0
<1>3. Added(l, c, p) = [l EXCEPT ![c] = a] /\ Removed(l, c, p) = [l EXCEPT ![c] = r]
  BY DEF Added, Removed
<1> HIDE DEF a, r
<1>4. QED
  BY <1>2, <1>3

LEMMA CountAcksShape ==
  ASSUME Shape, CountAcks, UNCHANGED sub
  PROVE  resp' \in Seq(Answer) /\ subs_terminated' \in Nat /\ EndsCounted'
<1> DEFINE a == Cardinality(AckPlaces(resp))
           b == Cardinality(AckPlaces(resp'))
<1>1. resp \in Seq(Answer) /\ subs_terminated \in Nat
  BY DEF Shape, MessageTypes, MainTypes
<1>2. resp' \in Seq(Answer) /\ b = 0
  BY <1>1, FilterCarried, FilterAcks DEF CountAcks
<1>3. a \in Nat /\ a = Cardinality(Acks) /\ b = Cardinality(Acks')
  BY <1>1, AckPlacesFinite DEF Acks, AckPlaces
<1>4. subs_terminated' = subs_terminated + a
  BY <1>3 DEF CountAcks
<1>5. Ended' = Ended
  BY DEF Ended
<1>6. subs_terminated + Cardinality(Acks) <= Cardinality(Ended)
  BY DEF Shape, EndsCounted
<1> HIDE DEF a, b
<1>7. subs_terminated' + Cardinality(Acks') <= Cardinality(Ended')
  BY <1>1, <1>2, <1>3, <1>4, <1>5, <1>6
<1>8. QED
  BY <1>1, <1>2, <1>3, <1>4, <1>7 DEF EndsCounted

LEMMA SpinShape ==
  ASSUME Shape, SpinAcks \/ NewTick, UNCHANGED <<clk, workload, genvars, childvars>>
  PROVE  Shape'
<1> USE DEF subvars, inputvars, stallvars, genvars
<1>1. CountAcks /\ UNCHANGED sub
  BY DEF SpinAcks, NewTick
<1>2. resp' \in Seq(Answer) /\ subs_terminated' \in Nat /\ EndsCounted'
  BY <1>1, CountAcksShape
<1>3. InputTypes'
  BY DEF Shape, InputTypes, SpinAcks, NewTick
<1>4. MessageTypes'
  BY <1>2 DEF Shape, MessageTypes, SpinAcks, NewTick
<1>5. LoadTypes'
  BY DEF Shape, LoadTypes, SpinAcks, NewTick
<1>6. MainTypes'
  <2>1. clk \in Int
    BY DualAssumption DEF Shape, InputTypes
  <2>2. CASE SpinAcks
    BY <1>2, <2>2 DEF Shape, MainTypes, SpinAcks
  <2>3. CASE NewTick
    BY <1>2, <2>1, <2>3 DEF Shape, MainTypes, NewTick, Goto
  <2>4. QED
    BY <2>2, <2>3
<1>7. UNCHANGED subvars
  BY DEF SpinAcks, NewTick
<1>8. QED
  BY <1>2, <1>3, <1>4, <1>5, <1>6, <1>7, MainOnly

LEMMA ReceiveShape ==
  ASSUME Shape, ReceiveProcess \/ ReceiveSync \/ ReceiveEnd,
         UNCHANGED <<clk, workload, genvars, childvars>>
  PROVE  Shape'
<1> USE DEF subvars, inputvars, stallvars, endvars, msgvars, genvars
<1>1. UNCHANGED <<childvars, subvars, load, projected, gate, msgvars, endvars, stallvars, now>>
  BY DEF ReceiveProcess, ReceiveSync, ReceiveEnd
<1>2. /\ msgq \in [arrived: Seq(Procs), sync: Seq(Int), end: BOOLEAN]
      /\ readyQueue \in Seq(Procs) /\ receivingProcesses \in BOOLEAN
  BY DEF Shape, InputTypes, MainTypes
<1>3. /\ msgq' \in [arrived: Seq(Procs), sync: Seq(Int), end: BOOLEAN]
      /\ readyQueue' \in Seq(Procs) /\ receivingProcesses' \in BOOLEAN
      /\ pc' \in {"receive", "algo"}
  <2>1. CASE ReceiveProcess
    <3>1. /\ Head(msgq.arrived) \in Procs /\ Tail(msgq.arrived) \in Seq(Procs)
      BY <1>2, <2>1 DEF ReceiveProcess
    <3>2. /\ msgq' = [msgq EXCEPT !.arrived = Tail(msgq.arrived)]
          /\ readyQueue' = Append(readyQueue, Head(msgq.arrived))
          /\ pc' = "receive" /\ receivingProcesses' = receivingProcesses
      BY <2>1 DEF ReceiveProcess
    <3>3. readyQueue' \in Seq(Procs)
      BY <1>2, <3>1, <3>2
    <3>4. QED
      BY <1>2, <3>1, <3>2, <3>3
  <2>2. CASE ReceiveSync
    <3>1. Tail(msgq.sync) \in Seq(Int)
      BY <1>2, <2>2 DEF ReceiveSync
    <3>2. msgq' = [msgq EXCEPT !.sync = Tail(msgq.sync)]
      BY <2>2 DEF ReceiveSync
    <3>3. QED
      BY <1>2, <2>2, <3>1, <3>2 DEF ReceiveSync, Goto
  <2>3. CASE ReceiveEnd
    BY <1>2, <2>3 DEF ReceiveEnd, Goto
  <2>4. QED
    BY <2>1, <2>2, <2>3
<1>4. InputTypes'
  BY <1>3 DEF Shape, InputTypes
<1>5. MessageTypes' /\ LoadTypes'
  BY <1>1 DEF Shape, MessageTypes, LoadTypes
<1>6. MainTypes'
  BY <1>1, <1>3 DEF Shape, MainTypes
<1>7. subs_terminated' = subs_terminated /\ resp' = resp
  BY <1>1
<1>8. Cardinality(AckPlaces(resp)) \in Nat
  BY AckPlacesFinite DEF Shape, MessageTypes
<1>9. QED
  BY <1>1, <1>4, <1>5, <1>6, <1>7, <1>8, MainOnly

LEMMA RouteShape ==
  ASSUME Shape, Algo \/ Route \/ PublishRoutes, UNCHANGED <<clk, workload, genvars, childvars>>
  PROVE  Shape'
<1> USE DEF subvars, inputvars, stallvars, endvars, msgvars, genvars
<1>1. UNCHANGED <<childvars, subvars, msgq, gate, resp, urg, usr2, endvars, stallvars, now,
                  receivingProcesses>>
  BY DEF Algo, Route, PublishRoutes
<1>2. /\ readyQueue \in Seq(Procs) /\ submsg \in [CPUs -> Seq(Order)] /\ workload \in Workloads
      /\ load \in [CPUs -> LoadRec] /\ projected \in [CPUs -> LoadRec]
  BY DEF Shape, InputTypes, MainTypes, MessageTypes, LoadTypes
<1>3. NoLoad \in [CPUs -> LoadRec]
  BY DEF NoLoad, LoadRec
<1>4. /\ readyQueue' \in Seq(Procs) /\ submsg' \in [CPUs -> Seq(Order)]
      /\ load' \in [CPUs -> LoadRec] /\ projected' \in [CPUs -> LoadRec]
      /\ pc' \in {"after", "threshold", "route"}
  <2>1. CASE Algo
    BY <1>2, <1>3, <2>1 DEF Algo, Goto
  <2>2. CASE Route
    <3>1. Head(readyQueue) \in Procs /\ Tail(readyQueue) \in Seq(Procs)
      BY <1>2, <2>2 DEF Route
    <3>2. Head(readyQueue) \in AllProcs /\ LighterReady \in CPUs
      BY <3>1 DEF AllProcs, LighterReady, CPUs
    <3>3. Msg(MTYPE_NEW_PROCESS, Head(readyQueue)) \in Order
      BY <3>2, AckTypes
    <3>4. Sent(LighterReady, Msg(MTYPE_NEW_PROCESS, Head(readyQueue))) \in [CPUs -> Seq(Order)]
      BY <1>2, <3>2, <3>3, SentType
    <3>5. Added(projected, LighterReady, Head(readyQueue)) \in [CPUs -> LoadRec]
      BY <1>2, <3>2, AddedType
    <3>6. QED
      BY <1>2, <2>2, <3>1, <3>4, <3>5 DEF Route
  <2>3. CASE PublishRoutes
    BY <1>2, <1>3, <2>3 DEF PublishRoutes, Published, Goto
  <2>4. QED
    BY <2>1, <2>2, <2>3
<1>5. InputTypes' /\ MessageTypes' /\ LoadTypes'
  BY <1>1, <1>4 DEF Shape, InputTypes, MessageTypes, LoadTypes
<1>6. MainTypes'
  BY <1>1, <1>4 DEF Shape, MainTypes
<1>7. subs_terminated' = subs_terminated /\ resp' = resp
  BY <1>1
<1>8. Cardinality(AckPlaces(resp)) \in Nat
  BY AckPlacesFinite DEF Shape, MessageTypes
<1>9. QED
  BY <1>1, <1>5, <1>6, <1>7, <1>8, MainOnly

LEMMA StealShape ==
  ASSUME Shape, Check \/ NoCheck \/ NothingStolen \/ Stolen,
         UNCHANGED <<clk, workload, genvars, childvars>>
  PROVE  Shape'
<1> USE DEF subvars, inputvars, stallvars, endvars, msgvars, genvars
<1>1. UNCHANGED <<childvars, subvars, msgq, load, gate, usr2, endvars, now, inputvars, wait_until,
                  movedAt>>
  BY DEF Check, NoCheck, NothingStolen, Stolen
<1>2. /\ resp \in Seq(Answer) /\ submsg \in [CPUs -> Seq(Order)] /\ urg \subseteq CPUs
      /\ stalled \in BOOLEAN /\ workload \in Workloads
      /\ load \in [CPUs -> LoadRec] /\ projected \in [CPUs -> LoadRec]
  BY DEF Shape, InputTypes, MainTypes, MessageTypes, LoadTypes
<1>3. NoLoad \in [CPUs -> LoadRec]
  BY DEF NoLoad, LoadRec
<1>4. \A l : Busier(l) \in CPUs /\ Other(Busier(l)) \in CPUs
  BY DEF Busier, CPUs, Other
<1>5. /\ resp' \in Seq(Answer) /\ Cardinality(AckPlaces(resp')) <= Cardinality(AckPlaces(resp))
      /\ submsg' \in [CPUs -> Seq(Order)] /\ urg' \subseteq CPUs /\ stalled' \in BOOLEAN
      /\ projected' \in [CPUs -> LoadRec] /\ pc' \in {"steal", "open", "moved"}
  <2>1. Cardinality(AckPlaces(resp)) \in Nat
    BY <1>2, AckPlacesFinite
  <2>2. CASE Check
    <3>1. urg' \subseteq CPUs
      BY <1>2, <1>4, <2>2 DEF Check
    <3>2. QED
      BY <1>2, <2>1, <2>2, <3>1 DEF Check, Goto
  <2>3. CASE NoCheck
    BY <1>2, <2>1, <2>3 DEF NoCheck, Goto
  <2>4. ASSUME resp # <<>>, resp' = Tail(resp)
        PROVE  /\ resp' \in Seq(Answer)
               /\ Cardinality(AckPlaces(resp')) <= Cardinality(AckPlaces(resp))
    BY <1>2, <2>4, TailAcks
  <2>5. CASE NothingStolen
    BY <1>2, <1>3, <2>4, <2>5 DEF NothingStolen, Goto
  <2>6. CASE Stolen
    <3> DEFINE p == Head(resp).proc
               b == Busier(projected)
    <3>1. p \in AllProcs
      <4>1. Head(resp) \in Answer
        BY <1>2, <2>6 DEF Stolen
      <4>2. QED
        BY <4>1, MessageIs
    <3>2. b \in CPUs /\ Other(b) \in CPUs
      BY <1>4
    <3>3. Msg(MTYPE_NEW_PROCESS, p) \in Order
      BY <3>1, AckTypes
    <3>4. /\ submsg' = Sent(Other(b), Msg(MTYPE_NEW_PROCESS, p))
          /\ projected' = Added(Removed(projected, b, p), Other(b), p)
          /\ resp # <<>> /\ resp' = Tail(resp) /\ pc' = "moved" /\ urg' = urg
          /\ stalled' = stalled
      BY <2>6 DEF Stolen, Goto
    <3> HIDE DEF p, b
    <3>5. Removed(projected, b, p) \in [CPUs -> LoadRec]
      BY <1>2, <3>1, <3>2, AddedType
    <3>6. projected' \in [CPUs -> LoadRec]
      BY <1>2, <3>1, <3>2, <3>4, <3>5, AddedType
    <3>7. submsg' \in [CPUs -> Seq(Order)]
      BY <1>2, <3>2, <3>3, <3>4, SentType
    <3>8. QED
      BY <1>2, <2>4, <3>4, <3>6, <3>7
  <2>7. QED
    BY <2>2, <2>3, <2>5, <2>6
<1>6. InputTypes' /\ MessageTypes' /\ LoadTypes'
  BY <1>1, <1>5 DEF Shape, InputTypes, MessageTypes, LoadTypes
<1>7. MainTypes'
  BY <1>1, <1>5 DEF Shape, MainTypes
<1>8. subs_terminated' = subs_terminated
  BY <1>1
<1>9. QED
  BY <1>1, <1>5, <1>6, <1>7, <1>8, MainOnly

LEMMA MoveShape ==
  ASSUME Shape, PublishMove \/ WaitOver \/ After \/ Exit,
         UNCHANGED <<clk, workload, genvars, childvars>>
  PROVE  Shape'
<1> USE DEF subvars, inputvars, stallvars, endvars, msgvars, genvars
<1>1. UNCHANGED <<childvars, subvars, msgq, gate, urg, resp, subs_terminated, now, inputvars, stalled>>
  BY DEF PublishMove, WaitOver, After, Exit
<1>2. /\ submsg \in [CPUs -> Seq(Order)] /\ usr2 \subseteq CPUs /\ workload \in Workloads
      /\ load \in [CPUs -> LoadRec] /\ projected \in [CPUs -> LoadRec]
      /\ wait_until \in Int /\ movedAt \in Int /\ wait_sub \in Nat /\ term_sent \in BOOLEAN
  BY DEF Shape, InputTypes, MainTypes, MessageTypes, LoadTypes
<1>3. NoLoad \in [CPUs -> LoadRec]
  BY DEF NoLoad, LoadRec
<1>4. clk \in Int
  BY DualAssumption DEF Shape, InputTypes
<1>5. /\ submsg' \in [CPUs -> Seq(Order)] /\ usr2' \subseteq CPUs
      /\ load' \in [CPUs -> LoadRec] /\ projected' \in [CPUs -> LoadRec]
      /\ wait_until' \in Int /\ movedAt' \in Int /\ wait_sub' \in Nat /\ term_sent' \in BOOLEAN
      /\ pc' \in {"wait", "open", "spin", "exited"}
  <2>1. CASE PublishMove
    BY <1>2, <1>3, <1>4, <2>1 DEF PublishMove, Goto, Penalty
  <2>2. CASE WaitOver
    BY <1>2, <2>2 DEF WaitOver, Goto
  <2>3. CASE After
    <3>1. load[1].rt \in Nat /\ load[2].rt \in Nat
      BY <1>2 DEF CPUs, LoadRec
    <3>2. [c \in CPUs |-> Append(submsg[c], Msg(MTYPE_TERMINATE, Ghost))] \in [CPUs -> Seq(Order)]
      BY <1>2, AckTypes
    <3>3. /\ wait_sub' = load[1].rt + load[2].rt /\ pc' = "spin" /\ UNCHANGED stallvars
          /\ load' = load /\ projected' = projected /\ usr2' = usr2 /\ term_sent' \in BOOLEAN
          /\ \/ submsg' = submsg
             \/ submsg' = [c \in CPUs |-> Append(submsg[c], Msg(MTYPE_TERMINATE, Ghost))]
      BY <1>2, <2>3 DEF After, Goto
    <3>4. submsg' \in [CPUs -> Seq(Order)]
      BY <1>2, <3>2, <3>3
    <3>5. wait_sub' \in Nat
      BY <3>1, <3>3
    <3>6. QED
      BY <1>2, <3>3, <3>4, <3>5
  <2>4. CASE Exit
    BY <1>2, <2>4 DEF Exit, Goto
  <2>5. QED
    BY <2>1, <2>2, <2>3, <2>4
<1>6. InputTypes' /\ MessageTypes' /\ LoadTypes'
  BY <1>1, <1>5 DEF Shape, InputTypes, MessageTypes, LoadTypes
<1>7. MainTypes'
  BY <1>1, <1>5 DEF Shape, MainTypes
<1>8. Cardinality(AckPlaces(resp)) \in Nat
  BY AckPlacesFinite DEF Shape, MessageTypes
<1>9. subs_terminated' = subs_terminated /\ resp' = resp
  BY <1>1
<1>10. QED
  BY <1>1, <1>6, <1>7, <1>8, <1>9, MainOnly

\* A sub-scheduler that sleeps at the gate goes on; nothing else about it changes.
LEMMA OpenShape ==
  ASSUME Shape, Open \/ Leave, UNCHANGED <<clk, workload, genvars, childvars>>
  PROVE  Shape'
<1> USE DEF subvars, inputvars, stallvars, endvars, msgvars, genvars
<1> DEFINE asleep == {c \in CPUs : sub[c].pc = "gate"}
<1>1. /\ UNCHANGED <<childvars, msgq, load, msgvars, endvars, now, inputvars, stallvars, projected,
                     pcb, perf>>
      /\ gate' = 2 - Cardinality(asleep)
      /\ sub' = [c \in CPUs |-> IF c \in asleep THEN [sub[c] EXCEPT !.pc = "frame"] ELSE sub[c]]
      /\ pc' \in {"after", "waitpid"}
  BY DEF Open, Leave, OpenGate, Goto
<1>2. asleep \in SUBSET CPUs
  OBVIOUS
<1>3. \A c \in asleep : c \in CPUs /\ sub[c].pc = "gate"
  OBVIOUS
<1> HIDE DEF asleep
<1>4. gate' \in 0..2
  <2>1. Cardinality(asleep) \in 0..2
    BY <1>2, CPUsFinite
  <2>2. QED
    BY <1>1, <2>1
<1>5. /\ sub \in [CPUs -> SubRec] /\ pcb \in [AllProcs -> PCBRec] /\ perf \in [CPUs -> PerfRec]
      /\ Served /\ EndsCounted /\ child \in [AllProcs -> ChildRec]
  BY DEF Shape, SubTypes, ChildTypes
<1>6. sub' \in [CPUs -> SubRec]
  <2>1. \A r \in SubRec : [r EXCEPT !.pc = "frame"] \in SubRec
    BY DEF SubRec
  <2>2. QED
    BY <1>1, <1>5, <2>1
<1>7. \A c \in CPUs : /\ sub'[c].curr = sub[c].curr
                      /\ sub'[c].pc = sub[c].pc \/ (c \in asleep /\ sub'[c].pc = "frame")
  BY <1>1, <1>5 DEF SubRec
<1>8. Served'
  BY <1>1, <1>5, <1>7, ServedKept DEF childvars
<1>9. EndsCounted'
  <2>1. resp' = resp /\ resp \in Seq(Answer) /\ subs_terminated' = subs_terminated
        /\ subs_terminated \in Nat
    BY <1>1 DEF Shape, MessageTypes, MainTypes
  <2>2. \A c \in CPUs : sub[c].pc \in {"closing", "exited"} => sub'[c].pc \in {"closing", "exited"}
    BY <1>3, <1>7
  <2>3. Cardinality(AckPlaces(resp)) \in Nat
    BY <2>1, AckPlacesFinite
  <2>4. Cardinality(AckPlaces(resp')) <= Cardinality(AckPlaces(resp))
    BY <2>1, <2>3
  <2>5. QED
    BY <1>5, <2>1, <2>2, <2>4, EndsKept
<1>10. InputTypes' /\ ChildTypes' /\ MessageTypes' /\ SubTypes'
  BY <1>1, <1>5, <1>6 DEF Shape, InputTypes, ChildTypes, MessageTypes, SubTypes, childvars
<1>11. LoadTypes'
  BY <1>1, <1>4 DEF Shape, LoadTypes
<1>12. MainTypes'
  BY <1>1 DEF Shape, MainTypes
<1>13. QED
  BY <1>8, <1>9, <1>10, <1>11, <1>12 DEF Shape

LEMMA DispatcherShape ==
  ASSUME Shape, Dispatcher
  PROVE  Shape'
<1>1. UNCHANGED <<clk, workload, genvars, childvars>>
  BY DEF Dispatcher
<1>2. \/ SpinAcks \/ NewTick \/ ReceiveProcess \/ ReceiveSync \/ ReceiveEnd
      \/ Algo \/ Route \/ PublishRoutes \/ Check \/ NoCheck \/ NothingStolen \/ Stolen
      \/ PublishMove \/ WaitOver \/ Open \/ After \/ Leave \/ Exit
  BY DEF Dispatcher
<1>3. QED
  BY <1>1, <1>2, SpinShape, ReceiveShape, RouteShape, StealShape, MoveShape, OpenShape

\* The steps that leave the dispatcher and the sub-schedulers as they are.
LEMMA GeneratorShape ==
  ASSUME Shape, ClockTick \/ Generator \/ UNCHANGED dualvars
  PROVE  Shape'
<1> USE DEF dualvars, mainvars, subvars, inputvars, stallvars, endvars, msgvars, genvars, childvars
<1>1. UNCHANGED <<workload, childvars, load, gate, msgvars, mainvars, subvars>>
  BY DEF ClockTick, Generator
<1>2. /\ g_queue \in Seq(Procs) /\ g_now \in Int /\ clk \in 0..MaxClk /\ workload \in Workloads
      /\ msgq \in [arrived: Seq(Procs), sync: Seq(Int), end: BOOLEAN]
  BY DEF Shape, InputTypes
<1>3. InputTypes'
  <2>1. clk' \in 0..MaxClk
    BY <1>2, DualAssumption DEF ClockTick, Generator
  <2>2. clk \in Int
    BY <1>2, DualAssumption
  <2>3. /\ g_queue' \in Seq(Procs) /\ g_now' \in Int
        /\ msgq' \in [arrived: Seq(Procs), sync: Seq(Int), end: BOOLEAN]
    <3>1. CASE GenPoll
      BY <1>2, <2>2, <3>1 DEF GenPoll
    <3>2. CASE GenSend
      <4>1. /\ Head(g_queue) \in Procs /\ g_queue' = Tail(g_queue) /\ Tail(g_queue) \in Seq(Procs)
            /\ msgq' = [msgq EXCEPT !.arrived = Append(msgq.arrived, Head(g_queue))]
            /\ g_now' = g_now
        BY <1>2, <3>2 DEF GenSend, Arrived
      <4>2. Append(msgq.arrived, Head(g_queue)) \in Seq(Procs)
        BY <1>2, <4>1
      <4>3. QED
        BY <1>2, <4>1, <4>2
    <3>3. CASE GenSync
      <4>1. Append(msgq.sync, g_now) \in Seq(Int)
        BY <1>2
      <4>2. msgq' = [msgq EXCEPT !.sync = Append(msgq.sync, g_now)]
        BY <3>3 DEF GenSync
      <4>3. QED
        BY <1>2, <3>3, <4>1, <4>2 DEF GenSync
    <3>4. CASE GenEnd
      BY <1>2, <3>4 DEF GenEnd
    <3>5. CASE UNCHANGED <<g_queue, g_now, msgq>>
      BY <1>2, <3>5
    <3>6. QED
      BY <3>1, <3>2, <3>3, <3>4, <3>5 DEF ClockTick, Generator, GenStep, GenShutdown
  <2>4. QED
    BY <1>1, <1>2, <2>1, <2>3 DEF InputTypes
<1>4. ChildTypes' /\ MessageTypes' /\ LoadTypes' /\ MainTypes' /\ SubTypes'
  BY <1>1 DEF Shape, ChildTypes, MessageTypes, LoadTypes, MainTypes, SubTypes
<1>5. Served' /\ EndsCounted'
  BY <1>1 DEF Shape, Served, EndsCounted, Acks, Ended
<1>6. QED
  BY <1>3, <1>4, <1>5 DEF Shape

LEMMA ChildShape ==
  ASSUME Shape, NEW p \in AllProcs, Child(p)
  PROVE  Shape'
<1> USE DEF mainvars, subvars, inputvars, stallvars, endvars, msgvars, genvars
<1>1. UNCHANGED <<clk, workload, genvars, msgq, load, gate, msgvars, mainvars, subvars>>
  BY DEF Child
<1>2. /\ child \in [AllProcs -> ChildRec] /\ sem \in [CPUs -> 0..1] /\ shmRT \in [CPUs -> Nat]
      /\ processFinished \in [CPUs -> BOOLEAN] /\ Served
  BY DEF Shape, ChildTypes
<1>3. child[p] \in ChildRec /\ child[p].cpu \in CPUs /\ child[p].remainingtime \in Nat
  BY <1>2 DEF ChildRec
<1>4. ChildTypes' /\ Served'
  <2>1. CASE ChildTick(p)
    <3> DEFINE left == child[p].remainingtime - 1
               k == child[p].cpu
    <3>1. child[p].pc = "down" /\ sem[k] > 0 /\ child[p].remainingtime > 0
      BY <1>2, <2>1 DEF ChildTick, Runs, Served
    <3>2. left \in Nat /\ AfterTick(left) \in {"down", "signal"}
      BY <1>3, <3>1 DEF AfterTick
    <3>3. /\ sem' = [sem EXCEPT ![k] = sem[k] - 1] /\ shmRT' = [shmRT EXCEPT ![k] = left]
          /\ child' = [child EXCEPT ![p] = [child[p] EXCEPT !.remainingtime = left,
                                                            !.pc = AfterTick(left)]]
          /\ processFinished' = processFinished
      BY <2>1 DEF ChildTick
    <3> HIDE DEF left
    <3>4. AfterTick(left) = "down" => left > 0
      BY DEF AfterTick
    <3>5. AfterTick(left) = "signal" => left = 0
      BY <3>2 DEF AfterTick
    <3>6. sem' \in [CPUs -> 0..1] /\ shmRT' \in [CPUs -> Nat]
      BY <1>2, <1>3, <3>1, <3>2, <3>3
    <3>7. child' \in [AllProcs -> ChildRec]
      BY <1>2, <1>3, <3>2, <3>3 DEF ChildRec
    <3>8. /\ \A x \in AllProcs : x # p => child'[x] = child[x]
          /\ child'[p].pc = AfterTick(left) /\ child'[p].cpu = child[p].cpu
          /\ child'[p].remainingtime = left
      BY <1>2, <1>3, <3>3 DEF ChildRec
    <3>9. Served'
      <4>1. sub' = sub
        BY <1>1
      <4>2. QED
        BY <1>2, <3>1, <3>2, <3>3, <3>4, <3>5, <3>8, <4>1 DEF Served
    <3>10. QED
      BY <1>2, <3>3, <3>6, <3>7, <3>9 DEF ChildTypes
  <2>2. CASE ChildExit(p)
    <3>1. /\ child[p].pc = "signal"
          /\ child' = [child EXCEPT ![p] = [child[p] EXCEPT !.pc = "dead"]]
          /\ processFinished' = [processFinished EXCEPT ![child[p].cpu] = TRUE]
          /\ UNCHANGED <<sem, shmRT>>
      BY <2>2 DEF ChildExit, Runs
    <3>2. child' \in [AllProcs -> ChildRec] /\ processFinished' \in [CPUs -> BOOLEAN]
      BY <1>2, <1>3, <3>1 DEF ChildRec
    <3>3. /\ \A x \in AllProcs : x # p => child'[x] = child[x]
          /\ child'[p].pc = "dead" /\ child'[p].remainingtime = child[p].remainingtime
      BY <1>2, <1>3, <3>1 DEF ChildRec
    <3>4. Served'
      <4>1. sub' = sub
        BY <1>1
      <4>2. sub[child[p].cpu].curr = p /\ child[p].remainingtime = 0
        BY <1>2, <3>1 DEF Served
      <4>3. \A c \in CPUs : processFinished'[c] => processFinished[c] \/ c = child[p].cpu
        BY <1>2, <1>3, <3>1
      <4>4. \A c \in CPUs : processFinished'[c] \/ sub'[c].pc = "finish" => sub'[c].curr # NoOne
        BY <1>2, <4>1, <4>2, <4>3, DualAssumption DEF Served
      <4>5. QED
        BY <1>2, <3>1, <3>3, <4>1, <4>2, <4>4 DEF Served
    <3>5. QED
      BY <1>2, <3>1, <3>2, <3>4 DEF ChildTypes
  <2>3. QED
    BY <2>1, <2>2 DEF Child
<1>5. InputTypes' /\ MessageTypes' /\ LoadTypes' /\ MainTypes' /\ SubTypes'
  BY <1>1 DEF Shape, InputTypes, MessageTypes, LoadTypes, MainTypes, SubTypes
<1>6. EndsCounted'
  BY <1>1 DEF Shape, EndsCounted, Acks, Ended
<1>7. QED
  BY <1>4, <1>5, <1>6 DEF Shape

\* The frame around a step of sub-scheduler c.
Around(c, s) ==
    /\ sub' = [sub EXCEPT ![c] = s]
    /\ UNCHANGED <<clk, workload, genvars, msgq, mainvars>>

\* A step of a sub-scheduler that keeps the process it has, and acknowledges nothing.
LEMMA SubKeeps ==
  ASSUME Shape, NEW c \in CPUs, NEW s \in SubRec, Around(c, s),
         s.curr = sub[c].curr,
         s.pc = "finish" => sub[c].pc = "finish" \/ processFinished[c],
         sub[c].pc \in {"closing", "exited"} => s.pc \in {"closing", "exited"},
         child' \in [AllProcs -> ChildRec],
         \A p \in AllProcs : /\ child'[p].pc = child[p].pc /\ child'[p].cpu = child[p].cpu
                             /\ child'[p].remainingtime = child[p].remainingtime,
         sem' \in [CPUs -> 0..1], shmRT' = shmRT, processFinished' = processFinished,
         load' \in [CPUs -> LoadRec], gate' \in 0..2,
         submsg' \in [CPUs -> Seq(Order)], resp' \in Seq(Answer),
         Cardinality(AckPlaces(resp')) <= Cardinality(AckPlaces(resp)),
         urg' \subseteq CPUs, usr2' \subseteq CPUs,
         pcb' \in [AllProcs -> PCBRec], perf' \in [CPUs -> PerfRec]
  PROVE  Shape'
<1> USE DEF Around, mainvars, inputvars, stallvars, endvars, genvars
<1>1. /\ sub \in [CPUs -> SubRec] /\ child \in [AllProcs -> ChildRec] /\ resp \in Seq(Answer)
      /\ Served /\ EndsCounted /\ subs_terminated \in Nat
      /\ shmRT \in [CPUs -> Nat] /\ processFinished \in [CPUs -> BOOLEAN]
      /\ projected \in [CPUs -> LoadRec]
  BY DEF Shape, SubTypes, ChildTypes, MessageTypes, MainTypes, LoadTypes
<1>2. /\ sub' \in [CPUs -> SubRec]
      /\ \A d \in CPUs : sub'[d] = IF d = c THEN s ELSE sub[d]
  BY <1>1
<1>3. Served'
  <2>1. \A d \in CPUs : /\ sub'[d].curr = sub[d].curr
                        /\ sub'[d].pc = "finish" => sub[d].pc = "finish" \/ processFinished[d]
    BY <1>2
  <2>2. QED
    BY <1>1, <2>1, ServedKept
<1>4. EndsCounted'
  <2>1. \A d \in CPUs : sub[d].pc \in {"closing", "exited"} => sub'[d].pc \in {"closing", "exited"}
    BY <1>2
  <2>2. subs_terminated' = subs_terminated
    OBVIOUS
  <2>3. QED
    BY <1>1, <2>1, <2>2, EndsKept
<1>5. InputTypes' /\ MainTypes'
  BY DEF Shape, InputTypes, MainTypes
<1>6. ChildTypes' /\ MessageTypes' /\ LoadTypes' /\ SubTypes'
  BY <1>1, <1>2 DEF ChildTypes, MessageTypes, LoadTypes, SubTypes
<1>7. QED
  BY <1>3, <1>4, <1>5, <1>6 DEF Shape

\* The types that a step of a sub-scheduler reads.
LEMMA SubReads ==
  ASSUME Shape, NEW c \in CPUs
  PROVE  /\ sub \in [CPUs -> SubRec] /\ sub[c] \in SubRec
         /\ pcb \in [AllProcs -> PCBRec] /\ perf \in [CPUs -> PerfRec]
         /\ child \in [AllProcs -> ChildRec]
         /\ sem \in [CPUs -> 0..1] /\ shmRT \in [CPUs -> Nat]
         /\ processFinished \in [CPUs -> BOOLEAN]
         /\ load \in [CPUs -> LoadRec] /\ gate \in 0..2
         /\ submsg \in [CPUs -> Seq(Order)] /\ resp \in Seq(Answer)
         /\ Cardinality(AckPlaces(resp)) \in Nat
         /\ urg \subseteq CPUs /\ usr2 \subseteq CPUs
         /\ workload \in Workloads /\ clk \in Int
         /\ NoOne \notin AllProcs
<1>1. resp \in Seq(Answer)
  BY DEF Shape, MessageTypes
<1>2. clk \in Int
  BY DualAssumption DEF Shape, InputTypes
<1>3. QED
  BY <1>1, <1>2, AckPlacesFinite, DualAssumption
     DEF Shape, SubTypes, ChildTypes, MessageTypes, LoadTypes, InputTypes

LEMMA PublishShape ==
  ASSUME Shape, NEW c \in CPUs, UNCHANGED <<clk, workload, genvars, msgq, mainvars>>,
         NEW from, NEW to,
         \/ Publish(c, from, to)
            /\ <<from, to>> \in {<<"spin", "loop">>, <<"write", "read">>, <<"last", "ack">>}
         \/ Compute(c, from, to) /\ <<from, to>> \in {<<"compute", "write">>, <<"left", "last">>}
         \/ ReadOther(c)
         \/ SubLeave(c)
         \/ SubExit(c)
         \/ NoDispatch(c)
         \/ DownGate(c)
  PROVE  Shape'
<1>1. /\ sub \in [CPUs -> SubRec] /\ sub[c] \in SubRec /\ pcb \in [AllProcs -> PCBRec]
      /\ perf \in [CPUs -> PerfRec] /\ child \in [AllProcs -> ChildRec]
      /\ sem \in [CPUs -> 0..1] /\ load \in [CPUs -> LoadRec] /\ gate \in 0..2
      /\ submsg \in [CPUs -> Seq(Order)] /\ resp \in Seq(Answer)
      /\ Cardinality(AckPlaces(resp)) \in Nat
      /\ urg \subseteq CPUs /\ usr2 \subseteq CPUs
  BY SubReads
<1>2. /\ UNCHANGED <<child, shmRT, processFinished, submsg, resp, urg, usr2, pcb, perf>>
      /\ sem' \in [CPUs -> 0..1]
  <2>1. UNCHANGED <<child, shmRT, processFinished, submsg, resp, urg, usr2, pcb, perf>>
    BY DEF Publish, Compute, ReadOther, SubLeave, SubExit, NoDispatch, DownGate, childvars
  <2>2. sem' = sem \/ sem' = [sem EXCEPT ![c] = 1]
    BY DEF Publish, Compute, ReadOther, SubLeave, SubExit, NoDispatch, DownGate, childvars
  <2>3. QED
    BY <1>1, <2>1, <2>2
<1>3. sub[c].ready \in Seq(AllProcs) /\ sub[c].pub \in LoadRec
  BY <1>1 DEF SubRec
<1>4. load' \in [CPUs -> LoadRec] /\ gate' \in 0..2
  <2>1. load' = load \/ load' = [load EXCEPT ![c] = sub[c].pub]
    BY DEF Publish, Compute, ReadOther, SubLeave, SubExit, NoDispatch, DownGate, childvars
  <2>2. gate' = gate \/ (gate > 0 /\ gate' = gate - 1)
    BY DEF Publish, Compute, ReadOther, SubLeave, SubExit, NoDispatch, DownGate, childvars
  <2>3. gate' \in 0..2
    BY <1>1, <2>2
  <2>4. QED
    BY <1>1, <1>3, <2>1, <2>3
<1>5. PICK l \in {"loop", "read", "ack", "write", "last", "left", "exited", "compute", "frame", "gate"},
           b \in LoadRec, r \in Nat :
         sub' = [sub EXCEPT ![c] = [sub[c] EXCEPT !.pc = l, !.pub = b, !.remaining = r]]
  <2> DEFINE S(l, b, r) == [sub EXCEPT ![c] = [sub[c] EXCEPT !.pc = l, !.pub = b, !.remaining = r]]
             P(l) == [sub EXCEPT ![c].pc = l]
             Q(l, b) == [sub EXCEPT ![c].pc = l, ![c].pub = b]
             R(l, r) == [sub EXCEPT ![c].pc = l, ![c].remaining = r]
             old == sub[c].pub
             left == sub[c].remaining
  <2>1. old \in LoadRec /\ left \in Nat
    BY <1>1 DEF SubRec
  <2>2. \A l : P(l) = S(l, old, left)
    BY <1>1 DEF SubRec
  <2>3. \A l, b : Q(l, b) = S(l, b, left)
    BY <1>1 DEF SubRec
  <2>4. \A l, r : R(l, r) = S(l, old, r)
    BY <1>1 DEF SubRec
  <2> DEFINE none == NoLoad[c]
             now0 == LoadOf(c, sub[c].ready, pcb)
             other == load[Other(c)].rt
  <2>5. none \in LoadRec /\ now0 \in LoadRec /\ other \in Nat
    <3>1. Other(c) \in CPUs
      BY DEF Other, CPUs
    <3>2. other \in Nat
      BY <1>1, <3>1 DEF LoadRec
    <3>3. QED
      BY <1>1, <1>3, <3>2, LoadType DEF NoLoad, LoadRec
  <2>6. \/ \E l \in {"loop", "read", "ack"} : sub' = Q(l, none)
        \/ \E l \in {"write", "last"} : sub' = Q(l, now0)
        \/ sub' = R("loop", other)
        \/ \E l \in {"left", "exited", "compute", "frame", "gate"} : sub' = P(l)
    BY DEF Publish, Compute, ReadOther, SubLeave, SubExit, NoDispatch, DownGate, SubGoto
  <2> HIDE DEF old, left, none, now0, other, S, P, Q, R
  <2>7. \/ \E l \in {"loop", "read", "ack"} : sub' = S(l, none, left)
        \/ \E l \in {"write", "last"} : sub' = S(l, now0, left)
        \/ sub' = S("loop", old, other)
        \/ \E l \in {"left", "exited", "compute", "frame", "gate"} : sub' = S(l, old, left)
    BY <2>2, <2>3, <2>4, <2>6
  <2>8. \E l \in {"loop", "read", "ack", "write", "last", "left", "exited", "compute", "frame", "gate"},
           b \in LoadRec, r \in Nat : sub' = S(l, b, r)
    BY <2>1, <2>5, <2>7
  <2>9. QED
    BY <2>8 DEF S
<1> DEFINE s == [sub[c] EXCEPT !.pc = l, !.pub = b, !.remaining = r]
<1>6. s \in SubRec /\ s.curr = sub[c].curr /\ s.pc = l
  BY <1>1 DEF SubRec
<1>7. sub[c].pc \in {"closing", "exited"} => l = "exited"
  <2>1. sub[c].pc \in {"closing", "exited"} => SubExit(c)
    BY DEF Publish, Compute, ReadOther, SubLeave, NoDispatch, DownGate
  <2>2. SubExit(c) => sub'[c].pc = "exited"
    BY <1>1 DEF SubExit, SubGoto, SubRec
  <2>3. sub'[c].pc = l
    BY <1>1, <1>5, <1>6
  <2>4. QED
    BY <2>1, <2>2, <2>3
<1>8. Around(c, s)
  BY <1>5 DEF Around
<1> HIDE DEF s
<1>9. /\ s.curr = sub[c].curr /\ s.pc # "finish"
      /\ sub[c].pc \in {"closing", "exited"} => s.pc \in {"closing", "exited"}
  BY <1>5, <1>6, <1>7
<1>10. /\ child' \in [AllProcs -> ChildRec]
       /\ \A p \in AllProcs : /\ child'[p].pc = child[p].pc /\ child'[p].cpu = child[p].cpu
                               /\ child'[p].remainingtime = child[p].remainingtime
       /\ submsg' \in [CPUs -> Seq(Order)] /\ resp' \in Seq(Answer)
       /\ Cardinality(AckPlaces(resp')) <= Cardinality(AckPlaces(resp))
       /\ urg' \subseteq CPUs /\ usr2' \subseteq CPUs
       /\ pcb' \in [AllProcs -> PCBRec] /\ perf' \in [CPUs -> PerfRec]
       /\ shmRT' = shmRT /\ processFinished' = processFinished
  BY <1>1, <1>2
<1>11. QED
  BY <1>2, <1>4, <1>6, <1>8, <1>9, <1>10, SubKeeps

\* What the three loops on msgrcv make of the sub-scheduler.
LEMMA LoopSub ==
  ASSUME Shape, NEW c \in CPUs, UNCHANGED <<clk, workload, genvars, msgq, mainvars>>,
         Spin(c) \/ SubNewTick(c) \/ Frame(c)
  PROVE  \E s \in SubRec : /\ Around(c, s)
                           /\ s.curr = sub[c].curr /\ s.ready = sub[c].ready \o NewProcs(c)
                           /\ s.pc \in {"spin", "finish", "down", "dispatch"}
                           /\ s.pc = "finish" => processFinished[c]
                           /\ sub[c].pc \in {"loop", "frame"}
<1> DEFINE d == Drained(c)
           b == LoadOf(c, d.ready, DrainedPCB(c))
           l == IF processFinished[c] THEN "finish" ELSE "down"
           n == sub[c].now
           t == sub[c].stalled /\ ~StallOver(c)
<1>1. /\ sub[c] \in SubRec /\ clk \in Int /\ NoOne \notin AllProcs
      /\ d \in SubRec /\ d.curr = sub[c].curr /\ d.ready = sub[c].ready \o NewProcs(c)
      /\ DrainedPCB(c) \in [AllProcs -> PCBRec]
  BY SubReads, DrainTypes
<1>2. d.ready \in Seq(AllProcs) /\ d.stalled = sub[c].stalled
  BY <1>1 DEF SubRec, Drained
<1>3. b \in LoadRec /\ n \in Int /\ t \in BOOLEAN /\ l \in {"finish", "down"}
      /\ (l = "finish" => processFinished[c])
  BY <1>1, <1>2, LoadType DEF SubRec, StallOver
<1>4. \/ Spin(c) /\ sub' = [sub EXCEPT ![c] = [d EXCEPT !.pc = "spin", !.pub = b]]
      \/ SubNewTick(c) /\ sub' = [sub EXCEPT ![c] = [d EXCEPT !.pc = l, !.now = clk]]
      \/ Frame(c) /\ sub' = [sub EXCEPT ![c] = [d EXCEPT !.pc = "dispatch", !.last_tick = n, !.stalled = t]]
  BY <1>2 DEF Spin, SubNewTick, Frame
<1>5. sub[c].pc \in {"loop", "frame"}
  BY DEF Spin, SubNewTick, Frame
<1> HIDE DEF d, b, l, n, t
<1>6. /\ [d EXCEPT !.pc = "spin", !.pub = b] \in SubRec
      /\ [d EXCEPT !.pc = l, !.now = clk] \in SubRec
      /\ [d EXCEPT !.pc = "dispatch", !.last_tick = n, !.stalled = t] \in SubRec
  BY <1>1, <1>3 DEF SubRec
<1>7. /\ [d EXCEPT !.pc = "spin", !.pub = b].curr = d.curr
      /\ [d EXCEPT !.pc = l, !.now = clk].curr = d.curr
      /\ [d EXCEPT !.pc = "dispatch", !.last_tick = n, !.stalled = t].curr = d.curr
      /\ [d EXCEPT !.pc = "spin", !.pub = b].ready = d.ready
      /\ [d EXCEPT !.pc = l, !.now = clk].ready = d.ready
      /\ [d EXCEPT !.pc = "dispatch", !.last_tick = n, !.stalled = t].ready = d.ready
      /\ [d EXCEPT !.pc = "spin", !.pub = b].pc = "spin"
      /\ [d EXCEPT !.pc = l, !.now = clk].pc = l
      /\ [d EXCEPT !.pc = "dispatch", !.last_tick = n, !.stalled = t].pc = "dispatch"
  BY <1>1 DEF SubRec
<1>8. QED
  BY <1>1, <1>3, <1>4, <1>5, <1>6, <1>7 DEF Around

LEMMA DrainShape ==
  ASSUME Shape, NEW c \in CPUs, UNCHANGED <<clk, workload, genvars, msgq, mainvars>>,
         Spin(c) \/ SubNewTick(c) \/ Frame(c)
  PROVE  Shape'
<1>1. /\ sub \in [CPUs -> SubRec] /\ sub[c] \in SubRec
      /\ child \in [AllProcs -> ChildRec]
      /\ sem \in [CPUs -> 0..1] /\ load \in [CPUs -> LoadRec] /\ gate \in 0..2
      /\ resp \in Seq(Answer) /\ Cardinality(AckPlaces(resp)) \in Nat
      /\ urg \subseteq CPUs /\ usr2 \subseteq CPUs /\ clk \in Int /\ NoOne \notin AllProcs
  BY SubReads
<1>2. /\ UNCHANGED <<sem, shmRT, processFinished, load, gate, resp, urg, usr2>>
      /\ DrainMessages(c) /\ NoteFirstArrival(c)
  BY DEF Spin, SubNewTick, Frame, childvars
<1>3. /\ Drained(c) \in SubRec /\ Drained(c).curr = sub[c].curr
      /\ DrainedPCB(c) \in [AllProcs -> PCBRec]
      /\ submsg' \in [CPUs -> Seq(Order)] /\ perf' \in [CPUs -> PerfRec]
  BY <1>2, DrainTypes
<1>4. /\ pcb' \in [AllProcs -> PCBRec] /\ child' \in [AllProcs -> ChildRec]
      /\ \A p \in AllProcs : /\ child'[p].pc = child[p].pc /\ child'[p].cpu = child[p].cpu
                             /\ child'[p].remainingtime = child[p].remainingtime
  <2>1. CASE pcb' = DrainedPCB(c) /\ child' = child
    BY <1>1, <1>3, <2>1
  <2>2. CASE /\ Frame(c) /\ sub[c].curr # NoOne
             /\ pcb' = [DrainedPCB(c) EXCEPT ![sub[c].curr] = [Charged(c, sub[c].curr) EXCEPT !.state = "R"]]
             /\ child' = [child EXCEPT ![sub[c].curr].stopped = FALSE]
    <3> DEFINE p == sub[c].curr
               r == [Charged(c, p) EXCEPT !.state = "R"]
    <3>1. p \in AllProcs
      BY <1>1, <2>2 DEF SubRec
    <3>2. r \in PCBRec
      <4>1. pcb[p] \in PCBRec /\ sub[c].now \in Int
        BY <1>1, <3>1, SubReads DEF SubRec
      <4>2. Charged(c, p) \in PCBRec
        BY <4>1 DEF Charged, PCBRec
      <4>3. QED
        BY <4>2 DEF PCBRec
    <3>3. pcb' = [DrainedPCB(c) EXCEPT ![p] = r] /\ child' = [child EXCEPT ![p].stopped = FALSE]
      BY <2>2
    <3> HIDE DEF r, p
    <3>4. pcb' \in [AllProcs -> PCBRec]
      BY <1>3, <3>1, <3>2, <3>3
    <3>5. child' \in [AllProcs -> ChildRec]
      BY <1>1, <3>1, <3>3 DEF ChildRec
    <3>6. \A x \in AllProcs : child'[x] = IF x = p THEN [child[p] EXCEPT !.stopped = FALSE] ELSE child[x]
      BY <1>1, <3>1, <3>3
    <3>7. child[p] \in ChildRec
      BY <1>1, <3>1
    <3>8. \A x \in AllProcs : /\ child'[x].pc = child[x].pc /\ child'[x].cpu = child[x].cpu
                              /\ child'[x].remainingtime = child[x].remainingtime
      BY <3>6, <3>7 DEF ChildRec
    <3>9. QED
      BY <3>4, <3>5, <3>8
  <2>3. QED
    BY <2>1, <2>2 DEF Spin, SubNewTick, Frame, childvars
<1>5. PICK s \in SubRec : /\ Around(c, s) /\ s.curr = sub[c].curr
                          /\ s.pc \in {"spin", "finish", "down", "dispatch"}
                          /\ s.pc = "finish" => processFinished[c]
                          /\ sub[c].pc \in {"loop", "frame"}
  BY LoopSub
<1>6. /\ s.pc = "finish" => sub[c].pc = "finish" \/ processFinished[c]
      /\ sub[c].pc \in {"closing", "exited"} => s.pc \in {"closing", "exited"}
  BY <1>5
<1>7. /\ sem' \in [CPUs -> 0..1] /\ load' \in [CPUs -> LoadRec] /\ gate' \in 0..2
      /\ resp' \in Seq(Answer) /\ urg' \subseteq CPUs /\ usr2' \subseteq CPUs
      /\ Cardinality(AckPlaces(resp')) <= Cardinality(AckPlaces(resp))
      /\ shmRT' = shmRT /\ processFinished' = processFinished
  BY <1>1, <1>2
<1>8. QED
  BY <1>3, <1>4, <1>5, <1>6, <1>7, SubKeeps

LEMMA FinishShape ==
  ASSUME Shape, NEW c \in CPUs, UNCHANGED <<clk, workload, genvars, msgq, mainvars>>, SubFinish(c)
  PROVE  Shape'
<1> USE DEF mainvars, inputvars, stallvars, endvars, genvars
<1>1. /\ sub \in [CPUs -> SubRec] /\ sub[c] \in SubRec /\ pcb \in [AllProcs -> PCBRec]
      /\ perf \in [CPUs -> PerfRec] /\ child \in [AllProcs -> ChildRec]
      /\ processFinished \in [CPUs -> BOOLEAN] /\ workload \in Workloads
      /\ Served /\ EndsCounted
  BY SubReads DEF Shape
<1> DEFINE p == sub[c].curr
           t == sub[c].now
           a == [pcb[p] EXCEPT !.finish_time = t, !.remaining_time = 0, !.state = "F"]
           b == [perf[c] EXCEPT !.num_procs = @ + 1, !.waiting = @ + pcb[p].waiting_time,
                                !.total_runtime = @ + Runtime(p), !.finish_time = t]
           s == [sub[c] EXCEPT !.curr = NoOne, !.pc = "down", !.csu = t + 1]
<1>2. /\ sub[c].pc = "finish" /\ child[p].pc = "dead"
      /\ pcb' = [pcb EXCEPT ![p] = a] /\ perf' = [perf EXCEPT ![c] = b]
      /\ sub' = [sub EXCEPT ![c] = s]
      /\ processFinished' = [processFinished EXCEPT ![c] = FALSE]
      /\ UNCHANGED <<child, sem, shmRT, load, gate, submsg, resp, urg, usr2>>
  <2>1. /\ sub[c].pc = "finish" /\ child[p].pc = "dead"
        /\ processFinished' = [processFinished EXCEPT ![c] = FALSE]
        /\ UNCHANGED <<child, sem, shmRT, load, gate, submsg, resp, urg, usr2>>
    BY DEF SubFinish
  <2>2. pcb' = [pcb EXCEPT ![p] = a]
    BY Zenon DEF SubFinish
  <2>3. sub' = [sub EXCEPT ![c] = s]
    BY Zenon DEF SubFinish
  <2>4. perf' = [perf EXCEPT ![c] = b]
    <3>1. perf' = [perf EXCEPT ![c].num_procs = @ + 1, ![c].waiting = @ + pcb[p].waiting_time,
                               ![c].total_runtime = @ + Runtime(p), ![c].finish_time = t]
      BY Zenon DEF SubFinish
    <3>2. QED
      BY <1>1, <3>1 DEF PerfRec
  <2>5. QED
    BY <2>1, <2>2, <2>3, <2>4
<1>3. p \in AllProcs /\ t \in Int /\ p # NoOne
  BY <1>1, <1>2 DEF Served, SubRec
<1>4. a \in PCBRec /\ b \in PerfRec
  <2>1. pcb[p] \in PCBRec /\ perf[c] \in PerfRec /\ Runtime(p) \in Nat
    BY <1>1, <1>3, WorkloadFacts
  <2>2. pcb[p].waiting_time \in Int
    BY <2>1 DEF PCBRec
  <2> DEFINE n == perf[c].num_procs + 1
             w == perf[c].waiting + pcb[p].waiting_time
             r == perf[c].total_runtime + Runtime(p)
  <2>3. n \in Nat /\ w \in Int /\ r \in Nat
    BY <2>1, <2>2 DEF PerfRec
  <2>4. b = [perf[c] EXCEPT !.num_procs = n, !.waiting = w, !.total_runtime = r, !.finish_time = t]
    BY <2>1 DEF PerfRec
  <2> HIDE DEF p, t, n, w, r, b
  <2>5. a \in PCBRec
    BY <1>3, <2>1 DEF PCBRec
  <2>6. b \in PerfRec
    BY <1>3, <2>1, <2>3, <2>4 DEF PerfRec
  <2>7. QED
    BY <2>5, <2>6
<1>5. s \in SubRec /\ s.curr = NoOne /\ s.pc = "down"
  <2> DEFINE u == t + 1
  <2>1. u \in Int
    BY <1>3
  <2>2. s = [sub[c] EXCEPT !.curr = NoOne, !.pc = "down", !.csu = u]
    OBVIOUS
  <2> HIDE DEF u, s, t
  <2>3. QED
    BY <1>1, <2>1, <2>2 DEF SubRec
<1> HIDE DEF a, b, s
<1>6. /\ sub' \in [CPUs -> SubRec] /\ pcb' \in [AllProcs -> PCBRec] /\ perf' \in [CPUs -> PerfRec]
      /\ processFinished' \in [CPUs -> BOOLEAN]
      /\ \A d \in CPUs : /\ sub'[d] = IF d = c THEN s ELSE sub[d]
                         /\ processFinished'[d] <=> d # c /\ processFinished[d]
  BY <1>1, <1>2, <1>3, <1>4, <1>5
<1>7. Served'
  <2>1. \A x \in AllProcs : child[x].cpu \in CPUs
    BY <1>1 DEF ChildRec
  <2>2. ASSUME NEW x \in AllProcs, child[x].pc \in {"down", "signal"}
        PROVE  sub'[child[x].cpu].curr = x
    <3>1. sub[child[x].cpu].curr = x
      BY <1>1, <2>2 DEF Served
    <3>2. x # p
      BY <1>2, <2>2
    <3>3. QED
      BY <1>6, <2>1, <3>1, <3>2
  <2>3. child' = child
    BY <1>2
  <2>4. \A d \in CPUs : processFinished'[d] \/ sub'[d].pc = "finish" => sub'[d].curr # NoOne
    BY <1>1, <1>5, <1>6 DEF Served
  <2>5. QED
    BY <1>1, <2>2, <2>3, <2>4 DEF Served
<1>8. EndsCounted'
  <2>1. /\ resp' = resp /\ resp \in Seq(Answer) /\ subs_terminated' = subs_terminated
        /\ subs_terminated \in Nat
    BY <1>2 DEF Shape, MessageTypes, MainTypes
  <2>2. \A d \in CPUs : sub[d].pc \in {"closing", "exited"} => sub'[d].pc \in {"closing", "exited"}
    BY <1>2, <1>6
  <2>3. Cardinality(AckPlaces(resp)) \in Nat
    BY <2>1, AckPlacesFinite
  <2>4. Cardinality(AckPlaces(resp')) <= Cardinality(AckPlaces(resp))
    BY <2>1, <2>3
  <2>5. QED
    BY <1>1, <2>1, <2>2, <2>4, EndsKept
<1>9. InputTypes' /\ MainTypes' /\ LoadTypes' /\ MessageTypes'
  BY <1>2 DEF Shape, InputTypes, MainTypes, LoadTypes, MessageTypes
<1>10. ChildTypes' /\ SubTypes'
  BY <1>2, <1>6 DEF Shape, ChildTypes, SubTypes
<1>11. QED
  BY <1>7, <1>8, <1>9, <1>10 DEF Shape

LEMMA DispatchShape ==
  ASSUME Shape, NEW c \in CPUs, UNCHANGED <<clk, workload, genvars, msgq, mainvars>>, SubDispatch(c)
  PROVE  Shape'
<1> USE DEF mainvars, inputvars, stallvars, endvars, genvars
<1>1. /\ sub \in [CPUs -> SubRec] /\ sub[c] \in SubRec /\ pcb \in [AllProcs -> PCBRec]
      /\ child \in [AllProcs -> ChildRec] /\ sem \in [CPUs -> 0..1] /\ shmRT \in [CPUs -> Nat]
      /\ load \in [CPUs -> LoadRec] /\ workload \in Workloads /\ NoOne \notin AllProcs
      /\ Served /\ EndsCounted
  BY SubReads DEF Shape
<1> DEFINE q == sub[c].ready
           p == Head(q)
           left == pcb[p].remaining_time
           r == [count |-> Len(q) - 1, rt |-> Remaining(q, pcb)]
           a == [pcb[p] EXCEPT !.state = "R", !.forked = TRUE, !.start_time = sub[c].now,
                               !.waiting_time = sub[c].now - Arrival(p)]
           k == [pc |-> AfterTick(left), cpu |-> c, stopped |-> FALSE, remainingtime |-> left]
           s == [sub[c] EXCEPT !.pc = "compute", !.curr = p, !.csu = -1, !.ready = Tail(q)]
<1>2. /\ sub[c].curr = NoOne /\ q # <<>> /\ sub[c].pc = "dispatch"
      /\ UNCHANGED <<processFinished, gate, submsg, resp, urg, usr2, perf>>
      /\ shmRT' = [shmRT EXCEPT ![c] = left] /\ sem' = [sem EXCEPT ![c] = 1]
      /\ load' = [load EXCEPT ![c] = r]
  BY DEF SubDispatch, CanDispatch, RunProcess
<1>3. sub' = [sub EXCEPT ![c] = s]
  BY Zenon DEF SubDispatch, Rest
<1>4. pcb' = [pcb EXCEPT ![p] = a] /\ child' = [child EXCEPT ![p] = k]
  BY Zenon DEF SubDispatch, RunProcess
<1>5. q \in Seq(AllProcs) /\ p \in AllProcs /\ Tail(q) \in Seq(AllProcs) /\ sub[c].now \in Int
      /\ Len(q) - 1 \in Nat
  <2>1. q \in Seq(AllProcs) /\ sub[c].now \in Int
    BY <1>1 DEF SubRec
  <2>2. QED
    BY <1>2, <2>1
<1>6. left \in Nat /\ pcb[p] \in PCBRec /\ Arrival(p) \in Nat
  BY <1>1, <1>5, WorkloadFacts DEF PCBRec
<1>7. r \in LoadRec
  BY <1>1, <1>5, RemainingNat DEF LoadRec
<1>8. a \in PCBRec
  <2> DEFINE w == sub[c].now - Arrival(p)
             n == sub[c].now
  <2>1. w \in Int /\ n \in Int
    BY <1>5, <1>6
  <2>2. a = [pcb[p] EXCEPT !.state = "R", !.forked = TRUE, !.start_time = n, !.waiting_time = w]
    OBVIOUS
  <2> HIDE DEF w, n, a, p
  <2>3. QED
    BY <1>6, <2>1, <2>2 DEF PCBRec
<1>9. k \in ChildRec /\ k.cpu = c /\ k.pc \in {"down", "signal"} /\ k.remainingtime = left
      /\ (k.pc = "down" => left > 0) /\ (k.pc = "signal" => left = 0)
  <2> HIDE DEF left, p, q
  <2>1. AfterTick(left) \in {"down", "signal"}
    BY DEF AfterTick
  <2>2. (AfterTick(left) = "down" => left > 0) /\ (AfterTick(left) = "signal" => left = 0)
    BY <1>6 DEF AfterTick
  <2>3. QED
    BY <1>6, <2>1, <2>2 DEF ChildRec
<1>10. s \in SubRec /\ s.curr = p /\ s.pc = "compute"
  <2> DEFINE u == Tail(q)
  <2>1. u \in Seq(AllProcs)
    BY <1>5
  <2>2. s = [sub[c] EXCEPT !.pc = "compute", !.curr = p, !.csu = -1, !.ready = u]
    OBVIOUS
  <2> HIDE DEF p, q, u, s
  <2>3. p \in AllProcs \cup {NoOne} /\ -1 \in Int
    BY <1>5
  <2>4. s \in SubRec
    BY <1>1, <2>1, <2>2, <2>3 DEF SubRec
  <2>5. s.curr = p /\ s.pc = "compute"
    BY <1>1, <2>2 DEF SubRec
  <2>6. QED
    BY <2>4, <2>5
<1> HIDE DEF q, p, left, r, a, k, s
<1>11. /\ sub' \in [CPUs -> SubRec] /\ pcb' \in [AllProcs -> PCBRec]
       /\ child' \in [AllProcs -> ChildRec] /\ load' \in [CPUs -> LoadRec]
       /\ shmRT' \in [CPUs -> Nat] /\ sem' \in [CPUs -> 0..1]
       /\ \A d \in CPUs : sub'[d] = IF d = c THEN s ELSE sub[d]
       /\ \A x \in AllProcs : child'[x] = IF x = p THEN k ELSE child[x]
  BY <1>1, <1>2, <1>3, <1>4, <1>5, <1>6, <1>7, <1>8, <1>9, <1>10
<1>12. Served'
  <2>1. \A x \in AllProcs : child[x].cpu \in CPUs
    BY <1>1 DEF ChildRec
  <2>2. ASSUME NEW x \in AllProcs, child'[x].pc \in {"down", "signal"}
        PROVE  sub'[child'[x].cpu].curr = x
    <3>1. CASE x = p
      BY <1>9, <1>10, <1>11, <3>1
    <3>2. CASE x # p
      <4>1. child'[x] = child[x] /\ sub[child[x].cpu].curr = x
        BY <1>1, <1>11, <2>2, <3>2 DEF Served
      <4>2. child[x].cpu # c
        BY <1>1, <1>2, <4>1
      <4>3. QED
        BY <1>11, <2>1, <4>1, <4>2
    <3>3. QED
      BY <3>1, <3>2
  <2>3. \A d \in CPUs : processFinished'[d] \/ sub'[d].pc = "finish" => sub'[d].curr # NoOne
    BY <1>1, <1>2, <1>5, <1>10, <1>11 DEF Served
  <2>4. ASSUME NEW x \in AllProcs
        PROVE  /\ child'[x].pc = "down" => child'[x].remainingtime > 0
               /\ child'[x].pc \in {"signal", "dead"} => child'[x].remainingtime = 0
    <3>1. CASE x = p
      BY <1>9, <1>11, <3>1
    <3>2. CASE x # p
      BY <1>1, <1>11, <3>2 DEF Served
    <3>3. QED
      BY <3>1, <3>2
  <2>5. QED
    BY <2>2, <2>3, <2>4 DEF Served
<1>13. EndsCounted'
  <2>1. /\ resp' = resp /\ resp \in Seq(Answer) /\ subs_terminated' = subs_terminated
        /\ subs_terminated \in Nat
    BY <1>2 DEF Shape, MessageTypes, MainTypes
  <2>2. \A d \in CPUs : sub[d].pc \in {"closing", "exited"} => sub'[d].pc \in {"closing", "exited"}
    BY <1>2, <1>11
  <2>3. Cardinality(AckPlaces(resp)) \in Nat
    BY <2>1, AckPlacesFinite
  <2>4. Cardinality(AckPlaces(resp')) <= Cardinality(AckPlaces(resp))
    BY <2>1, <2>3
  <2>5. QED
    BY <1>1, <2>1, <2>2, <2>4, EndsKept
<1>14. InputTypes' /\ MainTypes' /\ MessageTypes'
  BY <1>2 DEF Shape, InputTypes, MainTypes, MessageTypes
<1>15. ChildTypes' /\ SubTypes' /\ LoadTypes'
  BY <1>2, <1>11 DEF Shape, ChildTypes, SubTypes, LoadTypes
<1>16. QED
  BY <1>12, <1>13, <1>14, <1>15 DEF Shape

LEMMA AckShape ==
  ASSUME Shape, NEW c \in CPUs, UNCHANGED <<clk, workload, genvars, msgq, mainvars>>, SubAck(c)
  PROVE  Shape'
<1> USE DEF mainvars, inputvars, stallvars, endvars, genvars, childvars
<1>1. /\ sub \in [CPUs -> SubRec] /\ sub[c] \in SubRec /\ resp \in Seq(Answer)
      /\ child \in [AllProcs -> ChildRec] /\ Served /\ EndsCounted
      /\ subs_terminated \in Nat
  BY SubReads DEF Shape, MainTypes
<1>2. /\ sub[c].pc = "ack" /\ resp' = Append(resp, AckMsg)
      /\ sub' = [sub EXCEPT ![c].pc = "closing"]
      /\ UNCHANGED <<childvars, load, gate, submsg, urg, usr2, pcb, perf, subs_terminated>>
  BY DEF SubAck, SubGoto, AckMsg
<1>3. /\ sub' \in [CPUs -> SubRec]
      /\ \A d \in CPUs : sub'[d].curr = sub[d].curr
      /\ \A d \in CPUs : sub'[d].pc = IF d = c THEN "closing" ELSE sub[d].pc
  BY <1>1, <1>2 DEF SubRec
<1>4. Served'
  <2>1. \A d \in CPUs : sub'[d].pc = "finish" => sub[d].pc = "finish"
    BY <1>3
  <2>2. QED
    BY <1>1, <1>2, <1>3, <2>1, ServedKept
<1>5. resp' \in Seq(Answer)
  BY <1>1, <1>2, AckTypes
<1>6. EndsCounted'
  <2> DEFINE a == Cardinality(AckPlaces(resp))
             b == Cardinality(AckPlaces(resp'))
             f == Ended
             d == Ended'
  <2>1. a \in Nat /\ b = a + 1
    BY <1>1, <1>2, AckPlacesFinite, AppendAcks, AckTypes
  <2>2. d = f \cup {c} /\ c \notin f /\ f \in SUBSET CPUs
    BY <1>2, <1>3 DEF Ended
  <2>3. subs_terminated + a <= Cardinality(f)
    BY <1>1 DEF EndsCounted, Acks, AckPlaces
  <2>4. EndsCounted' <=> subs_terminated' + b <= Cardinality(d)
    BY DEF EndsCounted, Acks, AckPlaces
  <2> HIDE DEF a, b, d, f
  <2>5. IsFiniteSet(f) /\ Cardinality(f) \in Nat
    BY <2>2, CPUsFinite
  <2>6. Cardinality(d) = Cardinality(f) + 1
    BY <2>2, <2>5, FS_AddElement
  <2>7. QED
    BY <1>1, <1>2, <2>1, <2>3, <2>4, <2>5, <2>6
<1>7. InputTypes' /\ MainTypes' /\ LoadTypes'
  BY <1>2 DEF Shape, InputTypes, MainTypes, LoadTypes
<1>8. ChildTypes' /\ SubTypes' /\ MessageTypes'
  BY <1>2, <1>3, <1>5 DEF Shape, ChildTypes, SubTypes, MessageTypes
<1>9. QED
  BY <1>4, <1>6, <1>7, <1>8 DEF Shape

LEMMA StealHandlerShape ==
  ASSUME Shape, NEW c \in CPUs, UNCHANGED <<clk, workload, genvars, msgq, mainvars>>, OnSIGURG(c)
  PROVE  Shape'
<1>1. /\ sub \in [CPUs -> SubRec] /\ sub[c] \in SubRec /\ perf \in [CPUs -> PerfRec]
      /\ child \in [AllProcs -> ChildRec]
      /\ sem \in [CPUs -> 0..1] /\ load \in [CPUs -> LoadRec] /\ gate \in 0..2
      /\ resp \in Seq(Answer) /\ Cardinality(AckPlaces(resp)) \in Nat
      /\ urg \subseteq CPUs /\ usr2 \subseteq CPUs
  BY SubReads
<1> DEFINE d == Drained(c)
           q == d.ready
<1>2. /\ UNCHANGED <<childvars, load, gate, usr2, perf>>
      /\ DrainMessages(c) /\ pcb' = DrainedPCB(c) /\ urg' = urg \ {c}
      /\ \/ /\ sub' = [sub EXCEPT ![c] = d]
            /\ resp' = Append(resp, Msg(MTYPE_STEAL_EMPTY, Ghost))
         \/ /\ q # <<>> /\ sub' = [sub EXCEPT ![c] = [d EXCEPT !.ready = Front(q)]]
            /\ resp' = Append(resp, Msg(MTYPE_STEAL_RESPONSE, Last(q)))
  BY DEF OnSIGURG, AllButLast
<1>3. /\ d \in SubRec /\ d.curr = sub[c].curr /\ d.pc = sub[c].pc /\ q \in Seq(AllProcs)
      /\ pcb' \in [AllProcs -> PCBRec] /\ submsg' \in [CPUs -> Seq(Order)]
  BY <1>2, DrainTypes DEF SubRec
<1> HIDE DEF d, q
<1>4. q # <<>> => Last(q) \in AllProcs /\ Front(q) \in Seq(AllProcs)
  BY <1>3, FrontPlace
<1>5. PICK s \in SubRec : Around(c, s) /\ s.curr = sub[c].curr /\ s.pc = sub[c].pc
  <2>1. q # <<>> => /\ [d EXCEPT !.ready = Front(q)] \in SubRec
                    /\ [d EXCEPT !.ready = Front(q)].curr = d.curr
                    /\ [d EXCEPT !.ready = Front(q)].pc = d.pc
    BY <1>3, <1>4 DEF SubRec
  <2>2. QED
    BY <1>2, <1>3, <2>1 DEF Around
<1>6. PICK m \in Answer : m # AckMsg /\ resp' = Append(resp, m)
  BY <1>2, <1>4, AckTypes
<1>7. resp' \in Seq(Answer) /\ Cardinality(AckPlaces(resp')) <= Cardinality(AckPlaces(resp))
  BY <1>1, <1>6, AppendAcks
<1>8. s.pc = "finish" => sub[c].pc = "finish"
  BY <1>5
<1>9. /\ child' \in [AllProcs -> ChildRec] /\ sem' \in [CPUs -> 0..1]
      /\ \A p \in AllProcs : /\ child'[p].pc = child[p].pc /\ child'[p].cpu = child[p].cpu
                             /\ child'[p].remainingtime = child[p].remainingtime
      /\ load' \in [CPUs -> LoadRec] /\ gate' \in 0..2
      /\ urg' \subseteq CPUs /\ usr2' \subseteq CPUs /\ perf' \in [CPUs -> PerfRec]
      /\ shmRT' = shmRT /\ processFinished' = processFinished
  BY <1>1, <1>2 DEF childvars
<1>10. QED
  BY <1>3, <1>5, <1>7, <1>8, <1>9, SubKeeps

LEMMA StallHandlerShape ==
  ASSUME Shape, NEW c \in CPUs, UNCHANGED <<clk, workload, genvars, msgq, mainvars>>, OnSIGUSR2(c)
  PROVE  Shape'
<1>1. /\ sub \in [CPUs -> SubRec] /\ sub[c] \in SubRec /\ shmRT \in [CPUs -> Nat]
      /\ child \in [AllProcs -> ChildRec]
      /\ sem \in [CPUs -> 0..1] /\ load \in [CPUs -> LoadRec] /\ gate \in 0..2
      /\ resp \in Seq(Answer) /\ Cardinality(AckPlaces(resp)) \in Nat
      /\ urg \subseteq CPUs /\ usr2 \subseteq CPUs /\ clk \in Int /\ NoOne \notin AllProcs
  BY SubReads
<1> DEFINE d == Drained(c)
           e == StallEnd
           p == sub[c].curr
           t == shmRT[c]
           s == [d EXCEPT !.stalled = TRUE, !.stall_end = e]
<1>2. /\ UNCHANGED <<sem, shmRT, processFinished, load, gate, resp, urg>>
      /\ DrainMessages(c) /\ NoteFirstArrival(c) /\ usr2' = usr2 \ {c}
      /\ sub' = [sub EXCEPT ![c] = s]
      /\ \/ pcb' = DrainedPCB(c) /\ child' = child
         \/ /\ p # NoOne
            /\ pcb' = [DrainedPCB(c) EXCEPT ![p] =
                         [@ EXCEPT !.last_stopped = clk, !.state = "W", !.remaining_time = t]]
            /\ child' = [child EXCEPT ![p].stopped = TRUE]
  BY DEF OnSIGUSR2
<1>3. /\ d \in SubRec /\ d.curr = sub[c].curr /\ d.pc = sub[c].pc
      /\ DrainedPCB(c) \in [AllProcs -> PCBRec] /\ submsg' \in [CPUs -> Seq(Order)]
      /\ perf' \in [CPUs -> PerfRec]
  BY <1>2, DrainTypes
<1>4. e \in Int /\ t \in Nat
  BY <1>1 DEF StallEnd
<1>5. p # NoOne => p \in AllProcs
  BY <1>1 DEF SubRec
<1> HIDE DEF d, e, p, t
<1>6. pcb' \in [AllProcs -> PCBRec]
  <2>1. \A r \in PCBRec : [r EXCEPT !.last_stopped = clk, !.state = "W", !.remaining_time = t] \in PCBRec
    BY <1>1, <1>4 DEF PCBRec
  <2>2. p # NoOne => DrainedPCB(c)[p] \in PCBRec
    BY <1>3, <1>5
  <2>3. QED
    BY <1>2, <1>3, <1>5, <2>1, <2>2
<1>7. /\ child' \in [AllProcs -> ChildRec]
      /\ \A x \in AllProcs : /\ child'[x].pc = child[x].pc /\ child'[x].cpu = child[x].cpu
                             /\ child'[x].remainingtime = child[x].remainingtime
  <2>1. CASE child' = child
    BY <1>1, <2>1
  <2>2. CASE p # NoOne /\ child' = [child EXCEPT ![p].stopped = TRUE]
    BY <1>1, <1>5, <2>2 DEF ChildRec
  <2>3. QED
    BY <1>2, <2>1, <2>2
<1>8. s \in SubRec /\ s.curr = sub[c].curr /\ s.pc = sub[c].pc
  BY <1>3, <1>4 DEF SubRec
<1> HIDE DEF s
<1>9. Around(c, s)
  BY <1>2 DEF Around
<1>10. s.pc = "finish" => sub[c].pc = "finish"
  BY <1>8
<1>11. /\ sem' \in [CPUs -> 0..1] /\ load' \in [CPUs -> LoadRec] /\ gate' \in 0..2
       /\ urg' \subseteq CPUs /\ usr2' \subseteq CPUs /\ resp' \in Seq(Answer)
       /\ Cardinality(AckPlaces(resp')) <= Cardinality(AckPlaces(resp))
       /\ shmRT' = shmRT /\ processFinished' = processFinished
  BY <1>1, <1>2
<1>12. QED
  BY <1>3, <1>6, <1>7, <1>8, <1>9, <1>10, <1>11, SubKeeps

LEMMA ShapeStep ==
  ASSUME Shape, DualNext
  PROVE  Shape'
<1>1. CASE Terminated
  BY <1>1, GeneratorShape DEF Terminated
<1>2. ASSUME NEW c \in CPUs, SubScheduler(c) \/ Handler(c) PROVE Shape'
  <2>1. UNCHANGED <<clk, workload, genvars, msgq, mainvars>>
    BY <1>2 DEF SubScheduler, Handler
  <2>2. \/ Spin(c) \/ SubNewTick(c) \/ Frame(c)
        \/ SubFinish(c) \/ SubDispatch(c) \/ SubAck(c) \/ OnSIGURG(c) \/ OnSIGUSR2(c)
        \/ Publish(c, "spin", "loop") \/ Publish(c, "write", "read") \/ Publish(c, "last", "ack")
        \/ Compute(c, "compute", "write") \/ Compute(c, "left", "last")
        \/ ReadOther(c) \/ SubLeave(c) \/ SubExit(c) \/ NoDispatch(c) \/ DownGate(c)
    BY <1>2 DEF SubScheduler, Handler
  <2>3. QED
    BY <2>1, <2>2, DrainShape, FinishShape, DispatchShape, AckShape, StealHandlerShape,
       StallHandlerShape, PublishShape
<1>3. QED
  BY <1>1, <1>2, DispatcherShape, GeneratorShape, ChildShape DEF DualNext

LEMMA ShapeInit == DualInit => Shape
<1> SUFFICES ASSUME DualInit PROVE Shape
  OBVIOUS
<1> USE DEF DualInit
<1>1. /\ workload \in Workloads /\ workload.order \in Seq(Procs) /\ NoOne \notin AllProcs
      /\ \A p \in AllProcs : Runtime(p) \in Nat
  BY WorkloadFacts, DualAssumption
<1>2. InputTypes
  BY <1>1, DualAssumption DEF InputTypes, GenInit, NoMessage
<1>3. ChildTypes
  BY DEF ChildTypes, NoChild, ChildRec, CPUs
<1>4. MessageTypes
  BY DEF MessageTypes
<1>5. LoadTypes
  BY DEF LoadTypes, NoLoad, LoadRec
<1>6. MainTypes
  <2>1. /\ pc = "spin" /\ now = -1 /\ readyQueue = <<>> /\ receivingProcesses = TRUE
        /\ term_sent = FALSE /\ subs_terminated = 0 /\ wait_sub = 0
        /\ stalled = FALSE /\ wait_until = -1 /\ movedAt = -1
    OBVIOUS
  <2>2. readyQueue \in Seq(Procs)
    BY <2>1
  <2>3. now \in Int /\ wait_until \in Int /\ movedAt \in Int
    BY <2>1
  <2> HIDE DEF DualInit
  <2>4. QED
    BY <2>1, <2>2, <2>3 DEF MainTypes
<1>7. SubTypes
  <2>1. IdleSub \in SubRec
    BY DEF IdleSub, SubRec, NoLoad, LoadRec, NoOne, CPUs
  <2>2. \A p \in AllProcs : NewPCB(p) \in PCBRec
    BY <1>1, NewPCBType
  <2>3. QED
    BY <2>1, <2>2 DEF SubTypes, PerfRec
<1>8. Served
  BY DEF Served, NoChild, IdleSub
<1>9. EndsCounted
  <2>1. Acks = {} /\ Cardinality(Acks) = 0
    BY FS_EmptySet DEF Acks
  <2>2. Cardinality(Ended) \in Nat
    <3>1. Ended \in SUBSET CPUs
      BY DEF Ended
    <3>2. QED
      BY <3>1, CPUsFinite
  <2>3. QED
    BY <2>1, <2>2 DEF EndsCounted
<1>10. QED
  BY <1>2, <1>3, <1>4, <1>5, <1>6, <1>7, <1>8, <1>9 DEF Shape

LEMMA ShapeTypes == Shape => DualTypeOK
<1> SUFFICES ASSUME Shape PROVE DualTypeOK
  OBVIOUS
<1>1. subs_terminated \in 0..2
  <2>1. subs_terminated \in Nat /\ Cardinality(Acks) \in Nat
    <3>1. resp \in Seq(Answer) /\ subs_terminated \in Nat
      BY DEF Shape, MessageTypes, MainTypes
    <3>2. QED
      BY <3>1, AckPlacesFinite DEF Acks, AckPlaces
  <2>2. Cardinality(Ended) \in 0..2
    <3>1. Ended \in SUBSET CPUs
      BY DEF Ended
    <3>2. QED
      BY <3>1, CPUsFinite
  <2>3. subs_terminated + Cardinality(Acks) <= Cardinality(Ended)
    BY DEF Shape, EndsCounted
  <2>4. QED
    BY <2>1, <2>2, <2>3
<1>2. submsg \in [CPUs -> Seq([mtype: {1, 5}, proc: AllProcs])]
  <2>1. Order \subseteq [mtype: {1, 5}, proc: AllProcs]
    BY AckTypes DEF Order, MTYPE_NEW_PROCESS, MTYPE_TERMINATE
  <2>2. \A q \in Seq(Order) : q \in Seq([mtype: {1, 5}, proc: AllProcs])
    BY <2>1, SeqOfMore
  <2>3. QED
    BY <2>2 DEF Shape, MessageTypes
<1>3. resp \in Seq([mtype: {6, 11, 12}, proc: AllProcs])
  <2>1. Answer \subseteq [mtype: {6, 11, 12}, proc: AllProcs]
    BY AckTypes DEF Answer, MTYPE_ACK, MTYPE_STEAL_RESPONSE, MTYPE_STEAL_EMPTY
  <2>2. \A q \in Seq(Answer) : q \in Seq([mtype: {6, 11, 12}, proc: AllProcs])
    BY <2>1, SeqOfMore
  <2>3. QED
    BY <2>2 DEF Shape, MessageTypes
<1>4. QED
  BY <1>1, <1>2, <1>3
     DEF Shape, DualTypeOK, InputTypes, ChildTypes, ChildRec, LoadTypes, MainTypes, MessageTypes,
         SubTypes, PerfRec

\* The variables keep their types and bounds: no load, no remaining time and no
\* runtime of a report becomes negative, no semaphore of a child exceeds one, and the
\* dispatcher counts at most two acknowledgements.
THEOREM DualTypeCorrect == DualSpec => []DualTypeOK
<1>1. DualInit => Shape
  BY ShapeInit
<1>2. Shape /\ [DualNext]_dualvars => Shape'
  BY ShapeStep, GeneratorShape
<1>3. Shape => DualTypeOK
  BY ShapeTypes
<1>4. QED
  BY <1>1, <1>2, <1>3, PTL DEF DualSpec
-----------------------------------------------------------------------------
(* Where the processes are.                                                *)

Place == [l \in Locations |-> At(l)]

AtDispatcher == <<"received", 0>>
Arriving == <<"arrived", 0>>
Answered == <<"answer", 0>>
SentTo(c) == <<"sent", c>>
ReadyOn(c) == <<"ready", c>>
RunningOn(c) == <<"running", c>>

\* The processes that the generator has sent.
Known == ToSet(workload.order) \ ToSet(g_queue)

Live == {p \in Known : ~Finished(p)}

\* Every process of S is in one location, once, and no other process is in any.
Sound(H, S) ==
    /\ \A l \in Locations : Once(H[l])
    /\ \A l, m \in Locations : l # m => Real(H[l]) \cap Real(H[m]) = {}
    /\ \A p \in Procs : p \in S <=> \E l \in Locations : p \in Real(H[l])

Places ==
    /\ Sound(Place, Live)
    /\ IsInjective(g_queue) /\ ToSet(g_queue) \subseteq ToSet(workload.order)
    /\ \A p \in Procs : Finished(p) => p \in Known

LEMMA LocationsAre ==
  /\ \A l \in Locations : \/ l \in {Arriving, AtDispatcher, Answered}
                          \/ \E c \in CPUs : l \in {SentTo(c), ReadyOn(c), RunningOn(c)}
  /\ {Arriving, AtDispatcher, Answered} \subseteq Locations
  /\ \A c \in CPUs : {SentTo(c), ReadyOn(c), RunningOn(c)} \subseteq Locations
  /\ Arriving # AtDispatcher /\ Arriving # Answered /\ AtDispatcher # Answered
  /\ \A c \in CPUs : /\ Arriving \notin {SentTo(c), ReadyOn(c), RunningOn(c)}
                     /\ AtDispatcher \notin {SentTo(c), ReadyOn(c), RunningOn(c)}
                     /\ Answered \notin {SentTo(c), ReadyOn(c), RunningOn(c)}
  /\ \A c, d \in CPUs : /\ SentTo(c) # ReadyOn(d) /\ SentTo(c) # RunningOn(d)
                        /\ ReadyOn(c) # RunningOn(d)
  /\ \A c, d \in CPUs : c # d => /\ SentTo(c) # SentTo(d) /\ ReadyOn(c) # ReadyOn(d)
                                 /\ RunningOn(c) # RunningOn(d)
<1> USE DEF Locations, Arriving, AtDispatcher, Answered, SentTo, ReadyOn, RunningOn
<1>1. ASSUME NEW l \in Locations
      PROVE  \/ l \in {Arriving, AtDispatcher, Answered}
             \/ \E c \in CPUs : l \in {SentTo(c), ReadyOn(c), RunningOn(c)}
  <2>1. CASE l \in {"arrived", "received", "answer"} \X {0}
    BY <2>1
  <2>2. CASE l \in {"sent", "ready", "running"} \X CPUs
    BY <2>2
  <2>3. QED
    BY <2>1, <2>2
<1>2. {Arriving, AtDispatcher, Answered} \subseteq Locations
  OBVIOUS
<1>3. \A c \in CPUs : {SentTo(c), ReadyOn(c), RunningOn(c)} \subseteq Locations
  OBVIOUS
<1>4. Arriving # AtDispatcher /\ Arriving # Answered /\ AtDispatcher # Answered
  OBVIOUS
<1>5. \A c \in CPUs : /\ Arriving \notin {SentTo(c), ReadyOn(c), RunningOn(c)}
                      /\ AtDispatcher \notin {SentTo(c), ReadyOn(c), RunningOn(c)}
                      /\ Answered \notin {SentTo(c), ReadyOn(c), RunningOn(c)}
  OBVIOUS
<1>6. \A c, d \in CPUs : /\ SentTo(c) # ReadyOn(d) /\ SentTo(c) # RunningOn(d)
                         /\ ReadyOn(c) # RunningOn(d)
  OBVIOUS
<1>7. \A c, d \in CPUs : c # d => /\ SentTo(c) # SentTo(d) /\ ReadyOn(c) # ReadyOn(d)
                                  /\ RunningOn(c) # RunningOn(d)
  OBVIOUS
<1> HIDE DEF Locations, Arriving, AtDispatcher, Answered, SentTo, ReadyOn, RunningOn
<1>8. QED
  BY <1>1, <1>2, <1>3, <1>4, <1>5, <1>6, <1>7

\* What one CPU runs, as a sequence.
OnCPU(p) == IF p = NoOne THEN <<>> ELSE <<p>>

LEMMA PlaceAt ==
  /\ Place[Arriving] = msgq.arrived /\ Place[AtDispatcher] = readyQueue
  /\ Place[Answered] = Carried(resp)
  /\ \A c \in CPUs : /\ Place[SentTo(c)] = Carried(submsg[c])
                     /\ Place[ReadyOn(c)] = sub[c].ready
                     /\ Place[RunningOn(c)] = OnCPU(sub[c].curr)
<1>1. \A l \in Locations : Place[l] = At(l)
  BY DEF Place
<1>2. At(Arriving) = msgq.arrived
  BY DEF At, Arriving
<1>3. At(AtDispatcher) = readyQueue
  BY DEF At, AtDispatcher
<1>4. At(Answered) = Carried(resp)
  BY DEF At, Answered
<1>5. ASSUME NEW c \in CPUs
      PROVE  /\ At(SentTo(c)) = Carried(submsg[c]) /\ At(ReadyOn(c)) = sub[c].ready
             /\ At(RunningOn(c)) = OnCPU(sub[c].curr)
  BY DEF At, SentTo, ReadyOn, RunningOn, OnCPU
<1>6. QED
  BY <1>1, <1>2, <1>3, <1>4, <1>5, LocationsAre

LEMMA PlaceNext ==
  /\ Place'[Arriving] = msgq'.arrived /\ Place'[AtDispatcher] = readyQueue'
  /\ Place'[Answered] = Carried(resp')
  /\ \A c \in CPUs : /\ Place'[SentTo(c)] = Carried(submsg'[c])
                     /\ Place'[ReadyOn(c)] = sub'[c].ready
                     /\ Place'[RunningOn(c)] = OnCPU(sub'[c].curr)
<1>1. \A l \in Locations : Place'[l] = At(l)'
  BY DEF Place
<1>2. At(Arriving)' = msgq'.arrived
  BY DEF At, Arriving
<1>3. At(AtDispatcher)' = readyQueue'
  BY DEF At, AtDispatcher
<1>4. At(Answered)' = Carried(resp')
  BY DEF At, Answered
<1>5. ASSUME NEW c \in CPUs
      PROVE  /\ At(SentTo(c))' = Carried(submsg'[c]) /\ At(ReadyOn(c))' = sub'[c].ready
             /\ At(RunningOn(c))' = OnCPU(sub'[c].curr)
  BY DEF At, SentTo, ReadyOn, RunningOn, OnCPU
<1>6. QED
  BY <1>1, <1>2, <1>3, <1>4, <1>5, LocationsAre

\* A location changes only with what it stands for.
LEMMA Elsewhere ==
  ASSUME NEW l \in Locations
  PROVE  \/ Place'[l] = Place[l]
         \/ l = Arriving /\ msgq'.arrived # msgq.arrived
         \/ l = AtDispatcher /\ readyQueue' # readyQueue
         \/ l = Answered /\ resp' # resp
         \/ \E c \in CPUs : \/ l = SentTo(c) /\ submsg'[c] # submsg[c]
                            \/ l = ReadyOn(c) /\ sub'[c].ready # sub[c].ready
                            \/ l = RunningOn(c) /\ sub'[c].curr # sub[c].curr
<1>1. CASE l \in {Arriving, AtDispatcher, Answered}
  BY <1>1, PlaceAt, PlaceNext
<1>2. CASE \E c \in CPUs : l \in {SentTo(c), ReadyOn(c), RunningOn(c)}
  <2>1. PICK c \in CPUs : l \in {SentTo(c), ReadyOn(c), RunningOn(c)}
    BY <1>2
  <2>2. CASE l = SentTo(c)
    BY <2>2, PlaceAt, PlaceNext
  <2>3. CASE l = ReadyOn(c)
    BY <2>3, PlaceAt, PlaceNext
  <2>4. CASE l = RunningOn(c)
    BY <2>4, PlaceAt, PlaceNext
  <2>5. QED
    BY <2>1, <2>2, <2>3, <2>4
<1>3. QED
  BY <1>1, <1>2, LocationsAre

LEMMA OnCPUIs ==
  ASSUME NEW p \in AllProcs \cup {NoOne}
  PROVE  /\ Real(OnCPU(p)) = {p} \cap Procs /\ Once(OnCPU(p))
         /\ p = NoOne => Real(OnCPU(p)) = {}
<1>1. CASE p = NoOne
  <2>1. NoOne \notin Procs
    BY DualAssumption DEF AllProcs
  <2>2. Real(OnCPU(p)) = {} /\ Once(OnCPU(p))
    BY <1>1, EmptyPlace DEF OnCPU
  <2>3. QED
    BY <1>1, <2>1, <2>2
<1>2. CASE p # NoOne
  BY <1>2, SinglePlace DEF OnCPU
<1>3. QED
  BY <1>1, <1>2

LEMMA SameSound ==
  ASSUME NEW H, NEW G, NEW S, Sound(H, S),
         \A l \in Locations : Real(G[l]) = Real(H[l]) /\ (Once(H[l]) => Once(G[l]))
  PROVE  Sound(G, S)
  BY DEF Sound

\* The processes of X go from location a to location b.
LEMMA MoveSound ==
  ASSUME NEW H, NEW G, NEW S, Sound(H, S),
         NEW a \in Locations, NEW b \in Locations, a # b, NEW X \in SUBSET Procs,
         Real(H[a]) = X \cup Real(G[a]),
         Once(H[a]) => Once(G[a]) /\ X \cap Real(G[a]) = {},
         Real(G[b]) = Real(H[b]) \cup X,
         Once(H[b]) /\ X \cap Real(H[b]) = {} => Once(G[b]),
         \A l \in Locations \ {a, b} : G[l] = H[l]
  PROVE  Sound(G, S)
<1>1. Once(H[a]) /\ Once(H[b]) /\ Real(H[a]) \cap Real(H[b]) = {}
  BY DEF Sound
<1>2. Once(G[a]) /\ X \cap Real(G[a]) = {} /\ Once(G[b])
  BY <1>1
<1>3. \A l \in Locations : Once(G[l])
  BY <1>2 DEF Sound
<1>4. ASSUME NEW l \in Locations, NEW m \in Locations, l # m, NEW p \in Procs,
             p \in Real(G[l]), p \in Real(G[m])
      PROVE  FALSE
  <2>1. \A k \in Locations : p \in Real(G[k]) => \/ p \in Real(H[k])
                                                 \/ k = b /\ p \in X
    <3> TAKE k \in Locations
    <3>1. CASE k = a
      BY <3>1
    <3>2. CASE k = b
      BY <3>2
    <3>3. CASE k # a /\ k # b
      BY <3>3
    <3>4. QED
      BY <3>1, <3>2, <3>3
  <2>2. \A k \in Locations, n \in Locations : k # n => ~(p \in Real(H[k]) /\ p \in Real(H[n]))
    BY DEF Sound
  <2>3. p \in X => p \in Real(H[a])
    OBVIOUS
  <2>4. p \in X => p \notin Real(G[a])
    BY <1>2
  <2>5. CASE p \in X
    <3>1. \A k \in Locations : p \in Real(G[k]) => k = b
      BY <2>1, <2>2, <2>3, <2>4, <2>5
    <3>2. QED
      BY <1>4, <3>1
  <2>6. CASE p \notin X
    BY <1>4, <2>1, <2>2, <2>6
  <2>7. QED
    BY <2>5, <2>6
<1>5. \A l, m \in Locations : l # m => Real(G[l]) \cap Real(G[m]) = {}
  BY <1>4 DEF Real
<1>6. ASSUME NEW p \in Procs
      PROVE  (\E l \in Locations : p \in Real(H[l])) <=> (\E l \in Locations : p \in Real(G[l]))
  <2>1. ASSUME NEW l \in Locations, p \in Real(H[l]) PROVE \E m \in Locations : p \in Real(G[m])
    <3>1. CASE l = a
      BY <2>1, <3>1
    <3>2. CASE l = b
      BY <2>1, <3>2
    <3>3. CASE l # a /\ l # b
      BY <2>1, <3>3
    <3>4. QED
      BY <3>1, <3>2, <3>3
  <2>2. ASSUME NEW l \in Locations, p \in Real(G[l]) PROVE \E m \in Locations : p \in Real(H[m])
    <3>1. CASE l = a
      BY <2>2, <3>1
    <3>2. CASE l = b
      BY <2>2, <3>2
    <3>3. CASE l # a /\ l # b
      BY <2>2, <3>3
    <3>4. QED
      BY <3>1, <3>2, <3>3
  <2>3. QED
    BY <2>1, <2>2
<1>7. QED
  BY <1>3, <1>5, <1>6 DEF Sound

\* A process that is nowhere comes to location b.
LEMMA AddSound ==
  ASSUME NEW H, NEW G, NEW S, NEW T, Sound(H, S),
         NEW b \in Locations, NEW x \in Procs, x \notin S, T = S \cup {x},
         Real(G[b]) = Real(H[b]) \cup {x},
         Once(H[b]) /\ x \notin Real(H[b]) => Once(G[b]),
         \A l \in Locations \ {b} : G[l] = H[l]
  PROVE  Sound(G, T)
<1>1. \A l \in Locations : x \notin Real(H[l])
  BY DEF Sound
<1>2. \A l \in Locations : Once(G[l])
  BY <1>1 DEF Sound
<1>3. \A l \in Locations : Real(G[l]) = Real(H[l]) \cup IF l = b THEN {x} ELSE {}
  OBVIOUS
<1>4. \A l, m \in Locations : l # m => Real(G[l]) \cap Real(G[m]) = {}
  <2>1. \A l, m \in Locations : l # m => Real(H[l]) \cap Real(H[m]) = {}
    BY DEF Sound
  <2>2. QED
    BY <1>1, <1>3, <2>1
<1>5. \A p \in Procs : p \in T <=> \E l \in Locations : p \in Real(G[l])
  <2>1. \A p \in Procs : p \in S <=> \E l \in Locations : p \in Real(H[l])
    BY DEF Sound
  <2>2. QED
    BY <1>3, <2>1
<1>6. QED
  BY <1>2, <1>4, <1>5 DEF Sound

\* The process in location a, if it is one, leaves.
LEMMA RemoveSound ==
  ASSUME NEW H, NEW G, NEW S, NEW T, Sound(H, S),
         NEW a \in Locations, NEW X \in SUBSET Procs, T = S \ X,
         Real(H[a]) = X, Real(G[a]) = {}, Once(G[a]),
         \A l \in Locations \ {a} : G[l] = H[l]
  PROVE  Sound(G, T)
<1>1. \A l \in Locations : Once(G[l])
  BY DEF Sound
<1>2. \A l \in Locations : l # a => Real(H[l]) \cap X = {}
  BY DEF Sound
<1>3. \A l \in Locations : Real(G[l]) = Real(H[l]) \ X
  BY <1>2
<1>4. \A l, m \in Locations : l # m => Real(G[l]) \cap Real(G[m]) = {}
  <2>1. \A l, m \in Locations : l # m => Real(H[l]) \cap Real(H[m]) = {}
    BY DEF Sound
  <2>2. QED
    BY <1>3, <2>1
<1>5. \A p \in Procs : p \in T <=> \E l \in Locations : p \in Real(G[l])
  <2>1. \A p \in Procs : p \in S <=> \E l \in Locations : p \in Real(H[l])
    BY DEF Sound
  <2>2. QED
    BY <1>3, <2>1
<1>6. QED
  BY <1>1, <1>4, <1>5 DEF Sound

LEMMA KnownProcs ==
  ASSUME Shape
  PROVE  Known \in SUBSET Procs
<1>1. workload.order \in Seq(Procs)
  BY WorkloadFacts DEF Shape, InputTypes
<1>2. QED
  BY <1>1 DEF Known, ToSet

\* Places is preserved by a step that keeps what the generator has sent and who has
\* finished, if the locations stay sound.
LEMMA PlacesKept ==
  ASSUME Shape, Places, UNCHANGED <<workload, g_queue>>,
         \A p \in Procs : pcb'[p].state = "F" <=> pcb[p].state = "F",
         Sound(Place', Live)
  PROVE  Places'
<1>1. Known' = Known
  BY DEF Known
<1>2. Live' = Live
  BY <1>1, KnownProcs DEF Live, Finished
<1>3. Sound(Place, Live)'
  BY <1>2 DEF Sound
<1>4. QED
  BY <1>1, <1>3 DEF Places, Finished

LEMMA UnmovedPlaces ==
  ASSUME Shape, Places, UNCHANGED <<workload, g_queue, readyQueue, resp, submsg>>,
         msgq'.arrived = msgq.arrived,
         \A c \in CPUs : sub'[c].ready = sub[c].ready /\ sub'[c].curr = sub[c].curr,
         \A p \in Procs : pcb'[p].state = "F" <=> pcb[p].state = "F"
  PROVE  Places'
<1>1. \A l \in Locations : Place'[l] = Place[l]
  BY LocationsAre, PlaceAt, PlaceNext
<1>2. Sound(Place, Live)
  BY DEF Places
<1>3. Sound(Place', Live)
  BY <1>1, <1>2, SameSound
<1>4. QED
  BY <1>3, PlacesKept

LEMMA CountAcksPlaces ==
  ASSUME Shape, Places, CountAcks,
         UNCHANGED <<workload, g_queue, readyQueue, submsg, msgq, sub, pcb>>
  PROVE  Places'
<1>1. /\ Real(Carried(resp')) = Real(Carried(resp))
      /\ Once(Carried(resp)) => Once(Carried(resp'))
  BY FilterCarried DEF Shape, MessageTypes, CountAcks
<1>2. \A l \in Locations \ {Answered} : Place'[l] = Place[l]
  BY LocationsAre, PlaceAt, PlaceNext
<1>3. Sound(Place, Live)
  BY DEF Places
<1>4. \A l \in Locations : /\ Real(Place'[l]) = Real(Place[l])
                           /\ Once(Place[l]) => Once(Place'[l])
  BY <1>1, <1>2, PlaceAt, PlaceNext
<1>5. Sound(Place', Live)
  BY <1>3, <1>4, SameSound
<1>6. QED
  BY <1>5, PlacesKept

LEMMA ReceivePlaces ==
  ASSUME Shape, Places, ReceiveProcess, UNCHANGED <<workload, g_queue>>
  PROVE  Places'
<1> DEFINE q == msgq.arrived
           p == Head(q)
           X == {p}
<1>1. /\ q # <<>> /\ q \in Seq(Procs) /\ readyQueue \in Seq(Procs)
      /\ readyQueue' = Append(readyQueue, p)
      /\ msgq' = [msgq EXCEPT !.arrived = Tail(q)]
      /\ msgq \in [arrived: Seq(Procs), sync: Seq(Int), end: BOOLEAN]
      /\ UNCHANGED <<resp, submsg, sub, pcb>>
  BY DEF ReceiveProcess, Shape, InputTypes, MainTypes, msgvars, subvars
<1>2. q \in Seq(AllProcs) /\ readyQueue \in Seq(AllProcs) /\ p \in Procs /\ p \in AllProcs
      /\ msgq'.arrived = Tail(q)
  <2>1. Procs \subseteq AllProcs
    BY DEF AllProcs
  <2>2. q \in Seq(AllProcs) /\ readyQueue \in Seq(AllProcs)
    BY <1>1, <2>1, SeqOfMore
  <2>3. QED
    BY <1>1, <2>1, <2>2
<1> HIDE DEF q, p
<1>3. /\ Real(q) = X \cup Real(Tail(q))
      /\ Once(q) => Once(Tail(q)) /\ X \cap Real(Tail(q)) = {}
  BY <1>1, <1>2, TailPlace DEF p
<1>4. /\ Real(readyQueue') = Real(readyQueue) \cup X
      /\ Once(readyQueue) /\ X \cap Real(readyQueue) = {} => Once(readyQueue')
  BY <1>1, <1>2, AppendPlace
<1>5. \A l \in Locations \ {Arriving, AtDispatcher} : Place'[l] = Place[l]
  BY <1>1, Elsewhere
<1>6. /\ Place[Arriving] = q /\ Place[AtDispatcher] = readyQueue
      /\ Place'[Arriving] = Tail(q) /\ Place'[AtDispatcher] = readyQueue'
  BY <1>2, PlaceAt, PlaceNext DEF q
<1>7. Sound(Place, Live) /\ X \in SUBSET Procs
  BY <1>2 DEF Places
<1>8. /\ Real(Place[Arriving]) = X \cup Real(Place'[Arriving])
      /\ Once(Place[Arriving]) => Once(Place'[Arriving]) /\ X \cap Real(Place'[Arriving]) = {}
      /\ Real(Place'[AtDispatcher]) = Real(Place[AtDispatcher]) \cup X
      /\ Once(Place[AtDispatcher]) /\ X \cap Real(Place[AtDispatcher]) = {} => Once(Place'[AtDispatcher])
  BY <1>3, <1>4, <1>6
<1> HIDE DEF X
<1>9. Sound(Place', Live)
  BY <1>5, <1>7, <1>8, LocationsAre, MoveSound
<1>10. QED
  BY <1>1, <1>9, PlacesKept

LEMMA RoutePlaces ==
  ASSUME Shape, Places, Route, UNCHANGED <<workload, g_queue>>
  PROVE  Places'
<1> DEFINE q == readyQueue
           p == Head(q)
           X == {p} \cap Procs
           c == LighterReady
           m == Msg(MTYPE_NEW_PROCESS, p)
<1>1. /\ q # <<>> /\ q \in Seq(Procs) /\ readyQueue' = Tail(q)
      /\ submsg' = [submsg EXCEPT ![c] = Append(submsg[c], m)]
      /\ submsg \in [CPUs -> Seq(Order)]
      /\ UNCHANGED <<resp, msgq, sub, pcb>>
  BY DEF Route, Sent, Shape, MainTypes, MessageTypes, subvars
<1>2. q \in Seq(AllProcs) /\ p \in AllProcs /\ c \in CPUs
  <2>1. Procs \subseteq AllProcs
    BY DEF AllProcs
  <2>2. q \in Seq(AllProcs)
    BY <1>1, <2>1, SeqOfMore
  <2>3. QED
    BY <1>1, <2>2 DEF LighterReady, CPUs
<1>3. m \in Message /\ m.proc = p /\ submsg[c] \in Seq(Message)
  <2>1. m \in Message /\ m.proc = p
    BY <1>2 DEF Msg, Message, MTYPE_NEW_PROCESS
  <2>2. QED
    BY <1>1, <1>2, <2>1, MessageIs
<1> HIDE DEF p, c, m
<1>4. /\ Real(q) = X \cup Real(readyQueue')
      /\ Once(q) => Once(readyQueue') /\ X \cap Real(readyQueue') = {}
  BY <1>1, <1>2, TailPlace DEF p
<1>5. /\ Real(Carried(submsg'[c])) = Real(Carried(submsg[c])) \cup X
      /\ Once(Carried(submsg[c])) /\ X \cap Real(Carried(submsg[c])) = {}
            => Once(Carried(submsg'[c]))
  <2>1. submsg'[c] = Append(submsg[c], m)
    BY <1>1, <1>2
  <2>2. p \in Real(Carried(submsg[c])) => p \in X
    BY DEF Real
  <2>3. QED
    BY <1>3, <2>1, <2>2, AppendCarried
<1>6. \A d \in CPUs : d # c => submsg'[d] = submsg[d]
  BY <1>1
<1>7. \A l \in Locations \ {AtDispatcher, SentTo(c)} : Place'[l] = Place[l]
  BY <1>1, <1>6, Elsewhere
<1>8. Sound(Place, Live) /\ X \in SUBSET Procs
  BY DEF Places
<1> HIDE DEF X
<1>9. /\ Real(Place[AtDispatcher]) = X \cup Real(Place'[AtDispatcher])
      /\ Once(Place[AtDispatcher]) => Once(Place'[AtDispatcher]) /\ X \cap Real(Place'[AtDispatcher]) = {}
  BY <1>4, PlaceAt, PlaceNext
<1>10. /\ Real(Place'[SentTo(c)]) = Real(Place[SentTo(c)]) \cup X
       /\ Once(Place[SentTo(c)]) /\ X \cap Real(Place[SentTo(c)]) = {} => Once(Place'[SentTo(c)])
  BY <1>2, <1>5, PlaceAt, PlaceNext
<1>11. SentTo(c) \in Locations /\ AtDispatcher \in Locations /\ AtDispatcher # SentTo(c)
  BY <1>2, LocationsAre
<1>12. Sound(Place', Live)
  BY <1>7, <1>8, <1>9, <1>10, <1>11, MoveSound
<1>13. QED
  BY <1>1, <1>12, PlacesKept

LEMMA StolenPlaces ==
  ASSUME Shape, Places, Stolen, UNCHANGED <<workload, g_queue>>
  PROVE  Places'
<1> DEFINE p == Head(resp).proc
           X == {p} \cap Procs
           c == Other(Busier(projected))
           m == Msg(MTYPE_NEW_PROCESS, p)
<1>1. /\ resp # <<>> /\ resp \in Seq(Answer) /\ resp' = Tail(resp)
      /\ submsg' = [submsg EXCEPT ![c] = Append(submsg[c], m)]
      /\ submsg \in [CPUs -> Seq(Order)]
      /\ UNCHANGED <<readyQueue, msgq, sub, pcb>>
  BY DEF Stolen, Sent, Shape, MainTypes, MessageTypes, subvars, inputvars
<1>2. resp \in Seq(Message) /\ p \in AllProcs /\ c \in CPUs
  <2>1. resp \in Seq(Message) /\ Head(resp) \in Answer
    BY <1>1, MessageIs
  <2>2. QED
    BY <2>1, MessageIs DEF Other, Busier, CPUs
<1>3. m \in Message /\ m.proc = p /\ submsg[c] \in Seq(Message)
  <2>1. m \in Message /\ m.proc = p
    BY <1>2 DEF Msg, Message, MTYPE_NEW_PROCESS
  <2>2. QED
    BY <1>1, <1>2, <2>1, MessageIs
<1>4. /\ Real(Carried(resp)) = X \cup Real(Carried(resp'))
      /\ Once(Carried(resp)) => Once(Carried(resp')) /\ X \cap Real(Carried(resp')) = {}
  BY <1>1, <1>2, TailCarried
<1> HIDE DEF p, c, m
<1>5. /\ Real(Carried(submsg'[c])) = Real(Carried(submsg[c])) \cup X
      /\ Once(Carried(submsg[c])) /\ X \cap Real(Carried(submsg[c])) = {}
            => Once(Carried(submsg'[c]))
  <2>1. submsg'[c] = Append(submsg[c], m)
    BY <1>1, <1>2
  <2>2. p \in Real(Carried(submsg[c])) => p \in X
    BY DEF Real
  <2>3. QED
    BY <1>3, <2>1, <2>2, AppendCarried
<1>6. \A d \in CPUs : d # c => submsg'[d] = submsg[d]
  BY <1>1
<1>7. \A l \in Locations \ {Answered, SentTo(c)} : Place'[l] = Place[l]
  BY <1>1, <1>6, Elsewhere
<1>8. Sound(Place, Live) /\ X \in SUBSET Procs
  BY DEF Places
<1> HIDE DEF X
<1>9. /\ Real(Place[Answered]) = X \cup Real(Place'[Answered])
      /\ Once(Place[Answered]) => Once(Place'[Answered]) /\ X \cap Real(Place'[Answered]) = {}
  BY <1>4, PlaceAt, PlaceNext
<1>10. /\ Real(Place'[SentTo(c)]) = Real(Place[SentTo(c)]) \cup X
       /\ Once(Place[SentTo(c)]) /\ X \cap Real(Place[SentTo(c)]) = {} => Once(Place'[SentTo(c)])
  BY <1>2, <1>5, PlaceAt, PlaceNext
<1>11. SentTo(c) \in Locations /\ Answered \in Locations /\ Answered # SentTo(c)
  BY <1>2, LocationsAre
<1>12. Sound(Place', Live)
  BY <1>7, <1>8, <1>9, <1>10, <1>11, MoveSound
<1>13. QED
  BY <1>1, <1>12, PlacesKept

\* What carries no process may come and go.
LEMMA NothingStolenPlaces ==
  ASSUME Shape, Places, NothingStolen, UNCHANGED <<workload, g_queue>>
  PROVE  Places'
<1>1. /\ resp # <<>> /\ resp \in Seq(Answer) /\ resp' = Tail(resp)
      /\ Head(resp).mtype = MTYPE_STEAL_EMPTY
      /\ UNCHANGED <<readyQueue, msgq, sub, pcb, submsg>>
  BY DEF NothingStolen, Shape, MessageTypes, subvars, inputvars
<1>2. resp \in Seq(Message) /\ Head(resp).proc = Ghost
  <2>1. resp \in Seq(Message) /\ Head(resp) \in Answer
    BY <1>1, MessageIs
  <2>2. QED
    BY <1>1, <2>1, MessageIs DEF MTYPE_STEAL_EMPTY, MTYPE_STEAL_RESPONSE
<1>3. /\ Real(Carried(resp)) = Real(Carried(resp'))
      /\ Once(Carried(resp)) => Once(Carried(resp'))
  BY <1>1, <1>2, GhostCarried
<1>4. \A l \in Locations \ {Answered} : Place'[l] = Place[l]
  BY <1>1, LocationsAre, PlaceAt, PlaceNext
<1>5. Sound(Place, Live)
  BY DEF Places
<1>6. \A l \in Locations : /\ Real(Place'[l]) = Real(Place[l])
                           /\ Once(Place[l]) => Once(Place'[l])
  BY <1>3, <1>4, PlaceAt, PlaceNext
<1>7. Sound(Place', Live)
  BY <1>5, <1>6, SameSound
<1>8. QED
  BY <1>1, <1>7, PlacesKept

LEMMA AfterPlaces ==
  ASSUME Shape, Places, After, UNCHANGED <<workload, g_queue>>
  PROVE  Places'
<1> DEFINE m == Msg(MTYPE_TERMINATE, Ghost)
<1>1. /\ submsg \in [CPUs -> Seq(Order)]
      /\ submsg' = submsg \/ submsg' = [c \in CPUs |-> Append(submsg[c], m)]
      /\ UNCHANGED <<readyQueue, msgq, sub, pcb, resp>>
  BY DEF After, Shape, MessageTypes, subvars, inputvars
<1>2. m \in Message /\ m.proc = Ghost /\ Ghost \notin Procs
  BY DualAssumption DEF Msg, Message, MTYPE_TERMINATE, AllProcs
<1> HIDE DEF m
<1>3. ASSUME NEW c \in CPUs
      PROVE  /\ Real(Carried(submsg'[c])) = Real(Carried(submsg[c]))
             /\ Once(Carried(submsg[c])) => Once(Carried(submsg'[c]))
  <2>1. submsg'[c] = submsg[c] \/ submsg'[c] = Append(submsg[c], m)
    BY <1>1
  <2>2. submsg[c] \in Seq(Message)
    BY <1>1, MessageIs
  <2>3. QED
    BY <1>2, <2>1, <2>2, GhostCarried
<1>4. \A l \in Locations : \/ Place'[l] = Place[l]
                           \/ \E c \in CPUs : l = SentTo(c)
  BY <1>1, LocationsAre, PlaceAt, PlaceNext
<1>5. Sound(Place, Live)
  BY DEF Places
<1>6. \A l \in Locations : /\ Real(Place'[l]) = Real(Place[l])
                           /\ Once(Place[l]) => Once(Place'[l])
  BY <1>3, <1>4, PlaceAt, PlaceNext
<1>7. Sound(Place', Live)
  BY <1>5, <1>6, SameSound
<1>8. QED
  BY <1>1, <1>7, PlacesKept

LEMMA DispatcherPlaces ==
  ASSUME Shape, Places, Dispatcher
  PROVE  Places'
<1>1. UNCHANGED <<workload, g_queue>>
  BY DEF Dispatcher, genvars
<1>2. CASE SpinAcks \/ NewTick
  <2>1. CountAcks /\ UNCHANGED <<readyQueue, submsg, msgq, sub, pcb>>
    BY <1>2 DEF SpinAcks, NewTick, subvars, inputvars, Dispatcher
  <2>2. QED
    BY <1>1, <2>1, CountAcksPlaces
<1>3. CASE \/ ReceiveSync \/ ReceiveEnd \/ Algo \/ PublishRoutes \/ Check \/ NoCheck
           \/ PublishMove \/ WaitOver \/ Open \/ Leave \/ Exit
  <2>1. UNCHANGED <<readyQueue, resp, submsg, pcb>>
    BY <1>3 DEF ReceiveSync, ReceiveEnd, Algo, PublishRoutes, Check, NoCheck, PublishMove, WaitOver,
                Open, Leave, Exit, msgvars, subvars, inputvars
  <2>2. msgq'.arrived = msgq.arrived
    <3>1. msgq \in [arrived: Seq(Procs), sync: Seq(Int), end: BOOLEAN]
      BY DEF Shape, InputTypes
    <3>2. QED
      BY <1>3, <3>1 DEF ReceiveSync, ReceiveEnd, Algo, PublishRoutes, Check, NoCheck, PublishMove,
                        WaitOver, Open, Leave, Exit
  <2>3. \A c \in CPUs : sub'[c].ready = sub[c].ready /\ sub'[c].curr = sub[c].curr
    <3>1. CASE sub' = sub
      BY <3>1
    <3>2. CASE OpenGate
      BY <3>2 DEF OpenGate, Shape, SubTypes, SubRec
    <3>3. QED
      BY <1>3, <3>1, <3>2 DEF ReceiveSync, ReceiveEnd, Algo, PublishRoutes, Check, NoCheck,
                              PublishMove, WaitOver, Open, Leave, Exit, subvars
  <2>4. QED
    BY <1>1, <2>1, <2>2, <2>3, UnmovedPlaces
<1>4. QED
  BY <1>1, <1>2, <1>3, ReceivePlaces, RoutePlaces, StolenPlaces, NothingStolenPlaces, AfterPlaces
     DEF Dispatcher

\* The generator sends a process that is nowhere yet.
LEMMA SendPlaces ==
  ASSUME Shape, Places, GenSend,
         UNCHANGED <<workload, readyQueue, resp, submsg, sub, pcb>>
  PROVE  Places'
<1> DEFINE x == Head(g_queue)
           q == msgq.arrived
<1>1. /\ g_queue # <<>> /\ g_queue \in Seq(Procs) /\ g_queue' = Tail(g_queue)
      /\ msgq' = [msgq EXCEPT !.arrived = Append(q, x)]
      /\ msgq \in [arrived: Seq(Procs), sync: Seq(Int), end: BOOLEAN]
  BY DEF GenSend, Arrived, Shape, InputTypes
<1>2. /\ x \in Procs /\ IsInjective(g_queue') /\ x \notin ToSet(g_queue')
      /\ ToSet(g_queue) = {x} \cup ToSet(g_queue')
  BY <1>1, TailFacts DEF Places
<1>3. q \in Seq(AllProcs) /\ x \in AllProcs /\ msgq'.arrived = Append(q, x)
  <2>1. Procs \subseteq AllProcs
    BY DEF AllProcs
  <2>2. q \in Seq(AllProcs)
    BY <1>1, <2>1, SeqOfMore
  <2>3. QED
    BY <1>1, <1>2, <2>1, <2>2
<1> HIDE DEF x, q
<1>4. /\ Real(Append(q, x)) = Real(q) \cup {x}
      /\ Once(q) /\ x \notin Real(q) => Once(Append(q, x))
  <2>1. {x} \cap Procs = {x}
    BY <1>2
  <2>2. QED
    BY <1>3, <2>1, AppendPlace
<1>5. \A l \in Locations \ {Arriving} : Place'[l] = Place[l]
  BY Elsewhere
<1>6. /\ Real(Place'[Arriving]) = Real(Place[Arriving]) \cup {x}
      /\ Once(Place[Arriving]) /\ x \notin Real(Place[Arriving]) => Once(Place'[Arriving])
  BY <1>3, <1>4, PlaceAt, PlaceNext DEF q
<1>7. Known' = Known \cup {x} /\ x \notin Known /\ ToSet(g_queue') \subseteq ToSet(workload.order)
  BY <1>2 DEF Known, Places
<1>8. Live' = Live \cup {x} /\ x \notin Live
  <2>1. ~Finished(x)
    BY <1>2, <1>7 DEF Places
  <2>2. \A p : Finished(p)' <=> Finished(p)
    BY DEF Finished
  <2>3. QED
    BY <1>7, <2>1, <2>2 DEF Live
<1>9. Sound(Place, Live)
  BY DEF Places
<1> DEFINE S == Live
           T == Live'
           H == Place
           G == Place'
<1>10. Sound(H, S) /\ T = S \cup {x} /\ x \notin S
  BY <1>8, <1>9
<1>11. /\ Real(G[Arriving]) = Real(H[Arriving]) \cup {x}
       /\ Once(H[Arriving]) /\ x \notin Real(H[Arriving]) => Once(G[Arriving])
       /\ \A l \in Locations \ {Arriving} : G[l] = H[l]
  BY <1>5, <1>6
<1>12. Sound(Place, Live)' <=> Sound(G, T)
  BY DEF Sound
<1> HIDE DEF S, T, H, G
<1>13. Sound(G, T)
  BY <1>2, <1>10, <1>11, LocationsAre, AddSound
<1>14. \A p \in Procs : Finished(p)' => p \in Known'
  BY <1>7 DEF Places, Finished
<1>15. QED
  BY <1>2, <1>7, <1>12, <1>13, <1>14 DEF Places

LEMMA GeneratorPlaces ==
  ASSUME Shape, Places, ClockTick \/ Generator \/ UNCHANGED dualvars
  PROVE  Places'
<1> USE DEF dualvars, mainvars, subvars, inputvars, msgvars, genvars
<1>1. UNCHANGED <<workload, readyQueue, resp, submsg, sub, pcb>>
  BY DEF ClockTick, Generator
<1>2. CASE GenSend
  BY <1>1, <1>2, SendPlaces
<1>3. CASE ~GenSend
  <2>1. msgq \in [arrived: Seq(Procs), sync: Seq(Int), end: BOOLEAN]
    BY DEF Shape, InputTypes
  <2>2. g_queue' = g_queue /\ msgq'.arrived = msgq.arrived
    BY <1>3, <2>1 DEF ClockTick, Generator, GenStep, GenPoll, GenSync, GenEnd, GenShutdown
  <2>3. QED
    BY <1>1, <2>2, UnmovedPlaces
<1>4. QED
  BY <1>2, <1>3

LEMMA ChildPlaces ==
  ASSUME Shape, Places, NEW p \in AllProcs, Child(p)
  PROVE  Places'
<1>1. UNCHANGED <<workload, g_queue, readyQueue, resp, submsg, sub, pcb, msgq>>
  BY DEF Child, mainvars, subvars, inputvars, msgvars, genvars
<1>2. QED
  BY <1>1, UnmovedPlaces

\* A process on a CPU, in its queue or on the way to it has not finished.
LEMMA LiveThere ==
  ASSUME Places, NEW l \in Locations, NEW p \in Real(Place[l])
  PROVE  p \in Procs /\ p \in Known /\ ~Finished(p)
<1>1. p \in Procs
  BY DEF Real
<1>2. p \in Live
  BY <1>1 DEF Places, Sound
<1>3. QED
  BY <1>1, <1>2 DEF Live

LEMMA DrainPlace ==
  ASSUME Shape, NEW c \in CPUs
  PROVE  /\ Real(Carried(submsg[c])) = Real(NewProcs(c)) \cup Real(Carried(LeftBehind(c)))
         /\ Once(Carried(submsg[c])) =>
               /\ Once(Carried(LeftBehind(c))) /\ Once(NewProcs(c))
               /\ Real(NewProcs(c)) \cap Real(Carried(LeftBehind(c))) = {}
         /\ sub[c].ready \o NewProcs(c) \in Seq(AllProcs)
         /\ Real(sub[c].ready \o NewProcs(c)) = Real(sub[c].ready) \cup Real(NewProcs(c))
         /\ Once(sub[c].ready) /\ Once(NewProcs(c)) /\ Real(sub[c].ready) \cap Real(NewProcs(c)) = {}
               => Once(sub[c].ready \o NewProcs(c))
<1> DEFINE m == submsg[c]
           b == LeftBehind(c)
           q == Carried(m)
           r == Carried(b)
           s == NewProcs(c)
           k == Taken(c)
<1>1. /\ m \in Seq(Order) /\ sub[c].ready \in Seq(AllProcs)
  BY DEF Shape, MessageTypes, SubTypes, SubRec
<1>2. /\ k \in 0..Len(m) /\ s \in Seq(AllProcs) /\ Len(s) <= k
      /\ \A i \in 1..Len(s) : s[i] = m[i].proc
      /\ \A i \in 1..k : i <= Len(s) \/ m[i].proc \notin Procs
      /\ b \in Seq(Order) /\ Len(b) = Len(m) - k
      /\ \A i \in 1..Len(b) : b[i] = m[k + i]
  BY TakenIs
<1>3. m \in Seq(Message) /\ b \in Seq(Message)
  BY <1>1, <1>2, MessageIs
<1>4. /\ q \in Seq(AllProcs) /\ Len(q) = Len(m) /\ \A i \in 1..Len(m) : q[i] = m[i].proc
      /\ r \in Seq(AllProcs) /\ Len(r) = Len(b) /\ \A i \in 1..Len(b) : r[i] = b[i].proc
  BY <1>3, CarriedIs
<1>5. Len(m) \in Nat /\ Len(b) \in Nat /\ Len(s) \in Nat
  BY <1>1, <1>2
<1> HIDE DEF m, b, q, r, s, k
<1>6. /\ k \in 0..Len(q) /\ Len(r) = Len(q) - k
      /\ \A i \in 1..Len(r) : r[i] = q[k + i]
      /\ \A i \in 1..Len(s) : s[i] = q[i]
      /\ \A i \in 1..k : i <= Len(s) \/ q[i] \notin Procs
  <2>1. \A i \in 1..Len(r) : r[i] = q[k + i]
    <3>1. \A i \in 1..Len(b) : k + i \in 1..Len(m)
      BY <1>2, <1>5
    <3>2. QED
      BY <1>2, <1>4, <3>1
  <2>2. \A i \in 1..k : i \in 1..Len(m)
    BY <1>2, <1>5
  <2>3. \A i \in 1..Len(s) : i \in 1..Len(m)
    BY <1>2, <1>5
  <2>4. QED
    BY <1>2, <1>4, <2>1, <2>2, <2>3
<1>7. /\ Real(q) = Real(s) \cup Real(r)
      /\ Once(q) => Once(s) /\ Once(r) /\ Real(s) \cap Real(r) = {}
  BY <1>2, <1>4, <1>6, SplitPlace
<1>8. /\ sub[c].ready \o s \in Seq(AllProcs)
      /\ Real(sub[c].ready \o s) = Real(sub[c].ready) \cup Real(s)
      /\ Once(sub[c].ready) /\ Once(s) /\ Real(sub[c].ready) \cap Real(s) = {}
            => Once(sub[c].ready \o s)
  BY <1>1, <1>2, ConcatPlace
<1>9. QED
  BY <1>7, <1>8 DEF q, r, s, m, b

LEMMA DrainSound ==
  ASSUME Shape, Places, NEW c \in CPUs, NEW G,
         G[SentTo(c)] = Carried(LeftBehind(c)),
         G[ReadyOn(c)] = sub[c].ready \o NewProcs(c),
         \A l \in Locations \ {SentTo(c), ReadyOn(c)} : G[l] = Place[l]
  PROVE  Sound(G, Live)
<1> DEFINE X == Real(NewProcs(c))
<1>1. Sound(Place, Live)
  BY DEF Places
<1>2. SentTo(c) \in Locations /\ ReadyOn(c) \in Locations /\ SentTo(c) # ReadyOn(c)
  BY LocationsAre
<1>3. X \in SUBSET Procs
  BY DEF Real
<1>4. Place[SentTo(c)] = Carried(submsg[c]) /\ Place[ReadyOn(c)] = sub[c].ready
  BY PlaceAt
<1>5. Once(Carried(submsg[c]))
  BY <1>1, <1>2, <1>4 DEF Sound
<1>6. /\ Real(Place[SentTo(c)]) = X \cup Real(G[SentTo(c)])
      /\ Once(G[SentTo(c)]) /\ X \cap Real(G[SentTo(c)]) = {}
      /\ Real(G[ReadyOn(c)]) = Real(Place[ReadyOn(c)]) \cup X
      /\ Once(Place[ReadyOn(c)]) /\ X \cap Real(Place[ReadyOn(c)]) = {} => Once(G[ReadyOn(c)])
  BY <1>4, <1>5, DrainPlace
<1> DEFINE a == SentTo(c)
           b == ReadyOn(c)
           H == Place
           S == Live
<1>7. /\ Sound(H, S) /\ a \in Locations /\ b \in Locations /\ a # b
      /\ Real(H[a]) = X \cup Real(G[a])
      /\ Once(H[a]) => Once(G[a]) /\ X \cap Real(G[a]) = {}
      /\ Real(G[b]) = Real(H[b]) \cup X
      /\ Once(H[b]) /\ X \cap Real(H[b]) = {} => Once(G[b])
      /\ \A l \in Locations \ {a, b} : G[l] = H[l]
  BY <1>1, <1>2, <1>6
<1> HIDE DEF X, a, b, H, S
<1>8. Sound(G, S)
  BY <1>3, <1>7, MoveSound
<1>9. QED
  BY <1>8 DEF S

\* Taking the messages does not bring a finished process back.
LEMMA DrainFinished ==
  ASSUME Shape, Places, NEW c \in CPUs, NEW p \in Procs
  PROVE  /\ p \in ToSet(NewProcs(c)) => p \in Known /\ ~Finished(p)
         /\ DrainedPCB(c)[p].state = "F" <=> pcb[p].state = "F"
<1>1. p \in AllProcs
  BY DEF AllProcs
<1>2. ASSUME p \in ToSet(NewProcs(c)) PROVE p \in Known /\ ~Finished(p)
  <2>1. p \in Real(NewProcs(c))
    BY <1>2 DEF Real
  <2>2. p \in Real(Carried(submsg[c]))
    BY <2>1, DrainPlace
  <2>3. SentTo(c) \in Locations /\ Place[SentTo(c)] = Carried(submsg[c])
    BY LocationsAre, PlaceAt
  <2>4. QED
    BY <2>2, <2>3, LiveThere
<1>3. NewPCB(p).state # "F"
  BY DEF NewPCB
<1>4. QED
  BY <1>1, <1>2, <1>3 DEF DrainedPCB, Finished

LEMMA CurrentLive ==
  ASSUME Shape, Places, NEW c \in CPUs, sub[c].curr \in Procs
  PROVE  sub[c].curr \in Known /\ ~Finished(sub[c].curr)
<1>1. sub[c].curr \in AllProcs \cup {NoOne}
  BY DEF Shape, SubTypes, SubRec
<1>2. RunningOn(c) \in Locations /\ Place[RunningOn(c)] = OnCPU(sub[c].curr)
  BY LocationsAre, PlaceAt
<1>3. sub[c].curr \in Real(OnCPU(sub[c].curr))
  BY <1>1, OnCPUIs
<1>4. QED
  BY <1>2, <1>3, LiveThere

LEMMA DrainStepPlaces ==
  ASSUME Shape, Places, NEW c \in CPUs, UNCHANGED <<workload, g_queue, readyQueue, resp, msgq>>,
         DrainMessages(c), NEW s \in SubRec, sub' = [sub EXCEPT ![c] = s],
         s.curr = sub[c].curr, s.ready = sub[c].ready \o NewProcs(c),
         \A p \in Procs : pcb'[p].state = "F" <=> pcb[p].state = "F"
  PROVE  Places'
<1>1. /\ submsg' = [submsg EXCEPT ![c] = LeftBehind(c)] /\ submsg \in [CPUs -> Seq(Order)]
      /\ sub \in [CPUs -> SubRec]
  BY DrainTypes DEF Shape, MessageTypes, SubTypes
<1>2. /\ submsg'[c] = LeftBehind(c) /\ sub'[c] = s
      /\ \A d \in CPUs : d # c => submsg'[d] = submsg[d] /\ sub'[d] = sub[d]
  BY <1>1
<1>3. \A d \in CPUs : sub'[d].curr = sub[d].curr
  BY <1>2
<1>4. \A l \in Locations \ {SentTo(c), ReadyOn(c)} : Place'[l] = Place[l]
  BY <1>2, <1>3, Elsewhere
<1> DEFINE G == Place'
<1>5. /\ G[SentTo(c)] = Carried(LeftBehind(c))
      /\ G[ReadyOn(c)] = sub[c].ready \o NewProcs(c)
      /\ \A l \in Locations \ {SentTo(c), ReadyOn(c)} : G[l] = Place[l]
  BY <1>2, <1>4, PlaceNext
<1> HIDE DEF G
<1>6. Sound(G, Live)
  BY <1>5, DrainSound
<1>7. QED
  BY <1>6, PlacesKept DEF G

LEMMA LoopPlaces ==
  ASSUME Shape, Places, NEW c \in CPUs, UNCHANGED <<clk, workload, genvars, msgq, mainvars>>,
         Spin(c) \/ SubNewTick(c) \/ Frame(c)
  PROVE  Places'
<1>1. /\ UNCHANGED <<workload, g_queue, readyQueue, resp, msgq>> /\ DrainMessages(c)
  BY DEF Spin, SubNewTick, Frame, genvars, mainvars, inputvars
<1>2. /\ sub[c] \in SubRec /\ Drained(c) \in SubRec /\ Drained(c).curr = sub[c].curr
      /\ Drained(c).ready = sub[c].ready \o NewProcs(c)
      /\ DrainedPCB(c) \in [AllProcs -> PCBRec] /\ NoOne \notin AllProcs /\ clk \in Int
  BY SubReads, DrainTypes
<1>3. ASSUME NEW p \in Procs PROVE pcb'[p].state = "F" <=> pcb[p].state = "F"
  <2>1. CASE pcb' = DrainedPCB(c)
    BY <2>1, DrainFinished
  <2>2. CASE /\ Frame(c) /\ sub[c].curr # NoOne
             /\ pcb' = [DrainedPCB(c) EXCEPT ![sub[c].curr] = [Charged(c, sub[c].curr) EXCEPT !.state = "R"]]
    <3> DEFINE r == [Charged(c, sub[c].curr) EXCEPT !.state = "R"]
    <3>1. p \in AllProcs
      BY DEF AllProcs
    <3>2. CASE p # sub[c].curr
      <4>1. pcb'[p] = DrainedPCB(c)[p]
        BY <1>2, <2>2, <3>1, <3>2
      <4>2. QED
        BY <4>1, DrainFinished
    <3>3. CASE p = sub[c].curr
      <4>1. pcb[p].state # "F"
        BY <3>3, CurrentLive DEF Finished
      <4>2. r.state = "R"
        <5>1. pcb[p] \in PCBRec
          BY <3>1, SubReads
        <5>2. QED
          BY <3>3, <5>1 DEF Charged, PCBRec
      <4>3. pcb'[p] = r
        <5> HIDE DEF r
        <5>1. pcb' = [DrainedPCB(c) EXCEPT ![sub[c].curr] = r]
          BY <2>2 DEF r
        <5>2. QED
          BY <1>2, <3>1, <3>3, <5>1
      <4>4. QED
        BY <4>1, <4>2, <4>3
    <3>4. QED
      BY <3>2, <3>3
  <2>3. QED
    BY <2>1, <2>2 DEF Spin, SubNewTick, Frame
<1>4. PICK s \in SubRec : /\ sub' = [sub EXCEPT ![c] = s]
                          /\ s.curr = sub[c].curr /\ s.ready = sub[c].ready \o NewProcs(c)
  BY LoopSub DEF Around
<1>5. QED
  BY <1>1, <1>2, <1>3, <1>4, DrainStepPlaces

LEMMA StallPlaces ==
  ASSUME Shape, Places, NEW c \in CPUs, UNCHANGED <<clk, workload, genvars, msgq, mainvars>>,
         OnSIGUSR2(c)
  PROVE  Places'
<1> DEFINE d == Drained(c)
           e == StallEnd
           k == sub[c].curr
           t == shmRT[c]
           s == [d EXCEPT !.stalled = TRUE, !.stall_end = e]
<1>1. /\ UNCHANGED <<workload, g_queue, readyQueue, resp, msgq>> /\ DrainMessages(c)
      /\ sub' = [sub EXCEPT ![c] = s]
      /\ \/ pcb' = DrainedPCB(c)
         \/ /\ k # NoOne
            /\ pcb' = [DrainedPCB(c) EXCEPT ![k] =
                         [@ EXCEPT !.last_stopped = clk, !.state = "W", !.remaining_time = t]]
  BY DEF OnSIGUSR2, genvars, mainvars, inputvars
<1>2. /\ sub[c] \in SubRec /\ d \in SubRec /\ d.curr = sub[c].curr /\ e \in Int
      /\ d.ready = sub[c].ready \o NewProcs(c)
      /\ DrainedPCB(c) \in [AllProcs -> PCBRec]
  BY SubReads, DrainTypes DEF StallEnd
<1> HIDE DEF d, e, t
<1>3. s \in SubRec /\ s.curr = sub[c].curr /\ s.ready = sub[c].ready \o NewProcs(c)
  BY <1>2 DEF SubRec
<1>4. ASSUME NEW p \in Procs PROVE pcb'[p].state = "F" <=> pcb[p].state = "F"
  <2>1. p \in AllProcs /\ DrainedPCB(c)[p] \in PCBRec
    BY <1>2 DEF AllProcs
  <2>2. CASE pcb'[p] = DrainedPCB(c)[p]
    BY <2>2, DrainFinished
  <2>3. CASE p = k /\ pcb'[p].state = "W"
    <3>1. pcb[p].state # "F"
      BY <2>3, CurrentLive DEF Finished
    <3>2. QED
      BY <2>3, <3>1
  <2>4. QED
    <3> HIDE DEF k
    <3>1. CASE pcb' = [DrainedPCB(c) EXCEPT ![k] =
                         [@ EXCEPT !.last_stopped = clk, !.state = "W", !.remaining_time = t]]
      <4>1. p # k => pcb'[p] = DrainedPCB(c)[p]
        BY <1>2, <2>1, <3>1
      <4>2. p = k => pcb'[p].state = "W"
        BY <1>2, <2>1, <3>1 DEF PCBRec
      <4>3. QED
        BY <2>2, <2>3, <4>1, <4>2
    <3>2. QED
      BY <1>1, <2>2, <3>1
<1> HIDE DEF s
<1>5. QED
  BY <1>1, <1>3, <1>4, DrainStepPlaces

\* The last process of the ready queue goes into the answer.
LEMMA StealPlaces ==
  ASSUME Shape, Places, NEW c \in CPUs, UNCHANGED <<clk, workload, genvars, msgq, mainvars>>,
         OnSIGURG(c)
  PROVE  Places'
<1> DEFINE d == Drained(c)
           q == d.ready
           H == [Place EXCEPT ![SentTo(c)] = Carried(LeftBehind(c)), ![ReadyOn(c)] = q]
           m == Msg(MTYPE_STEAL_RESPONSE, Last(q))
           n == Msg(MTYPE_STEAL_EMPTY, Ghost)
           f == Front(q)
           x == Last(q)
<1>1. /\ UNCHANGED <<workload, g_queue, readyQueue, msgq>> /\ DrainMessages(c)
      /\ pcb' = DrainedPCB(c)
      /\ \/ sub' = [sub EXCEPT ![c] = d] /\ resp' = Append(resp, n)
         \/ /\ q # <<>> /\ sub' = [sub EXCEPT ![c] = [d EXCEPT !.ready = f]]
            /\ resp' = Append(resp, m)
  BY DEF OnSIGURG, AllButLast, genvars, mainvars, inputvars
<1>2. /\ d \in SubRec /\ d.curr = sub[c].curr /\ q = sub[c].ready \o NewProcs(c)
      /\ submsg' = [submsg EXCEPT ![c] = LeftBehind(c)] /\ submsg \in [CPUs -> Seq(Order)]
      /\ sub \in [CPUs -> SubRec] /\ resp \in Seq(Answer) /\ q \in Seq(AllProcs)
  BY <1>1, DrainTypes DEF Shape, MessageTypes, SubTypes, SubRec
<1>3. /\ H[SentTo(c)] = Carried(LeftBehind(c)) /\ H[ReadyOn(c)] = q
      /\ \A l \in Locations \ {SentTo(c), ReadyOn(c)} : H[l] = Place[l]
  <2>1. SentTo(c) \in Locations /\ ReadyOn(c) \in Locations /\ SentTo(c) # ReadyOn(c)
    BY LocationsAre
  <2>2. Place = [l \in Locations |-> Place[l]]
    BY DEF Place
  <2> HIDE DEF q
  <2>3. QED
    BY <2>1, <2>2
<1> HIDE DEF d, q, H, f, x, n, m
<1>4. Sound(H, Live)
  BY <1>2, <1>3, DrainSound
<1>5. \A p \in Procs : pcb'[p].state = "F" <=> pcb[p].state = "F"
  BY <1>1, DrainFinished
<1>6. resp \in Seq(Message)
  BY <1>2, MessageIs
<1>7. CASE sub' = [sub EXCEPT ![c] = d] /\ resp' = Append(resp, n)
  <2>1. /\ \A k \in CPUs : sub'[k].curr = sub[k].curr
        /\ \A k \in CPUs : k # c => sub'[k].ready = sub[k].ready /\ submsg'[k] = submsg[k]
        /\ sub'[c].ready = q /\ submsg'[c] = LeftBehind(c)
    BY <1>2, <1>7 DEF q
  <2>2. \A l \in Locations \ {SentTo(c), ReadyOn(c), Answered} : Place'[l] = Place[l]
    BY <1>1, <2>1, Elsewhere
  <2>3. n \in Message /\ n.proc = Ghost
    BY AckTypes DEF n, Msg, Message, MTYPE_STEAL_EMPTY
  <2>4. /\ Real(Carried(resp')) = Real(Carried(resp))
        /\ Once(Carried(resp)) => Once(Carried(resp'))
    BY <1>6, <1>7, <2>3, GhostCarried
  <2>5. Answered \in Locations \ {SentTo(c), ReadyOn(c)}
    BY LocationsAre
  <2>6. H[Answered] = Carried(resp) /\ Place'[Answered] = Carried(resp')
    BY <1>3, <2>5, PlaceAt, PlaceNext
  <2>7. \A l \in Locations \ {Answered} : Place'[l] = H[l]
    <3>1. Place'[SentTo(c)] = H[SentTo(c)] /\ Place'[ReadyOn(c)] = H[ReadyOn(c)]
      BY <1>3, <2>1, PlaceNext
    <3>2. QED
      BY <1>3, <2>2, <3>1
  <2>8. \A l \in Locations : Real(Place'[l]) = Real(H[l]) /\ (Once(H[l]) => Once(Place'[l]))
    BY <2>4, <2>6, <2>7
  <2>9. Sound(Place', Live)
    BY <1>4, <2>8, SameSound
  <2>10. QED
    BY <1>1, <1>5, <2>9, PlacesKept
<1>8. CASE /\ q # <<>> /\ sub' = [sub EXCEPT ![c] = [d EXCEPT !.ready = f]]
           /\ resp' = Append(resp, m)
  <2> DEFINE X == {x} \cap Procs
  <2>1. /\ \A k \in CPUs : sub'[k].curr = sub[k].curr
        /\ \A k \in CPUs : k # c => sub'[k].ready = sub[k].ready /\ submsg'[k] = submsg[k]
        /\ sub'[c].ready = f /\ submsg'[c] = LeftBehind(c)
    BY <1>2, <1>8 DEF SubRec
  <2>2. \A l \in Locations \ {SentTo(c), ReadyOn(c), Answered} : Place'[l] = Place[l]
    BY <1>1, <2>1, Elsewhere
  <2>3. /\ x \in AllProcs /\ Real(q) = Real(f) \cup X
        /\ Once(q) => Once(f) /\ x \notin Real(f)
    BY <1>2, <1>8, FrontPlace DEF x, f
  <2>4. m \in Message /\ m.proc = x
    BY <2>3 DEF m, x, Msg, Message, MTYPE_STEAL_RESPONSE
  <2>5. /\ Real(Carried(resp')) = Real(Carried(resp)) \cup X
        /\ Once(Carried(resp)) /\ x \notin Real(Carried(resp)) => Once(Carried(resp'))
    BY <1>6, <1>8, <2>4, AppendCarried
  <2>6. Answered \in Locations \ {SentTo(c), ReadyOn(c)} /\ ReadyOn(c) \in Locations
    BY LocationsAre
  <2>7. H[Answered] = Carried(resp) /\ Place'[Answered] = Carried(resp') /\ Place'[ReadyOn(c)] = f
    BY <1>3, <2>1, <2>6, PlaceAt, PlaceNext
  <2>8. Place'[SentTo(c)] = H[SentTo(c)]
    BY <1>3, <2>1, PlaceNext
  <2> DEFINE a == ReadyOn(c)
             b == Answered
             G == Place'
             S == Live
  <2>9. /\ Sound(H, S) /\ a \in Locations /\ b \in Locations /\ a # b
        /\ \A l \in Locations \ {a, b} : G[l] = H[l]
    BY <1>3, <1>4, <2>2, <2>6, <2>8
  <2>10. /\ Real(H[a]) = X \cup Real(G[a])
         /\ Once(H[a]) => Once(G[a]) /\ X \cap Real(G[a]) = {}
    BY <1>3, <2>3, <2>7
  <2>11. /\ Real(G[b]) = Real(H[b]) \cup X
         /\ Once(H[b]) /\ X \cap Real(H[b]) = {} => Once(G[b])
    <3>1. x \in Real(Carried(resp)) => x \in X
      BY DEF Real
    <3>2. QED
      BY <2>5, <2>7, <3>1
  <2>12. X \in SUBSET Procs
    OBVIOUS
  <2> HIDE DEF a, b, G, S, X
  <2>13. Sound(G, S)
    BY <2>9, <2>10, <2>11, <2>12, MoveSound
  <2>14. QED
    BY <1>1, <1>5, <2>13, PlacesKept DEF G, S
<1>9. QED
  BY <1>1, <1>7, <1>8

LEMMA DispatchPlaces ==
  ASSUME Shape, Places, NEW c \in CPUs, UNCHANGED <<clk, workload, genvars, msgq, mainvars>>,
         SubDispatch(c)
  PROVE  Places'
<1> DEFINE q == sub[c].ready
           p == Head(q)
           t == Tail(q)
           X == {p} \cap Procs
           a == ReadyOn(c)
           b == RunningOn(c)
           H == Place
           G == Place'
           S == Live
<1>1. /\ UNCHANGED <<workload, g_queue, readyQueue, resp, submsg, msgq>>
      /\ sub[c].curr = NoOne /\ q # <<>> /\ sub \in [CPUs -> SubRec]
      /\ pcb \in [AllProcs -> PCBRec]
  BY DEF SubDispatch, CanDispatch, genvars, mainvars, inputvars, Shape, SubTypes
<1>2. sub' = [sub EXCEPT ![c] = [@ EXCEPT !.pc = "compute", !.curr = p, !.csu = -1, !.ready = t]]
  BY Zenon DEF SubDispatch, Rest
<1>3. q \in Seq(AllProcs) /\ p \in AllProcs
  <2>1. q \in Seq(AllProcs)
    BY <1>1 DEF SubRec
  <2>2. QED
    BY <1>1, <2>1
<1>4. \A y \in Procs : pcb'[y].state = "F" <=> pcb[y].state = "F"
  <2> DEFINE r == [pcb[p] EXCEPT !.state = "R", !.forked = TRUE, !.start_time = sub[c].now,
                                 !.waiting_time = sub[c].now - Arrival(p)]
  <2>1. pcb' = [pcb EXCEPT ![p] = r]
    BY Zenon DEF SubDispatch, RunProcess
  <2>2. r.state = "R"
    BY <1>1, <1>3 DEF PCBRec
  <2>3. p \in Procs => pcb[p].state # "F"
    <3>1. ASSUME p \in Procs PROVE p \in Real(q)
      BY <1>1, <1>3, <3>1, TailPlace
    <3>2. ReadyOn(c) \in Locations /\ Place[ReadyOn(c)] = q
      BY LocationsAre, PlaceAt
    <3>3. QED
      BY <3>1, <3>2, LiveThere DEF Finished
  <2>4. Procs \subseteq AllProcs
    BY DEF AllProcs
  <2> HIDE DEF r, p
  <2>5. QED
    BY <1>1, <1>3, <2>1, <2>2, <2>3, <2>4
<1> HIDE DEF p, t, q
<1>5. /\ sub'[c].curr = p /\ sub'[c].ready = t
      /\ \A d \in CPUs : d # c => sub'[d] = sub[d]
  BY <1>1, <1>2 DEF SubRec
<1>6. /\ Real(q) = X \cup Real(t)
      /\ Once(q) => Once(t) /\ X \cap Real(t) = {}
  BY <1>1, <1>3, TailPlace DEF p, t
<1>7. Real(OnCPU(p)) = X /\ Once(OnCPU(p)) /\ Real(OnCPU(NoOne)) = {}
  BY <1>3, OnCPUIs
<1>8. /\ H[a] = q /\ G[a] = t /\ H[b] = OnCPU(NoOne) /\ G[b] = OnCPU(p)
  BY <1>1, <1>5, PlaceAt, PlaceNext DEF q
<1>9. /\ Sound(H, S) /\ a \in Locations /\ b \in Locations /\ a # b /\ X \in SUBSET Procs
      /\ \A l \in Locations \ {a, b} : G[l] = H[l]
  BY <1>1, <1>5, Elsewhere, LocationsAre DEF Places
<1>10. /\ Real(H[a]) = X \cup Real(G[a])
       /\ Once(H[a]) => Once(G[a]) /\ X \cap Real(G[a]) = {}
       /\ Real(G[b]) = Real(H[b]) \cup X
       /\ Once(H[b]) /\ X \cap Real(H[b]) = {} => Once(G[b])
  BY <1>6, <1>7, <1>8
<1> HIDE DEF X, a, b, H, G, S
<1>11. Sound(G, S)
  BY <1>9, <1>10, MoveSound
<1>12. QED
  BY <1>1, <1>4, <1>11, PlacesKept DEF G, S

\* A process that finishes leaves the CPU, and is in no location any more.
LEMMA FinishPlaces ==
  ASSUME Shape, Places, NEW c \in CPUs, UNCHANGED <<clk, workload, genvars, msgq, mainvars>>,
         SubFinish(c)
  PROVE  Places'
<1> DEFINE p == sub[c].curr
           X == {p} \cap Procs
           a == RunningOn(c)
           H == Place
           G == Place'
           S == Live
           T == Live'
           r == [pcb[p] EXCEPT !.finish_time = sub[c].now, !.remaining_time = 0, !.state = "F"]
<1>1. /\ UNCHANGED <<workload, g_queue, readyQueue, resp, submsg, msgq>>
      /\ sub[c].pc = "finish" /\ sub \in [CPUs -> SubRec] /\ pcb \in [AllProcs -> PCBRec] /\ Served
  BY DEF SubFinish, genvars, mainvars, inputvars, Shape, SubTypes
<1>2. /\ sub' = [sub EXCEPT ![c] = [@ EXCEPT !.curr = NoOne, !.pc = "down", !.csu = sub[c].now + 1]]
      /\ pcb' = [pcb EXCEPT ![p] = r]
  BY Zenon DEF SubFinish
<1>3. p \in AllProcs
  BY <1>1 DEF Served, SubRec
<1>4. /\ sub'[c].curr = NoOne /\ sub'[c].ready = sub[c].ready
      /\ \A d \in CPUs : d # c => sub'[d] = sub[d]
  BY <1>1, <1>2 DEF SubRec
<1>5. \A y \in Procs : pcb'[y].state = "F" <=> pcb[y].state = "F" \/ y = p
  <2>1. r.state = "F"
    BY <1>1, <1>3 DEF PCBRec
  <2>2. Procs \subseteq AllProcs
    BY DEF AllProcs
  <2> HIDE DEF r, p
  <2>3. QED
    BY <1>1, <1>2, <1>3, <2>1, <2>2
<1>6. Known' = Known /\ Known \in SUBSET Procs
  BY <1>1, KnownProcs DEF Known
<1>7. T = S \ X
  BY <1>5, <1>6 DEF Live, Finished
<1>8. /\ Real(OnCPU(p)) = X /\ Real(OnCPU(NoOne)) = {} /\ Once(OnCPU(NoOne))
  BY <1>3, OnCPUIs
<1>9. H[a] = OnCPU(p) /\ G[a] = OnCPU(NoOne)
  BY <1>4, PlaceAt, PlaceNext
<1>10. /\ Sound(H, S) /\ a \in Locations /\ X \in SUBSET Procs
       /\ \A l \in Locations \ {a} : G[l] = H[l]
  BY <1>1, <1>4, Elsewhere, LocationsAre DEF Places
<1>11. Real(H[a]) = X /\ Real(G[a]) = {} /\ Once(G[a])
  BY <1>8, <1>9
<1>12. Sound(Place, Live)' <=> Sound(G, T)
  BY DEF Sound
<1>13. p \in Procs => p \in Known
  BY CurrentLive
<1>14. \A y \in Procs : Finished(y)' => y \in Known'
  BY <1>5, <1>6, <1>13 DEF Places, Finished
<1> HIDE DEF X, a, H, G, S, T
<1>15. Sound(G, T)
  BY <1>7, <1>10, <1>11, RemoveSound
<1>16. QED
  BY <1>1, <1>12, <1>14, <1>15 DEF Places

LEMMA AckPlace ==
  ASSUME Shape, Places, NEW c \in CPUs, UNCHANGED <<clk, workload, genvars, msgq, mainvars>>,
         SubAck(c)
  PROVE  Places'
<1>1. /\ UNCHANGED <<workload, g_queue, readyQueue, submsg, msgq, pcb>>
      /\ resp' = Append(resp, AckMsg) /\ sub' = [sub EXCEPT ![c].pc = "closing"]
      /\ sub \in [CPUs -> SubRec] /\ resp \in Seq(Answer)
  BY DEF SubAck, SubGoto, AckMsg, genvars, mainvars, inputvars, Shape, SubTypes, MessageTypes
<1>2. resp \in Seq(Message) /\ AckMsg \in Message /\ AckMsg.proc = Ghost
  <2>1. Ghost \in AllProcs
    BY AckTypes
  <2>2. AckMsg = [mtype |-> 6, proc |-> Ghost]
    BY DEF AckMsg, Msg, MTYPE_ACK
  <2>3. AckMsg \in Message /\ AckMsg.proc = Ghost
    BY <2>1, <2>2 DEF Message
  <2>4. QED
    BY <1>1, <2>3, MessageIs
<1>3. /\ Real(Carried(resp')) = Real(Carried(resp))
      /\ Once(Carried(resp)) => Once(Carried(resp'))
  BY <1>1, <1>2, GhostCarried
<1>4. \A d \in CPUs : sub'[d].ready = sub[d].ready /\ sub'[d].curr = sub[d].curr
  BY <1>1 DEF SubRec
<1>5. \A l \in Locations \ {Answered} : Place'[l] = Place[l]
  BY <1>1, <1>4, Elsewhere
<1>6. \A l \in Locations : /\ Real(Place'[l]) = Real(Place[l])
                           /\ Once(Place[l]) => Once(Place'[l])
  BY <1>3, <1>5, PlaceAt, PlaceNext
<1>7. Sound(Place, Live)
  BY DEF Places
<1>8. Sound(Place', Live)
  BY <1>6, <1>7, SameSound
<1>9. QED
  BY <1>1, <1>8, PlacesKept

LEMMA PlacesStep ==
  ASSUME Shape, Places, DualNext
  PROVE  Places'
<1>1. CASE Terminated
  BY <1>1, GeneratorPlaces DEF Terminated
<1>2. ASSUME NEW c \in CPUs, SubScheduler(c) \/ Handler(c) PROVE Places'
  <2>1. UNCHANGED <<clk, workload, genvars, msgq, mainvars>>
    BY <1>2 DEF SubScheduler, Handler
  <2>2. CASE \/ Publish(c, "spin", "loop") \/ Publish(c, "write", "read") \/ Publish(c, "last", "ack")
             \/ Compute(c, "compute", "write") \/ Compute(c, "left", "last")
             \/ ReadOther(c) \/ SubLeave(c) \/ SubExit(c) \/ NoDispatch(c) \/ DownGate(c)
    <3>1. UNCHANGED <<workload, g_queue, readyQueue, resp, submsg, msgq, pcb>>
      BY <2>1, <2>2 DEF Publish, Compute, ReadOther, SubLeave, SubExit, NoDispatch, DownGate,
                        genvars, mainvars, inputvars
    <3>2. sub \in [CPUs -> SubRec]
      BY DEF Shape, SubTypes
    <3>3. \A d \in CPUs : sub'[d].ready = sub[d].ready /\ sub'[d].curr = sub[d].curr
      <4>1. CASE \E l : sub' = [sub EXCEPT ![c].pc = l]
        BY <3>2, <4>1 DEF SubRec
      <4>2. CASE \E l, b : sub' = [sub EXCEPT ![c].pc = l, ![c].pub = b]
        BY <3>2, <4>2 DEF SubRec
      <4>3. CASE \E l, b : sub' = [sub EXCEPT ![c].pc = l, ![c].remaining = b]
        BY <3>2, <4>3 DEF SubRec
      <4>4. QED
        BY <2>2, <4>1, <4>2, <4>3 DEF Publish, Compute, ReadOther, SubLeave, SubExit, NoDispatch,
                                      DownGate, SubGoto
    <3>4. QED
      BY <3>1, <3>3, UnmovedPlaces
  <2>3. \/ Spin(c) \/ SubNewTick(c) \/ Frame(c)
        \/ SubFinish(c) \/ SubDispatch(c) \/ SubAck(c) \/ OnSIGURG(c) \/ OnSIGUSR2(c)
        \/ Publish(c, "spin", "loop") \/ Publish(c, "write", "read") \/ Publish(c, "last", "ack")
        \/ Compute(c, "compute", "write") \/ Compute(c, "left", "last")
        \/ ReadOther(c) \/ SubLeave(c) \/ SubExit(c) \/ NoDispatch(c) \/ DownGate(c)
    BY <1>2 DEF SubScheduler, Handler
  <2>4. QED
    BY <2>1, <2>2, <2>3, LoopPlaces, FinishPlaces, DispatchPlaces, AckPlace, StealPlaces, StallPlaces
<1>3. QED
  BY <1>1, <1>2, DispatcherPlaces, GeneratorPlaces, ChildPlaces DEF DualNext

LEMMA PlacesInit == DualInit => Places
<1> SUFFICES ASSUME DualInit PROVE Places
  OBVIOUS
<1>1. /\ workload \in Workloads /\ g_queue = workload.order /\ msgq.arrived = <<>>
      /\ readyQueue = <<>> /\ resp = <<>> /\ submsg = [c \in CPUs |-> <<>>]
      /\ sub = [c \in CPUs |-> IdleSub] /\ pcb = [p \in AllProcs |-> NewPCB(p)]
  BY DEF DualInit, GenInit, NoMessage
<1>2. IsInjective(g_queue)
  BY <1>1, WorkloadFacts
<1>3. Known = {} /\ Live = {} /\ ToSet(g_queue) \subseteq ToSet(workload.order)
  BY <1>1 DEF Known, Live
<1>4. \A p \in Procs : ~Finished(p)
  BY <1>1 DEF Finished, NewPCB, AllProcs
<1>5. Carried(<<>>) = <<>>
  BY DEF Carried
<1>6. \A l \in Locations : Place[l] = <<>>
  <2>1. /\ Place[Arriving] = <<>> /\ Place[AtDispatcher] = <<>> /\ Place[Answered] = <<>>
    BY <1>1, <1>5, PlaceAt
  <2>2. ASSUME NEW c \in CPUs
        PROVE  Place[SentTo(c)] = <<>> /\ Place[ReadyOn(c)] = <<>> /\ Place[RunningOn(c)] = <<>>
    BY <1>1, <1>5, PlaceAt DEF IdleSub, OnCPU
  <2>3. QED
    BY <2>1, <2>2, LocationsAre
<1>7. Sound(Place, Live)
  BY <1>3, <1>6, EmptyPlace DEF Sound
<1>8. QED
  BY <1>2, <1>3, <1>4, <1>7 DEF Places

LEMMA PlacesShow == Places => OnePlace
<1> SUFFICES ASSUME Places, NEW p \in Procs,
                    NEW at, at = {s \in Slots : At(s[1])[s[2]] = p}
             PROVE  IF p \in ToSet(workload.order) \ ToSet(g_queue) /\ ~Finished(p)
                    THEN \E s \in Slots : at = {s} ELSE at = {}
  BY DEF OnePlace
<1>1. \A l \in Locations : Place[l] = At(l)
  BY DEF Place
<1>2. Slots = UNION {{l} \X DOMAIN Place[l] : l \in Locations}
  BY <1>1 DEF Slots
<1>3. \A s \in Slots : s = <<s[1], s[2]>> /\ s[1] \in Locations /\ s[2] \in DOMAIN Place[s[1]]
  BY <1>2
<1>4. \A s : s \in at <=> s \in Slots /\ Place[s[1]][s[2]] = p
  BY <1>1, <1>3
<1>5. \A l : p \in Real(Place[l]) <=> \E i \in DOMAIN Place[l] : Place[l][i] = p
  BY DEF Real, ToSet
<1>6. p \in Live <=> \E l \in Locations : p \in Real(Place[l])
  BY DEF Places, Sound
<1>7. p \in Live <=> p \in ToSet(workload.order) \ ToSet(g_queue) /\ ~Finished(p)
  BY DEF Live, Known
<1>8. ASSUME p \in Live PROVE \E s \in Slots : at = {s}
  <2>1. PICK l \in Locations : p \in Real(Place[l])
    BY <1>6, <1>8
  <2>2. PICK i \in DOMAIN Place[l] : Place[l][i] = p
    BY <1>5, <2>1
  <2> DEFINE s == <<l, i>>
  <2>3. s \in Slots /\ s \in at
    BY <1>2, <1>4, <2>2
  <2>4. ASSUME NEW t \in at PROVE t = s
    <3>1. t = <<t[1], t[2]>> /\ t[1] \in Locations /\ t[2] \in DOMAIN Place[t[1]] /\ Place[t[1]][t[2]] = p
      BY <1>3, <1>4
    <3>2. p \in Real(Place[t[1]])
      BY <1>5, <3>1
    <3>3. t[1] = l
      BY <2>1, <3>1, <3>2 DEF Places, Sound
    <3>4. Once(Place[l])
      BY DEF Places, Sound
    <3>5. t[2] = i
      BY <2>2, <3>1, <3>3, <3>4 DEF Once
    <3>6. QED
      BY <3>1, <3>3, <3>5
  <2>5. QED
    BY <2>3, <2>4
<1>9. ASSUME p \notin Live PROVE at = {}
  <2>1. ASSUME NEW s \in at PROVE FALSE
    <3>1. s[1] \in Locations /\ s[2] \in DOMAIN Place[s[1]] /\ Place[s[1]][s[2]] = p
      BY <1>3, <1>4
    <3>2. QED
      BY <1>5, <1>6, <1>9, <3>1
  <2>2. QED
    BY <2>1
<1>10. QED
  BY <1>7, <1>8, <1>9

\* Every process that was sent and has not finished is in exactly one place, once: in
\* a message, in the dispatcher's queue or in that of one sub-scheduler, or on one CPU.
\* None is lost or doubled by a handler that interrupts a sub-scheduler, by a move
\* from one CPU to the other, or by an acknowledgement taken for an answer.
THEOREM EveryProcessInOnePlace == DualSpec => []OnePlace
<1>1. DualInit => Shape /\ Places
  BY ShapeInit, PlacesInit
<1>2. Shape /\ Places /\ [DualNext]_dualvars => (Shape /\ Places)'
  BY ShapeStep, GeneratorShape, PlacesStep, GeneratorPlaces
<1>3. Shape /\ Places => OnePlace
  BY PlacesShow
<1>4. QED
  BY <1>1, <1>2, <1>3, PTL DEF DualSpec

-----------------------------------------------------------------------------
(* What the PCB and the child of a process say of where it is, and the     *)
(* state of CPUSharing that is kept.                                       *)

Present == Known \ ToSet(msgq.arrived)

Running == [c \in CPUs |-> IF sub[c].curr = Ghost THEN NoOne ELSE sub[c].curr]

Used == [p \in Procs |-> IF child[p].pc = "none" THEN 0
                         ELSE workload.runtime[p] - child[p].remainingtime]

Done == {p \in Procs : Finished(p)}

Occupies(p) == \E c \in CPUs : Running[c] = p

\* A process that has not run yet is as it came, and only the child of one that has
\* been forked has used any time.
Traced ==
    \A p \in Procs :
        /\ child[p].remainingtime <= workload.runtime[p]
        /\ Finished(p) => child[p].pc = "dead"
        /\ Occupies(p) => child[p].pc # "none"
        /\ ~Finished(p) /\ ~Occupies(p) => pcb[p] = NewPCB(p) /\ child[p] = NoChild

\* A step that neither starts nor ends a process nor lets it work.
Quiet ==
    /\ workload' = workload
    /\ \A p \in Procs :
          /\ \A c \in CPUs : sub'[c].curr = p <=> sub[c].curr = p
          /\ child'[p].pc = child[p].pc /\ child'[p].remainingtime = child[p].remainingtime
          /\ pcb'[p].state = "F" <=> pcb[p].state = "F"
          /\ ~Finished(p) /\ ~Occupies(p) => pcb'[p] = pcb[p] /\ child'[p] = child[p]

LEMMA RunningIs ==
  ASSUME NEW p \in Procs
  PROVE  /\ \A c \in CPUs : Running[c] = p <=> sub[c].curr = p
         /\ \A c \in CPUs : Running'[c] = p <=> sub'[c].curr = p
         /\ Occupies(p) <=> \E c \in CPUs : sub[c].curr = p
         /\ Occupies(p)' <=> \E c \in CPUs : sub'[c].curr = p
<1>1. p # NoOne /\ p # Ghost
  BY DualAssumption DEF AllProcs
<1>2. /\ \A c \in CPUs : Running[c] = p <=> sub[c].curr = p
      /\ \A c \in CPUs : Running'[c] = p <=> sub'[c].curr = p
  BY <1>1 DEF Running
<1>3. QED
  BY <1>2 DEF Occupies

\* A process that is in another location than a CPU, and what is known of it then.
LEMMA Unforked ==
  ASSUME Shape, Places, Traced, NEW l \in Locations, NEW p \in Real(Place[l]),
         \A c \in CPUs : l # RunningOn(c)
  PROVE  /\ p \in Procs /\ p \in Known /\ ~Finished(p) /\ ~Occupies(p)
         /\ pcb[p] = NewPCB(p) /\ child[p] = NoChild
<1>1. p \in Procs /\ p \in Known /\ ~Finished(p)
  BY LiveThere
<1>2. ASSUME NEW c \in CPUs, sub[c].curr = p PROVE FALSE
  <2>1. RunningOn(c) \in Locations /\ Place[RunningOn(c)] = OnCPU(p)
    BY <1>2, LocationsAre, PlaceAt
  <2>2. p \in AllProcs
    BY <1>1 DEF AllProcs
  <2>3. p \in Real(OnCPU(p))
    BY <1>1, <2>2, OnCPUIs
  <2>4. QED
    BY <2>1, <2>3 DEF Places, Sound
<1>3. ~Occupies(p)
  BY <1>1, <1>2, RunningIs
<1>4. QED
  BY <1>1, <1>3 DEF Traced

LEMMA QuietTraced ==
  ASSUME Traced, Quiet PROVE Traced'
<1>1. SUFFICES ASSUME NEW p \in Procs
               PROVE  /\ child'[p].remainingtime <= workload'.runtime[p]
                      /\ Finished(p)' => child'[p].pc = "dead"
                      /\ Occupies(p)' => child'[p].pc # "none"
                      /\ ~Finished(p)' /\ ~Occupies(p)' => pcb'[p] = NewPCB(p)' /\ child'[p] = NoChild
  BY DEF Traced, NoChild
<1>2. Occupies(p)' <=> Occupies(p)
  BY RunningIs DEF Quiet
<1>3. Finished(p)' <=> Finished(p)
  BY DEF Quiet, Finished
<1>4. NewPCB(p)' = NewPCB(p)
  BY DEF NewPCB, Runtime, Quiet
<1>5. QED
  BY <1>2, <1>3, <1>4 DEF Quiet, Traced

LEMMA QuietKeeps ==
  ASSUME Shape, Shape', Quiet
  PROVE  Running' = Running /\ Used' = Used /\ Done' = Done
<1>1. Done' = Done /\ Used' = Used
  BY DEF Quiet, Done, Used, Finished
<1>2. ASSUME NEW c \in CPUs PROVE Running'[c] = Running[c]
  <2>1. sub[c].curr \in AllProcs \cup {NoOne} /\ sub'[c].curr \in AllProcs \cup {NoOne}
    BY DEF Shape, SubTypes, SubRec
  <2>2. CASE sub[c].curr \in Procs \/ sub'[c].curr \in Procs
    <3>1. sub'[c].curr = sub[c].curr
      BY <2>2 DEF Quiet
    <3>2. QED
      BY <3>1 DEF Running
  <2>3. CASE ~(sub[c].curr \in Procs \/ sub'[c].curr \in Procs)
    <3>1. sub[c].curr \in {Ghost, NoOne} /\ sub'[c].curr \in {Ghost, NoOne}
      BY <2>1, <2>3 DEF AllProcs
    <3>2. QED
      BY <3>1 DEF Running
  <2>4. QED
    BY <2>2, <2>3
<1>3. Running' = Running
  BY <1>2 DEF Running
<1>4. QED
  BY <1>1, <1>3

-----------------------------------------------------------------------------
(* The steps that are quiet.                                               *)

LEMMA DrainedSame ==
  ASSUME Shape, Places, Traced, NEW c \in CPUs, NEW p \in Procs
  PROVE  DrainedPCB(c)[p] = pcb[p]
<1>1. p \in AllProcs
  BY DEF AllProcs
<1>2. CASE p \in ToSet(NewProcs(c))
  <2>1. p \in Real(Carried(submsg[c]))
    BY <1>2, DrainPlace DEF Real
  <2>2. /\ SentTo(c) \in Locations /\ Place[SentTo(c)] = Carried(submsg[c])
        /\ \A d \in CPUs : SentTo(c) # RunningOn(d)
    BY LocationsAre, PlaceAt
  <2>3. pcb[p] = NewPCB(p)
    BY <2>1, <2>2, Unforked
  <2>4. QED
    BY <1>1, <2>3 DEF DrainedPCB
<1>3. CASE p \notin ToSet(NewProcs(c))
  BY <1>1, <1>3 DEF DrainedPCB
<1>4. QED
  BY <1>2, <1>3

\* A step that touches PCBs and children of those that have a CPU only.
LEMMA HeldQuiet ==
  ASSUME UNCHANGED workload,
         \A c \in CPUs : sub'[c].curr = sub[c].curr,
         \A p \in Procs : /\ child'[p].pc = child[p].pc
                          /\ child'[p].remainingtime = child[p].remainingtime
                          /\ pcb'[p].state = "F" <=> pcb[p].state = "F"
                          /\ \/ pcb'[p] = pcb[p] /\ child'[p] = child[p]
                             \/ \E c \in CPUs : sub[c].curr = p
  PROVE  Quiet
<1>1. \A p \in Procs : Occupies(p) <=> \E c \in CPUs : sub[c].curr = p
  BY RunningIs
<1>2. QED
  BY <1>1 DEF Quiet

LEMMA PlainQuiet ==
  ASSUME UNCHANGED <<workload, child, pcb>>,
         \A c \in CPUs : sub'[c].curr = sub[c].curr
  PROVE  Quiet
  BY HeldQuiet

LEMMA LoopQuiet ==
  ASSUME Shape, Places, Traced, NEW c \in CPUs,
         UNCHANGED <<clk, workload, genvars, msgq, mainvars>>,
         Spin(c) \/ SubNewTick(c) \/ Frame(c)
  PROVE  Quiet
<1>1. /\ sub \in [CPUs -> SubRec] /\ sub[c] \in SubRec /\ child \in [AllProcs -> ChildRec]
      /\ DrainedPCB(c) \in [AllProcs -> PCBRec] /\ Procs \subseteq AllProcs
  BY SubReads, DrainTypes DEF AllProcs
<1>2. \A d \in CPUs : sub'[d].curr = sub[d].curr
  <2>1. PICK s \in SubRec : sub' = [sub EXCEPT ![c] = s] /\ s.curr = sub[c].curr
    BY LoopSub DEF Around
  <2>2. QED
    BY <1>1, <2>1
<1>3. \A p \in Procs : DrainedPCB(c)[p] = pcb[p]
  BY DrainedSame
<1>4. CASE pcb' = DrainedPCB(c) /\ child' = child
  BY <1>2, <1>3, <1>4, HeldQuiet
<1>5. CASE /\ Frame(c) /\ sub[c].curr # NoOne
           /\ pcb' = [DrainedPCB(c) EXCEPT ![sub[c].curr] = [Charged(c, sub[c].curr) EXCEPT !.state = "R"]]
           /\ child' = [child EXCEPT ![sub[c].curr].stopped = FALSE]
  <2> DEFINE k == sub[c].curr
             r == [Charged(c, k) EXCEPT !.state = "R"]
  <2>1. k \in AllProcs
    BY <1>1, <1>5 DEF SubRec
  <2>2. r.state = "R"
    <3>1. pcb[k] \in PCBRec
      BY <2>1, SubReads
    <3>2. QED
      BY <3>1 DEF Charged, PCBRec
  <2>3. k \in Procs => pcb[k].state # "F"
    BY CurrentLive DEF Finished
  <2>4. pcb' = [DrainedPCB(c) EXCEPT ![k] = r] /\ child' = [child EXCEPT ![k].stopped = FALSE]
    BY <1>5
  <2> HIDE DEF k, r
  <2>5. \A p \in Procs : pcb'[p] = IF p = k THEN r ELSE pcb[p]
    BY <1>1, <1>3, <2>1, <2>4
  <2>6. \A p \in Procs : /\ child'[p].pc = child[p].pc
                         /\ child'[p].remainingtime = child[p].remainingtime
                         /\ p # k => child'[p] = child[p]
    BY <1>1, <2>1, <2>4 DEF ChildRec
  <2>7. \A p \in Procs : /\ pcb'[p].state = "F" <=> pcb[p].state = "F"
                         /\ \/ pcb'[p] = pcb[p] /\ child'[p] = child[p]
                            \/ p = k
    BY <2>2, <2>3, <2>5, <2>6
  <2>8. workload' = workload
    OBVIOUS
  <2>9. QED
    BY <1>2, <2>6, <2>7, <2>8, HeldQuiet DEF k
<1>6. QED
  BY <1>4, <1>5 DEF Spin, SubNewTick, Frame, childvars

LEMMA StallQuiet ==
  ASSUME Shape, Places, Traced, NEW c \in CPUs,
         UNCHANGED <<clk, workload, genvars, msgq, mainvars>>, OnSIGUSR2(c)
  PROVE  Quiet
<1> DEFINE d == Drained(c)
           e == StallEnd
           k == sub[c].curr
           t == shmRT[c]
           s == [d EXCEPT !.stalled = TRUE, !.stall_end = e]
           r == [pcb[k] EXCEPT !.last_stopped = clk, !.state = "W", !.remaining_time = t]
<1>1. /\ sub \in [CPUs -> SubRec] /\ sub[c] \in SubRec /\ d \in SubRec /\ d.curr = k
      /\ child \in [AllProcs -> ChildRec] /\ pcb \in [AllProcs -> PCBRec]
      /\ DrainedPCB(c) \in [AllProcs -> PCBRec] /\ Procs \subseteq AllProcs /\ workload' = workload
  <2>1. workload' = workload /\ Procs \subseteq AllProcs
    BY DEF AllProcs
  <2>2. QED
    BY <2>1, SubReads, DrainTypes
<1>2. sub' = [sub EXCEPT ![c] = s]
  BY DEF OnSIGUSR2
<1>3. \/ pcb' = DrainedPCB(c) /\ child' = child
      \/ /\ k # NoOne
         /\ pcb' = [DrainedPCB(c) EXCEPT ![k] =
                      [@ EXCEPT !.last_stopped = clk, !.state = "W", !.remaining_time = t]]
         /\ child' = [child EXCEPT ![k].stopped = TRUE]
  BY DEF OnSIGUSR2
<1>4. \A p \in Procs : DrainedPCB(c)[p] = pcb[p]
  BY DrainedSame
<1>5. k \in Procs => pcb[k].state # "F"
  BY CurrentLive DEF Finished
<1>6. k \in AllProcs \cup {NoOne}
  BY <1>1 DEF SubRec
<1> HIDE DEF d, e, k, t
<1>7. \A x \in CPUs : sub'[x].curr = sub[x].curr
  <2>1. s.curr = k
    BY <1>1 DEF SubRec
  <2> HIDE DEF s
  <2>2. QED
    BY <1>1, <1>2, <2>1 DEF k
<1>8. CASE pcb' = DrainedPCB(c) /\ child' = child
  BY <1>1, <1>4, <1>7, <1>8, HeldQuiet
<1>9. CASE /\ k # NoOne
           /\ pcb' = [DrainedPCB(c) EXCEPT ![k] =
                        [@ EXCEPT !.last_stopped = clk, !.state = "W", !.remaining_time = t]]
           /\ child' = [child EXCEPT ![k].stopped = TRUE]
  <2>1. k \in AllProcs
    BY <1>6, <1>9
  <2>2. \A p \in Procs : /\ p # k => pcb'[p] = pcb[p]
                         /\ p = k => pcb'[p].state = "W"
    BY <1>1, <1>4, <1>9, <2>1 DEF PCBRec
  <2>3. \A p \in Procs : /\ child'[p].pc = child[p].pc
                         /\ child'[p].remainingtime = child[p].remainingtime
                         /\ p # k => child'[p] = child[p]
    BY <1>1, <1>9, <2>1 DEF ChildRec
  <2>4. \A p \in Procs : /\ pcb'[p].state = "F" <=> pcb[p].state = "F"
                         /\ \/ pcb'[p] = pcb[p] /\ child'[p] = child[p]
                            \/ p = k
    BY <1>5, <2>2, <2>3
  <2>5. QED
    BY <1>1, <1>7, <2>3, <2>4, HeldQuiet DEF k
<1>10. QED
  BY <1>3, <1>8, <1>9

LEMMA StealQuiet ==
  ASSUME Shape, Places, Traced, NEW c \in CPUs,
         UNCHANGED <<clk, workload, genvars, msgq, mainvars>>, OnSIGURG(c)
  PROVE  Quiet
<1> DEFINE d == Drained(c)
           q == AllButLast(d.ready)
<1>1. /\ sub \in [CPUs -> SubRec] /\ d \in SubRec /\ d.curr = sub[c].curr
      /\ child' = child /\ pcb' = DrainedPCB(c)
  <2>1. child' = child /\ pcb' = DrainedPCB(c)
    BY DEF OnSIGURG, childvars
  <2>2. QED
    BY <2>1, SubReads, DrainTypes
<1>2. sub' = [sub EXCEPT ![c] = d] \/ sub' = [sub EXCEPT ![c] = [d EXCEPT !.ready = q]]
  BY DEF OnSIGURG
<1>3. \A p \in Procs : DrainedPCB(c)[p] = pcb[p]
  BY DrainedSame
<1> HIDE DEF d, q
<1>4. \A x \in CPUs : sub'[x].curr = sub[x].curr
  BY <1>1, <1>2 DEF SubRec
<1>5. workload' = workload
  OBVIOUS
<1>6. QED
  BY <1>1, <1>3, <1>4, <1>5, HeldQuiet

\* Where a step of a sub-scheduler is not quiet, it gives the CPU to a process or
\* takes it from one that has ended.
LEMMA SubQuiet ==
  ASSUME Shape, Places, Traced, NEW c \in CPUs,
         Handler(c) \/ (SubScheduler(c) /\ ~SubFinish(c) /\ ~SubDispatch(c))
  PROVE  Quiet
<1>1. UNCHANGED <<clk, workload, genvars, msgq, mainvars>>
  BY DEF SubScheduler, Handler
<1>2. CASE \/ Publish(c, "spin", "loop") \/ Publish(c, "write", "read") \/ Publish(c, "last", "ack")
           \/ Compute(c, "compute", "write") \/ Compute(c, "left", "last")
           \/ ReadOther(c) \/ SubLeave(c) \/ SubExit(c) \/ NoDispatch(c) \/ DownGate(c) \/ SubAck(c)
  <2>1. UNCHANGED <<workload, child, pcb>>
    BY <1>1, <1>2 DEF Publish, Compute, ReadOther, SubLeave, SubExit, NoDispatch, DownGate, SubAck,
                      childvars
  <2>2. sub \in [CPUs -> SubRec]
    BY DEF Shape, SubTypes
  <2>3. \A d \in CPUs : sub'[d].curr = sub[d].curr
    <3>1. CASE \E l : sub' = [sub EXCEPT ![c].pc = l]
      BY <2>2, <3>1 DEF SubRec
    <3>2. CASE \E l, b : sub' = [sub EXCEPT ![c].pc = l, ![c].pub = b]
      BY <2>2, <3>2 DEF SubRec
    <3>3. CASE \E l, b : sub' = [sub EXCEPT ![c].pc = l, ![c].remaining = b]
      BY <2>2, <3>3 DEF SubRec
    <3>4. QED
      BY <1>2, <3>1, <3>2, <3>3 DEF Publish, Compute, ReadOther, SubLeave, SubExit, NoDispatch,
                                    DownGate, SubAck, SubGoto
  <2>4. QED
    BY <2>1, <2>3, PlainQuiet
<1>3. \/ Spin(c) \/ SubNewTick(c) \/ Frame(c) \/ OnSIGURG(c) \/ OnSIGUSR2(c)
      \/ Publish(c, "spin", "loop") \/ Publish(c, "write", "read") \/ Publish(c, "last", "ack")
      \/ Compute(c, "compute", "write") \/ Compute(c, "left", "last")
      \/ ReadOther(c) \/ SubLeave(c) \/ SubExit(c) \/ NoDispatch(c) \/ DownGate(c) \/ SubAck(c)
  BY DEF SubScheduler, Handler
<1>4. QED
  BY <1>1, <1>2, <1>3, LoopQuiet, StealQuiet, StallQuiet

LEMMA MainQuiet ==
  ASSUME Shape, Dispatcher \/ Generator \/ ClockTick \/ UNCHANGED dualvars
  PROVE  Quiet
<1>1. UNCHANGED <<workload, child, pcb>> /\ (sub' = sub \/ OpenGate)
  BY DEF Dispatcher, SpinAcks, NewTick, ReceiveProcess, ReceiveSync, ReceiveEnd, Algo, Route,
         PublishRoutes, Check, NoCheck, NothingStolen, Stolen, PublishMove, WaitOver, Open, After,
         Leave, Exit, Generator, ClockTick, dualvars, subvars, childvars
<1>2. \A c \in CPUs : sub'[c].curr = sub[c].curr
  <2>1. sub \in [CPUs -> SubRec]
    BY DEF Shape, SubTypes
  <2>2. CASE OpenGate
    BY <2>1, <2>2 DEF OpenGate, SubRec
  <2>3. QED
    BY <1>1, <2>2
<1>3. QED
  BY <1>1, <1>2, PlainQuiet

-----------------------------------------------------------------------------
(* The steps that are not, and the refinement.                             *)

SharingStep == [Sharing!SharingNext]_(Sharing!sharingvars)

LEMMA QuietShared ==
  ASSUME Shape, Shape', Places, Traced, Quiet, Present' = Present
  PROVE  Traced' /\ SharingStep
<1>1. Traced' /\ Running' = Running /\ Used' = Used /\ Done' = Done
  BY QuietTraced, QuietKeeps
<1>2. UNCHANGED <<workload.runtime, Present, Running, Used, Done>>
  BY <1>1 DEF Quiet
<1>3. UNCHANGED Sharing!sharingvars
  BY <1>2 DEF Sharing!sharingvars, Present, Known, Running, Used, Done
<1>4. QED
  BY <1>1, <1>3 DEF SharingStep

LEMMA PresentKept ==
  ASSUME UNCHANGED <<workload, g_queue>>, msgq'.arrived = msgq.arrived
  PROVE  Present' = Present
  BY DEF Present, Known

\* A process that the generator sends is not with the schedulers yet.
LEMMA GeneratorShared ==
  ASSUME Shape, Shape', Places, Traced, ClockTick \/ Generator \/ UNCHANGED dualvars
  PROVE  Traced' /\ SharingStep
<1> USE DEF dualvars, genvars
<1>1. Quiet
  BY MainQuiet
<1>2. workload' = workload /\ msgq \in [arrived: Seq(Procs), sync: Seq(Int), end: BOOLEAN]
  BY DEF ClockTick, Generator, Shape, InputTypes
<1>3. CASE GenSend
  <2> DEFINE x == Head(g_queue)
             q == msgq.arrived
  <2>1. /\ g_queue # <<>> /\ g_queue \in Seq(Procs) /\ g_queue' = Tail(g_queue)
        /\ msgq' = [msgq EXCEPT !.arrived = Append(q, x)] /\ q \in Seq(Procs)
    BY <1>2, <1>3 DEF GenSend, Arrived, Shape, InputTypes
  <2>2. /\ x \in Procs /\ x \notin ToSet(g_queue')
        /\ ToSet(g_queue) = {x} \cup ToSet(g_queue')
    BY <2>1, TailFacts DEF Places
  <2>3. ToSet(msgq'.arrived) = ToSet(q) \cup {x}
    <3>1. msgq'.arrived = Append(q, x)
      BY <1>2, <2>1
    <3> HIDE DEF x, q
    <3>2. ToSet(Append(q, x)) = ToSet(q) \cup {x}
      BY <2>1, <2>2, AppendFacts
    <3>3. QED
      BY <3>1, <3>2
  <2>4. Known' \ {x} = Known
    BY <1>2, <2>2 DEF Known
  <2>5. Present' = Present
    <3> HIDE DEF x
    <3>1. QED
      BY <2>3, <2>4 DEF Present
  <2>6. QED
    BY <1>1, <2>5, QuietShared
<1>4. CASE ~GenSend
  <2>1. g_queue' = g_queue /\ msgq'.arrived = msgq.arrived
    BY <1>2, <1>4 DEF ClockTick, Generator, GenStep, GenPoll, GenSync, GenEnd, GenShutdown
  <2>2. QED
    BY <1>1, <1>2, <2>1, PresentKept, QuietShared
<1>5. QED
  BY <1>3, <1>4

LEMMA ReceiveShared ==
  ASSUME Shape, Shape', Places, Traced, Dispatcher, ReceiveProcess
  PROVE  Traced' /\ SharingStep
<1> DEFINE q == msgq.arrived
           p == Head(q)
<1>1. Quiet /\ UNCHANGED <<workload, g_queue>>
  BY MainQuiet DEF Dispatcher, genvars
<1>2. Traced' /\ Running' = Running /\ Used' = Used /\ Done' = Done
  BY <1>1, QuietTraced, QuietKeeps
<1>3. /\ q # <<>> /\ q \in Seq(Procs) /\ msgq' = [msgq EXCEPT !.arrived = Tail(q)]
      /\ msgq \in [arrived: Seq(Procs), sync: Seq(Int), end: BOOLEAN]
  BY DEF ReceiveProcess, Shape, InputTypes
<1>4. q \in Seq(AllProcs) /\ p \in Procs /\ msgq'.arrived = Tail(q)
  <2>1. Procs \subseteq AllProcs
    BY DEF AllProcs
  <2>2. q \in Seq(AllProcs)
    BY <1>3, <2>1, SeqOfMore
  <2>3. QED
    BY <1>3, <2>2
<1>5. Arriving \in Locations /\ Place[Arriving] = q /\ Sound(Place, Live)
  BY LocationsAre, PlaceAt DEF Places
<1>6. Real(q) = {p} \cup Real(Tail(q)) /\ p \notin Real(Tail(q))
  <2>1. Once(q)
    BY <1>5 DEF Sound
  <2> HIDE DEF q
  <2>2. QED
    BY <1>3, <1>4, <2>1, TailPlace
<1>7. p \in Known
  BY <1>5, <1>6, LiveThere
<1> HIDE DEF q, p
<1>8. Known \in SUBSET Procs /\ Known' = Known
  BY <1>1, KnownProcs DEF Known
<1>9. p \notin Present /\ Present' = Present \cup {p}
  BY <1>4, <1>6, <1>7, <1>8 DEF Present, Real, q
<1>10. Sharing!Arrive(p)
  <2>1. UNCHANGED <<workload.runtime, Running, Used, Done>>
    BY <1>1, <1>2
  <2>2. QED
    BY <1>9, <2>1 DEF Sharing!Arrive, Present, Known, Running, Used, Done
<1>11. QED
  BY <1>2, <1>4, <1>10 DEF SharingStep, Sharing!SharingNext

LEMMA DispatcherShared ==
  ASSUME Shape, Shape', Places, Traced, Dispatcher
  PROVE  Traced' /\ SharingStep
<1>1. Quiet /\ UNCHANGED <<workload, g_queue>>
  BY MainQuiet DEF Dispatcher, genvars
<1>2. CASE ReceiveProcess
  BY <1>2, ReceiveShared
<1>3. CASE ~ReceiveProcess
  <2>1. msgq \in [arrived: Seq(Procs), sync: Seq(Int), end: BOOLEAN]
    BY DEF Shape, InputTypes
  <2>2. msgq'.arrived = msgq.arrived
    BY <1>3, <2>1 DEF Dispatcher, SpinAcks, NewTick, ReceiveSync, ReceiveEnd, Algo, Route,
         PublishRoutes, Check, NoCheck, NothingStolen, Stolen, PublishMove, WaitOver, Open, After,
         Leave, Exit
  <2>3. QED
    BY <1>1, <2>2, PresentKept, QuietShared
<1>4. QED
  BY <1>2, <1>3

LEMMA ChildShared ==
  ASSUME Shape, Shape', Places, Traced, NEW p \in AllProcs, Child(p)
  PROVE  Traced' /\ SharingStep
<1>1. /\ UNCHANGED <<workload, g_queue, msgq, sub, pcb>>
      /\ child \in [AllProcs -> ChildRec] /\ Served /\ workload \in Workloads
  BY DEF Child, mainvars, subvars, inputvars, msgvars, genvars, Shape, ChildTypes, InputTypes
<1>2. child[p] \in ChildRec /\ child[p].cpu \in CPUs
  BY <1>1 DEF ChildRec
<1>3. Present' = Present /\ Running' = Running /\ Done' = Done
  BY <1>1, PresentKept DEF Running, Done, Finished
<1>4. PICK k \in CPUs : k = child[p].cpu
  BY <1>2
<1> DEFINE left == child[p].remainingtime - 1
<1>5. CASE p = Ghost
  <2>1. \A x \in Procs : child'[x] = child[x]
    <3>1. \A x \in Procs : x \in AllProcs /\ x # p
      BY <1>5, DualAssumption DEF AllProcs
    <3>2. QED
      BY <1>1, <3>1 DEF Child, ChildTick, ChildExit
  <2>2. Quiet
    BY <1>1, <2>1, HeldQuiet
  <2>3. QED
    BY <1>3, <2>2, QuietShared
<1>6. CASE p \in Procs /\ ChildTick(p)
  <2>1. child[p].pc = "down" /\ child[p].remainingtime > 0 /\ sub[k].curr = p
    BY <1>1, <1>4, <1>6 DEF ChildTick, Runs, Served
  <2>2. child' = [child EXCEPT ![p] = [child[p] EXCEPT !.remainingtime = left, !.pc = AfterTick(left)]]
    BY <1>6 DEF ChildTick
  <2>3. AfterTick(left) \in {"down", "signal"}
    BY DEF AfterTick
  <2>4. /\ \A x \in Procs : x # p => child'[x] = child[x]
        /\ child'[p].pc \in {"down", "signal"} /\ child'[p].remainingtime = left
    <3>1. Procs \subseteq AllProcs
      BY DEF AllProcs
    <3> HIDE DEF left
    <3>2. QED
      BY <1>1, <1>2, <2>2, <2>3, <3>1 DEF ChildRec
  <2>5. ~Finished(p) /\ Occupies(p) /\ Running[k] = p
    BY <1>6, <2>1, RunningIs DEF Traced
  <2>6. /\ workload.runtime[p] \in Nat /\ child[p].remainingtime \in Nat
        /\ child[p].remainingtime <= workload.runtime[p]
    BY <1>1, <1>2, <1>6, WorkloadFacts DEF Traced, ChildRec
  <2>7. Traced'
    <3>1. \A x \in Procs : /\ Occupies(x)' <=> Occupies(x)
                           /\ Finished(x)' <=> Finished(x) 
                           /\ NewPCB(x)' = NewPCB(x)
      BY <1>1, <1>3 DEF Occupies, Finished, NewPCB, Runtime
    <3>2. left <= workload.runtime[p]
      BY <2>6
    <3> HIDE DEF left
    <3>3. QED
      BY <1>1, <2>4, <2>5, <3>1, <3>2 DEF Traced, NoChild
  <2>8. /\ Used[p] = workload.runtime[p] - child[p].remainingtime
        /\ Used' = [Used EXCEPT ![p] = workload.runtime[p] - left]
    BY <1>1, <1>6, <2>1, <2>4 DEF Used
  <2>9. Used[p] < workload.runtime[p] /\ Used' = [Used EXCEPT ![p] = @ + 1]
    <3>1. Used[p] < workload.runtime[p]
      BY <2>1, <2>6, <2>8
    <3>2. workload.runtime[p] - left = Used[p] + 1
      BY <2>6, <2>8
    <3> HIDE DEF left
    <3>3. QED
      BY <2>8, <3>1, <3>2
  <2>10. Sharing!Work(k)
    <3>1. p # NoOne /\ UNCHANGED <<workload.runtime, Present, Running, Done>>
      BY <1>1, <1>3, DualAssumption
    <3>2. QED
      BY <2>5, <2>9, <3>1 DEF Sharing!Work, Present, Known, Running, Used, Done
  <2>11. QED
    <3>1. Sharing!SharingNext
      BY <2>10 DEF Sharing!SharingNext
    <3>2. QED
      BY <2>7, <3>1 DEF SharingStep
<1>7. CASE p \in Procs /\ ChildExit(p)
  <2>1. child[p].pc = "signal" /\ child' = [child EXCEPT ![p] = [child[p] EXCEPT !.pc = "dead"]]
    BY <1>7 DEF ChildExit, Runs
  <2>2. /\ \A x \in Procs : x # p => child'[x] = child[x]
        /\ child'[p].pc = "dead" /\ child'[p].remainingtime = child[p].remainingtime
    <3>1. Procs \subseteq AllProcs
      BY DEF AllProcs
    <3>2. QED
      BY <1>1, <1>2, <2>1, <3>1 DEF ChildRec
  <2>3. Occupies(p)
    BY <1>1, <1>2, <1>7, <2>1, RunningIs DEF Served
  <2>4. Traced'
    <3>1. \A x \in Procs : /\ Occupies(x)' <=> Occupies(x)
                           /\ Finished(x)' <=> Finished(x)
                           /\ NewPCB(x)' = NewPCB(x)
      BY <1>1, <1>3 DEF Occupies, Finished, NewPCB, Runtime
    <3>2. QED
      BY <1>1, <2>2, <2>3, <3>1 DEF Traced, NoChild
  <2>5. Used' = Used
    BY <1>1, <2>1, <2>2 DEF Used
  <2>6. UNCHANGED <<workload.runtime, Present, Running, Used, Done>>
    BY <1>1, <1>3, <2>5
  <2>7. UNCHANGED Sharing!sharingvars
    BY <2>6 DEF Sharing!sharingvars, Present, Known, Running, Used, Done
  <2>8. QED
    BY <2>4, <2>7 DEF SharingStep
<1>8. QED
  BY <1>5, <1>6, <1>7 DEF Child, AllProcs

LEMMA DispatchShared ==
  ASSUME Shape, Shape', Places, Traced, NEW c \in CPUs, SubScheduler(c), SubDispatch(c)
  PROVE  Traced' /\ SharingStep
<1> DEFINE q == sub[c].ready
           p == Head(q)
           left == pcb[p].remaining_time
           r == [pcb[p] EXCEPT !.state = "R", !.forked = TRUE, !.start_time = sub[c].now,
                               !.waiting_time = sub[c].now - Arrival(p)]
           b == [pc |-> AfterTick(left), cpu |-> c, stopped |-> FALSE, remainingtime |-> left]
<1>1. /\ UNCHANGED <<workload, g_queue, msgq>>
      /\ sub[c].curr = NoOne /\ q # <<>> /\ sub \in [CPUs -> SubRec]
      /\ pcb \in [AllProcs -> PCBRec] /\ child \in [AllProcs -> ChildRec]
      /\ workload \in Workloads
  BY DEF SubScheduler, SubDispatch, CanDispatch, genvars, Shape, SubTypes, ChildTypes, InputTypes
<1>2. /\ sub' = [sub EXCEPT ![c] = [@ EXCEPT !.pc = "compute", !.curr = p, !.csu = -1, !.ready = Tail(q)]]
      /\ pcb' = [pcb EXCEPT ![p] = r] /\ child' = [child EXCEPT ![p] = b]
  BY Zenon DEF SubDispatch, RunProcess, Rest
<1>3. q \in Seq(AllProcs) /\ p \in AllProcs
  <2>1. q \in Seq(AllProcs)
    BY <1>1 DEF SubRec
  <2>2. QED
    BY <1>1, <2>1
<1>4. Present' = Present
  BY <1>1, PresentKept
<1>5. /\ r.state = "R" /\ b.pc = AfterTick(left) /\ b.remainingtime = left
      /\ b.pc \in {"down", "signal"}
  BY <1>1, <1>3 DEF PCBRec, AfterTick
<1>6. p \in Procs => p \in Real(q)
  BY <1>1, <1>3, TailPlace
<1>7. /\ ReadyOn(c) \in Locations /\ Place[ReadyOn(c)] = q
      /\ \A d \in CPUs : ReadyOn(c) # RunningOn(d)
  BY LocationsAre, PlaceAt
<1>8. p \in Procs => /\ p \in Known /\ ~Finished(p) /\ ~Occupies(p)
                     /\ left = workload.runtime[p] /\ child[p] = NoChild
  <2>1. SUFFICES ASSUME p \in Procs
                 PROVE  /\ p \in Known /\ ~Finished(p) /\ ~Occupies(p)
                        /\ left = workload.runtime[p] /\ child[p] = NoChild
    OBVIOUS
  <2>2. p \in Real(Place[ReadyOn(c)])
    BY <1>6, <1>7, <2>1
  <2> HIDE DEF p
  <2>3. p \in Known /\ ~Finished(p) /\ ~Occupies(p) /\ pcb[p] = NewPCB(p) /\ child[p] = NoChild
    BY <1>7, <2>2, Unforked
  <2>4. p # Ghost
    BY <2>1, DualAssumption
  <2>5. QED
    BY <2>3, <2>4 DEF NewPCB, Runtime
<1>9. p \in Procs => p \in Present /\ p \notin Done
  <2>1. SUFFICES ASSUME p \in Procs, p \in ToSet(msgq.arrived) PROVE FALSE
    BY <1>8 DEF Present, Done
  <2>2. /\ Arriving \in Locations /\ Place[Arriving] = msgq.arrived /\ Arriving # ReadyOn(c)
    BY LocationsAre, PlaceAt
  <2> HIDE DEF p
  <2>3. p \in Real(Place[Arriving]) /\ p \in Real(Place[ReadyOn(c)])
    BY <1>6, <1>7, <2>1, <2>2 DEF Real
  <2>4. QED
    BY <1>7, <2>2, <2>3 DEF Places, Sound
<1>10. Procs \subseteq AllProcs
  BY DEF AllProcs
<1> HIDE DEF p, q, left, r, b
<1>11. /\ sub'[c].curr = p /\ \A d \in CPUs : d # c => sub'[d] = sub[d]
  BY <1>1, <1>2 DEF SubRec
<1>12. \A x \in Procs : /\ x # p => pcb'[x] = pcb[x] /\ child'[x] = child[x]
                        /\ x = p => pcb'[x] = r /\ child'[x] = b
  BY <1>1, <1>2, <1>3, <1>10
<1>13. NoOne \notin Procs /\ Ghost \notin Procs /\ NoOne # Ghost
  BY DualAssumption DEF AllProcs
<1>14. CASE p = Ghost
  <2>1. \A x \in Procs : \A d \in CPUs : sub'[d].curr = x <=> sub[d].curr = x
    BY <1>1, <1>11, <1>13, <1>14
  <2>2. Quiet
    BY <1>1, <1>12, <1>13, <1>14, <2>1 DEF Quiet
  <2>3. QED
    BY <1>4, <2>2, QuietShared
<1>15. CASE p \in Procs
  <2>1. \A x \in Procs : /\ Occupies(x)' <=> Occupies(x) \/ x = p
                         /\ Finished(x)' <=> Finished(x)
                         /\ NewPCB(x)' = NewPCB(x)
    <3>1. \A x \in Procs : Finished(x)' <=> Finished(x)
      BY <1>5, <1>8, <1>12, <1>15 DEF Finished
    <3>2. \A x \in Procs : Occupies(x)' <=> Occupies(x) \/ x = p
      BY <1>1, <1>11, <1>13, RunningIs
    <3>3. QED
      BY <1>1, <3>1, <3>2 DEF NewPCB, Runtime
  <2>2. left <= workload.runtime[p]
    <3>1. workload.runtime[p] \in Nat
      BY <1>1, <1>15, WorkloadFacts
    <3>2. QED
      BY <1>8, <1>15, <3>1
  <2>3. Traced'
    BY <1>1, <1>5, <1>8, <1>12, <1>15, <2>1, <2>2 DEF Traced, NoChild
  <2>4. Used' = Used
    <3>1. Used'[p] = Used[p]
      <4>1. workload.runtime[p] \in Nat
        BY <1>1, <1>15, WorkloadFacts
      <4>2. child[p].pc = "none" /\ child'[p].pc # "none" /\ child'[p].remainingtime = workload.runtime[p]
        BY <1>5, <1>8, <1>12, <1>15 DEF NoChild
      <4>3. QED
        BY <1>1, <1>15, <4>1, <4>2 DEF Used
    <3>2. \A x \in Procs : x # p => Used'[x] = Used[x]
      BY <1>1, <1>12 DEF Used
    <3>3. QED
      BY <3>1, <3>2 DEF Used
  <2>5. Done' = Done
    BY <2>1 DEF Done
  <2>6. Running[c] = NoOne /\ Running' = [Running EXCEPT ![c] = p]
    BY <1>1, <1>11, <1>13, <1>15 DEF Running
  <2>7. \A d \in CPUs : Running[d] # p
    BY <1>8, <1>15 DEF Occupies
  <2>8. PICK x \in Procs : x = p
    BY <1>15
  <2>9. Sharing!Dispatch(c, x)
    <3>1. x \in Present \ Done
      BY <1>9, <1>15, <2>8
    <3>2. UNCHANGED <<workload.runtime, Present, Used, Done>>
      BY <1>1, <1>4, <2>4, <2>5
    <3>3. QED
      BY <2>6, <2>7, <2>8, <3>1, <3>2 DEF Sharing!Dispatch, Present, Known, Running, Used, Done
  <2>10. Sharing!SharingNext
    BY <2>9 DEF Sharing!SharingNext
  <2>11. QED
    BY <2>3, <2>10 DEF SharingStep
<1>16. QED
  BY <1>3, <1>14, <1>15 DEF AllProcs

\* The child of a process that finishes has ended, so it has used its time.
LEMMA FinishShared ==
  ASSUME Shape, Shape', Places, Traced, NEW c \in CPUs, SubScheduler(c), SubFinish(c)
  PROVE  Traced' /\ SharingStep
<1> DEFINE p == sub[c].curr
           r == [pcb[p] EXCEPT !.finish_time = sub[c].now, !.remaining_time = 0, !.state = "F"]
<1>1. /\ UNCHANGED <<workload, g_queue, msgq, child>> /\ child[p].pc = "dead"
      /\ sub[c].pc = "finish" /\ sub \in [CPUs -> SubRec] /\ pcb \in [AllProcs -> PCBRec] /\ Served
      /\ workload \in Workloads
  BY DEF SubScheduler, SubFinish, genvars, Shape, SubTypes, InputTypes
<1>2. /\ sub' = [sub EXCEPT ![c] = [@ EXCEPT !.curr = NoOne, !.pc = "down", !.csu = sub[c].now + 1]]
      /\ pcb' = [pcb EXCEPT ![p] = r]
  BY Zenon DEF SubFinish
<1>3. p \in AllProcs /\ child[p].remainingtime = 0
  BY <1>1 DEF Served, SubRec
<1>4. /\ sub'[c].curr = NoOne /\ \A d \in CPUs : d # c => sub'[d] = sub[d]
  BY <1>1, <1>2 DEF SubRec
<1>5. r.state = "F"
  BY <1>1, <1>3 DEF PCBRec
<1>6. Procs \subseteq AllProcs /\ NoOne \notin Procs /\ Ghost \notin Procs /\ NoOne # Ghost
  BY DualAssumption DEF AllProcs
<1>7. Present' = Present
  BY <1>1, PresentKept
<1>8. Used' = Used
  BY <1>1 DEF Used
<1>9. CASE p = Ghost
  <2>1. \A x \in Procs : \A d \in CPUs : sub'[d].curr = x <=> sub[d].curr = x
    BY <1>4, <1>6, <1>9
  <2>2. \A x \in Procs : pcb'[x] = pcb[x]
    BY <1>1, <1>2, <1>6, <1>9
  <2>3. Quiet
    BY <1>1, <2>1, <2>2 DEF Quiet
  <2>4. QED
    BY <1>7, <2>3, QuietShared
<1>10. CASE p \in Procs
  <2>1. Occupies(p) /\ ~Finished(p)
    BY <1>10, RunningIs, CurrentLive
  <2>2. \A d \in CPUs : Running'[d] = IF d = c THEN NoOne ELSE Running[d]
    BY <1>4 DEF Running
  <2>3. Running[c] = p /\ Running' = [Running EXCEPT ![c] = NoOne]
    BY <1>6, <1>10, <2>2 DEF Running
  <2> HIDE DEF p, r
  <2>4. \A x \in Procs : /\ x # p => (Occupies(x)' <=> Occupies(x)) /\ pcb'[x] = pcb[x]
                         /\ x = p => pcb'[x] = r
                         /\ NewPCB(x)' = NewPCB(x)
    <3>1. \A x \in Procs : x # p => (Occupies(x)' <=> Occupies(x))
      BY <1>6, <2>2, <2>3 DEF Occupies
    <3>2. \A x \in Procs : /\ x # p => pcb'[x] = pcb[x]
                           /\ x = p => pcb'[x] = r
      BY <1>1, <1>2, <1>3, <1>6
    <3>3. QED
      BY <1>1, <3>1, <3>2 DEF NewPCB, Runtime
  <2>5. \A x \in Procs : Finished(x)' <=> Finished(x) \/ x = p
    BY <1>5, <2>4 DEF Finished
  <2>6. \A x \in Procs : Occupies(x)' => Occupies(x)
    BY <2>1, <2>4
  <2>7. Traced'
    BY <1>1, <2>4, <2>5, <2>6 DEF Traced, NoChild
  <2>8. Done' = Done \cup {p}
    BY <1>10, <2>5 DEF Done
  <2>9. Used[p] = workload.runtime[p]
    <3>1. workload.runtime[p] \in Nat
      BY <1>1, <1>10, WorkloadFacts
    <3>2. QED
      BY <1>1, <1>3, <1>10, <3>1 DEF Used
  <2>10. Sharing!Finish(c)
    <3>1. UNCHANGED <<workload.runtime, Present, Used>> /\ p # NoOne
      BY <1>1, <1>6, <1>7, <1>8, <1>10
    <3>2. QED
      BY <2>3, <2>8, <2>9, <3>1 DEF Sharing!Finish, Present, Known, Running, Used, Done
  <2>11. Sharing!SharingNext
    BY <2>10 DEF Sharing!SharingNext
  <2>12. QED
    BY <2>7, <2>11 DEF SharingStep
<1>11. QED
  BY <1>3, <1>9, <1>10 DEF AllProcs

LEMMA StepShared ==
  ASSUME Shape, Places, Traced, [DualNext]_dualvars
  PROVE  Traced' /\ SharingStep
<1>1. Shape'
  BY ShapeStep, GeneratorShape
<1>2. CASE UNCHANGED dualvars \/ Terminated \/ ClockTick \/ Generator
  BY <1>1, <1>2, GeneratorShared DEF Terminated
<1>3. ASSUME NEW c \in CPUs, SubScheduler(c) \/ Handler(c) PROVE Traced' /\ SharingStep
  <2>1. CASE SubScheduler(c) /\ SubFinish(c)
    BY <1>1, <2>1, FinishShared
  <2>2. CASE SubScheduler(c) /\ SubDispatch(c)
    BY <1>1, <2>2, DispatchShared
  <2>3. CASE Handler(c) \/ (SubScheduler(c) /\ ~SubFinish(c) /\ ~SubDispatch(c))
    <3>1. UNCHANGED <<clk, workload, genvars, msgq, mainvars>>
      BY <2>3 DEF SubScheduler, Handler
    <3>2. Present' = Present
      BY <3>1, PresentKept DEF genvars
    <3>3. Quiet
      BY <2>3, SubQuiet
    <3>4. QED
      BY <1>1, <3>2, <3>3, QuietShared
  <2>4. QED
    BY <1>3, <2>1, <2>2, <2>3
<1>4. QED
  BY <1>1, <1>2, <1>3, DispatcherShared, ChildShared DEF DualNext

LEMMA InitShared == DualInit => Traced /\ Sharing!SharingInit
<1> SUFFICES ASSUME DualInit PROVE Traced /\ Sharing!SharingInit
  OBVIOUS
<1>1. /\ workload \in Workloads /\ g_queue = workload.order /\ msgq.arrived = <<>>
      /\ child = [p \in AllProcs |-> NoChild] /\ sub = [c \in CPUs |-> IdleSub]
      /\ pcb = [p \in AllProcs |-> NewPCB(p)]
  BY DEF DualInit, GenInit, NoMessage
<1> HIDE DEF DualInit
<1>2. workload.runtime \in [Procs -> Nat] /\ Procs \subseteq AllProcs
  BY <1>1, WorkloadFacts DEF AllProcs
<1>3. \A p \in Procs : /\ child[p] = NoChild /\ pcb[p] = NewPCB(p) /\ ~Finished(p)
                       /\ child[p].pc = "none" /\ child[p].remainingtime = 0
  BY <1>1, <1>2 DEF NoChild, NewPCB, Finished
<1>4. Running = [c \in CPUs |-> NoOne]
  BY <1>1 DEF Running, IdleSub
<1>5. \A p \in Procs : ~Occupies(p)
  BY <1>4, DualAssumption DEF Occupies, AllProcs
<1>6. Traced
  BY <1>2, <1>3, <1>5 DEF Traced
<1>7. Present = {} /\ Done = {} /\ Used = [p \in Procs |-> 0]
  BY <1>1, <1>3 DEF Present, Known, Done, Used
<1>8. QED
  BY <1>2, <1>4, <1>6, <1>7 DEF Sharing!SharingInit, Present, Known, Running, Used, Done

\* SharesTheCPUs: whatever is moved, and whichever handler interrupts a sub-scheduler,
\* each process gets its runtime on one CPU at a time and is finished then.
THEOREM ImplementsSharing == DualSpec => SharesTheCPUs
<1>1. DualInit => Shape /\ Places /\ Traced /\ Sharing!SharingInit
  BY ShapeInit, PlacesInit, InitShared
<1>2. Shape /\ Places /\ Traced /\ [DualNext]_dualvars
         => (Shape /\ Places /\ Traced)' /\ SharingStep
  BY ShapeStep, GeneratorShape, PlacesStep, GeneratorPlaces, StepShared
<1>3. SharingStep <=> [Sharing!SharingNext]_(Sharing!sharingvars)
  BY DEF SharingStep
<1>4. QED
  BY <1>1, <1>2, <1>3, PTL DEF DualSpec, SharesTheCPUs, Sharing!SharingSpec

-----------------------------------------------------------------------------
(* The gate and the stalls, as long as both sub-schedulers run.  The one   *)
(* that goes on alone finds the permit that the other does not take.       *)

\* What the generator has sent reaches a dispatcher that waits for it in the same
\* tick, and so does the answer of a sub-scheduler.
Heard ==
    /\ lastTime \in Int /\ lastTime <= clk /\ g_now <= clk
    /\ g_pc \in {"poll", "send", "waitpid", "exited"}
    /\ g_pc = "send" => g_now = clk
    /\ \A i \in DOMAIN msgq.sync : msgq.sync[i] <= clk
    /\ g_pc = "waitpid" /\ receivingProcesses => msgq.end
    /\ g_pc = "exited" => pc = "exited"
    /\ pc = "receive" => receivingProcesses
    /\ (pc = "receive" \/ now < clk) /\ receivingProcesses /\ g_pc = "poll" /\ lastTime = clk =>
          msgq.sync # <<>> /\ msgq.sync[Len(msgq.sync)] = clk
    /\ pc = "steal" => urg # {} \/ resp # <<>>

\* The tick in which the dispatcher moved a process, when it opens the gate after the
\* stall.
AfterStall == now = movedAt /\ clk = movedAt + 3

\* The dispatcher is in the tick of the clock, but for a stall and for the moment at
\* which it sees the next one.
Timed ==
    /\ now <= clk
    /\ pc \in {"receive", "algo", "route", "threshold", "steal", "moved"} => now = clk
    /\ pc = "wait" => now = movedAt /\ wait_until = movedAt + 3 /\ clk <= wait_until
    /\ pc \in {"open", "after"} => now = clk \/ AfterStall
    /\ pc = "spin" => now = clk \/ AfterStall \/ clk = now + 1
    /\ pc \in {"route", "threshold", "steal", "moved", "wait", "open"} => now > 0
    /\ pc \notin {"waitpid", "exited"}

\* A sub-scheduler comes to the gate in the tick of the clock, once in a tick.
Ticks ==
    \A c \in CPUs :
        /\ sub[c].now <= clk /\ sub[c].last_tick <= clk
        /\ sub[c].pc \in {"finish", "down"} => sub[c].now = clk /\ sub[c].last_tick < clk
        /\ sub[c].pc \in {"gate", "frame"} => sub[c].last_tick <= sub[c].now
        /\ sub[c].pc = "gate" => sub[c].now # 0

\* A sub-scheduler that has not passed the gate in the tick of the dispatcher.
Behind(c) == sub[c].last_tick < now /\ (sub[c].pc = "frame" => sub[c].now < now)

Due(c) == IF Behind(c) THEN 1 ELSE 0

\* The dispatcher has opened the gate for its tick.
Opened == pc \in {"after", "spin"}

\* It is closed before the first.
HeldAtStart ==
    now <= 0 =>
        /\ gate = 0
        /\ \A c \in CPUs : /\ sub[c].last_tick <= 0 /\ (sub[c].pc = "frame" => sub[c].now <= 0)
                           /\ sub[c].pc = "gate" => sub[c].now = clk /\ clk > now

\* Until the dispatcher opens it nobody passes, and whoever waits longer than a tick
\* sleeps.
HeldClosed ==
    now > 0 /\ ~Opened =>
        /\ gate = 0
        /\ \A c \in CPUs : /\ Behind(c)
                           /\ clk > now => sub[c].pc = "gate"
                           /\ sub[c].pc = "gate" => sub[c].now = now

\* After that there is a permit for each that has not passed, and none is left when
\* the clock goes on.
HeldOpen ==
    now > 0 /\ Opened =>
        /\ gate = Due(1) + Due(2) /\ (clk > now => gate = 0)
        /\ \A c \in CPUs :
              /\ sub[c].last_tick <= now /\ (sub[c].pc = "frame" => sub[c].now <= now)
              /\ sub[c].pc = "gate" => sub[c].now = clk /\ clk > now

\* A stalled sub-scheduler starts no tick after the end of the stall, which the
\* handler sets in the tick of the move.
StallsEnd ==
    \A c \in CPUs :
        /\ sub[c].stalled => clk <= sub[c].stall_end /\ sub[c].last_tick < sub[c].stall_end
        /\ sub[c].stalled /\ c \notin usr2 => sub[c].stall_end = movedAt + 3
        /\ c \in usr2 => pc = "wait" /\ clk = movedAt

\* Holds while both sub-schedulers run.
Paced == Heard /\ Timed /\ Ticks /\ HeldAtStart /\ HeldClosed /\ HeldOpen /\ StallsEnd

LEMMA TimeTypes ==
  ASSUME Shape
  PROVE  /\ clk \in Int /\ now \in Int /\ movedAt \in Int /\ wait_until \in Int /\ g_now \in Int
         /\ clk >= 0 /\ gate \in 0..2 /\ msgq.sync \in Seq(Int) /\ resp \in Seq(Answer)
         /\ \A c \in CPUs : /\ sub[c].now \in Int /\ sub[c].last_tick \in Int
                            /\ sub[c].stall_end \in Int /\ sub[c].stalled \in BOOLEAN
<1>1. MaxClk \in Nat
  BY DualAssumption
<1>2. sub \in [CPUs -> SubRec]
  BY DEF Shape, SubTypes
<1>3. \A r \in SubRec : r.now \in Int /\ r.last_tick \in Int /\ r.stall_end \in Int
                        /\ r.stalled \in BOOLEAN
  BY DEF SubRec
<1>4. \A c \in CPUs : sub[c] \in SubRec
  BY <1>2
<1>5. msgq.sync \in Seq(Int)
  BY DEF Shape, InputTypes
<1>6. QED
  BY <1>1, <1>3, <1>4, <1>5 DEF Shape, InputTypes, MainTypes, LoadTypes, MessageTypes

-----------------------------------------------------------------------------
(* What a step of a sub-scheduler changes of all this.                     *)

KeepsTime(c) == sub'[c].now = sub[c].now /\ sub'[c].last_tick = sub[c].last_tick

KeepsStall(c) == sub'[c].stalled = sub[c].stalled /\ sub'[c].stall_end = sub[c].stall_end

AtTheGate == {"finish", "down", "gate", "frame"}

\* The rest of a frame, and the wait for the next.
Serving == {"compute", "write", "read"}

Looping == {"loop", "spin"}

\* It works between two waits, or answers a request to steal.
WorksOn(c) ==
    /\ KeepsTime(c) /\ KeepsStall(c) /\ gate' = gate /\ usr2' = usr2
    /\ \/ sub'[c].pc = sub[c].pc
       \/ sub[c].pc \in Serving \cup {"dispatch"} /\ sub'[c].pc \in Serving \cup {"loop"}
       \/ sub[c].pc \in Looping /\ sub'[c].pc \in Looping
       \/ sub[c].pc = "finish" /\ sub'[c].pc = "down"
    /\ \/ urg' = urg /\ resp' = resp
       \/ c \in urg /\ resp' # <<>>

Arrives(c) ==
    /\ sub[c].pc = "loop" /\ sub'[c].pc \in {"finish", "down"}
    /\ clk # sub[c].last_tick /\ sub'[c].now = clk /\ sub'[c].last_tick = sub[c].last_tick
    /\ KeepsStall(c) /\ UNCHANGED <<gate, usr2, urg, resp>>

MeetsGate(c) ==
    /\ sub[c].pc = "down" /\ KeepsTime(c) /\ KeepsStall(c) /\ UNCHANGED <<usr2, urg, resp>>
    /\ \/ sub[c].now = 0 /\ sub'[c].pc = "frame" /\ gate' = gate
       \/ sub[c].now # 0 /\ gate > 0 /\ sub'[c].pc = "frame" /\ gate' = gate - 1
       \/ sub[c].now # 0 /\ ~(gate > 0) /\ sub'[c].pc = "gate" /\ gate' = gate

Starts(c) ==
    /\ sub[c].pc = "frame" /\ sub'[c].pc = "dispatch"
    /\ sub'[c].now = sub[c].now /\ sub'[c].last_tick = sub[c].now
    /\ sub'[c].stalled <=> sub[c].stalled /\ ~(sub[c].now >= sub[c].stall_end)
    /\ sub'[c].stall_end = sub[c].stall_end
    /\ UNCHANGED <<gate, usr2, urg, resp>>

IsStalled(c) ==
    /\ c \in usr2 /\ usr2' = usr2 \ {c}
    /\ KeepsTime(c) /\ sub'[c].pc = sub[c].pc
    /\ sub'[c].stalled = TRUE /\ sub'[c].stall_end = clk + 3
    /\ UNCHANGED <<gate, urg, resp>>

LEMMA DrainKeeps ==
  ASSUME Shape, NEW c \in CPUs
  PROVE  /\ sub[c] \in SubRec /\ Drained(c).pc = sub[c].pc /\ Drained(c).now = sub[c].now
         /\ Drained(c).last_tick = sub[c].last_tick /\ Drained(c).stalled = sub[c].stalled
         /\ Drained(c).stall_end = sub[c].stall_end
         /\ DOMAIN Drained(c) = DOMAIN sub[c]
<1>1. sub[c] \in SubRec
  BY DEF Shape, SubTypes
<1>2. QED
  BY <1>1 DEF Drained, SubRec

LEMMA PlainWorks ==
  ASSUME Shape, NEW c \in CPUs, NEW s,
         s.now = sub[c].now, s.last_tick = sub[c].last_tick,
         s.stalled = sub[c].stalled, s.stall_end = sub[c].stall_end,
         \/ s.pc = sub[c].pc
         \/ sub[c].pc \in Serving \cup {"dispatch"} /\ s.pc \in Serving \cup {"loop"}
         \/ sub[c].pc \in Looping /\ s.pc \in Looping
         \/ sub[c].pc = "finish" /\ s.pc = "down",
         sub' = [sub EXCEPT ![c] = s],
         UNCHANGED <<gate, usr2>>,
         (urg' = urg /\ resp' = resp) \/ (c \in urg /\ resp' # <<>>)
  PROVE  WorksOn(c) /\ \A d \in CPUs \ {c} : sub'[d] = sub[d]
<1>1. sub \in [CPUs -> SubRec]
  BY DEF Shape, SubTypes
<1>2. sub'[c] = s /\ \A d \in CPUs \ {c} : sub'[d] = sub[d]
  BY <1>1
<1>3. QED
  BY <1>2 DEF WorksOn, KeepsTime, KeepsStall

LEMMA OwnKept ==
  ASSUME Shape, NEW c \in CPUs, NEW s, sub' = [sub EXCEPT ![c] = s]
  PROVE  sub'[c] = s /\ \A d \in CPUs \ {c} : sub'[d] = sub[d]
<1>1. sub \in [CPUs -> SubRec]
  BY DEF Shape, SubTypes
<1>2. QED
  BY <1>1

LEMMA PlainMoves ==
  ASSUME Shape, NEW c \in CPUs,
         \/ Spin(c) \/ NoDispatch(c) \/ SubDispatch(c) \/ ReadOther(c)
         \/ SubFinish(c)
         \/ Publish(c, "spin", "loop") \/ Publish(c, "write", "read")
         \/ Compute(c, "compute", "write") \/ OnSIGURG(c)
  PROVE  WorksOn(c) /\ \A d \in CPUs \ {c} : sub'[d] = sub[d]
<1>1. sub[c] \in SubRec
  BY DEF Shape, SubTypes
<1>2. CASE Spin(c)
  <2> DEFINE s == [Drained(c) EXCEPT !.pc = "spin", !.pub = LoadOf(c, Drained(c).ready, DrainedPCB(c))]
  <2>1. sub' = [sub EXCEPT ![c] = s] /\ sub[c].pc = "loop" /\ UNCHANGED <<gate, usr2, urg, resp>>
    BY <1>2 DEF Spin
  <2>2. /\ s.pc = "spin" /\ s.now = sub[c].now /\ s.last_tick = sub[c].last_tick
        /\ s.stalled = sub[c].stalled /\ s.stall_end = sub[c].stall_end
    BY DrainKeeps DEF SubRec
  <2> HIDE DEF s
  <2>3. QED
    BY <2>1, <2>2, PlainWorks DEF Serving, Looping
<1>3. CASE NoDispatch(c)
  <2> DEFINE s == [sub[c] EXCEPT !.pc = "compute"]
  <2>1. sub' = [sub EXCEPT ![c] = s] /\ sub[c].pc = "dispatch" /\ UNCHANGED <<gate, usr2, urg, resp>>
    BY <1>3 DEF NoDispatch, SubGoto
  <2>2. /\ s.pc = "compute" /\ s.now = sub[c].now /\ s.last_tick = sub[c].last_tick
        /\ s.stalled = sub[c].stalled /\ s.stall_end = sub[c].stall_end
    BY <1>1 DEF SubRec
  <2> HIDE DEF s
  <2>3. QED
    BY <2>1, <2>2, PlainWorks DEF Serving, Looping
<1>4. CASE ReadOther(c)
  <2> DEFINE s == [sub[c] EXCEPT !.pc = "loop", !.remaining = load[Other(c)].rt]
  <2>1. sub' = [sub EXCEPT ![c] = s] /\ sub[c].pc = "read" /\ UNCHANGED <<gate, usr2, urg, resp>>
    BY <1>4 DEF ReadOther
  <2>2. /\ s.pc = "loop" /\ s.now = sub[c].now /\ s.last_tick = sub[c].last_tick
        /\ s.stalled = sub[c].stalled /\ s.stall_end = sub[c].stall_end
    BY <1>1 DEF SubRec
  <2> HIDE DEF s
  <2>3. QED
    BY <2>1, <2>2, PlainWorks DEF Serving, Looping
<1>5. CASE Publish(c, "spin", "loop")
  <2> DEFINE s == [sub[c] EXCEPT !.pc = "loop", !.pub = NoLoad[c]]
  <2>1. sub' = [sub EXCEPT ![c] = s] /\ sub[c].pc = "spin" /\ UNCHANGED <<gate, usr2, urg, resp>>
    BY <1>5 DEF Publish
  <2>2. /\ s.pc = "loop" /\ s.now = sub[c].now /\ s.last_tick = sub[c].last_tick
        /\ s.stalled = sub[c].stalled /\ s.stall_end = sub[c].stall_end
    BY <1>1 DEF SubRec
  <2> HIDE DEF s
  <2>3. QED
    BY <2>1, <2>2, PlainWorks DEF Serving, Looping
<1>6. CASE Publish(c, "write", "read")
  <2> DEFINE s == [sub[c] EXCEPT !.pc = "read", !.pub = NoLoad[c]]
  <2>1. sub' = [sub EXCEPT ![c] = s] /\ sub[c].pc = "write" /\ UNCHANGED <<gate, usr2, urg, resp>>
    BY <1>6 DEF Publish
  <2>2. /\ s.pc = "read" /\ s.now = sub[c].now /\ s.last_tick = sub[c].last_tick
        /\ s.stalled = sub[c].stalled /\ s.stall_end = sub[c].stall_end
    BY <1>1 DEF SubRec
  <2> HIDE DEF s
  <2>3. QED
    BY <2>1, <2>2, PlainWorks DEF Serving, Looping
<1>7. CASE Compute(c, "compute", "write")
  <2> DEFINE s == [sub[c] EXCEPT !.pc = "write", !.pub = LoadOf(c, sub[c].ready, pcb)]
  <2>1. sub' = [sub EXCEPT ![c] = s] /\ sub[c].pc = "compute" /\ UNCHANGED <<gate, usr2, urg, resp>>
    BY <1>7 DEF Compute
  <2>2. /\ s.pc = "write" /\ s.now = sub[c].now /\ s.last_tick = sub[c].last_tick
        /\ s.stalled = sub[c].stalled /\ s.stall_end = sub[c].stall_end
    BY <1>1 DEF SubRec
  <2> HIDE DEF s
  <2>3. QED
    BY <2>1, <2>2, PlainWorks DEF Serving, Looping
<1>8. CASE SubDispatch(c)
  <2> DEFINE s == [sub[c] EXCEPT !.pc = "compute", !.curr = Head(sub[c].ready), !.csu = -1,
                                 !.ready = Rest(sub[c].ready)]
  <2>1. sub' = [sub EXCEPT ![c] = s] /\ sub[c].pc = "dispatch" /\ UNCHANGED <<gate, usr2, urg, resp>>
    BY <1>8 DEF SubDispatch
  <2>2. /\ s.pc = "compute" /\ s.now = sub[c].now /\ s.last_tick = sub[c].last_tick
        /\ s.stalled = sub[c].stalled /\ s.stall_end = sub[c].stall_end
    BY <1>1 DEF SubRec
  <2> HIDE DEF s
  <2>3. QED
    BY <2>1, <2>2, PlainWorks DEF Serving, Looping
<1>9. CASE SubFinish(c)
  <2> DEFINE s == [sub[c] EXCEPT !.curr = NoOne, !.pc = "down", !.csu = sub[c].now + 1]
  <2>1. sub' = [sub EXCEPT ![c] = s] /\ sub[c].pc = "finish" /\ UNCHANGED <<gate, usr2, urg, resp>>
    BY <1>9 DEF SubFinish
  <2>2. /\ s.pc = "down" /\ s.now = sub[c].now /\ s.last_tick = sub[c].last_tick
        /\ s.stalled = sub[c].stalled /\ s.stall_end = sub[c].stall_end
    BY <1>1 DEF SubRec
  <2> HIDE DEF s
  <2>3. QED
    BY <2>1, <2>2, PlainWorks
<1>10. CASE OnSIGURG(c)
  <2>1. PICK s : /\ sub' = [sub EXCEPT ![c] = s]
                 /\ s.now = sub[c].now /\ s.last_tick = sub[c].last_tick
                 /\ s.stalled = sub[c].stalled /\ s.stall_end = sub[c].stall_end
                 /\ s.pc = sub[c].pc
    <3> DEFINE s == [Drained(c) EXCEPT !.ready = AllButLast(Drained(c).ready)]
    <3>1. sub' = [sub EXCEPT ![c] = Drained(c)] \/ sub' = [sub EXCEPT ![c] = s]
      BY <1>10 DEF OnSIGURG
    <3>2. /\ s.pc = sub[c].pc /\ s.now = sub[c].now /\ s.last_tick = sub[c].last_tick
          /\ s.stalled = sub[c].stalled /\ s.stall_end = sub[c].stall_end
      BY DrainKeeps DEF SubRec
    <3> HIDE DEF s
    <3>3. QED
      BY <3>1, <3>2, DrainKeeps
  <2>2. resp \in Seq(Answer) /\ \E m : resp' = Append(resp, m)
    BY <1>10 DEF OnSIGURG, Shape, MessageTypes
  <2>3. c \in urg /\ resp' # <<>> /\ UNCHANGED <<gate, usr2>>
    <3>1. \A m : Append(resp, m) # <<>>
      BY <2>2
    <3>2. QED
      BY <1>10, <2>2, <3>1 DEF OnSIGURG
  <2>4. QED
    BY <2>1, <2>3, PlainWorks
<1>11. QED
  BY <1>2, <1>3, <1>4, <1>5, <1>6, <1>7, <1>8, <1>9, <1>10

LEMMA GateMoves ==
  ASSUME Shape, NEW c \in CPUs,
         SubNewTick(c) \/ DownGate(c) \/ Frame(c) \/ OnSIGUSR2(c)
  PROVE  /\ Arrives(c) \/ MeetsGate(c) \/ Starts(c) \/ IsStalled(c)
         /\ \A d \in CPUs \ {c} : sub'[d] = sub[d]
<1>1. sub[c] \in SubRec
  BY DEF Shape, SubTypes
<1>2. CASE SubNewTick(c)
  <2> DEFINE s == [Drained(c) EXCEPT !.pc = IF processFinished[c] THEN "finish" ELSE "down",
                                     !.now = clk]
  <2>1. /\ sub' = [sub EXCEPT ![c] = s] /\ sub[c].pc = "loop" /\ clk # sub[c].last_tick
        /\ UNCHANGED <<gate, usr2, urg, resp>>
    BY <1>2 DEF SubNewTick
  <2>2. /\ s.pc \in {"finish", "down"} /\ s.now = clk /\ s.last_tick = sub[c].last_tick
        /\ s.stalled = sub[c].stalled /\ s.stall_end = sub[c].stall_end
    BY DrainKeeps DEF SubRec
  <2> HIDE DEF s
  <2>3. QED
    BY <2>1, <2>2, OwnKept DEF Arrives, KeepsStall
<1>3. CASE DownGate(c)
  <2>1. PICK l : /\ sub' = [sub EXCEPT ![c] = [sub[c] EXCEPT !.pc = l]]
                 /\ \/ sub[c].now = 0 /\ l = "frame" /\ gate' = gate
                    \/ sub[c].now # 0 /\ gate > 0 /\ l = "frame" /\ gate' = gate - 1
                    \/ sub[c].now # 0 /\ ~(gate > 0) /\ l = "gate" /\ gate' = gate
    <3>1. PICK l : SubGoto(c, l)
                   /\ \/ sub[c].now = 0 /\ l = "frame" /\ gate' = gate
                      \/ sub[c].now # 0 /\ gate > 0 /\ l = "frame" /\ gate' = gate - 1
                      \/ sub[c].now # 0 /\ ~(gate > 0) /\ l = "gate" /\ gate' = gate
      <4>1. CASE sub[c].now = 0
        BY <1>3, <4>1 DEF DownGate, PassesFreely
      <4>2. CASE sub[c].now # 0 /\ gate > 0
        BY <1>3, <4>2 DEF DownGate, PassesFreely
      <4>3. CASE sub[c].now # 0 /\ ~(gate > 0)
        BY <1>3, <4>3 DEF DownGate, PassesFreely
      <4>4. QED
        BY <4>1, <4>2, <4>3
    <3>2. QED
      BY <3>1 DEF SubGoto
  <2> DEFINE s == [sub[c] EXCEPT !.pc = l]
  <2>2. /\ s.pc = l /\ s.now = sub[c].now /\ s.last_tick = sub[c].last_tick
        /\ s.stalled = sub[c].stalled /\ s.stall_end = sub[c].stall_end
    BY <1>1 DEF SubRec
  <2>3. sub' = [sub EXCEPT ![c] = s] /\ sub[c].pc = "down" /\ UNCHANGED <<usr2, urg, resp>>
    BY <1>3, <2>1 DEF DownGate
  <2> HIDE DEF s
  <2>4. QED
    BY <2>1, <2>2, <2>3, OwnKept DEF MeetsGate, KeepsTime, KeepsStall
<1>4. CASE Frame(c)
  <2> DEFINE s == [Drained(c) EXCEPT !.pc = "dispatch", !.last_tick = sub[c].now,
                                     !.stalled = sub[c].stalled /\ ~StallOver(c)]
  <2>1. sub' = [sub EXCEPT ![c] = s] /\ sub[c].pc = "frame" /\ UNCHANGED <<gate, usr2, urg, resp>>
    BY <1>4 DEF Frame
  <2>2. /\ s.pc = "dispatch" /\ s.now = sub[c].now /\ s.last_tick = sub[c].now
        /\ s.stalled = (sub[c].stalled /\ ~StallOver(c)) /\ s.stall_end = sub[c].stall_end
    BY DrainKeeps, Zenon DEF SubRec
  <2> HIDE DEF s
  <2>3. sub'[c].stalled <=> (sub[c].stalled /\ ~(sub[c].now >= sub[c].stall_end))
    BY <2>1, <2>2, OwnKept DEF StallOver
  <2>4. QED
    BY <2>1, <2>2, <2>3, OwnKept DEF Starts
<1>5. CASE OnSIGUSR2(c)
  <2> DEFINE s == [Drained(c) EXCEPT !.stalled = TRUE, !.stall_end = StallEnd]
  <2>1. /\ sub' = [sub EXCEPT ![c] = s] /\ c \in usr2 /\ usr2' = usr2 \ {c}
        /\ UNCHANGED <<gate, urg, resp>>
    BY <1>5 DEF OnSIGUSR2
  <2>2. /\ s.pc = sub[c].pc /\ s.now = sub[c].now /\ s.last_tick = sub[c].last_tick
        /\ s.stalled = TRUE /\ s.stall_end = clk + 3
    BY DrainKeeps DEF SubRec, StallEnd
  <2> HIDE DEF s
  <2>3. QED
    BY <2>1, <2>2, OwnKept DEF IsStalled, KeepsTime
<1>6. QED
  BY <1>2, <1>3, <1>4, <1>5


\* Whoever leaves its main loop does not come back.
LEMMA SubMoves ==
  ASSUME Shape, NEW c \in CPUs, SubScheduler(c) \/ Handler(c)
  PROVE  /\ UNCHANGED <<clk, workload, genvars, msgq, mainvars>>
         /\ \A d \in CPUs \ {c} : sub'[d] = sub[d]
         /\ \/ WorksOn(c) \/ Arrives(c) \/ MeetsGate(c) \/ Starts(c) \/ IsStalled(c)
            \/ /\ sub'[c].pc \in Ending /\ KeepsTime(c) /\ KeepsStall(c)
               /\ UNCHANGED <<gate, usr2, urg>>
         /\ sub[c].pc \in Ending => sub'[c].pc \in Ending
<1>1. sub[c] \in SubRec /\ UNCHANGED <<clk, workload, genvars, msgq, mainvars>>
  BY DEF Shape, SubTypes, SubScheduler, Handler
<1>2. CASE \/ Spin(c) \/ NoDispatch(c) \/ SubDispatch(c) \/ ReadOther(c)
           \/ SubFinish(c)
           \/ Publish(c, "spin", "loop") \/ Publish(c, "write", "read")
           \/ Compute(c, "compute", "write") \/ OnSIGURG(c)
  <2>1. WorksOn(c) /\ \A d \in CPUs \ {c} : sub'[d] = sub[d]
    BY <1>2, PlainMoves
  <2>2. sub[c].pc \in Ending => sub'[c].pc \in Ending
    BY <2>1 DEF WorksOn, Serving, Looping, Ending
  <2>3. QED
    BY <1>1, <2>1, <2>2
<1>3. CASE SubNewTick(c) \/ DownGate(c) \/ Frame(c) \/ OnSIGUSR2(c)
  <2>1. /\ Arrives(c) \/ MeetsGate(c) \/ Starts(c) \/ IsStalled(c)
        /\ \A d \in CPUs \ {c} : sub'[d] = sub[d]
    BY <1>3, GateMoves
  <2>2. sub[c].pc \in Ending => sub'[c].pc \in Ending
    BY <2>1 DEF Arrives, MeetsGate, Starts, IsStalled, Ending
  <2>3. QED
    BY <1>1, <2>1, <2>2
<1>4. CASE SubLeave(c) \/ Compute(c, "left", "last") \/ Publish(c, "last", "ack") \/ SubAck(c)
           \/ SubExit(c)
  <2>1. PICK s : /\ sub' = [sub EXCEPT ![c] = s] /\ s.pc \in Ending
                 /\ s.now = sub[c].now /\ s.last_tick = sub[c].last_tick
                 /\ s.stalled = sub[c].stalled /\ s.stall_end = sub[c].stall_end
    <3>1. \A l : LET s == [sub[c] EXCEPT !.pc = l]
                 IN  /\ s.pc = l /\ s.now = sub[c].now /\ s.last_tick = sub[c].last_tick
                     /\ s.stalled = sub[c].stalled /\ s.stall_end = sub[c].stall_end
      BY <1>1 DEF SubRec
    <3>2. CASE SubLeave(c) \/ SubAck(c) \/ SubExit(c)
      <4>1. PICK l \in Ending : sub' = [sub EXCEPT ![c].pc = l]
        BY <3>2 DEF SubLeave, SubAck, SubExit, SubGoto, Ending
      <4> DEFINE s == [sub[c] EXCEPT !.pc = l]
      <4>2. sub' = [sub EXCEPT ![c] = s] /\ s.pc \in Ending
        BY <3>1, <4>1
      <4>3. /\ s.now = sub[c].now /\ s.last_tick = sub[c].last_tick
            /\ s.stalled = sub[c].stalled /\ s.stall_end = sub[c].stall_end
        BY <3>1
      <4> HIDE DEF s
      <4>4. QED
        BY <4>2, <4>3
    <3>3. CASE Compute(c, "left", "last")
      <4> DEFINE s == [sub[c] EXCEPT !.pc = "last", !.pub = LoadOf(c, sub[c].ready, pcb)]
      <4>1. sub' = [sub EXCEPT ![c] = s]
        BY <3>3 DEF Compute
      <4>2. /\ s.pc = "last" /\ s.now = sub[c].now /\ s.last_tick = sub[c].last_tick
            /\ s.stalled = sub[c].stalled /\ s.stall_end = sub[c].stall_end
        BY <1>1 DEF SubRec
      <4> HIDE DEF s
      <4>3. QED
        BY <4>1, <4>2 DEF Ending
    <3>4. CASE Publish(c, "last", "ack")
      <4> DEFINE s == [sub[c] EXCEPT !.pc = "ack", !.pub = NoLoad[c]]
      <4>1. sub' = [sub EXCEPT ![c] = s]
        BY <3>4 DEF Publish
      <4>2. /\ s.pc = "ack" /\ s.now = sub[c].now /\ s.last_tick = sub[c].last_tick
            /\ s.stalled = sub[c].stalled /\ s.stall_end = sub[c].stall_end
        BY <1>1 DEF SubRec
      <4> HIDE DEF s
      <4>3. QED
        BY <4>1, <4>2 DEF Ending
    <3>5. QED
      BY <1>4, <3>2, <3>3, <3>4
  <2>2. UNCHANGED <<gate, usr2, urg>>
    BY <1>4 DEF SubLeave, Compute, Publish, SubAck, SubExit
  <2>3. QED
    BY <1>1, <2>1, <2>2, OwnKept DEF KeepsTime, KeepsStall
<1>5. QED
  BY <1>2, <1>3, <1>4 DEF SubScheduler, Handler

LEMMA OpenMoves ==
  ASSUME Shape, OpenGate
  PROVE  /\ gate' = (IF sub[1].pc = "gate" THEN 0 ELSE 1) + (IF sub[2].pc = "gate" THEN 0 ELSE 1)
         /\ \A c \in CPUs : /\ sub'[c].pc = IF sub[c].pc = "gate" THEN "frame" ELSE sub[c].pc
                            /\ KeepsTime(c) /\ KeepsStall(c)
<1> DEFINE asleep == {c \in CPUs : sub[c].pc = "gate"}
<1>1. /\ gate' = 2 - Cardinality(asleep)
      /\ sub' = [c \in CPUs |-> IF c \in asleep THEN [sub[c] EXCEPT !.pc = "frame"] ELSE sub[c]]
  BY DEF OpenGate
<1>2. Cardinality(asleep) = (IF 1 \in asleep THEN 1 ELSE 0) + (IF 2 \in asleep THEN 1 ELSE 0)
  <2>1. asleep \in {{}, {1}, {2}, CPUs}
    BY DEF CPUs
  <2>2. /\ Cardinality({}) = 0 /\ Cardinality({1}) = 1 /\ Cardinality({2}) = 1
        /\ Cardinality(CPUs) = 2
    BY FS_EmptySet, FS_Singleton, CPUsFinite
  <2> HIDE DEF asleep
  <2>3. QED
    BY <2>1, <2>2 DEF CPUs
<1>3. \A c \in CPUs : c \in asleep <=> sub[c].pc = "gate"
  OBVIOUS
<1>4. \A c \in CPUs : sub[c] \in SubRec
  BY DEF Shape, SubTypes
<1> HIDE DEF asleep
<1>5. gate' = (IF sub[1].pc = "gate" THEN 0 ELSE 1) + (IF sub[2].pc = "gate" THEN 0 ELSE 1)
  BY <1>1, <1>2, <1>3 DEF CPUs
<1>6. ASSUME NEW c \in CPUs
      PROVE  /\ sub'[c].pc = IF sub[c].pc = "gate" THEN "frame" ELSE sub[c].pc
             /\ KeepsTime(c) /\ KeepsStall(c)
  <2>1. sub[c] \in SubRec
    BY <1>4
  <2>2. sub'[c] = IF sub[c].pc = "gate" THEN [sub[c] EXCEPT !.pc = "frame"] ELSE sub[c]
    BY <1>1, <1>3
  <2>3. QED
    BY <2>1, <2>2 DEF SubRec, KeepsTime, KeepsStall
<1>7. QED
  BY <1>5, <1>6

LEMMA DispatcherMoves ==
  ASSUME Shape, Dispatcher
  PROVE  /\ UNCHANGED <<clk, workload, genvars>>
         /\ \/ UNCHANGED sub
            \/ (Open \/ Leave) /\ OpenGate
<1>1. QED
  BY DEF Dispatcher, SpinAcks, NewTick, ReceiveProcess, ReceiveSync, ReceiveEnd,
         Algo, Route, PublishRoutes, Check, NoCheck, NothingStolen, Stolen,
         PublishMove, WaitOver, Open, After, Leave, Exit, subvars

LEMMA RunBefore ==
  ASSUME Shape, [DualNext]_dualvars, BothRun'
  PROVE  BothRun
<1>1. SUFFICES ASSUME NEW c \in CPUs, sub[c].pc \in Ending PROVE sub'[c].pc \in Ending
  BY DEF BothRun, Ending
<1>2. CASE UNCHANGED sub
  BY <1>1, <1>2
<1>3. ASSUME NEW d \in CPUs, SubScheduler(d) \/ Handler(d) PROVE sub'[c].pc \in Ending
  BY <1>1, <1>3, SubMoves
<1>4. CASE OpenGate
  BY <1>1, <1>4, OpenMoves DEF Ending
<1>5. CASE Dispatcher
  BY <1>2, <1>4, <1>5, DispatcherMoves
<1>6. ASSUME NEW p \in AllProcs, Child(p) PROVE UNCHANGED sub
  BY <1>6 DEF Child, subvars
<1>7. CASE ClockTick \/ Generator \/ Terminated \/ UNCHANGED dualvars
  BY <1>2, <1>7 DEF ClockTick, Generator, Terminated, dualvars, subvars
<1>8. QED
  BY <1>2, <1>3, <1>5, <1>6, <1>7 DEF DualNext


-----------------------------------------------------------------------------
(* The steps of a sub-scheduler.                                           *)

LEMMA SubMoveIs ==
  ASSUME Shape, NEW c \in CPUs, SubScheduler(c) \/ Handler(c), BothRun, BothRun'
  PROVE  /\ UNCHANGED <<clk, workload, g_pc, g_now, lastTime, msgq, pc, now, receivingProcesses,
                        wait_until, movedAt>>
         /\ \A d \in CPUs \ {c} : sub'[d] = sub[d]
         /\ WorksOn(c) \/ Arrives(c) \/ MeetsGate(c) \/ Starts(c) \/ IsStalled(c)
<1>1. UNCHANGED <<clk, workload, genvars, msgq, mainvars>>
  BY SubMoves
<1>2. UNCHANGED <<clk, workload, g_pc, g_now, lastTime, msgq, pc, now, receivingProcesses,
                  wait_until, movedAt>>
  BY <1>1 DEF genvars, mainvars, inputvars, stallvars
<1>3. sub'[c].pc \notin Ending
  BY DEF BothRun
<1>4. QED
  BY <1>2, <1>3, SubMoves

LEMMA SubHeard ==
  ASSUME Shape, NEW c \in CPUs, SubScheduler(c) \/ Handler(c), BothRun, BothRun', Paced
  PROVE  Heard' /\ Timed'
<1>1. /\ UNCHANGED <<clk, workload, g_pc, g_now, lastTime, msgq, pc, now, receivingProcesses,
                     wait_until, movedAt>>
      /\ WorksOn(c) \/ Arrives(c) \/ MeetsGate(c) \/ Starts(c) \/ IsStalled(c)
  BY SubMoveIs
<1>2. Timed'
  BY <1>1 DEF Paced, Timed, AfterStall
<1>3. (urg' = urg /\ resp' = resp) \/ resp' # <<>>
  BY <1>1 DEF WorksOn, Arrives, MeetsGate, Starts, IsStalled
<1>4. Heard'
  BY <1>1, <1>3 DEF Paced, Heard
<1>5. QED
  BY <1>2, <1>4

LEMMA SubTicks ==
  ASSUME Shape, NEW c \in CPUs, SubScheduler(c) \/ Handler(c), BothRun, BothRun', Paced
  PROVE  Ticks'
<1>1. /\ UNCHANGED <<clk, now>> /\ \A d \in CPUs \ {c} : sub'[d] = sub[d]
      /\ WorksOn(c) \/ Arrives(c) \/ MeetsGate(c) \/ Starts(c) \/ IsStalled(c)
  BY SubMoveIs
<1>2. /\ clk \in Int /\ sub[c].now \in Int /\ sub[c].last_tick \in Int
  BY TimeTypes
<1>3. Ticks
  BY DEF Paced
<1>4. /\ sub'[c].now <= clk /\ sub'[c].last_tick <= clk
      /\ sub'[c].pc \in {"finish", "down"} => sub'[c].now = clk /\ sub'[c].last_tick < clk
      /\ sub'[c].pc \in {"gate", "frame"} => sub'[c].last_tick <= sub'[c].now
      /\ sub'[c].pc = "gate" => sub'[c].now # 0
  <2>1. CASE WorksOn(c)
    BY <1>2, <1>3, <2>1 DEF WorksOn, Ticks, AtTheGate, Serving, Looping, KeepsTime
  <2>2. CASE Arrives(c)
    BY <1>2, <1>3, <2>2 DEF Arrives, Ticks
  <2>3. CASE MeetsGate(c)
    BY <1>2, <1>3, <2>3 DEF MeetsGate, Ticks, KeepsTime
  <2>4. CASE Starts(c)
    BY <1>2, <1>3, <2>4 DEF Starts, Ticks
  <2>5. CASE IsStalled(c)
    BY <1>2, <1>3, <2>5 DEF IsStalled, Ticks, KeepsTime
  <2>6. QED
    BY <1>1, <2>1, <2>2, <2>3, <2>4, <2>5
<1>5. QED
  BY <1>1, <1>3, <1>4 DEF Ticks

LEMMA SubHeld ==
  ASSUME Shape, NEW c \in CPUs, SubScheduler(c) \/ Handler(c), BothRun, BothRun', Paced
  PROVE  HeldAtStart' /\ HeldClosed' /\ HeldOpen'
<1>1. /\ UNCHANGED <<clk, now, pc>> /\ \A d \in CPUs \ {c} : sub'[d] = sub[d]
      /\ WorksOn(c) \/ Arrives(c) \/ MeetsGate(c) \/ Starts(c) \/ IsStalled(c)
  BY SubMoveIs
<1>2. /\ clk \in Int /\ now \in Int /\ gate \in 0..2
      /\ \A d \in CPUs : sub[d].now \in Int /\ sub[d].last_tick \in Int
  BY TimeTypes
<1>3. /\ HeldAtStart /\ HeldClosed /\ HeldOpen /\ now <= clk
      /\ sub[c].now <= clk /\ sub[c].last_tick <= clk
      /\ sub[c].pc \in {"finish", "down"} => sub[c].now = clk /\ sub[c].last_tick < clk
      /\ sub[c].pc \in {"gate", "frame"} => sub[c].last_tick <= sub[c].now
  BY DEF Paced, Timed, Ticks
<1>4. Opened' = Opened
  BY <1>1 DEF Opened
<1>5. Due(1) \in 0..1 /\ Due(2) \in 0..1
  BY DEF Due
<1>6. CASE now <= 0
  <2>1. /\ gate' = 0
        /\ sub'[c].last_tick <= 0 /\ (sub'[c].pc = "frame" => sub'[c].now <= 0)
        /\ sub'[c].pc = "gate" => sub'[c].now = clk /\ clk > now
    <3>1. CASE WorksOn(c)
      BY <1>2, <1>3, <1>6, <3>1 DEF WorksOn, HeldAtStart, AtTheGate, Serving, Looping, KeepsTime
    <3>2. CASE Arrives(c)
      BY <1>2, <1>3, <1>6, <3>2 DEF Arrives, HeldAtStart
    <3>3. CASE MeetsGate(c)
      BY <1>2, <1>3, <1>6, <3>3, TimeTypes DEF MeetsGate, HeldAtStart, KeepsTime
    <3>4. CASE Starts(c)
      BY <1>2, <1>3, <1>6, <3>4 DEF Starts, HeldAtStart
    <3>5. CASE IsStalled(c)
      BY <1>2, <1>3, <1>6, <3>5 DEF IsStalled, HeldAtStart, KeepsTime
    <3>6. QED
      BY <1>1, <3>1, <3>2, <3>3, <3>4, <3>5
  <2>2. HeldAtStart'
    BY <1>1, <1>3, <1>6, <2>1 DEF HeldAtStart
  <2>3. QED
    BY <1>1, <1>2, <1>6, <2>2 DEF HeldClosed, HeldOpen
<1>7. CASE now > 0 /\ ~Opened
  <2>1. /\ gate' = 0
        /\ sub'[c].last_tick < now /\ (sub'[c].pc = "frame" => sub'[c].now < now)
        /\ clk > now => sub'[c].pc = "gate"
        /\ sub'[c].pc = "gate" => sub'[c].now = now
    <3>1. CASE WorksOn(c)
      BY <1>2, <1>3, <1>7, <3>1 DEF WorksOn, HeldClosed, AtTheGate, Serving, Looping, KeepsTime, Behind
    <3>2. CASE Arrives(c)
      BY <1>2, <1>3, <1>7, <3>2 DEF Arrives, HeldClosed, Behind
    <3>3. CASE MeetsGate(c)
      BY <1>2, <1>3, <1>7, <3>3 DEF MeetsGate, HeldClosed, KeepsTime, Behind
    <3>4. CASE Starts(c)
      BY <1>2, <1>3, <1>7, <3>4 DEF Starts, HeldClosed, Behind
    <3>5. CASE IsStalled(c)
      BY <1>2, <1>3, <1>7, <3>5 DEF IsStalled, HeldClosed, KeepsTime, Behind
    <3>6. QED
      BY <1>1, <3>1, <3>2, <3>3, <3>4, <3>5
  <2>2. HeldClosed'
    BY <1>1, <1>3, <1>7, <2>1 DEF HeldClosed, Behind
  <2>3. QED
    BY <1>1, <1>2, <1>4, <1>7, <2>2 DEF HeldAtStart, HeldOpen
<1>8. CASE now > 0 /\ Opened
  <2>1. /\ gate' - gate = Due(c)' - Due(c) /\ gate' <= gate
        /\ sub'[c].last_tick <= now /\ (sub'[c].pc = "frame" => sub'[c].now <= now)
        /\ sub'[c].pc = "gate" => sub'[c].now = clk /\ clk > now
    <3>0. gate >= Due(c)
      BY <1>2, <1>3, <1>5, <1>8 DEF HeldOpen, CPUs
    <3>1. CASE WorksOn(c)
      BY <1>1, <1>2, <1>3, <1>8, <3>1 DEF WorksOn, HeldOpen, AtTheGate, Serving, Looping, KeepsTime, Behind, Due
    <3>2. CASE Arrives(c)
      BY <1>1, <1>2, <1>3, <1>8, <3>2 DEF Arrives, HeldOpen, Behind, Due
    <3>3. CASE MeetsGate(c)
      BY <1>1, <1>2, <1>3, <1>8, <3>0, <3>3 DEF MeetsGate, HeldOpen, KeepsTime, Behind, Due
    <3>4. CASE Starts(c)
      BY <1>1, <1>2, <1>3, <1>8, <3>4 DEF Starts, HeldOpen, Behind, Due
    <3>5. CASE IsStalled(c)
      BY <1>1, <1>2, <1>3, <1>8, <3>5 DEF IsStalled, HeldOpen, KeepsTime, Behind, Due
    <3>6. QED
      BY <1>1, <3>1, <3>2, <3>3, <3>4, <3>5
  <2>2. \A d \in CPUs \ {c} : Due(d)' = Due(d)
    BY <1>1 DEF Due, Behind
  <2>3. gate' = Due(1)' + Due(2)'
    <3>1. gate = Due(1) + Due(2)
      BY <1>3, <1>8 DEF HeldOpen
    <3>2. gate' = gate \/ gate' = gate - 1
      BY <1>1 DEF WorksOn, Arrives, MeetsGate, Starts, IsStalled
    <3>3. Due(1)' \in 0..1 /\ Due(2)' \in 0..1
      BY DEF Due
    <3>4. CASE c = 1
      <4>1. Due(2)' = Due(2)
        BY <2>2, <3>4 DEF CPUs
      <4>2. QED
        BY <1>2, <1>5, <2>1, <3>1, <3>2, <3>3, <3>4, <4>1
    <3>5. CASE c = 2
      <4>1. Due(1)' = Due(1)
        BY <2>2, <3>5 DEF CPUs
      <4>2. QED
        BY <1>2, <1>5, <2>1, <3>1, <3>2, <3>3, <3>5, <4>1
    <3>6. QED
      BY <3>4, <3>5 DEF CPUs
  <2>4. clk > now => gate' = 0
    <3>1. Due(1)' \in 0..1 /\ Due(2)' \in 0..1
      BY DEF Due
    <3>2. QED
      BY <1>2, <1>3, <1>8, <2>1, <2>3, <3>1 DEF HeldOpen
  <2>5. HeldOpen'
    BY <1>1, <1>3, <1>8, <2>1, <2>3, <2>4 DEF HeldOpen
  <2>6. QED
    BY <1>1, <1>2, <1>4, <1>8, <2>5 DEF HeldAtStart, HeldClosed
<1>9. QED
  BY <1>2, <1>6, <1>7, <1>8

LEMMA SubStalls ==
  ASSUME Shape, NEW c \in CPUs, SubScheduler(c) \/ Handler(c), BothRun, BothRun', Paced
  PROVE  /\ StallsEnd'
         /\ sub[c].stalled /\ ~sub'[c].stalled => clk = movedAt + 3
<1>1. /\ UNCHANGED <<clk, now, pc, movedAt>> /\ \A d \in CPUs \ {c} : sub'[d] = sub[d]
      /\ WorksOn(c) \/ Arrives(c) \/ MeetsGate(c) \/ Starts(c) \/ IsStalled(c)
  BY SubMoveIs
<1>2. /\ clk \in Int /\ now \in Int /\ movedAt \in Int
      /\ \A d \in CPUs : sub[d].now \in Int /\ sub[d].last_tick \in Int
      /\ sub[c].stall_end \in Int /\ sub[c].stalled \in BOOLEAN
  BY TimeTypes
<1>3. /\ StallsEnd /\ now <= clk /\ HeldClosed /\ (pc = "wait" => now > 0)
      /\ sub[c].now <= clk /\ sub[c].last_tick <= clk
  BY DEF Paced, Timed, Ticks
<1>4. c \in usr2 /\ sub[c].pc = "frame" => sub[c].now < now
  BY <1>1, <1>2, <1>3 DEF StallsEnd, HeldClosed, Opened, Behind
<1>5. /\ sub'[c].stalled => clk <= sub'[c].stall_end /\ sub'[c].last_tick < sub'[c].stall_end
      /\ sub'[c].stalled /\ c \notin usr2' => sub'[c].stall_end = movedAt + 3
      /\ usr2' \subseteq usr2 /\ \A d \in CPUs \ {c} : d \in usr2' <=> d \in usr2
      /\ sub[c].stalled /\ ~sub'[c].stalled => clk = movedAt + 3
  <2>1. CASE WorksOn(c)
    BY <1>2, <1>3, <2>1 DEF WorksOn, StallsEnd, KeepsTime, KeepsStall
  <2>2. CASE Arrives(c)
    BY <1>2, <1>3, <2>2 DEF Arrives, StallsEnd, KeepsStall
  <2>3. CASE MeetsGate(c)
    BY <1>2, <1>3, <2>3 DEF MeetsGate, StallsEnd, KeepsTime, KeepsStall
  <2>4. CASE Starts(c)
    BY <1>2, <1>3, <1>4, <2>4 DEF Starts, StallsEnd
  <2>5. CASE IsStalled(c)
    BY <1>2, <1>3, <2>5 DEF IsStalled, StallsEnd, KeepsTime
  <2>6. QED
    BY <1>1, <2>1, <2>2, <2>3, <2>4, <2>5
<1>6. QED
  BY <1>1, <1>3, <1>5 DEF StallsEnd

LEMMA SubPaced ==
  ASSUME Shape, NEW c \in CPUs, SubScheduler(c) \/ Handler(c), BothRun, BothRun', Paced
  PROVE  Paced'
  BY SubHeard, SubTicks, SubHeld, SubStalls DEF Paced


\* What GateHolds and StallLasts ask of the step.
LEMMA SubTimely ==
  ASSUME Shape, NEW c \in CPUs, SubScheduler(c) \/ Handler(c), BothRun, Paced
  PROVE  StartsOpened /\ EndsOnTime
<1>1. \A d \in CPUs \ {c} : sub'[d] = sub[d]
  BY SubMoves
<1>2. /\ now \in Int /\ \A d \in CPUs : sub[d].now \in Int /\ sub[d].last_tick \in Int
      /\ HeldAtStart /\ HeldClosed /\ HeldOpen
  BY TimeTypes DEF Paced
<1>3. CASE BothRun'
  <2>1. WorksOn(c) \/ Arrives(c) \/ MeetsGate(c) \/ Starts(c) \/ IsStalled(c)
    BY <1>3, SubMoveIs
  <2>2. \/ sub'[c].last_tick = sub[c].last_tick
        \/ sub[c].pc = "frame" /\ sub'[c].last_tick = sub[c].now
    BY <2>1 DEF WorksOn, Arrives, MeetsGate, Starts, IsStalled, KeepsTime
  <2>3. sub'[c].last_tick # sub[c].last_tick /\ sub'[c].last_tick > 0 =>
          \/ now > sub'[c].last_tick
          \/ now = sub'[c].last_tick /\ Opened
    BY <1>2, <2>2 DEF HeldAtStart, HeldClosed, HeldOpen, Behind
  <2>4. StartsOpened
    BY <1>1, <2>3 DEF StartsOpened, Opened
  <2>5. EndsOnTime
    BY <1>1, <1>3, SubStalls DEF EndsOnTime
  <2>6. QED
    BY <2>4, <2>5
<1>4. CASE ~BothRun'
  <2>1. KeepsTime(c) /\ KeepsStall(c)
    <3>1. sub'[c].pc \in Ending
      BY <1>1, <1>4 DEF BothRun
    <3>2. ~(WorksOn(c) /\ ~(KeepsTime(c) /\ KeepsStall(c)))
      BY DEF WorksOn
    <3>3. sub[c].pc \notin Ending
      BY DEF BothRun
    <3>4. ~Arrives(c) /\ ~MeetsGate(c) /\ ~Starts(c) /\ ~IsStalled(c)
      BY <3>1, <3>3 DEF Arrives, MeetsGate, Starts, IsStalled, Ending
    <3>5. QED
      BY <3>2, <3>4, SubMoves
  <2>2. QED
    BY <1>1, <2>1 DEF StartsOpened, EndsOnTime, KeepsTime, KeepsStall
<1>5. QED
  BY <1>3, <1>4

-----------------------------------------------------------------------------
(* The steps of the dispatcher.                                            *)

LEMMA NotBothEnded ==
  ASSUME Shape, BothRun
  PROVE  Busy
<1>1. subs_terminated \in Nat /\ resp \in Seq(Answer)
      /\ subs_terminated + Cardinality(Acks) <= Cardinality(Ended)
  BY DEF Shape, MainTypes, MessageTypes, EndsCounted
<1>2. Ended = {}
  BY DEF Ended, BothRun, Ending
<1>3. Cardinality(Acks) \in Nat
  BY <1>1, AckPlacesFinite DEF Acks, AckPlaces
<1>4. QED
  BY <1>1, <1>2, <1>3, FS_EmptySet DEF Busy

\* A step that leaves the sub-schedulers, the tick and what was heard as they are.
LEMMA QuietPaced ==
  ASSUME Shape, Paced, UNCHANGED <<clk, sub, now, gate, movedAt, g_pc, g_now, lastTime>>
  PROVE  /\ Ticks' /\ HeldAtStart'
         /\ (Opened' <=> Opened) => HeldClosed' /\ HeldOpen'
         /\ now <= 0 => HeldClosed' /\ HeldOpen'
         /\ usr2' = usr2 /\ pc # "wait" => StallsEnd'
<1>1. now \in Int /\ HeldAtStart /\ HeldClosed /\ HeldOpen /\ Ticks /\ StallsEnd
  BY TimeTypes DEF Paced
<1>2. Due(1)' = Due(1) /\ Due(2)' = Due(2) /\ \A c \in CPUs : Behind(c)' <=> Behind(c)
  BY DEF Due, Behind
<1>3. Ticks' /\ HeldAtStart'
  BY <1>1 DEF Ticks, HeldAtStart
<1>4. (Opened' <=> Opened) => HeldClosed' /\ HeldOpen'
  BY <1>1, <1>2 DEF HeldClosed, HeldOpen
<1>5. now <= 0 => HeldClosed' /\ HeldOpen'
  BY <1>1 DEF HeldClosed, HeldOpen
<1>6. usr2' = usr2 /\ pc # "wait" => StallsEnd'
  BY <1>1 DEF StallsEnd
<1>7. QED
  BY <1>3, <1>4, <1>5, <1>6

LEMMA SpinPaced ==
  ASSUME Shape, Paced, SpinAcks, UNCHANGED <<clk, workload, genvars, childvars>>
  PROVE  Paced'
<1>1. /\ UNCHANGED <<clk, sub, pc, now, gate, movedAt, wait_until, g_pc, g_now, lastTime, msgq,
                     receivingProcesses, usr2>>
      /\ pc = "spin"
  BY DEF SpinAcks, genvars, inputvars, stallvars, subvars
<1>2. Ticks' /\ HeldAtStart' /\ HeldClosed' /\ HeldOpen' /\ StallsEnd'
  BY <1>1, QuietPaced DEF Opened
<1>3. Heard' /\ Timed'
  BY <1>1 DEF Paced, Heard, Timed, AfterStall
<1>4. QED
  BY <1>2, <1>3 DEF Paced

LEMMA NewTickPaced ==
  ASSUME Shape, Paced, NewTick, UNCHANGED <<clk, workload, genvars, childvars>>
  PROVE  Paced'
<1>1. /\ UNCHANGED <<clk, sub, movedAt, wait_until, g_pc, g_now, lastTime, msgq,
                     receivingProcesses, usr2>>
      /\ pc = "spin" /\ clk # now /\ now' = clk /\ gate' = 0
      /\ pc' = IF receivingProcesses THEN "receive" ELSE "algo"
  BY DEF NewTick, Goto, genvars, inputvars, stallvars, subvars
<1>2. /\ clk \in Int /\ now \in Int /\ clk >= 0
      /\ \A c \in CPUs : sub[c].now \in Int /\ sub[c].last_tick \in Int
  BY TimeTypes
<1>3. Heard /\ Timed /\ Ticks /\ HeldAtStart /\ HeldOpen /\ StallsEnd
  BY DEF Paced
<1>4. now < clk /\ Opened /\ ~Opened'
  BY <1>1, <1>2, <1>3 DEF Timed, Opened
<1>5. Heard' /\ Timed' /\ Ticks' /\ StallsEnd'
  <2>1. Heard'
    BY <1>1, <1>3, <1>4 DEF Heard
  <2>2. Timed'
    BY <1>1, <1>2, <1>3 DEF Timed
  <2>3. Ticks' /\ StallsEnd'
    BY <1>1, <1>3 DEF Ticks, StallsEnd
  <2>4. QED
    BY <2>1, <2>2, <2>3
<1>6. ASSUME NEW c \in CPUs
      PROVE  /\ clk = 0 => sub[c].last_tick <= 0 /\ (sub[c].pc = "frame" => sub[c].now <= 0)
                           /\ sub[c].pc # "gate"
             /\ clk > 0 => sub[c].last_tick < clk /\ (sub[c].pc = "frame" => sub[c].now < clk)
             /\ sub[c].pc = "gate" => sub[c].now = clk
  BY <1>2, <1>3, <1>4, <1>6 DEF HeldAtStart, HeldOpen, Ticks
<1>7. HeldAtStart' /\ HeldClosed' /\ HeldOpen'
  BY <1>1, <1>2, <1>4, <1>6 DEF HeldAtStart, HeldClosed, HeldOpen, Behind
<1>8. QED
  BY <1>5, <1>7 DEF Paced


LEMMA ReceivePaced ==
  ASSUME Shape, Paced, ReceiveProcess \/ ReceiveSync \/ ReceiveEnd,
         UNCHANGED <<clk, workload, genvars, childvars>>
  PROVE  Paced'
<1>1. /\ UNCHANGED <<clk, sub, now, gate, movedAt, wait_until, g_pc, g_now, lastTime, urg, resp,
                     usr2>>
      /\ pc = "receive" /\ pc' \in {"receive", "algo"}
  BY DEF ReceiveProcess, ReceiveSync, ReceiveEnd, Goto, genvars, inputvars, stallvars, endvars,
         msgvars, subvars
<1>2. Heard /\ Timed
  BY DEF Paced
<1>3. Ticks' /\ HeldAtStart' /\ HeldClosed' /\ HeldOpen' /\ StallsEnd'
  BY <1>1, QuietPaced DEF Opened
<1>4. Timed'
  BY <1>1, <1>2 DEF Timed
<1>5. /\ clk \in Int /\ now \in Int /\ now = clk /\ receivingProcesses
      /\ msgq \in [arrived: Seq(Procs), sync: Seq(Int), end: BOOLEAN]
  BY <1>1, <1>2, TimeTypes DEF Heard, Timed, Shape, InputTypes
<1>6. Heard'
  <2>1. CASE ReceiveProcess
    <3>1. msgq'.sync = msgq.sync /\ msgq'.end = msgq.end /\ UNCHANGED <<pc, receivingProcesses>>
      BY <1>5, <2>1 DEF ReceiveProcess
    <3>2. QED
      BY <1>1, <1>2, <3>1 DEF Heard
  <2>2. CASE ReceiveEnd
    <3>1. msgq'.sync = msgq.sync /\ pc' = "algo" /\ receivingProcesses' = FALSE
      BY <1>5, <2>2 DEF ReceiveEnd, Goto
    <3>2. QED
      BY <1>1, <1>2, <1>5, <3>1 DEF Heard
  <2>3. CASE ReceiveSync
    <3> DEFINE q == msgq.sync
    <3>1. /\ q \in Seq(Int) /\ q # <<>> /\ msgq'.sync = Tail(q) /\ msgq'.end = msgq.end
          /\ pc' = IF Head(q) >= now THEN "algo" ELSE "receive"
          /\ receivingProcesses' = receivingProcesses
      BY <1>1, <1>5, <2>3 DEF ReceiveSync, Goto, inputvars
    <3>2. /\ Len(q) \in Nat /\ Len(Tail(q)) = Len(q) - 1 /\ Len(q) >= 1
          /\ \A i \in 1..(Len(q) - 1) : Tail(q)[i] = q[i + 1]
          /\ DOMAIN Tail(q) = 1..(Len(q) - 1) /\ DOMAIN q = 1..Len(q) /\ Head(q) = q[1]
      BY <3>1
    <3> HIDE DEF q
    <3>3. \A i \in DOMAIN Tail(q) : Tail(q)[i] <= clk
      <4>1. \A i \in DOMAIN q : q[i] <= clk
        BY <1>2 DEF Heard, q
      <4>2. QED
        BY <3>2, <4>1
    <3>4. pc' = "receive" /\ g_pc = "poll" /\ lastTime = clk =>
            Tail(q) # <<>> /\ Tail(q)[Len(Tail(q))] = clk
      <4>1. SUFFICES ASSUME pc' = "receive", g_pc = "poll", lastTime = clk
                     PROVE  Tail(q) # <<>> /\ Tail(q)[Len(Tail(q))] = clk
        OBVIOUS
      <4>2. q[Len(q)] = clk /\ ~(q[1] >= clk)
        BY <1>1, <1>2, <1>5, <3>1, <3>2, <4>1 DEF Heard, q
      <4>3. Len(q) >= 2
        BY <1>5, <3>2, <4>2
      <4>4. Tail(q) # <<>>
        BY <3>2, <4>3
      <4>5. QED
        BY <3>2, <4>2, <4>3, <4>4
    <3>5. QED
      BY <1>1, <1>2, <1>5, <3>1, <3>3, <3>4 DEF Heard
  <2>4. QED
    BY <2>1, <2>2, <2>3
<1>7. QED
  BY <1>3, <1>4, <1>6 DEF Paced

\* Between the messages and the gate.
LEMMA ComparePaced ==
  ASSUME Shape, Paced,
         Algo \/ Route \/ PublishRoutes \/ Check \/ NoCheck \/ NothingStolen \/ Stolen,
         UNCHANGED <<clk, workload, genvars, childvars>>
  PROVE  Paced'
<1> USE DEF subvars, inputvars, stallvars, endvars, msgvars, genvars, Goto
<1>1. /\ UNCHANGED <<clk, sub, now, gate, movedAt, wait_until, g_pc, g_now, lastTime, msgq,
                     receivingProcesses, usr2>>
      /\ pc \in {"algo", "route", "threshold", "steal"}
  BY DEF Algo, Route, PublishRoutes, Check, NoCheck, NothingStolen, Stolen
<1>2. /\ pc' \in {"after", "route", "threshold", "steal", "moved", "open"}
      /\ pc' = "after" <=> Algo /\ now = 0
      /\ pc' = "steal" => urg' # {}
  <2>1. CASE Algo
    BY <2>1 DEF Algo
  <2>2. CASE Check
    BY <2>2 DEF Check, Algo
  <2>3. CASE Route \/ PublishRoutes \/ NoCheck \/ NothingStolen \/ Stolen
    BY <2>3 DEF Route, PublishRoutes, NoCheck, NothingStolen, Stolen, Algo
  <2>4. QED
    BY <2>1, <2>2, <2>3
<1>3. Heard /\ Timed /\ clk \in Int /\ now \in Int /\ clk >= 0
  BY TimeTypes DEF Paced
<1>4. now = clk /\ (pc # "algo" => now > 0)
  BY <1>1, <1>3 DEF Timed
<1>5. Ticks' /\ HeldAtStart' /\ HeldClosed' /\ HeldOpen' /\ StallsEnd'
  BY <1>1, <1>2, <1>3, QuietPaced DEF Opened
<1>6. Timed'
  <2>1. pc' # "after" => now > 0
    BY <1>1, <1>2, <1>3, <1>4 DEF Algo, Route, PublishRoutes, Check, NoCheck, NothingStolen, Stolen
  <2>2. QED
    BY <1>1, <1>2, <1>3, <1>4, <2>1 DEF Timed
<1>7. Heard'
  BY <1>1, <1>2, <1>3, <1>4 DEF Heard
<1>8. QED
  BY <1>5, <1>6, <1>7 DEF Paced

LEMMA MovePaced ==
  ASSUME Shape, Paced, PublishMove \/ WaitOver \/ After,
         UNCHANGED <<clk, workload, genvars, childvars>>
  PROVE  Paced'
<1> USE DEF subvars, inputvars, stallvars, endvars, msgvars, genvars, Goto
<1>1. /\ UNCHANGED <<clk, sub, now, gate, g_pc, g_now, lastTime, msgq, receivingProcesses>>
  BY DEF PublishMove, WaitOver, After
<1>2. /\ Heard /\ Timed /\ clk \in Int /\ now \in Int /\ movedAt \in Int /\ wait_until \in Int
      /\ Ticks /\ HeldAtStart /\ HeldClosed /\ HeldOpen /\ StallsEnd
  BY TimeTypes DEF Paced
<1>3. Due(1)' = Due(1) /\ Due(2)' = Due(2) /\ \A c \in CPUs : Behind(c)' <=> Behind(c)
  BY <1>1 DEF Due, Behind
<1>4. CASE PublishMove
  <2>1. /\ pc = "moved" /\ pc' = "wait" /\ movedAt' = clk /\ wait_until' = clk + 3 /\ usr2' = CPUs
        /\ UNCHANGED <<urg, resp>>
    BY <1>4 DEF PublishMove, Penalty
  <2>2. now = clk /\ now > 0
    BY <1>2, <2>1 DEF Timed
  <2>3. Heard' /\ Timed'
    <3>1. Timed'
      BY <1>1, <1>2, <2>1, <2>2 DEF Timed
    <3>2. Heard'
      BY <1>1, <1>2, <2>1, <2>2 DEF Heard
    <3>3. QED
      BY <3>1, <3>2
  <2>4. Ticks' /\ HeldAtStart' /\ HeldClosed' /\ HeldOpen'
    BY <1>1, <1>2, <1>3, <2>1 DEF Ticks, HeldAtStart, HeldClosed, HeldOpen, Opened
  <2>5. StallsEnd'
    BY <1>1, <1>2, <2>1 DEF StallsEnd
  <2>6. QED
    BY <2>3, <2>4, <2>5 DEF Paced
<1>5. CASE WaitOver
  <2>1. /\ pc = "wait" /\ pc' = "open" /\ clk >= wait_until
        /\ UNCHANGED <<urg, resp, movedAt, wait_until, usr2>>
    BY <1>5 DEF WaitOver
  <2>2. now = movedAt /\ clk = movedAt + 3 /\ now > 0
    BY <1>2, <2>1 DEF Timed
  <2>3. Heard' /\ Timed'
    <3>1. Timed'
      BY <1>1, <1>2, <2>1, <2>2 DEF Timed, AfterStall
    <3>2. Heard'
      BY <1>1, <1>2, <2>1, <2>2 DEF Heard
    <3>3. QED
      BY <3>1, <3>2
  <2>4. Ticks' /\ HeldAtStart' /\ HeldClosed' /\ HeldOpen'
    BY <1>1, <1>2, <1>3, <2>1 DEF Ticks, HeldAtStart, HeldClosed, HeldOpen, Opened
  <2>5. StallsEnd'
    BY <1>1, <1>2, <2>1, <2>2 DEF StallsEnd
  <2>6. QED
    BY <2>3, <2>4, <2>5 DEF Paced
<1>6. CASE After
  <2>1. /\ pc = "after" /\ pc' = "spin" /\ UNCHANGED <<urg, resp, movedAt, wait_until, usr2>>
    BY <1>6 DEF After
  <2>2. Ticks' /\ HeldAtStart' /\ HeldClosed' /\ HeldOpen' /\ StallsEnd'
    BY <1>1, <2>1, QuietPaced DEF Opened
  <2>3. Timed'
    BY <1>1, <1>2, <2>1 DEF Timed, AfterStall
  <2>4. Heard'
    BY <1>1, <1>2, <2>1 DEF Heard
  <2>5. QED
    BY <2>2, <2>3, <2>4 DEF Paced
<1>7. QED
  BY <1>4, <1>5, <1>6

LEMMA OpenPaced ==
  ASSUME Shape, Paced, Open, UNCHANGED <<clk, workload, genvars, childvars>>
  PROVE  Paced'
<1>1. /\ UNCHANGED <<clk, now, movedAt, wait_until, g_pc, g_now, lastTime, msgq,
                     receivingProcesses, usr2, urg, resp>>
      /\ pc = "open" /\ pc' = "after" /\ OpenGate
  BY DEF Open, Goto, subvars, inputvars, stallvars, endvars, msgvars, genvars
<1>2. /\ Heard /\ Timed /\ Ticks /\ HeldClosed /\ StallsEnd /\ clk \in Int /\ now \in Int
      /\ \A c \in CPUs : sub[c].now \in Int /\ sub[c].last_tick \in Int
  BY TimeTypes DEF Paced
<1>3. now > 0 /\ ~Opened /\ Opened'
  BY <1>1, <1>2 DEF Timed, Opened
<1>4. \A c \in CPUs : /\ sub'[c].pc = IF sub[c].pc = "gate" THEN "frame" ELSE sub[c].pc
                      /\ KeepsTime(c) /\ KeepsStall(c)
  BY <1>1, OpenMoves
<1>5. ASSUME NEW c \in CPUs
      PROVE  /\ Due(c)' = IF sub[c].pc = "gate" THEN 0 ELSE 1
             /\ clk > now => sub[c].pc = "gate"
             /\ sub'[c].last_tick <= now /\ (sub'[c].pc = "frame" => sub'[c].now <= now)
             /\ sub'[c].pc # "gate"
  <2>1. /\ sub[c].last_tick < now /\ (sub[c].pc = "frame" => sub[c].now < now)
        /\ clk > now => sub[c].pc = "gate"
        /\ sub[c].pc = "gate" => sub[c].now = now
    BY <1>2, <1>3 DEF HeldClosed, Behind
  <2>2. CASE sub[c].pc = "gate"
    BY <1>1, <1>2, <1>4, <2>1, <2>2 DEF KeepsTime, Due, Behind
  <2>3. CASE sub[c].pc # "gate"
    BY <1>1, <1>2, <1>4, <2>1, <2>3 DEF KeepsTime, Due, Behind
  <2>4. QED
    BY <2>2, <2>3
<1>6. gate' = Due(1)' + Due(2)' /\ (clk > now => gate' = 0)
  BY <1>1, <1>5, OpenMoves DEF CPUs
<1>7. HeldOpen'
  BY <1>1, <1>5, <1>6 DEF HeldOpen
<1>8. HeldAtStart' /\ HeldClosed'
  BY <1>1, <1>2, <1>3 DEF HeldAtStart, HeldClosed
<1>9. Ticks' /\ StallsEnd'
  <2>1. Ticks'
    BY <1>1, <1>2, <1>3, <1>4 DEF Ticks, KeepsTime, HeldClosed, Behind
  <2>2. StallsEnd'
    BY <1>1, <1>2, <1>4 DEF StallsEnd, KeepsTime, KeepsStall
  <2>3. QED
    BY <2>1, <2>2
<1>10. Timed'
  BY <1>1, <1>2 DEF Timed, AfterStall
<1>11. Heard'
  BY <1>1, <1>2 DEF Heard
<1>12. QED
  BY <1>7, <1>8, <1>9, <1>10, <1>11 DEF Paced

LEMMA DispatcherPaced ==
  ASSUME Shape, BothRun, Paced, Dispatcher
  PROVE  Paced' /\ StartsOpened /\ EndsOnTime
<1>1. UNCHANGED <<clk, workload, genvars, childvars>>
  BY DEF Dispatcher
<1>2. ~Leave /\ ~Exit
  BY NotBothEnded DEF Leave, Exit, Paced, Timed
<1>3. Paced'
  BY <1>1, <1>2, SpinPaced, NewTickPaced, ReceivePaced, ComparePaced, MovePaced, OpenPaced
     DEF Dispatcher
<1>4. \A c \in CPUs : sub'[c].last_tick = sub[c].last_tick /\ sub'[c].stalled = sub[c].stalled
  BY DispatcherMoves, OpenMoves DEF KeepsTime, KeepsStall
<1>5. StartsOpened /\ EndsOnTime
  BY <1>4 DEF StartsOpened, EndsOnTime
<1>6. QED
  BY <1>3, <1>5


-----------------------------------------------------------------------------
(* The generator, the clock and the children.                              *)

LEMMA GeneratorPaced ==
  ASSUME Shape, Paced, Generator
  PROVE  Paced'
<1>1. /\ UNCHANGED <<clk, sub, pc, now, gate, movedAt, wait_until, receivingProcesses, urg, resp,
                     usr2>>
      /\ GenStep(pc = "exited")
  BY DEF Generator, mainvars, subvars, inputvars, stallvars, endvars, msgvars
<1>2. /\ Heard /\ Timed /\ Ticks /\ HeldAtStart /\ HeldClosed /\ HeldOpen /\ StallsEnd
      /\ clk \in Int /\ g_now \in Int
      /\ msgq \in [arrived: Seq(Procs), sync: Seq(Int), end: BOOLEAN]
  BY TimeTypes DEF Paced, Shape, InputTypes
<1>3. Timed' /\ Ticks' /\ HeldAtStart' /\ HeldClosed' /\ HeldOpen' /\ StallsEnd'
  <2>1. Due(1)' = Due(1) /\ Due(2)' = Due(2) /\ \A c \in CPUs : Behind(c)' <=> Behind(c)
    BY <1>1 DEF Due, Behind
  <2>2. Timed'
    BY <1>1, <1>2 DEF Timed, AfterStall
  <2>3. QED
    BY <1>1, <1>2, <2>1, <2>2 DEF Ticks, HeldAtStart, HeldClosed, HeldOpen, StallsEnd, Opened
<1>4. Heard'
  <2>1. CASE GenPoll
    BY <1>1, <1>2, <2>1 DEF GenPoll, Heard
  <2>2. CASE GenSend
    <3>1. msgq'.sync = msgq.sync /\ msgq'.end = msgq.end
      BY <1>2, <2>2 DEF GenSend
    <3>2. QED
      BY <1>1, <1>2, <2>2, <3>1 DEF GenSend, Heard
  <2>3. CASE GenSync
    <3> DEFINE q == msgq.sync
    <3>1. /\ q \in Seq(Int) /\ msgq'.sync = Append(q, g_now)
          /\ g_now = clk /\ lastTime' = g_now /\ g_pc' = "poll" /\ g_now' = g_now
      BY <1>2, <2>3 DEF GenSync, Heard
    <3>2. \A i \in DOMAIN q : q[i] <= clk
      BY <1>2 DEF Heard
    <3> HIDE DEF q
    <3>3. /\ Append(q, g_now) # <<>> /\ Append(q, g_now)[Len(Append(q, g_now))] = clk
          /\ \A i \in DOMAIN Append(q, g_now) : Append(q, g_now)[i] <= clk
      <4>1. /\ Len(q) \in Nat /\ DOMAIN q = 1..Len(q) /\ Len(Append(q, g_now)) = Len(q) + 1
            /\ DOMAIN Append(q, g_now) = 1..(Len(q) + 1)
            /\ \A i \in 1..Len(q) : Append(q, g_now)[i] = q[i]
            /\ Append(q, g_now)[Len(q) + 1] = g_now
        BY <1>2, <3>1
      <4>2. Append(q, g_now) # <<>>
        <5>1. Len(Append(q, g_now)) # 0
          BY <4>1
        <5>2. Len(<<>>) = 0
          OBVIOUS
        <5>3. QED
          BY <5>1, <5>2
      <4>3. ASSUME NEW i \in 1..(Len(q) + 1) PROVE Append(q, g_now)[i] <= clk
        <5>1. CASE i = Len(q) + 1
          BY <1>2, <3>1, <4>1, <5>1
        <5>2. CASE i \in 1..Len(q)
          BY <3>2, <4>1, <5>2
        <5>3. QED
          BY <4>1, <5>1, <5>2
      <4>4. QED
        BY <3>1, <4>1, <4>2, <4>3
    <3>4. QED
      BY <1>1, <1>2, <3>1, <3>3 DEF Heard
  <2>4. CASE GenEnd
    <3>1. msgq'.sync = msgq.sync /\ msgq'.end = TRUE
      BY <1>2, <2>4 DEF GenEnd
    <3>2. QED
      BY <1>1, <1>2, <2>4, <3>1 DEF GenEnd, Heard
  <2>5. CASE GenShutdown(pc = "exited")
    BY <1>2, <2>5 DEF GenShutdown, Timed
  <2>6. QED
    BY <1>1, <2>1, <2>2, <2>3, <2>4, <2>5 DEF GenStep
<1>5. QED
  BY <1>3, <1>4 DEF Paced

\* The clock goes on only when each sub-scheduler sleeps or has passed the gate in
\* this tick, and the dispatcher waits for the next or for the end of a stall.
LEMMA ClockWaits ==
  ASSUME Shape, BothRun, Paced, ClockTick
  PROVE  /\ (pc = "spin" /\ clk = now) \/ (pc = "wait" /\ clk < wait_until)
         /\ (g_pc = "poll" /\ clk = lastTime) \/ g_pc = "waitpid"
         /\ \A c \in CPUs : /\ \/ sub[c].pc = "gate"
                               \/ sub[c].pc \in {"loop", "spin"} /\ sub[c].last_tick = clk
                            /\ c \notin urg /\ c \notin usr2
<1>1. /\ GeneratorWaits(pc = "exited") /\ DispatcherWaits /\ \A c \in CPUs : SubWaits(c)
      /\ Heard /\ Timed /\ urg \subseteq CPUs
  BY DEF ClockTick, Paced, Shape, MessageTypes
<1>2. ASSUME NEW c \in CPUs
      PROVE  /\ \/ sub[c].pc = "gate"
                \/ sub[c].pc \in {"loop", "spin"} /\ sub[c].last_tick = clk
             /\ c \notin urg /\ c \notin usr2
  BY <1>1 DEF SubWaits, Spinning, BothRun, Ending
<1>3. (g_pc = "poll" /\ clk = lastTime) \/ g_pc = "waitpid"
  BY <1>1 DEF GeneratorWaits
<1>4. pc # "receive" \/ msgq # NoMessage
  BY <1>1, <1>3 DEF Heard, NoMessage
<1>5. pc # "steal" \/ resp # <<>>
  BY <1>1, <1>2 DEF Heard
<1>6. (pc = "spin" /\ clk = now) \/ (pc = "wait" /\ clk < wait_until)
  BY <1>1, <1>4, <1>5 DEF DispatcherWaits, Timed
<1>7. QED
  BY <1>2, <1>3, <1>6

LEMMA ClockPaced ==
  ASSUME Shape, BothRun, Paced, ClockTick
  PROVE  Paced'
<1>1. /\ clk' = clk + 1
      /\ UNCHANGED <<sub, pc, now, gate, movedAt, wait_until, receivingProcesses, urg, resp, usr2,
                     g_pc, g_now, lastTime, msgq>>
      /\ GeneratorWaits(pc = "exited") /\ DispatcherWaits /\ \A c \in CPUs : SubWaits(c)
  BY DEF ClockTick, mainvars, subvars, inputvars, stallvars, endvars, msgvars, genvars
<1>2. /\ Heard /\ Timed /\ Ticks /\ HeldAtStart /\ HeldClosed /\ HeldOpen /\ StallsEnd
      /\ clk \in Int /\ now \in Int /\ movedAt \in Int /\ wait_until \in Int /\ g_now \in Int
      /\ clk >= 0 /\ gate \in 0..2 /\ urg \subseteq CPUs /\ usr2 \subseteq CPUs
      /\ \A c \in CPUs : /\ sub[c].now \in Int /\ sub[c].last_tick \in Int
                         /\ sub[c].stall_end \in Int
  BY TimeTypes DEF Paced, Shape, MessageTypes
<1>3. \A c \in CPUs : /\ \/ sub[c].pc = "gate"
                         \/ sub[c].pc \in {"loop", "spin"} /\ sub[c].last_tick = clk
                      /\ c \notin urg /\ c \notin usr2
  BY ClockWaits
<1>4. (g_pc = "poll" /\ clk = lastTime) \/ g_pc = "waitpid"
  BY ClockWaits
<1>5. (pc = "spin" /\ clk = now) \/ (pc = "wait" /\ clk < wait_until)
  BY ClockWaits
<1>6. Heard'
  <2>1. \A i \in DOMAIN msgq.sync : msgq.sync[i] <= clk + 1
    <3>1. msgq.sync \in Seq(Int) /\ \A i \in DOMAIN msgq.sync : msgq.sync[i] <= clk
      BY <1>2, TimeTypes DEF Heard
    <3>2. \A i \in DOMAIN msgq.sync : msgq.sync[i] \in Int
      BY <3>1
    <3>3. QED
      BY <1>2, <3>1, <3>2
  <2>2. QED
    BY <1>1, <1>2, <1>4, <1>5, <2>1 DEF Heard
<1>7. Timed'
  BY <1>1, <1>2, <1>5 DEF Timed
<1>8. Ticks'
  BY <1>1, <1>2, <1>3 DEF Ticks
<1>9. CASE pc = "spin" /\ clk = now
  <2>1. ASSUME NEW c \in CPUs
        PROVE  sub[c].pc \in {"loop", "spin"} /\ sub[c].last_tick = clk
    BY <1>2, <1>3, <1>9 DEF HeldAtStart, HeldOpen, Opened
  <2>2. Due(1) = 0 /\ Due(2) = 0 /\ Due(1)' = 0 /\ Due(2)' = 0
    BY <1>1, <1>2, <1>9, <2>1 DEF Due, Behind, CPUs
  <2>3. HeldAtStart' /\ HeldClosed' /\ HeldOpen'
    BY <1>1, <1>2, <1>9, <2>1, <2>2 DEF HeldAtStart, HeldClosed, HeldOpen, Opened
  <2>4. StallsEnd'
    BY <1>1, <1>2, <1>3, <2>1 DEF StallsEnd
  <2>5. QED
    BY <1>6, <1>7, <1>8, <2>3, <2>4 DEF Paced
<1>10. CASE pc = "wait" /\ clk < wait_until
  <2>1. now > 0 /\ now <= clk /\ wait_until = movedAt + 3 /\ ~Opened /\ ~Opened'
    BY <1>1, <1>2, <1>10 DEF Timed, Opened
  <2>2. \A c \in CPUs : Behind(c) /\ Behind(c)' /\ sub[c].pc = "gate" /\ sub[c].now = now
    BY <1>1, <1>2, <1>3, <2>1 DEF HeldClosed, Behind
  <2>3. HeldAtStart' /\ HeldClosed' /\ HeldOpen'
    BY <1>1, <1>2, <2>1, <2>2 DEF HeldAtStart, HeldClosed, HeldOpen
  <2>4. StallsEnd'
    BY <1>1, <1>2, <1>3, <1>10, <2>1 DEF StallsEnd
  <2>5. QED
    BY <1>6, <1>7, <1>8, <2>3, <2>4 DEF Paced
<1>11. QED
  BY <1>5, <1>9, <1>10

LEMMA ChildPaced ==
  ASSUME Shape, Paced,
         (\E p \in AllProcs : Child(p)) \/ Terminated \/ UNCHANGED dualvars
  PROVE  Paced'
<1>1. UNCHANGED <<clk, sub, pc, now, gate, movedAt, wait_until, receivingProcesses, urg, resp, usr2,
                  g_pc, g_now, lastTime, msgq>>
  BY DEF Child, Terminated, dualvars, mainvars, subvars, inputvars, stallvars, endvars, msgvars,
         genvars
<1>2. /\ Heard /\ Timed /\ Ticks /\ HeldAtStart /\ HeldClosed /\ HeldOpen /\ StallsEnd
  BY DEF Paced
<1>3. Due(1)' = Due(1) /\ Due(2)' = Due(2) /\ \A c \in CPUs : Behind(c)' <=> Behind(c)
  BY <1>1 DEF Due, Behind
<1>4. Heard'
  BY <1>1, <1>2 DEF Heard
<1>5. Timed'
  BY <1>1, <1>2 DEF Timed, AfterStall
<1>6. QED
  BY <1>1, <1>2, <1>3, <1>4, <1>5
     DEF Paced, Ticks, HeldAtStart, HeldClosed, HeldOpen, StallsEnd, Opened

LEMMA PacedStep ==
  ASSUME Shape, BothRun => Paced, [DualNext]_dualvars
  PROVE  /\ (BothRun => Paced)'
         /\ BothRun => StartsOpened /\ EndsOnTime
<1>1. ASSUME BothRun PROVE StartsOpened /\ EndsOnTime
  <2>1. CASE UNCHANGED sub
    BY <2>1 DEF StartsOpened, EndsOnTime
  <2>2. ASSUME NEW c \in CPUs, SubScheduler(c) \/ Handler(c) PROVE StartsOpened /\ EndsOnTime
    BY <1>1, <2>2, SubTimely
  <2>3. CASE Dispatcher
    BY <1>1, <2>3, DispatcherPaced
  <2>4. CASE \/ ClockTick \/ Generator \/ Terminated \/ UNCHANGED dualvars
             \/ \E p \in AllProcs : Child(p)
    BY <2>1, <2>4 DEF ClockTick, Generator, Terminated, Child, dualvars, subvars
  <2>5. QED
    BY <2>2, <2>3, <2>4 DEF DualNext
<1>2. ASSUME BothRun' PROVE Paced'
  <2>1. BothRun /\ Paced
    BY <1>2, RunBefore
  <2>2. ASSUME NEW c \in CPUs, SubScheduler(c) \/ Handler(c) PROVE Paced'
    BY <1>2, <2>1, <2>2, SubPaced
  <2>3. QED
    BY <2>1, <2>2, DispatcherPaced, GeneratorPaced, ClockPaced, ChildPaced DEF DualNext
<1>3. QED
  BY <1>1, <1>2

LEMMA PacedInit == DualInit => Paced
<1> SUFFICES ASSUME DualInit PROVE Paced
  OBVIOUS
<1>1. /\ clk = 0 /\ now = -1 /\ pc = "spin" /\ gate = 0 /\ usr2 = {} /\ urg = {} /\ movedAt = -1
      /\ lastTime = -1 /\ g_now = -1 /\ g_pc = "poll" /\ receivingProcesses = TRUE
      /\ msgq.sync = <<>> /\ sub = [c \in CPUs |-> IdleSub]
  BY DEF DualInit, GenInit, NoMessage
<1>2. \A c \in CPUs : /\ sub[c].pc = "loop" /\ sub[c].now = -1 /\ sub[c].last_tick = -1
                      /\ sub[c].stalled = FALSE
  BY <1>1 DEF IdleSub
<1>3. Heard
  BY <1>1 DEF Heard
<1>4. QED
  BY <1>1, <1>2, <1>3
     DEF Paced, Timed, AfterStall, Ticks, HeldAtStart, HeldClosed, HeldOpen, StallsEnd, Opened

\* GateHolds: as long as both sub-schedulers run, neither of them starts a tick
\* before the dispatcher has opened the gate for it.
THEOREM TicksWaitForTheGate == DualSpec => GateHolds
<1>1. DualInit => Shape /\ (BothRun => Paced)
  BY ShapeInit, PacedInit
<1>2. Shape /\ (BothRun => Paced) /\ [DualNext]_dualvars
         => (Shape /\ (BothRun => Paced))' /\ [BothRun => StartsOpened]_dualvars
  BY ShapeStep, GeneratorShape, PacedStep
<1>3. QED
  BY <1>1, <1>2, PTL DEF DualSpec, GateHolds

\* StallLasts: as long as both sub-schedulers run, what a move costs is three ticks,
\* on both CPUs, although three timers count them.
THEOREM StallsLastThreeTicks == DualSpec => StallLasts
<1>1. DualInit => Shape /\ (BothRun => Paced)
  BY ShapeInit, PacedInit
<1>2. Shape /\ (BothRun => Paced) /\ [DualNext]_dualvars
         => (Shape /\ (BothRun => Paced))' /\ [BothRun => EndsOnTime]_dualvars
  BY ShapeStep, GeneratorShape, PacedStep
<1>3. QED
  BY <1>1, <1>2, PTL DEF DualSpec, StallLasts

=============================================================================
