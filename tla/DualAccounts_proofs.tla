------------------------- MODULE DualAccounts_proofs -------------------------
(***************************************************************************)
(* What the dual-CPU simulation computes: waiting and finish times, the    *)
(* two reports and the load table.                                         *)
(*                                                                         *)
(* The accounting is right for all inputs for which no process is moved    *)
(* after a sub-scheduler has left its main loop (MovesInTime).  Genuine    *)
(* says that all messages are then what they are taken for, Reported what  *)
(* the two reports contain, Punctual and Steady that each sub-scheduler    *)
(* starts a frame in every tick it does not sleep through, and Charges     *)
(* from which tick on the process on a CPU is still to be charged.         *)
(*                                                                         *)
(* The load table is right as long as both sub-schedulers are in their     *)
(* main loops: Mirrored says that the word a CPU shares with its child is  *)
(* what the child has left, Calm that the table counts what is left to do  *)
(* from the moment the clock goes on until the loads are compared.         *)
(***************************************************************************)
EXTENDS DualCPU_proofs

-----------------------------------------------------------------------------
(* No sub-scheduler is given anything but a process, as long as no process *)
(* is moved after one of them has left: an acknowledgement is then never   *)
(* taken for the answer to a request to steal.                             *)

\* The messages that are what they say.
RealOrder == [mtype: {MTYPE_NEW_PROCESS}, proc: Procs] \cup [mtype: {MTYPE_TERMINATE}, proc: {Ghost}]

RealAnswer == [mtype: {MTYPE_STEAL_RESPONSE}, proc: Procs]
              \cup [mtype: {MTYPE_ACK, MTYPE_STEAL_EMPTY}, proc: {Ghost}]

Genuine ==
    /\ submsg \in [CPUs -> Seq(RealOrder)] /\ resp \in Seq(RealAnswer)
    /\ \A c \in CPUs : sub[c].ready \in Seq(Procs) /\ sub[c].curr \in Procs \cup {NoOne}

LEMMA RealMessages ==
  /\ \A p \in Procs : Msg(MTYPE_NEW_PROCESS, p) \in RealOrder
                      /\ Msg(MTYPE_STEAL_RESPONSE, p) \in RealAnswer
  /\ Msg(MTYPE_TERMINATE, Ghost) \in RealOrder
  /\ AckMsg \in RealAnswer /\ Msg(MTYPE_STEAL_EMPTY, Ghost) \in RealAnswer
  /\ \A m \in RealOrder : m.mtype # MTYPE_TERMINATE => m.proc \in Procs
  /\ \A m \in RealAnswer : m.mtype # MTYPE_STEAL_EMPTY => m = AckMsg \/ m.proc \in Procs
<1>1. MTYPE_NEW_PROCESS # MTYPE_TERMINATE
  BY DEF MTYPE_NEW_PROCESS, MTYPE_TERMINATE
<1>2. \A t, p : Msg(t, p) = [mtype |-> t, proc |-> p]
  BY DEF Msg
<1>3. /\ \A p \in Procs : Msg(MTYPE_NEW_PROCESS, p) \in RealOrder
                          /\ Msg(MTYPE_STEAL_RESPONSE, p) \in RealAnswer
      /\ Msg(MTYPE_TERMINATE, Ghost) \in RealOrder
      /\ AckMsg \in RealAnswer /\ Msg(MTYPE_STEAL_EMPTY, Ghost) \in RealAnswer
  BY <1>2 DEF RealOrder, RealAnswer, AckMsg
<1>4. \A m \in RealOrder : m.mtype # MTYPE_TERMINATE => m.proc \in Procs
  BY <1>1 DEF RealOrder
<1>5. \A m \in RealAnswer : m.mtype # MTYPE_STEAL_EMPTY => m = AckMsg \/ m.proc \in Procs
  BY <1>2 DEF RealAnswer, AckMsg
<1>6. QED
  BY <1>3, <1>4, <1>5

\* What the loop on msgrcv takes, if all of it is real.
LEMMA DrainGenuine ==
  ASSUME Shape, Genuine, NEW c \in CPUs
  PROVE  /\ NewProcs(c) \in Seq(Procs) /\ LeftBehind(c) \in Seq(RealOrder)
         /\ sub[c].ready \o NewProcs(c) \in Seq(Procs)
         /\ DrainMessages(c) => submsg' \in [CPUs -> Seq(RealOrder)]
<1> DEFINE q == submsg[c]
           ends == {i \in DOMAIN q : q[i].mtype = MTYPE_TERMINATE}
           e == EndAt(c)
           t == Taken(c)
           n == IF e = 0 THEN t ELSE t - 1
<1>1. q \in Seq(RealOrder) /\ Len(q) \in Nat /\ DOMAIN q = 1..Len(q)
      /\ \A i \in 1..Len(q) : q[i] \in RealOrder
  BY DEF Genuine
<1>2. e \in 0..Len(q)
  BY EndAtIs
<1>3. e = (IF ends = {} THEN 0 ELSE Min(ends)) /\ t = (IF e = 0 THEN Len(q) ELSE e)
  BY DEF EndAt, Taken
<1>4. ASSUME ends # {} PROVE Min(ends) \in ends /\ \A j \in ends : Min(ends) <= j
  <2>1. ends \in SUBSET Nat
    BY <1>1
  <2> HIDE DEF ends
  <2>2. \E i \in ends : \A j \in ends : i <= j
    BY <1>4, <2>1, LeastExists
  <2>3. QED
    BY <2>2 DEF Min
<1>5. \A i \in 1..Len(q) : i \in ends <=> q[i].mtype = MTYPE_TERMINATE
  BY <1>1
<1>6. NewProcs(c) = [i \in 1..n |-> q[i].proc]
  BY DEF NewProcs
<1>7. LeftBehind(c) = SubSeq(q, t + 1, Len(q))
  BY DEF LeftBehind
<1>8. submsg \in [CPUs -> Seq(RealOrder)] /\ sub[c].ready \in Seq(Procs)
  BY DEF Genuine
<1>9. \A i \in ends : i \in 1..Len(q)
  BY <1>1
<1> HIDE DEF q, e, t, ends
<1>10. t \in 0..Len(q) /\ n \in Nat /\ n <= t
  BY <1>1, <1>2, <1>3
<1>11. \A i \in 1..n : i \in 1..Len(q) /\ i \notin ends
  <2>1. CASE ends = {}
    BY <1>1, <1>10, <2>1
  <2>2. CASE ends # {}
    <3>1. Min(ends) \in 1..Len(q) /\ e = Min(ends) /\ e # 0 /\ n = Min(ends) - 1
      BY <1>3, <1>4, <1>9, <2>2
    <3>2. \A j \in ends : Min(ends) <= j
      BY <1>4, <2>2
    <3>3. QED
      BY <1>1, <3>1, <3>2
  <2>3. QED
    BY <2>1, <2>2
<1>12. \A i \in 1..n : q[i].proc \in Procs
  BY <1>1, <1>5, <1>11, RealMessages
<1>13. NewProcs(c) \in Seq(Procs)
  <2> HIDE DEF n
  <2>1. QED
    BY <1>6, <1>10, <1>12
<1>14. LeftBehind(c) \in Seq(RealOrder)
  BY <1>1, <1>7, <1>10
<1>15. DrainMessages(c) => submsg' = [submsg EXCEPT ![c] = LeftBehind(c)]
  BY DrainTypes
<1>16. sub[c].ready \o NewProcs(c) \in Seq(Procs)
  BY <1>8, <1>13
<1>17. DrainMessages(c) => submsg' \in [CPUs -> Seq(RealOrder)]
  BY <1>8, <1>14, <1>15
<1>18. QED
  BY <1>13, <1>14, <1>16, <1>17

\* While both run, no acknowledgement is on its way.
LEMMA NoAcksYet ==
  ASSUME Shape, BothRun
  PROVE  \A i \in DOMAIN resp : resp[i] # AckMsg
<1>1. subs_terminated \in Nat /\ resp \in Seq(Answer)
      /\ subs_terminated + Cardinality(Acks) <= Cardinality(Ended)
  BY DEF Shape, MainTypes, MessageTypes, EndsCounted
<1>2. Ended = {}
  BY DEF Ended, BothRun, Ending
<1>3. IsFiniteSet(Acks) /\ Cardinality(Acks) \in Nat /\ Cardinality(Ended) = 0
  BY <1>1, <1>2, AckPlacesFinite, FS_EmptySet DEF Acks, AckPlaces
<1>4. Cardinality(Acks) = 0
  BY <1>1, <1>3
<1>5. Acks = {}
  BY <1>3, <1>4, FS_EmptySet
<1>6. QED
  BY <1>5 DEF Acks

LEMMA DispatcherGenuine ==
  ASSUME Shape, Genuine, Dispatcher, MovesInTime'
  PROVE  Genuine'
<1> USE DEF subvars, inputvars, stallvars, endvars, msgvars, genvars, Goto
<1>1. /\ submsg \in [CPUs -> Seq(RealOrder)] /\ resp \in Seq(RealAnswer)
      /\ readyQueue \in Seq(Procs) /\ sub \in [CPUs -> SubRec]
  BY DEF Genuine, Shape, MainTypes, SubTypes
<1>2. \A c \in CPUs : sub'[c].ready = sub[c].ready /\ sub'[c].curr = sub[c].curr
  <2>1. CASE UNCHANGED sub
    BY <2>1
  <2>2. CASE OpenGate
    BY <1>1, <2>2 DEF OpenGate, SubRec
  <2>3. QED
    BY <2>1, <2>2, DispatcherMoves
<1>3. resp' \in Seq(RealAnswer)
  <2>1. CASE CountAcks
    <3> DEFINE S == ToSet(resp) \ {AckMsg}
    <3>1. resp' = InOrder(resp, S)
      BY <2>1 DEF CountAcks
    <3> HIDE DEF S
    <3>2. QED
      BY <1>1, <3>1, InOrderFacts
  <2>2. CASE resp # <<>> /\ resp' = Tail(resp)
    BY <1>1, <2>2
  <2>3. CASE resp' = resp
    BY <1>1, <2>3
  <2>4. QED
    BY <2>1, <2>2, <2>3
       DEF Dispatcher, SpinAcks, NewTick, ReceiveProcess, ReceiveSync, ReceiveEnd, Algo, Route,
           PublishRoutes, Check, NoCheck, NothingStolen, Stolen, PublishMove, WaitOver, Open, After,
           Leave, Exit
<1>4. submsg' \in [CPUs -> Seq(RealOrder)]
  <2>1. ASSUME NEW c \in CPUs, NEW m \in RealOrder, submsg' = Sent(c, m)
        PROVE  submsg' \in [CPUs -> Seq(RealOrder)]
    BY <1>1, <2>1 DEF Sent
  <2>2. CASE Route
    <3>1. Head(readyQueue) \in Procs /\ LighterReady \in CPUs
      BY <1>1, <2>2 DEF Route, LighterReady, CPUs
    <3>2. Msg(MTYPE_NEW_PROCESS, Head(readyQueue)) \in RealOrder
      BY <3>1, RealMessages
    <3>3. submsg' = Sent(LighterReady, Msg(MTYPE_NEW_PROCESS, Head(readyQueue)))
      BY <2>2 DEF Route
    <3>4. QED
      BY <2>1, <3>1, <3>2, <3>3
  <2>3. CASE Stolen
    <3> DEFINE p == Head(resp).proc
               b == Other(Busier(projected))
    <3>1. pc' = "moved" /\ UNCHANGED sub /\ resp # <<>> /\ Head(resp).mtype # MTYPE_STEAL_EMPTY
          /\ submsg' = Sent(b, Msg(MTYPE_NEW_PROCESS, p))
      BY <2>3 DEF Stolen
    <3>2. BothRun
      BY <3>1 DEF MovesInTime, BothRun
    <3>3. Head(resp) \in RealAnswer /\ Head(resp) # AckMsg
      <4>1. /\ Head(resp) = resp[1] /\ 1 \in DOMAIN resp /\ Head(resp) \in RealAnswer
        BY <1>1, <3>1
      <4>2. QED
        BY <3>2, <4>1, NoAcksYet
    <3>4. p \in Procs
      BY <3>1, <3>3, RealMessages
    <3>5. b \in CPUs
      BY DEF Busier, Other, CPUs
    <3>6. Msg(MTYPE_NEW_PROCESS, p) \in RealOrder
      BY <3>4, RealMessages
    <3> HIDE DEF p, b
    <3>7. QED
      BY <2>1, <3>1, <3>5, <3>6
  <2>4. CASE After
    <3>1. \/ submsg' = submsg
          \/ submsg' = [c \in CPUs |-> Append(submsg[c], Msg(MTYPE_TERMINATE, Ghost))]
      BY <2>4 DEF After
    <3>2. Msg(MTYPE_TERMINATE, Ghost) \in RealOrder
      BY RealMessages
    <3>3. \A m \in RealOrder, q \in Seq(RealOrder) : Append(q, m) \in Seq(RealOrder)
      OBVIOUS
    <3>4. QED
      BY <1>1, <3>1, <3>2, <3>3
  <2>5. CASE submsg' = submsg
    BY <1>1, <2>5
  <2>6. QED
    BY <2>2, <2>3, <2>4, <2>5
       DEF Dispatcher, SpinAcks, NewTick, ReceiveProcess, ReceiveSync, ReceiveEnd, Algo,
           PublishRoutes, Check, NoCheck, NothingStolen, PublishMove, WaitOver, Open, Leave, Exit
<1>5. QED
  BY <1>2, <1>3, <1>4 DEF Genuine

\* What a step has to show that changes one sub-scheduler.
LEMMA GenuineKept ==
  ASSUME Shape, Genuine, NEW c \in CPUs, NEW s, sub' = [sub EXCEPT ![c] = s],
         s.ready \in Seq(Procs), s.curr \in Procs \cup {NoOne},
         submsg' \in [CPUs -> Seq(RealOrder)], resp' \in Seq(RealAnswer)
  PROVE  Genuine'
<1>1. sub'[c] = s /\ \A d \in CPUs \ {c} : sub'[d] = sub[d]
  BY OwnKept
<1>2. \A d \in CPUs : sub[d].ready \in Seq(Procs) /\ sub[d].curr \in Procs \cup {NoOne}
  BY DEF Genuine
<1>3. \A d \in CPUs : sub'[d].ready \in Seq(Procs) /\ sub'[d].curr \in Procs \cup {NoOne}
  BY <1>1, <1>2
<1>4. QED
  BY <1>3 DEF Genuine

LEMMA SubGenuine ==
  ASSUME Shape, Genuine, NEW c \in CPUs, SubScheduler(c) \/ Handler(c)
  PROVE  Genuine'
<1>1. UNCHANGED <<clk, workload, genvars, msgq, mainvars>>
  BY DEF SubScheduler, Handler
<1>2. /\ sub[c] \in SubRec /\ sub \in [CPUs -> SubRec]
      /\ submsg \in [CPUs -> Seq(RealOrder)] /\ resp \in Seq(RealAnswer)
      /\ sub[c].ready \in Seq(Procs) /\ sub[c].curr \in Procs \cup {NoOne}
      /\ sub[c].ready \o NewProcs(c) \in Seq(Procs)
      /\ DrainMessages(c) => submsg' \in [CPUs -> Seq(RealOrder)]
  BY SubReads, DrainGenuine DEF Genuine
<1>3. CASE Spin(c) \/ SubNewTick(c) \/ Frame(c)
  <2>1. PICK s \in SubRec : /\ Around(c, s) /\ s.curr = sub[c].curr
                            /\ s.ready = sub[c].ready \o NewProcs(c)
    BY <1>1, <1>3, LoopSub
  <2>2. DrainMessages(c) /\ resp' = resp
    BY <1>3 DEF Spin, SubNewTick, Frame
  <2>3. QED
    BY <1>2, <2>1, <2>2, GenuineKept DEF Around
<1>4. CASE SubFinish(c)
  <2> DEFINE s == [sub[c] EXCEPT !.curr = NoOne, !.pc = "down", !.csu = sub[c].now + 1]
  <2>1. sub' = [sub EXCEPT ![c] = s] /\ UNCHANGED <<submsg, resp>>
    BY <1>4 DEF SubFinish
  <2>2. s.curr = NoOne /\ s.ready = sub[c].ready
    BY <1>2 DEF SubRec
  <2> HIDE DEF s
  <2>3. QED
    BY <1>2, <2>1, <2>2, GenuineKept
<1>5. CASE SubDispatch(c)
  <2> DEFINE q == sub[c].ready
             s == [sub[c] EXCEPT !.pc = "compute", !.curr = Head(q), !.csu = -1, !.ready = Tail(q)]
  <2>1. sub' = [sub EXCEPT ![c] = s] /\ q # <<>> /\ UNCHANGED <<submsg, resp>>
    <3>1. sub' = [sub EXCEPT ![c] = s]
      BY <1>5, Zenon DEF SubDispatch, Rest
    <3>2. q # <<>> /\ UNCHANGED <<submsg, resp>>
      BY <1>5 DEF SubDispatch, CanDispatch
    <3>3. QED
      BY <3>1, <3>2
  <2>2. s.curr = Head(q) /\ s.ready = Tail(q)
    BY <1>2 DEF SubRec
  <2>3. Head(q) \in Procs /\ Tail(q) \in Seq(Procs)
    BY <1>2, <2>1
  <2> HIDE DEF s, q
  <2>4. QED
    BY <1>2, <2>1, <2>2, <2>3, GenuineKept
<1>6. CASE OnSIGUSR2(c)
  <2> DEFINE s == [Drained(c) EXCEPT !.stalled = TRUE, !.stall_end = StallEnd]
  <2>1. sub' = [sub EXCEPT ![c] = s] /\ DrainMessages(c) /\ resp' = resp
    BY <1>6 DEF OnSIGUSR2
  <2>2. s.curr = sub[c].curr /\ s.ready = sub[c].ready \o NewProcs(c)
    BY DrainTypes DEF SubRec
  <2> HIDE DEF s
  <2>3. QED
    BY <1>2, <2>1, <2>2, GenuineKept
<1>7. CASE OnSIGURG(c)
  <2> DEFINE q == Drained(c).ready
             s == [Drained(c) EXCEPT !.ready = Front(q)]
  <2>1. /\ DrainMessages(c)
        /\ \/ /\ sub' = [sub EXCEPT ![c] = Drained(c)]
              /\ resp' = Append(resp, Msg(MTYPE_STEAL_EMPTY, Ghost))
           \/ /\ q # <<>> /\ sub' = [sub EXCEPT ![c] = s]
              /\ resp' = Append(resp, Msg(MTYPE_STEAL_RESPONSE, Last(q)))
    BY <1>7 DEF OnSIGURG, AllButLast
  <2>2. /\ Drained(c) \in SubRec /\ q = sub[c].ready \o NewProcs(c) /\ Drained(c).curr = sub[c].curr
    BY DrainTypes
  <2>3. s.curr = sub[c].curr /\ s.ready = Front(q)
    BY <2>2 DEF SubRec
  <2>4. q \in Seq(Procs)
    BY <1>2, <2>2
  <2>5. \A m \in RealAnswer : Append(resp, m) \in Seq(RealAnswer)
    BY <1>2
  <2>6. Msg(MTYPE_STEAL_EMPTY, Ghost) \in RealAnswer
        /\ \A p \in Procs : Msg(MTYPE_STEAL_RESPONSE, p) \in RealAnswer
    BY RealMessages
  <2>7. q # <<>> => Last(q) \in Procs /\ Front(q) \in Seq(Procs)
    BY <2>4 DEF Last, Front
  <2> HIDE DEF s, q
  <2>8. CASE /\ sub' = [sub EXCEPT ![c] = Drained(c)]
             /\ resp' = Append(resp, Msg(MTYPE_STEAL_EMPTY, Ghost))
    BY <1>2, <2>1, <2>2, <2>4, <2>5, <2>6, <2>8, GenuineKept DEF q
  <2>9. CASE /\ q # <<>> /\ sub' = [sub EXCEPT ![c] = s]
             /\ resp' = Append(resp, Msg(MTYPE_STEAL_RESPONSE, Last(q)))
    BY <1>2, <2>1, <2>3, <2>5, <2>6, <2>7, <2>9, GenuineKept
  <2>10. QED
    BY <2>1, <2>8, <2>9
<1>8. CASE \/ Publish(c, "spin", "loop") \/ Publish(c, "write", "read") \/ Publish(c, "last", "ack")
           \/ Compute(c, "compute", "write") \/ Compute(c, "left", "last") \/ SubAck(c)
           \/ ReadOther(c) \/ SubLeave(c) \/ SubExit(c) \/ NoDispatch(c) \/ DownGate(c)
  <2>1. submsg' = submsg /\ (resp' = resp \/ resp' = Append(resp, AckMsg))
    BY <1>8 DEF Publish, Compute, ReadOther, SubLeave, SubExit, NoDispatch, DownGate, SubAck, AckMsg
  <2>2. resp' \in Seq(RealAnswer)
    <3>1. Append(resp, AckMsg) \in Seq(RealAnswer)
      BY <1>2, RealMessages
    <3>2. QED
      BY <1>2, <2>1, <3>1
  <2>3. \A d \in CPUs : sub'[d].ready = sub[d].ready /\ sub'[d].curr = sub[d].curr
    <3>1. CASE \E l : sub' = [sub EXCEPT ![c].pc = l]
      BY <1>2, <3>1 DEF SubRec
    <3>2. CASE \E l, b : sub' = [sub EXCEPT ![c].pc = l, ![c].pub = b]
      BY <1>2, <3>2 DEF SubRec
    <3>3. CASE \E l, b : sub' = [sub EXCEPT ![c].pc = l, ![c].remaining = b]
      BY <1>2, <3>3 DEF SubRec
    <3>4. QED
      BY <1>8, <3>1, <3>2, <3>3 DEF Publish, Compute, ReadOther, SubLeave, SubExit, NoDispatch,
                                    DownGate, SubAck, SubGoto
  <2>4. QED
    BY <1>2, <2>1, <2>2, <2>3 DEF Genuine
<1>9. QED
  BY <1>3, <1>4, <1>5, <1>6, <1>7, <1>8 DEF SubScheduler, Handler

LEMMA GenuineStep ==
  ASSUME Shape, Genuine, [DualNext]_dualvars, MovesInTime'
  PROVE  Genuine'
<1>1. CASE ClockTick \/ Generator \/ Terminated \/ UNCHANGED dualvars \/ \E p \in AllProcs : Child(p)
  <2>1. UNCHANGED <<submsg, resp, sub>>
    BY <1>1 DEF ClockTick, Generator, Terminated, Child, dualvars, subvars, msgvars
  <2>2. QED
    BY <2>1 DEF Genuine
<1>2. QED
  BY <1>1, SubGenuine, DispatcherGenuine DEF DualNext

LEMMA GenuineInit == DualInit => Genuine
<1> SUFFICES ASSUME DualInit PROVE Genuine
  OBVIOUS
<1>1. submsg = [c \in CPUs |-> <<>>] /\ resp = <<>> /\ sub = [c \in CPUs |-> IdleSub]
  BY DEF DualInit
<1>2. \A c \in CPUs : sub[c].ready = <<>> /\ sub[c].curr = NoOne
  BY <1>1 DEF IdleSub
<1>3. <<>> \in Seq(RealOrder) /\ <<>> \in Seq(RealAnswer) /\ <<>> \in Seq(Procs)
  OBVIOUS
<1>4. submsg \in [CPUs -> Seq(RealOrder)]
  BY <1>1, <1>3
<1>5. QED
  BY <1>1, <1>2, <1>3, <1>4 DEF Genuine

-----------------------------------------------------------------------------
(* What the reports say of the processes that finished.                    *)

\* A step of a sub-scheduler touches the PCB and the child of the process that it
\* has, or gives the CPU to.
LEMMA OthersKept ==
  ASSUME Shape, Places, Traced, NEW c \in CPUs, SubScheduler(c) \/ Handler(c),
         NEW p \in Procs, p # sub[c].curr, SubDispatch(c) => p # Head(sub[c].ready)
  PROVE  pcb'[p] = pcb[p] /\ child'[p] = child[p]
<1>1. /\ child \in [AllProcs -> ChildRec] /\ pcb \in [AllProcs -> PCBRec] /\ p \in AllProcs
      /\ DrainedPCB(c) \in [AllProcs -> PCBRec] /\ DrainedPCB(c)[p] = pcb[p]
  BY SubReads, DrainTypes, DrainedSame DEF AllProcs
<1> DEFINE k == sub[c].curr
<1>2. p # k
  OBVIOUS
<1>3. CASE pcb' = DrainedPCB(c) /\ child' = child
  BY <1>1, <1>3
<1>4. CASE \E r : pcb' = [DrainedPCB(c) EXCEPT ![k] = r]
           /\ \E b : child' = [child EXCEPT ![k].stopped = b]
  <2> HIDE DEF k
  <2>1. QED
    BY <1>1, <1>2, <1>4
<1>5. CASE UNCHANGED <<pcb, child>>
  BY <1>5
<1>6. CASE SubFinish(c)
  <2>1. child' = child /\ \E r : pcb' = [pcb EXCEPT ![k] = r]
    BY <1>6, Zenon DEF SubFinish
  <2> HIDE DEF k
  <2>2. QED
    BY <1>1, <1>2, <2>1
<1>7. CASE SubDispatch(c)
  <2> DEFINE h == Head(sub[c].ready)
  <2>1. (\E r : pcb' = [pcb EXCEPT ![h] = r]) /\ \E r : child' = [child EXCEPT ![h] = r]
    BY <1>7, Zenon DEF SubDispatch, RunProcess
  <2>2. p # h
    BY <1>7
  <2> HIDE DEF h
  <2>3. QED
    BY <1>1, <2>1, <2>2
<1>8. CASE Spin(c) \/ SubNewTick(c) \/ OnSIGURG(c)
  BY <1>3, <1>8 DEF Spin, SubNewTick, OnSIGURG, childvars
<1>9. CASE Frame(c)
  <2>1. CASE StallOver(c) /\ sub[c].curr # NoOne
    <3>1. /\ \E r : pcb' = [DrainedPCB(c) EXCEPT ![k] = r]
          /\ child' = [child EXCEPT ![k].stopped = FALSE]
      BY <1>9, <2>1, Zenon DEF Frame
    <3>2. QED
      BY <1>4, <3>1
  <2>2. CASE ~(StallOver(c) /\ sub[c].curr # NoOne)
    BY <1>3, <1>9, <2>2 DEF Frame
  <2>3. QED
    BY <2>1, <2>2
<1>10. CASE OnSIGUSR2(c)
  <2>1. CASE ~sub[c].stalled /\ sub[c].curr # NoOne
    <3> DEFINE r == [DrainedPCB(c)[k] EXCEPT !.last_stopped = clk, !.state = "W",
                                             !.remaining_time = shmRT[c]]
    <3>1. pcb' = [DrainedPCB(c) EXCEPT ![k] = [@ EXCEPT !.last_stopped = clk, !.state = "W",
                                                       !.remaining_time = shmRT[c]]]
          /\ child' = [child EXCEPT ![k].stopped = TRUE]
      BY <1>10, <2>1 DEF OnSIGUSR2
    <3>2. pcb' = [DrainedPCB(c) EXCEPT ![k] = r]
      BY <3>1
    <3>3. QED
      BY <1>4, <3>1, <3>2
  <2>2. CASE ~(~sub[c].stalled /\ sub[c].curr # NoOne)
    BY <1>3, <1>10, <2>2 DEF OnSIGUSR2
  <2>3. QED
    BY <2>1, <2>2
<1>11. CASE \/ Publish(c, "spin", "loop") \/ Publish(c, "write", "read") \/ Publish(c, "last", "ack")
            \/ Compute(c, "compute", "write") \/ Compute(c, "left", "last") \/ SubAck(c)
            \/ ReadOther(c) \/ SubLeave(c) \/ SubExit(c) \/ NoDispatch(c) \/ DownGate(c)
  BY <1>5, <1>11 DEF Publish, Compute, ReadOther, SubLeave, SubExit, NoDispatch, DownGate, SubAck,
                     childvars
<1>12. QED
  BY <1>6, <1>7, <1>8, <1>9, <1>10, <1>11 DEF SubScheduler, Handler

\* The PCB of a process that has finished is not touched again.
LEMMA FinishedKept ==
  ASSUME Shape, Places, Traced, [DualNext]_dualvars, NEW p \in Procs, Finished(p)
  PROVE  pcb'[p] = pcb[p]
<1>1. ASSUME NEW c \in CPUs, SubScheduler(c) \/ Handler(c) PROVE pcb'[p] = pcb[p]
  <2>1. p # sub[c].curr
    BY CurrentLive
  <2>2. ASSUME SubDispatch(c) PROVE p # Head(sub[c].ready)
    <3>1. sub[c].ready \in Seq(AllProcs) /\ sub[c].ready # <<>>
      BY <2>2 DEF SubDispatch, CanDispatch, Shape, SubTypes, SubRec
    <3>2. Head(sub[c].ready) = sub[c].ready[1] /\ 1 \in DOMAIN sub[c].ready
      BY <3>1
    <3>3. ReadyOn(c) \in Locations /\ Place[ReadyOn(c)] = sub[c].ready
      BY LocationsAre, PlaceAt
    <3>4. p = Head(sub[c].ready) => p \in Real(sub[c].ready)
      BY <3>2 DEF Real, ToSet
    <3>5. QED
      BY <3>3, <3>4, LiveThere
  <2>3. QED
    BY <1>1, <2>1, <2>2, OthersKept
<1>2. CASE ClockTick \/ Generator \/ Dispatcher \/ Terminated \/ UNCHANGED dualvars
           \/ \E k \in AllProcs : Child(k)
  BY <1>2 DEF ClockTick, Generator, Terminated, Child, dualvars, subvars,
              Dispatcher, SpinAcks, NewTick, ReceiveProcess, ReceiveSync, ReceiveEnd, Algo, Route,
              PublishRoutes, Check, NoCheck, NothingStolen, Stolen, PublishMove, WaitOver, Open,
              After, Leave, Exit
<1>3. QED
  BY <1>1, <1>2 DEF DualNext


\* A step that does not end a process changes no report but for the first arrival.
LEMMA ReportKept ==
  ASSUME Shape, NEW c \in CPUs, SubScheduler(c) \/ Handler(c), ~(SubScheduler(c) /\ SubFinish(c))
  PROVE  \A d \in CPUs : /\ perf'[d].num_procs = perf[d].num_procs
                         /\ perf'[d].waiting = perf[d].waiting
                         /\ perf'[d].total_runtime = perf[d].total_runtime
                         /\ perf'[d].finish_time = perf[d].finish_time
<1>1. perf \in [CPUs -> PerfRec]
  BY DEF Shape, SubTypes
<1>2. CASE perf' = perf
  BY <1>2
<1>3. CASE NoteFirstArrival(c)
  <2>1. perf' = perf \/ perf' = [perf EXCEPT ![c].first_arrival = Arrival(Head(NewProcs(c)))]
    BY <1>3 DEF NoteFirstArrival
  <2>2. QED
    BY <1>1, <2>1 DEF PerfRec
<1>4. CASE Spin(c) \/ SubNewTick(c) \/ Frame(c) \/ OnSIGUSR2(c)
  BY <1>3, <1>4 DEF Spin, SubNewTick, Frame, OnSIGUSR2
<1>5. CASE \/ Publish(c, "spin", "loop") \/ Publish(c, "write", "read") \/ Publish(c, "last", "ack")
           \/ Compute(c, "compute", "write") \/ Compute(c, "left", "last") \/ SubAck(c)
           \/ ReadOther(c) \/ SubLeave(c) \/ SubExit(c) \/ NoDispatch(c) \/ DownGate(c)
           \/ SubDispatch(c) \/ OnSIGURG(c)
  BY <1>2, <1>5 DEF Publish, Compute, ReadOther, SubLeave, SubExit, NoDispatch, DownGate, SubAck,
                    SubDispatch, OnSIGURG
<1>6. QED
  BY <1>4, <1>5 DEF SubScheduler, Handler

\* The reports add up, and no process can finish before one that has been reported.
Reported ==
    /\ ReportsAddUp
    /\ \A c \in CPUs : perf[c].finish_time <= sub[c].now /\ sub[c].now <= clk

\* The functions that ReportsAddUp sums.
Counted(f) == [p \in Procs |-> IF Finished(p) THEN f[p] ELSE 0]

\* A step that neither ends a process nor changes what the reports say.
LEMMA ReportedKept ==
  ASSUME Shape, Shape', Places, Traced, [DualNext]_dualvars, Reported, UNCHANGED workload,
         \A p \in Procs : pcb'[p].state = "F" <=> pcb[p].state = "F",
         \A d \in CPUs : /\ perf'[d].num_procs = perf[d].num_procs
                         /\ perf'[d].waiting = perf[d].waiting
                         /\ perf'[d].total_runtime = perf[d].total_runtime
                         /\ perf'[d].finish_time = perf[d].finish_time
                         /\ sub'[d].now = sub[d].now \/ sub'[d].now = clk,
         clk <= clk'
  PROVE  Reported'
<1>1. workload' = workload /\ \A p \in Procs : Finished(p)' <=> Finished(p)
  BY DEF Finished
<1>2. \A p \in Procs : Finished(p) => pcb'[p] = pcb[p]
  BY FinishedKept
<1>3. OfFinished([p \in Procs |-> 1])' = OfFinished([p \in Procs |-> 1])
  BY <1>1 DEF OfFinished
<1>4. OfFinished([p \in Procs |-> pcb[p].waiting_time])' = OfFinished([p \in Procs |-> pcb[p].waiting_time])
  <2>1. [p \in Procs |-> IF Finished(p)' THEN [x \in Procs |-> pcb'[x].waiting_time][p] ELSE 0]
          = [p \in Procs |-> IF Finished(p) THEN [x \in Procs |-> pcb[x].waiting_time][p] ELSE 0]
    BY <1>1, <1>2
  <2>2. QED
    BY <1>1, <2>1 DEF OfFinished
<1>5. OfFinished(workload.runtime)' = OfFinished(workload.runtime)
  BY <1>1 DEF OfFinished
<1>6. \A p \in Procs : Finished(p)' => pcb'[p] = pcb[p]
  BY <1>1, <1>2
<1>7. ReportsAddUp'
  <2>1. 1 \in CPUs /\ 2 \in CPUs
    BY DEF CPUs
  <2>2. /\ perf'[1].num_procs + perf'[2].num_procs = OfFinished([p \in Procs |-> 1])'
        /\ perf'[1].waiting + perf'[2].waiting = OfFinished([p \in Procs |-> pcb[p].waiting_time])'
        /\ perf'[1].total_runtime + perf'[2].total_runtime = OfFinished(workload.runtime)'
    BY <1>3, <1>4, <1>5, <2>1 DEF Reported, ReportsAddUp
  <2>3. ASSUME NEW p \in Procs, Finished(p)'
        PROVE  p \in ToSet(workload'.order) /\ \E c \in CPUs : pcb'[p].finish_time <= perf'[c].finish_time
    BY <1>1, <1>6, <2>3 DEF Reported, ReportsAddUp
  <2>4. QED
    BY <2>2, <2>3 DEF ReportsAddUp
<1>8. \A c \in CPUs : perf'[c].finish_time <= sub'[c].now /\ sub'[c].now <= clk'
  <2>1. clk \in Int /\ clk' \in Int
    BY TimeTypes, DualAssumption DEF Shape, InputTypes
  <2>2. ASSUME NEW c \in CPUs PROVE perf'[c].finish_time <= sub'[c].now /\ sub'[c].now <= clk'
    <3>1. sub[c].now \in Int /\ perf[c] \in PerfRec
      BY TimeTypes DEF Shape, SubTypes
    <3>2. perf[c].finish_time \in Int
      BY <3>1 DEF PerfRec
    <3>3. perf[c].finish_time <= sub[c].now /\ sub[c].now <= clk
      BY DEF Reported
    <3>4. QED
      BY <2>1, <3>1, <3>2, <3>3
  <2>3. QED
    BY <2>2
<1>9. QED
  BY <1>7, <1>8 DEF Reported

\* The sum grows by what one more process counts.
LEMMA OneMore ==
  ASSUME Shape, NEW p \in ToSet(workload.order), NEW f \in [Procs -> Int], NEW h \in [Procs -> Int],
         \A x \in Procs : x # p => h[x] = f[x]
  PROVE  /\ Total(workload.order, f) \in Int
         /\ Total(workload.order, h) = Total(workload.order, f) + (h[p] - f[p])
<1>1. workload.order \in Seq(Procs) /\ IsInjective(workload.order)
  BY WorkloadFacts DEF Shape, InputTypes
<1>2. PICK k \in DOMAIN workload.order : workload.order[k] = p
  BY DEF ToSet
<1>3. QED
  BY <1>1, <1>2, TotalChanges

LEMMA FinishReported ==
  ASSUME Shape, Shape', Places, Genuine, Reported, NEW c \in CPUs, SubScheduler(c), SubFinish(c)
  PROVE  Reported'
<1> DEFINE p == sub[c].curr
           t == sub[c].now
           r == [pcb[p] EXCEPT !.finish_time = t, !.remaining_time = 0, !.state = "F"]
<1>1. /\ UNCHANGED <<clk, workload>> /\ sub[c].pc = "finish" /\ sub \in [CPUs -> SubRec]
      /\ pcb \in [AllProcs -> PCBRec] /\ Served /\ workload \in Workloads
      /\ perf \in [CPUs -> PerfRec] /\ perf' \in [CPUs -> PerfRec]
  BY DEF SubScheduler, SubFinish, Shape, SubTypes, InputTypes
<1>2. /\ sub' = [sub EXCEPT ![c] = [@ EXCEPT !.curr = NoOne, !.pc = "down", !.csu = t + 1]]
      /\ pcb' = [pcb EXCEPT ![p] = r]
      /\ perf' = [perf EXCEPT ![c].num_procs = @ + 1, ![c].waiting = @ + pcb[p].waiting_time,
                              ![c].total_runtime = @ + Runtime(p), ![c].finish_time = t]
  BY Zenon DEF SubFinish
<1>3. p \in Procs /\ p \in AllProcs
  BY <1>1 DEF Genuine, Served, AllProcs
<1>4. p \in ToSet(workload.order) /\ ~Finished(p)
  BY <1>3, CurrentLive DEF Known
<1>5. \A d \in CPUs : sub'[d].now = sub[d].now
  BY <1>1, <1>2 DEF SubRec
<1>6. pcb[p] \in PCBRec /\ t \in Int
  BY <1>1, <1>3, TimeTypes
<1>7. r.state = "F" /\ r.finish_time = t /\ r.waiting_time = pcb[p].waiting_time
  BY <1>6 DEF PCBRec
<1>8. /\ pcb'[p] = r /\ \A x \in Procs : x # p => pcb'[x] = pcb[x]
  BY <1>1, <1>2, <1>3 DEF AllProcs
<1>9. /\ perf'[c].num_procs = perf[c].num_procs + 1
      /\ perf'[c].waiting = perf[c].waiting + pcb[p].waiting_time
      /\ perf'[c].total_runtime = perf[c].total_runtime + workload.runtime[p]
      /\ perf'[c].finish_time = t
      /\ \A d \in CPUs : d # c => perf'[d] = perf[d]
  <2>1. Runtime(p) = workload.runtime[p]
    BY <1>3, DualAssumption DEF Runtime
  <2> HIDE DEF p, t
  <2>2. QED
    BY <1>1, <1>2, <2>1 DEF PerfRec
<1> HIDE DEF p, r, t
<1>10. \A x \in Procs : /\ x # p => (Finished(x)' <=> Finished(x))
                        /\ x = p => Finished(x)'
                        /\ pcb'[x].waiting_time = pcb[x].waiting_time
  BY <1>7, <1>8 DEF Finished
<1>11. /\ workload.runtime \in [Procs -> Int] /\ workload.runtime[p] \in Int
       /\ pcb[p].waiting_time \in Int
  BY <1>1, <1>3, <1>6, WorkloadFacts DEF PCBRec
<1>12. ASSUME NEW f, NEW h, Counted(f) \in [Procs -> Int], Counted(h)' \in [Procs -> Int],
              \A x \in Procs : h'[x] = f[x], f[p] \in Int
       PROVE  OfFinished(f) \in Int /\ OfFinished(h)' = OfFinished(f) + f[p]
  <2>1. \A x \in Procs : x # p => Counted(h)'[x] = Counted(f)[x]
    BY <1>10, <1>12 DEF Counted
  <2>2. Counted(h)'[p] = f[p] /\ Counted(f)[p] = 0
    BY <1>3, <1>4, <1>10, <1>12 DEF Counted
  <2>3. OfFinished(f) = Total(workload.order, Counted(f))
    BY DEF OfFinished, Counted
  <2>4. OfFinished(h)' = Total(workload.order, Counted(h)')
    BY <1>1 DEF OfFinished, Counted
  <2> DEFINE a == Counted(f)
             b == Counted(h)'
  <2>5. a \in [Procs -> Int] /\ b \in [Procs -> Int] /\ (\A x \in Procs : x # p => b[x] = a[x])
        /\ b[p] = f[p] /\ a[p] = 0
    BY <1>12, <2>1, <2>2
  <2> HIDE DEF a, b
  <2>6. /\ Total(workload.order, a) \in Int
        /\ Total(workload.order, b) = Total(workload.order, a) + (b[p] - a[p])
    BY <1>4, <2>5, OneMore
  <2>7. Total(workload.order, b) = Total(workload.order, a) + f[p]
    BY <1>12, <2>5, <2>6
  <2>8. QED
    BY <2>3, <2>4, <2>6, <2>7 DEF a, b
<1> DEFINE one == [x \in Procs |-> 1]
           waits == [x \in Procs |-> pcb[x].waiting_time]
           runs == workload.runtime
<1>13. /\ Counted(one) \in [Procs -> Int] /\ Counted(one)' \in [Procs -> Int]
       /\ Counted(waits) \in [Procs -> Int] /\ Counted(waits)' \in [Procs -> Int]
       /\ Counted(runs) \in [Procs -> Int] /\ Counted(runs)' \in [Procs -> Int]
  <2>1. \A x \in Procs : pcb[x].waiting_time \in Int /\ pcb'[x].waiting_time \in Int
    <3>1. \A x \in Procs : pcb[x] \in PCBRec
      BY <1>1 DEF AllProcs
    <3>2. QED
      BY <1>10, <3>1 DEF PCBRec
  <2>2. Counted(one) \in [Procs -> Int] /\ Counted(one)' \in [Procs -> Int]
    BY DEF Counted
  <2>3. Counted(waits) \in [Procs -> Int] /\ Counted(waits)' \in [Procs -> Int]
    BY <2>1 DEF Counted
  <2>4. Counted(runs) \in [Procs -> Int] /\ Counted(runs)' \in [Procs -> Int]
    BY <1>1, <1>11 DEF Counted
  <2>5. QED
    BY <2>2, <2>3, <2>4
<1>14. \A x \in Procs : one'[x] = one[x] /\ waits'[x] = waits[x] /\ runs'[x] = runs[x]
  BY <1>1, <1>10
<1>15. one[p] = 1 /\ waits[p] = pcb[p].waiting_time /\ runs[p] = workload.runtime[p]
  BY <1>3
<1>16. OfFinished(one) \in Int /\ OfFinished(one)' = OfFinished(one) + 1
  BY <1>12, <1>13, <1>14, <1>15
<1>17. OfFinished(waits) \in Int /\ OfFinished(waits)' = OfFinished(waits) + pcb[p].waiting_time
  BY <1>11, <1>12, <1>13, <1>14, <1>15
<1>18. OfFinished(runs) \in Int /\ OfFinished(runs)' = OfFinished(runs) + workload.runtime[p]
  BY <1>11, <1>12, <1>13, <1>14, <1>15
<1>19. \A d \in CPUs : /\ perf[d].num_procs \in Int /\ perf[d].waiting \in Int
                       /\ perf[d].total_runtime \in Int /\ perf[d].finish_time \in Int
  <2>1. \A d \in CPUs : perf[d] \in PerfRec
    BY <1>1
  <2>2. QED
    BY <2>1 DEF PerfRec
<1>20. /\ perf[1].num_procs + perf[2].num_procs = OfFinished(one)
       /\ perf[1].waiting + perf[2].waiting = OfFinished(waits)
       /\ perf[1].total_runtime + perf[2].total_runtime = OfFinished(runs)
       /\ \A x \in Procs : Finished(x) =>
             x \in ToSet(workload.order) /\ \E d \in CPUs : pcb[x].finish_time <= perf[d].finish_time
       /\ \A d \in CPUs : perf[d].finish_time <= sub[d].now /\ sub[d].now <= clk
  BY DEF Reported, ReportsAddUp
<1>21. c = 1 \/ c = 2
  BY DEF CPUs
<1>22. 1 \in CPUs /\ 2 \in CPUs
  BY DEF CPUs
<1>23. /\ perf'[1].num_procs + perf'[2].num_procs = OfFinished(one)'
       /\ perf'[1].waiting + perf'[2].waiting = OfFinished(waits)'
       /\ perf'[1].total_runtime + perf'[2].total_runtime = OfFinished(runs)'
  <2>1. perf'[1].num_procs + perf'[2].num_procs = OfFinished(one)'
    BY <1>9, <1>16, <1>19, <1>20, <1>21, <1>22
  <2>2. perf'[1].waiting + perf'[2].waiting = OfFinished(waits)'
    BY <1>9, <1>11, <1>17, <1>19, <1>20, <1>21, <1>22
  <2>3. perf'[1].total_runtime + perf'[2].total_runtime = OfFinished(runs)'
    BY <1>9, <1>11, <1>18, <1>19, <1>20, <1>21, <1>22
  <2>4. QED
    BY <2>1, <2>2, <2>3
<1>24. ASSUME NEW x \in Procs, Finished(x)'
       PROVE  /\ x \in ToSet(workload'.order)
              /\ \E d \in CPUs : pcb'[x].finish_time <= perf'[d].finish_time
  <2>1. CASE x = p
    BY <1>1, <1>4, <1>6, <1>7, <1>8, <1>9, <2>1
  <2>2. CASE x # p
    <3>1. Finished(x) /\ pcb'[x] = pcb[x]
      BY <1>8, <1>10, <1>24, <2>2
    <3>2. PICK d \in CPUs : pcb[x].finish_time <= perf[d].finish_time
      BY <1>20, <3>1
    <3>3. pcb[x] \in PCBRec
      BY <1>1 DEF AllProcs
    <3>4. pcb[x].finish_time \in Int
      BY <3>3 DEF PCBRec
    <3>5. perf[c].finish_time <= t
      BY <1>20 DEF t
    <3>6. pcb'[x].finish_time <= perf'[d].finish_time
      BY <1>6, <1>9, <1>19, <3>1, <3>2, <3>4, <3>5
    <3>7. QED
      BY <1>1, <1>20, <3>1, <3>6
  <2>3. QED
    BY <2>1, <2>2
<1>25. \A d \in CPUs : perf'[d].finish_time <= sub'[d].now /\ sub'[d].now <= clk'
  BY <1>1, <1>5, <1>6, <1>9, <1>20 DEF t
<1>26. QED
  BY <1>23, <1>24, <1>25 DEF Reported, ReportsAddUp

\* A sub-scheduler that starts a process ends none.
LEMMA DispatchEndsNone ==
  ASSUME Shape, Places, NEW c \in CPUs, SubDispatch(c), NEW x \in Procs
  PROVE  pcb'[x].state = "F" <=> pcb[x].state = "F"
<1> DEFINE q == sub[c].ready
           p == Head(q)
           r == [pcb[p] EXCEPT !.state = "R", !.forked = TRUE, !.start_time = sub[c].now,
                               !.waiting_time = sub[c].now - Arrival(p)]
<1>1. q # <<>> /\ q \in Seq(AllProcs) /\ pcb \in [AllProcs -> PCBRec] /\ x \in AllProcs
  BY DEF SubDispatch, CanDispatch, Shape, SubTypes, SubRec, AllProcs
<1>2. pcb' = [pcb EXCEPT ![p] = r]
  BY Zenon DEF SubDispatch, RunProcess
<1>3. p \in AllProcs /\ (p \in Procs => p \in Real(q))
  BY <1>1, TailPlace
<1>4. ReadyOn(c) \in Locations /\ Place[ReadyOn(c)] = q
  BY LocationsAre, PlaceAt
<1>5. r.state = "R"
  BY <1>1, <1>3 DEF PCBRec
<1>6. p \in Procs => ~Finished(p)
  <2>1. \A y \in Real(q) : ~Finished(y)
    BY <1>4, LiveThere
  <2>2. QED
    BY <1>3, <2>1
<1> HIDE DEF p, r, q
<1>7. CASE x = p
  BY <1>1, <1>2, <1>5, <1>6, <1>7 DEF Finished
<1>8. CASE x # p
  BY <1>1, <1>2, <1>8
<1>9. QED
  BY <1>7, <1>8

LEMMA NowMoves ==
  ASSUME Shape, [DualNext]_dualvars, NEW c \in CPUs
  PROVE  /\ sub'[c].now = sub[c].now \/ sub'[c].now = clk
         /\ clk \in Int /\ clk' \in Int /\ clk <= clk'
<1>1. clk \in Int
  BY TimeTypes
<1>2. CASE UNCHANGED <<clk, sub>>
  BY <1>1, <1>2
<1>3. ASSUME NEW d \in CPUs, SubScheduler(d) \/ Handler(d)
      PROVE  UNCHANGED clk /\ (sub'[c].now = sub[c].now \/ sub'[c].now = clk)
  <2>1. UNCHANGED clk /\ \A e \in CPUs \ {d} : sub'[e] = sub[e]
    BY <1>3, SubMoves
  <2>2. sub'[d].now = sub[d].now \/ sub'[d].now = clk
    BY <1>3, SubMoves DEF WorksOn, Arrives, MeetsGate, Starts, IsStalled, KeepsTime
  <2>3. QED
    BY <2>1, <2>2
<1>4. CASE Dispatcher
  <2>1. UNCHANGED clk /\ (UNCHANGED sub \/ OpenGate)
    BY <1>4, DispatcherMoves
  <2>2. sub'[c].now = sub[c].now
    BY <2>1, OpenMoves DEF KeepsTime
  <2>3. QED
    BY <1>1, <2>1, <2>2
<1>5. CASE ClockTick
  BY <1>1, <1>5 DEF ClockTick, subvars
<1>6. ASSUME NEW p \in AllProcs, Child(p) PROVE UNCHANGED <<clk, sub>>
  BY <1>6 DEF Child, subvars
<1>7. CASE Generator \/ Terminated \/ UNCHANGED dualvars
  BY <1>2, <1>7 DEF Generator, Terminated, dualvars, subvars
<1>8. QED
  BY <1>1, <1>2, <1>3, <1>4, <1>5, <1>6, <1>7 DEF DualNext

LEMMA ReportedStep ==
  ASSUME Shape, Shape', Places, Traced, Genuine, Reported, [DualNext]_dualvars
  PROVE  Reported'
<1>1. \A c \in CPUs : sub'[c].now = sub[c].now \/ sub'[c].now = clk
  BY NowMoves
<1>2. clk <= clk'
  <2>1. 1 \in CPUs
    BY DEF CPUs
  <2>2. QED
    BY <2>1, NowMoves
<1>3. ASSUME NEW c \in CPUs, SubScheduler(c) \/ Handler(c) PROVE Reported'
  <2>1. CASE SubScheduler(c) /\ SubFinish(c)
    BY <2>1, FinishReported
  <2>2. CASE ~(SubScheduler(c) /\ SubFinish(c))
    <3>1. UNCHANGED workload
      BY <1>3 DEF SubScheduler, Handler
    <3>2. \A p \in Procs : pcb'[p].state = "F" <=> pcb[p].state = "F"
      <4>1. CASE SubScheduler(c) /\ SubDispatch(c)
        BY <4>1, DispatchEndsNone
      <4>2. CASE ~(SubScheduler(c) /\ SubDispatch(c))
        <5>1. Quiet
          BY <1>3, <2>2, <4>2, SubQuiet
        <5>2. QED
          BY <5>1 DEF Quiet
      <4>3. QED
        BY <4>1, <4>2
    <3>3. \A d \in CPUs : /\ perf'[d].num_procs = perf[d].num_procs
                          /\ perf'[d].waiting = perf[d].waiting
                          /\ perf'[d].total_runtime = perf[d].total_runtime
                          /\ perf'[d].finish_time = perf[d].finish_time
      BY <1>3, <2>2, ReportKept
    <3>4. QED
      BY <1>1, <1>2, <3>1, <3>2, <3>3, ReportedKept
  <2>3. QED
    BY <2>1, <2>2
<1>4. CASE ClockTick \/ Generator \/ Dispatcher \/ Terminated \/ UNCHANGED dualvars
           \/ \E k \in AllProcs : Child(k)
  <2>1. UNCHANGED <<workload, pcb, perf>>
    BY <1>4 DEF ClockTick, Generator, Terminated, Child, dualvars, subvars, mainvars,
              Dispatcher, SpinAcks, NewTick, ReceiveProcess, ReceiveSync, ReceiveEnd, Algo, Route,
              PublishRoutes, Check, NoCheck, NothingStolen, Stolen, PublishMove, WaitOver, Open,
              After, Leave, Exit
  <2>2. QED
    BY <1>1, <1>2, <2>1, ReportedKept
<1>5. QED
  BY <1>3, <1>4 DEF DualNext

LEMMA ReportedInit == DualInit => Reported
<1> SUFFICES ASSUME DualInit PROVE Reported
  OBVIOUS
<1>1. /\ workload \in Workloads /\ clk = 0 /\ sub = [c \in CPUs |-> IdleSub]
      /\ pcb = [p \in AllProcs |-> NewPCB(p)]
      /\ perf = [c \in CPUs |-> [num_procs |-> 0, first_arrival |-> -1, total_runtime |-> 0,
                                 finish_time |-> -1, waiting |-> 0]]
  BY DEF DualInit
<1>2. \A p \in Procs : ~Finished(p)
  BY <1>1 DEF AllProcs, NewPCB, Finished
<1>3. workload.order \in Seq(Procs)
  BY <1>1, WorkloadFacts
<1>4. Total(workload.order, [p \in Procs |-> 0]) = 0
  BY <1>3, TotalZero
<1>5. ASSUME NEW f PROVE OfFinished(f) = 0
  <2>1. [p \in Procs |-> IF Finished(p) THEN f[p] ELSE 0] = [p \in Procs |-> 0]
    BY <1>2
  <2>2. QED
    BY <1>4, <2>1 DEF OfFinished
<1>6. \A c \in CPUs : /\ perf[c].num_procs = 0 /\ perf[c].waiting = 0 /\ perf[c].total_runtime = 0
                      /\ perf[c].finish_time = -1 /\ sub[c].now = -1
  BY <1>1 DEF IdleSub
<1>7. 1 \in CPUs /\ 2 \in CPUs
  BY DEF CPUs
<1>8. QED
  BY <1>1, <1>2, <1>5, <1>6, <1>7 DEF Reported, ReportsAddUp

LEMMA GenuineShows == Genuine => OnlyProcesses
<1>1. Ghost \notin Procs /\ Ghost # NoOne
  BY DualAssumption DEF AllProcs
<1>2. ASSUME Genuine, NEW c \in CPUs PROVE Ghost \notin ToSet(sub[c].ready) \cup {sub[c].curr}
  BY <1>1, <1>2 DEF Genuine, ToSet
<1>3. QED
  BY <1>2 DEF OnlyProcesses

\* OnlyProcesses and ReportsAddUp, as long as no process is moved after a sub-scheduler
\* has left: neither is given an acknowledgement for a process, and what the two report
\* together is every process that finished, each once.
THEOREM ReportsAreRight ==
  DualSpec /\ []MovesInTime => [](OnlyProcesses /\ ReportsAddUp)
<1>1. DualInit => Shape /\ Places /\ Traced /\ Genuine /\ Reported
  BY ShapeInit, PlacesInit, InitShared, GenuineInit, ReportedInit
<1>2. Shape /\ Places /\ Traced /\ Genuine /\ Reported /\ [DualNext]_dualvars /\ MovesInTime'
         => (Shape /\ Places /\ Traced /\ Genuine /\ Reported)'
  BY ShapeStep, GeneratorShape, PlacesStep, GeneratorPlaces, StepShared, GenuineStep, ReportedStep
<1>3. Genuine /\ Reported => OnlyProcesses /\ ReportsAddUp
  BY GenuineShows DEF Reported
<1>4. QED
  BY <1>1, <1>2, <1>3, PTL DEF DualSpec

-----------------------------------------------------------------------------
(* Nobody leaves before the end message, and that is not sent before the   *)
(* last process has been received.                                         *)

NoEnd(c) == \A i \in DOMAIN submsg[c] : submsg[c][i].mtype # MTYPE_TERMINATE

\* What a sub-scheduler knows before the end message is sent.
Untold(c) == sub[c].receiving /\ sub[c].pc \notin Ending /\ NoEnd(c)

Told ==
    /\ receivingProcesses => ~term_sent
    /\ pc = "receive" => receivingProcesses
    /\ ~term_sent => \A c \in CPUs : Untold(c)

LEMMA DrainUntold ==
  ASSUME Shape, NEW c \in CPUs, NoEnd(c)
  PROVE  /\ EndAt(c) = 0
         /\ DrainMessages(c) => NoEnd(c)' /\ \A d \in CPUs \ {c} : submsg'[d] = submsg[d]
<1>1. submsg \in [CPUs -> Seq(Order)] /\ submsg[c] \in Seq(Order)
  BY DEF Shape, MessageTypes
<1>2. EndAt(c) = 0
  BY <1>1, EndAtIs DEF NoEnd
<1>3. ASSUME DrainMessages(c) PROVE NoEnd(c)' /\ \A d \in CPUs \ {c} : submsg'[d] = submsg[d]
  <2>1. submsg' = [submsg EXCEPT ![c] = LeftBehind(c)]
    BY <1>3, DrainTypes
  <2>2. submsg'[c] = LeftBehind(c) /\ \A d \in CPUs \ {c} : submsg'[d] = submsg[d]
    BY <1>1, <2>1
  <2>3. /\ LeftBehind(c) \in Seq(Order) /\ Len(LeftBehind(c)) = Len(submsg[c]) - Taken(c)
        /\ Taken(c) \in 0..Len(submsg[c])
        /\ \A i \in 1..Len(LeftBehind(c)) : LeftBehind(c)[i] = submsg[c][Taken(c) + i]
    BY TakenIs
  <2>4. \A i \in 1..Len(LeftBehind(c)) : Taken(c) + i \in DOMAIN submsg[c]
    BY <1>1, <2>3
  <2>5. \A i \in 1..Len(LeftBehind(c)) : LeftBehind(c)[i].mtype # MTYPE_TERMINATE
    BY <2>3, <2>4 DEF NoEnd
  <2>6. DOMAIN LeftBehind(c) = 1..Len(LeftBehind(c))
    BY <2>3
  <2>7. QED
    BY <2>2, <2>5, <2>6 DEF NoEnd
<1>4. QED
  BY <1>2, <1>3

LEMMA UntoldKept ==
  ASSUME Shape, NEW c \in CPUs, Untold(c), NEW s, sub' = [sub EXCEPT ![c] = s],
         s.receiving, s.pc \notin Ending, DrainMessages(c) \/ UNCHANGED submsg
  PROVE  Untold(c)' /\ \A d \in CPUs \ {c} : Untold(d)' <=> Untold(d)
<1>1. sub'[c] = s /\ \A d \in CPUs \ {c} : sub'[d] = sub[d]
  BY OwnKept
<1>2. NoEnd(c)' /\ \A d \in CPUs \ {c} : submsg'[d] = submsg[d]
  BY DrainUntold DEF Untold, NoEnd
<1>3. QED
  BY <1>1, <1>2 DEF Untold, NoEnd

LEMMA SubUntold ==
  ASSUME Shape, NEW c \in CPUs, SubScheduler(c) \/ Handler(c), Untold(c)
  PROVE  Untold(c)' /\ \A d \in CPUs \ {c} : Untold(d)' <=> Untold(d)
<1>1. sub[c] \in SubRec /\ sub[c].receiving /\ sub[c].pc \notin Ending /\ EndAt(c) = 0
  BY DrainUntold DEF Shape, SubTypes, Untold
<1>2. DOMAIN Drained(c) = DOMAIN sub[c] /\ Drained(c).receiving /\ Drained(c).pc = sub[c].pc
  BY <1>1, DrainKeeps DEF Drained, SubRec
<1>3. CASE Spin(c) \/ SubNewTick(c) \/ Frame(c)
  <2> DEFINE r == Drained(c)
  <2>1. PICK s : /\ sub' = [sub EXCEPT ![c] = s] /\ DrainMessages(c)
                 /\ s.receiving = r.receiving /\ s.pc \in {"spin", "finish", "down", "dispatch"}
    <3>1. CASE Spin(c)
      <4> DEFINE s == [r EXCEPT !.pc = "spin", !.pub = LoadOf(c, Drained(c).ready, DrainedPCB(c))]
      <4>1. sub' = [sub EXCEPT ![c] = s] /\ DrainMessages(c)
        BY <3>1 DEF Spin
      <4>2. s.receiving = r.receiving /\ s.pc = "spin"
        BY <1>1, <1>2 DEF SubRec
      <4> HIDE DEF s
      <4>3. QED
        BY <4>1, <4>2
    <3>2. CASE SubNewTick(c)
      <4> DEFINE s == [r EXCEPT !.pc = IF processFinished[c] THEN "finish" ELSE "down", !.now = clk]
      <4>1. sub' = [sub EXCEPT ![c] = s] /\ DrainMessages(c)
        BY <3>2 DEF SubNewTick
      <4>2. s.receiving = r.receiving /\ s.pc \in {"finish", "down"}
        BY <1>1, <1>2 DEF SubRec
      <4> HIDE DEF s
      <4>3. QED
        BY <4>1, <4>2
    <3>3. CASE Frame(c)
      <4> DEFINE s == [r EXCEPT !.pc = "dispatch", !.last_tick = sub[c].now,
                                !.stalled = sub[c].stalled /\ ~StallOver(c)]
      <4>1. sub' = [sub EXCEPT ![c] = s] /\ DrainMessages(c)
        BY <3>3 DEF Frame
      <4>2. s.receiving = r.receiving /\ s.pc = "dispatch"
        BY <1>1, <1>2 DEF SubRec
      <4> HIDE DEF s
      <4>3. QED
        BY <4>1, <4>2
    <3>4. QED
      BY <1>3, <3>1, <3>2, <3>3
  <2>2. s.receiving /\ s.pc \notin Ending
    BY <1>2, <2>1 DEF Ending
  <2>3. QED
    BY <2>1, <2>2, UntoldKept
<1>4. CASE OnSIGUSR2(c)
  <2> DEFINE s == [Drained(c) EXCEPT !.stalled = TRUE, !.stall_end = StallEnd]
  <2>1. sub' = [sub EXCEPT ![c] = s] /\ DrainMessages(c)
    BY <1>4 DEF OnSIGUSR2
  <2>2. s.receiving /\ s.pc \notin Ending
    BY <1>1, <1>2 DEF SubRec
  <2> HIDE DEF s
  <2>3. QED
    BY <2>1, <2>2, UntoldKept
<1>5. CASE OnSIGURG(c)
  <2> DEFINE s == [Drained(c) EXCEPT !.ready = AllButLast(Drained(c).ready)]
  <2>1. (sub' = [sub EXCEPT ![c] = Drained(c)] \/ sub' = [sub EXCEPT ![c] = s]) /\ DrainMessages(c)
    BY <1>5 DEF OnSIGURG
  <2>2. s.receiving /\ s.pc \notin Ending
    BY <1>1, <1>2 DEF SubRec
  <2> HIDE DEF s
  <2>3. QED
    BY <1>1, <1>2, <2>1, <2>2, UntoldKept
<1>6. CASE SubFinish(c)
  <2> DEFINE s == [sub[c] EXCEPT !.curr = NoOne, !.pc = "down", !.csu = sub[c].now + 1]
  <2>1. sub' = [sub EXCEPT ![c] = s] /\ UNCHANGED submsg
    BY <1>6 DEF SubFinish
  <2>2. s.receiving /\ s.pc \notin Ending
    BY <1>1 DEF SubRec, Ending
  <2> HIDE DEF s
  <2>3. QED
    BY <2>1, <2>2, UntoldKept
<1>7. CASE SubDispatch(c)
  <2> DEFINE s == [sub[c] EXCEPT !.pc = "compute", !.curr = Head(sub[c].ready), !.csu = -1,
                                 !.ready = Rest(sub[c].ready)]
  <2>1. sub' = [sub EXCEPT ![c] = s] /\ UNCHANGED submsg
    BY <1>7 DEF SubDispatch
  <2>2. s.receiving /\ s.pc \notin Ending
    BY <1>1 DEF SubRec, Ending
  <2> HIDE DEF s
  <2>3. QED
    BY <2>1, <2>2, UntoldKept
<1>8. ASSUME NEW l \in {"loop", "read", "write"}, NEW b, UNCHANGED submsg,
             sub' = [sub EXCEPT ![c] = [sub[c] EXCEPT !.pc = l, !.pub = b]]
      PROVE  Untold(c)' /\ \A d \in CPUs \ {c} : Untold(d)' <=> Untold(d)
  <2> DEFINE s == [sub[c] EXCEPT !.pc = l, !.pub = b]
  <2>1. s.receiving = sub[c].receiving /\ s.pc = l
    BY <1>1 DEF SubRec
  <2>2. sub' = [sub EXCEPT ![c] = s]
    BY <1>8
  <2> HIDE DEF s
  <2>3. s.receiving /\ s.pc \notin Ending
    BY <1>1, <2>1 DEF Ending
  <2>4. QED
    BY <1>8, <2>2, <2>3, UntoldKept
<1>20. CASE Publish(c, "spin", "loop")
  <2>1. sub' = [sub EXCEPT ![c] = [sub[c] EXCEPT !.pc = "loop", !.pub = NoLoad[c]]] /\ UNCHANGED submsg
    BY <1>20 DEF Publish
  <2>2. QED
    BY <1>8, <2>1
<1>21. CASE Publish(c, "write", "read")
  <2>1. sub' = [sub EXCEPT ![c] = [sub[c] EXCEPT !.pc = "read", !.pub = NoLoad[c]]] /\ UNCHANGED submsg
    BY <1>21 DEF Publish
  <2>2. QED
    BY <1>8, <2>1
<1>22. CASE Compute(c, "compute", "write")
  <2>1. sub' = [sub EXCEPT ![c] = [sub[c] EXCEPT !.pc = "write", !.pub = LoadOf(c, sub[c].ready, pcb)]] /\ UNCHANGED submsg
    BY <1>22 DEF Compute
  <2>2. QED
    BY <1>8, <2>1
<1>9. CASE NoDispatch(c) \/ DownGate(c)
  <2>1. PICK l \in {"compute", "frame", "gate"} :
             sub' = [sub EXCEPT ![c] = [sub[c] EXCEPT !.pc = l]] /\ UNCHANGED submsg
    BY <1>9 DEF NoDispatch, DownGate, SubGoto
  <2> DEFINE s == [sub[c] EXCEPT !.pc = l]
  <2>2. s.receiving /\ s.pc \notin Ending
    BY <1>1 DEF SubRec, Ending
  <2>3. sub' = [sub EXCEPT ![c] = s]
    BY <2>1
  <2> HIDE DEF s
  <2>4. QED
    BY <2>1, <2>2, <2>3, UntoldKept
<1>10. CASE ReadOther(c)
  <2> DEFINE s == [sub[c] EXCEPT !.pc = "loop", !.remaining = load[Other(c)].rt]
  <2>1. sub' = [sub EXCEPT ![c] = s] /\ UNCHANGED submsg
    BY <1>10 DEF ReadOther
  <2>2. s.receiving /\ s.pc \notin Ending
    BY <1>1 DEF SubRec, Ending
  <2> HIDE DEF s
  <2>3. QED
    BY <2>1, <2>2, UntoldKept
<1>11. ~(\/ SubLeave(c) \/ Compute(c, "left", "last") \/ Publish(c, "last", "ack") \/ SubAck(c)
         \/ SubExit(c))
  BY <1>1 DEF SubLeave, SubBusy, Compute, Publish, SubAck, SubExit, Ending
<1>12. QED
  BY <1>3, <1>4, <1>5, <1>6, <1>7, <1>9, <1>10, <1>11, <1>20, <1>21, <1>22 DEF SubScheduler, Handler

LEMMA ToldStep ==
  ASSUME Shape, Shape', Told, [DualNext]_dualvars
  PROVE  Told'
<1>1. ASSUME NEW c \in CPUs, SubScheduler(c) \/ Handler(c) PROVE Told'
  <2>1. UNCHANGED <<pc, receivingProcesses, term_sent>>
    BY <1>1 DEF SubScheduler, Handler, mainvars, inputvars, endvars
  <2>2. ASSUME ~term_sent, NEW d \in CPUs PROVE Untold(d)'
    BY <1>1, <2>2, SubUntold DEF Told
  <2>3. QED
    BY <2>1, <2>2 DEF Told
<1>2. CASE UNCHANGED <<pc, receivingProcesses, term_sent, sub, submsg>>
  BY <1>2 DEF Told, Untold, NoEnd
<1>3. CASE Dispatcher
  <2>1. /\ receivingProcesses' => receivingProcesses
        /\ pc' = "receive" => receivingProcesses'
        /\ term_sent' = term_sent \/ (~receivingProcesses' /\ term_sent')
    BY <1>3 DEF Dispatcher, SpinAcks, NewTick, ReceiveProcess, ReceiveSync, ReceiveEnd, Algo, Route,
           PublishRoutes, Check, NoCheck, NothingStolen, Stolen, PublishMove, WaitOver, Open,
           After, Leave, Exit, Goto, inputvars, endvars, Told
  <2>2. \A c \in CPUs : sub'[c].receiving = sub[c].receiving
                        /\ (sub[c].pc \notin Ending => sub'[c].pc \notin Ending)
    <3>1. UNCHANGED sub \/ OpenGate
      BY <1>3, DispatcherMoves
    <3>2. CASE OpenGate
      <4>1. \A c \in CPUs : sub'[c] \in {sub[c], [sub[c] EXCEPT !.pc = "frame"]}
        BY <3>2 DEF OpenGate
      <4>2. \A c \in CPUs : sub[c] \in SubRec
        BY DEF Shape, SubTypes
      <4>3. QED
        BY <4>1, <4>2 DEF SubRec, Ending
    <3>3. QED
      BY <3>1, <3>2
  <2>3. ASSUME ~term_sent', NEW c \in CPUs, NoEnd(c) PROVE NoEnd(c)'
    <3>1. submsg \in [CPUs -> Seq(Order)] /\ submsg[c] \in Seq(Order)
      BY DEF Shape, MessageTypes
    <3>2. \/ submsg'[c] = submsg[c]
          \/ \E p : submsg'[c] = Append(submsg[c], Msg(MTYPE_NEW_PROCESS, p))
      <4>1. CASE Route
        <5>1. LighterReady \in CPUs
          BY DEF LighterReady, CPUs
        <5>2. submsg' = [submsg EXCEPT ![LighterReady] = Append(@, Msg(MTYPE_NEW_PROCESS, Head(readyQueue)))]
          BY <4>1 DEF Route, Sent
        <5> HIDE DEF LighterReady
        <5>3. QED
          BY <3>1, <5>1, <5>2
      <4>2. CASE Stolen
        <5> DEFINE b == Other(Busier(projected))
        <5>1. submsg' = [submsg EXCEPT ![b] = Append(@, Msg(MTYPE_NEW_PROCESS, Head(resp).proc))]
          BY <4>2 DEF Stolen, Sent
        <5> HIDE DEF b
        <5>2. QED
          BY <3>1, <5>1
      <4>3. CASE After
        <5>1. UNCHANGED submsg
          BY <2>3, <4>3 DEF After
        <5>2. QED
          BY <5>1
      <4>4. QED
        BY <1>3, <4>1, <4>2, <4>3
           DEF Dispatcher, SpinAcks, NewTick, ReceiveProcess, ReceiveSync, ReceiveEnd, Algo,
               PublishRoutes, Check, NoCheck, NothingStolen, PublishMove, WaitOver, Open, Leave, Exit,
               msgvars
    <3>3. CASE submsg'[c] = submsg[c]
      BY <2>3, <3>3 DEF NoEnd
    <3>4. ASSUME NEW p, submsg'[c] = Append(submsg[c], Msg(MTYPE_NEW_PROCESS, p)) PROVE NoEnd(c)'
      <4> DEFINE m == Msg(MTYPE_NEW_PROCESS, p)
      <4>1. m.mtype # MTYPE_TERMINATE
        BY DEF Msg, MTYPE_NEW_PROCESS, MTYPE_TERMINATE
      <4>2. submsg'[c] \in Seq(Order)
        BY DEF Shape, MessageTypes
      <4>3. \A i \in DOMAIN Append(submsg[c], m) :
               Append(submsg[c], m)[i] = m \/ (i \in DOMAIN submsg[c] /\ Append(submsg[c], m)[i] = submsg[c][i])
        <5> HIDE DEF m
        <5>1. QED
          BY <3>1
      <4> HIDE DEF m
      <4>4. submsg'[c] = Append(submsg[c], m)
        BY <3>4 DEF m
      <4>5. QED
        BY <2>3, <4>1, <4>3, <4>4 DEF NoEnd
    <3>5. QED
      BY <3>2, <3>3, <3>4
  <2>4. ASSUME ~term_sent', NEW c \in CPUs PROVE Untold(c)'
    <3>1. ~term_sent
      BY <2>1, <2>4
    <3>2. Untold(c)
      BY <3>1 DEF Told
    <3>3. QED
      BY <2>2, <2>3, <2>4, <3>2 DEF Untold
  <2>5. receivingProcesses' => ~term_sent'
    BY <2>1 DEF Told
  <2>6. QED
    BY <2>1, <2>4, <2>5 DEF Told
<1>4. CASE ClockTick \/ Generator \/ Terminated \/ UNCHANGED dualvars \/ \E p \in AllProcs : Child(p)
  BY <1>2, <1>4 DEF ClockTick, Generator, Terminated, Child, dualvars, subvars, mainvars, msgvars,
                    inputvars, endvars
<1>5. QED
  BY <1>1, <1>3, <1>4 DEF DualNext

LEMMA ToldInit == DualInit => Told
<1> SUFFICES ASSUME DualInit PROVE Told
  OBVIOUS
<1>1. /\ submsg = [c \in CPUs |-> <<>>] /\ sub = [c \in CPUs |-> IdleSub]
      /\ pc = "spin" /\ receivingProcesses = TRUE /\ term_sent = FALSE
  BY DEF DualInit
<1>2. \A c \in CPUs : submsg[c] = <<>> /\ sub[c].receiving = TRUE /\ sub[c].pc = "loop"
  BY <1>1 DEF IdleSub
<1>3. QED
  BY <1>1, <1>2 DEF Told, Untold, NoEnd, Ending

-----------------------------------------------------------------------------
(* The time as one sub-scheduler sees it, whether or not the other still   *)
(* runs.                                                                   *)

InMain(c) == sub[c].pc \notin Ending

\* What the dispatcher knows of the time, and the gate as far as c is concerned.  With
\* both running it follows from Paced.
Punctual(c) ==
    /\ now <= clk
    /\ pc \in {"algo", "route", "threshold"} => now = clk
    /\ pc = "wait" => now > 0 /\ now = movedAt /\ wait_until = movedAt + 3 /\ clk <= wait_until
    /\ pc \notin {"waitpid", "exited"}
    /\ sub[c].now <= clk /\ sub[c].last_tick <= clk
    /\ sub[c].pc \in {"finish", "down"} => sub[c].now = clk /\ sub[c].last_tick < clk
    /\ sub[c].pc \in {"gate", "frame"} => sub[c].last_tick <= sub[c].now
    /\ sub[c].pc = "gate" => sub[c].now # 0 /\ sub[c].now >= now
    /\ Opened => /\ sub[c].pc = "gate" => sub[c].now = clk /\ clk > now
                 /\ now > 0 /\ Behind(c) => gate > 0
    /\ pc = "wait" => /\ gate = 0 /\ Behind(c) /\ (clk > now => sub[c].pc = "gate")
                      /\ c \notin usr2 /\ sub[c].stalled => sub[c].stall_end = movedAt + 3
    /\ c \in usr2 => pc = "wait" /\ clk = now

LEMMA PacedPunctual ==
  ASSUME Shape, Paced, NEW c \in CPUs
  PROVE  Punctual(c)
<1>1. /\ clk \in Int /\ now \in Int /\ movedAt \in Int /\ gate \in 0..2 /\ clk >= 0
      /\ sub[c].now \in Int /\ sub[c].last_tick \in Int
  BY TimeTypes
<1>2. Timed /\ Ticks /\ HeldAtStart /\ HeldClosed /\ HeldOpen /\ StallsEnd
  BY DEF Paced
<1>3. pc = "wait" => now > 0 /\ ~Opened
  BY <1>2 DEF Timed, Opened
<1>4. sub[c].pc = "gate" => sub[c].now # 0 /\ sub[c].now >= now
  BY <1>1, <1>2 DEF Ticks, HeldAtStart, HeldClosed, HeldOpen
<1>5. Opened => /\ sub[c].pc = "gate" => sub[c].now = clk /\ clk > now
                /\ now > 0 /\ Behind(c) => gate > 0
  <2>1. Opened /\ sub[c].pc = "gate" => sub[c].now = clk /\ clk > now
    BY <1>1, <1>2 DEF HeldAtStart, HeldOpen
  <2>2. Opened /\ now > 0 => gate = Due(1) + Due(2)
    BY <1>2 DEF HeldOpen
  <2>3. Behind(c) => Due(c) = 1
    BY DEF Due
  <2>4. Due(1) \in 0..1 /\ Due(2) \in 0..1 /\ (c = 1 \/ c = 2)
    BY DEF Due, CPUs
  <2>5. QED
    BY <2>1, <2>2, <2>3, <2>4
<1>6. pc = "wait" => /\ gate = 0 /\ Behind(c) /\ (clk > now => sub[c].pc = "gate")
                     /\ c \notin usr2 /\ sub[c].stalled => sub[c].stall_end = movedAt + 3
  BY <1>2, <1>3 DEF HeldClosed, StallsEnd
<1>7. c \in usr2 => pc = "wait" /\ clk = now
  BY <1>1, <1>2 DEF StallsEnd, Timed
<1>8. pc = "wait" => now > 0 /\ now = movedAt /\ wait_until = movedAt + 3 /\ clk <= wait_until
  BY <1>2 DEF Timed
<1>9. now <= clk /\ (pc \in {"algo", "route", "threshold"} => now = clk)
      /\ pc \notin {"waitpid", "exited"}
  BY <1>2 DEF Timed
<1>10. /\ sub[c].now <= clk /\ sub[c].last_tick <= clk
       /\ sub[c].pc \in {"finish", "down"} => sub[c].now = clk /\ sub[c].last_tick < clk
       /\ sub[c].pc \in {"gate", "frame"} => sub[c].last_tick <= sub[c].now
  BY <1>2 DEF Ticks
<1>11. QED
  BY <1>4, <1>5, <1>6, <1>7, <1>8, <1>9, <1>10 DEF Punctual

LEMMA MainBefore ==
  ASSUME Shape, [DualNext]_dualvars, NEW c \in CPUs, InMain(c)'
  PROVE  InMain(c)
<1>1. SUFFICES ASSUME sub[c].pc \in Ending PROVE sub'[c].pc \in Ending
  BY DEF InMain
<1>2. ASSUME NEW d \in CPUs, SubScheduler(d) \/ Handler(d) PROVE sub'[c].pc \in Ending
  BY <1>1, <1>2, SubMoves
<1>3. CASE Dispatcher
  <2>1. UNCHANGED sub \/ OpenGate
    BY <1>3, DispatcherMoves
  <2>2. CASE OpenGate
    BY <1>1, <2>2, OpenMoves DEF Ending
  <2>3. QED
    BY <1>1, <2>1, <2>2
<1>4. CASE ClockTick \/ Generator \/ Terminated \/ UNCHANGED dualvars \/ \E p \in AllProcs : Child(p)
  BY <1>1, <1>4 DEF ClockTick, Generator, Terminated, Child, dualvars, subvars
<1>5. QED
  BY <1>2, <1>3, <1>4 DEF DualNext

\* The steps of c itself.
LEMMA OwnPunctual ==
  ASSUME Shape, NEW c \in CPUs, SubScheduler(c) \/ Handler(c), InMain(c)', Punctual(c)
  PROVE  Punctual(c)'
<1>1. /\ clk \in Int /\ now \in Int /\ movedAt \in Int /\ gate \in 0..2 /\ clk >= 0
      /\ sub[c].now \in Int /\ sub[c].last_tick \in Int /\ sub[c].stall_end \in Int
  BY TimeTypes
<1>2. UNCHANGED <<clk, pc, now, wait_until, movedAt>>
  BY SubMoves DEF mainvars, stallvars
<1>3. WorksOn(c) \/ Arrives(c) \/ MeetsGate(c) \/ Starts(c) \/ IsStalled(c)
  BY SubMoves DEF InMain
<1>4. /\ now <= clk /\ sub[c].now <= clk /\ sub[c].last_tick <= clk
      /\ sub[c].pc \in {"finish", "down"} => sub[c].now = clk /\ sub[c].last_tick < clk
      /\ sub[c].pc \in {"gate", "frame"} => sub[c].last_tick <= sub[c].now
      /\ sub[c].pc = "gate" => sub[c].now # 0 /\ sub[c].now >= now
      /\ Opened => /\ sub[c].pc = "gate" => sub[c].now = clk /\ clk > now
                   /\ now > 0 /\ Behind(c) => gate > 0
      /\ pc = "wait" => /\ gate = 0 /\ Behind(c) /\ (clk > now => sub[c].pc = "gate") /\ now > 0
                        /\ now = movedAt
                        /\ c \notin usr2 /\ sub[c].stalled => sub[c].stall_end = movedAt + 3
      /\ c \in usr2 => pc = "wait" /\ clk = now
  BY DEF Punctual
<1>5. Opened' = Opened
  BY <1>2 DEF Opened
<1>6. SUFFICES
      /\ sub'[c].now <= clk /\ sub'[c].last_tick <= clk
      /\ sub'[c].pc \in {"finish", "down"} => sub'[c].now = clk /\ sub'[c].last_tick < clk
      /\ sub'[c].pc \in {"gate", "frame"} => sub'[c].last_tick <= sub'[c].now
      /\ sub'[c].pc = "gate" => sub'[c].now # 0 /\ sub'[c].now >= now
      /\ Opened => /\ sub'[c].pc = "gate" => sub'[c].now = clk /\ clk > now
                   /\ now > 0 /\ Behind(c)' => gate' > 0
      /\ pc = "wait" => /\ gate' = 0 /\ Behind(c)' /\ (clk > now => sub'[c].pc = "gate")
                        /\ c \notin usr2' /\ sub'[c].stalled => sub'[c].stall_end = movedAt + 3
      /\ c \in usr2' => pc = "wait" /\ clk = now
  BY <1>2, <1>5 DEF Punctual
<1>7. Behind(c)' <=> sub'[c].last_tick < now /\ (sub'[c].pc = "frame" => sub'[c].now < now)
  BY <1>2 DEF Behind
<1>8. CASE WorksOn(c)
  <2>1. /\ sub'[c].now = sub[c].now /\ sub'[c].last_tick = sub[c].last_tick
        /\ sub'[c].stalled = sub[c].stalled /\ sub'[c].stall_end = sub[c].stall_end
        /\ UNCHANGED <<gate, usr2>>
    BY <1>8 DEF WorksOn, KeepsTime, KeepsStall
  <2>2. /\ sub'[c].pc \in {"finish", "down"} => sub[c].pc \in {"finish", "down"}
        /\ sub'[c].pc = "gate" <=> sub[c].pc = "gate"
        /\ sub'[c].pc = "frame" <=> sub[c].pc = "frame"
    BY <1>8 DEF WorksOn, Serving, Looping
  <2>3. QED
    BY <1>4, <1>7, <2>1, <2>2 DEF Behind
<1>9. CASE Arrives(c)
  <2>1. /\ sub[c].pc = "loop" /\ sub'[c].pc \in {"finish", "down"} /\ clk # sub[c].last_tick
        /\ sub'[c].now = clk /\ sub'[c].last_tick = sub[c].last_tick
        /\ sub'[c].stalled = sub[c].stalled /\ sub'[c].stall_end = sub[c].stall_end
        /\ UNCHANGED <<gate, usr2>>
    BY <1>9 DEF Arrives, KeepsStall
  <2>2. QED
    BY <1>1, <1>4, <1>7, <2>1 DEF Behind
<1>10. CASE MeetsGate(c)
  <2>1. /\ sub[c].pc = "down" /\ usr2' = usr2
        /\ sub'[c].now = sub[c].now /\ sub'[c].last_tick = sub[c].last_tick
        /\ sub'[c].stalled = sub[c].stalled /\ sub'[c].stall_end = sub[c].stall_end
    BY <1>10 DEF MeetsGate, KeepsTime, KeepsStall
  <2>2. sub[c].now = clk /\ sub[c].last_tick < clk
    BY <1>4, <2>1
  <2>3. CASE sub[c].now = 0 /\ sub'[c].pc = "frame" /\ gate' = gate
    BY <1>1, <1>4, <1>7, <2>1, <2>2, <2>3 DEF Behind
  <2>4. CASE sub[c].now # 0 /\ gate > 0 /\ sub'[c].pc = "frame" /\ gate' = gate - 1
    BY <1>1, <1>4, <1>7, <2>1, <2>2, <2>4 DEF Behind
  <2>5. CASE sub[c].now # 0 /\ ~(gate > 0) /\ sub'[c].pc = "gate" /\ gate' = gate
    BY <1>1, <1>4, <1>7, <2>1, <2>2, <2>5 DEF Behind
  <2>6. QED
    BY <1>10, <2>3, <2>4, <2>5 DEF MeetsGate
<1>11. CASE Starts(c)
  <2>1. /\ sub[c].pc = "frame" /\ sub'[c].pc = "dispatch" /\ UNCHANGED <<gate, usr2>>
        /\ sub'[c].now = sub[c].now /\ sub'[c].last_tick = sub[c].now
        /\ sub'[c].stalled => sub[c].stalled
        /\ sub'[c].stall_end = sub[c].stall_end
    BY <1>11 DEF Starts
  <2>2. QED
    BY <1>1, <1>4, <1>7, <2>1 DEF Behind
<1>12. CASE IsStalled(c)
  <2>1. /\ c \in usr2 /\ usr2' = usr2 \ {c} /\ gate' = gate /\ sub'[c].pc = sub[c].pc
        /\ sub'[c].now = sub[c].now /\ sub'[c].last_tick = sub[c].last_tick
        /\ sub'[c].stall_end = clk + 3
    BY <1>12 DEF IsStalled, KeepsTime
  <2>2. QED
    BY <1>1, <1>4, <1>7, <2>1 DEF Behind
<1>13. QED
  BY <1>3, <1>8, <1>9, <1>10, <1>11, <1>12

\* The steps of the other, when it has left.
LEMMA OtherEnds ==
  ASSUME Shape, NEW c \in CPUs, NEW d \in CPUs \ {c}, SubScheduler(d) \/ Handler(d),
         sub'[d].pc \in Ending
  PROVE  /\ UNCHANGED <<clk, pc, now, wait_until, movedAt, gate>>
         /\ sub'[c] = sub[c] /\ (c \in usr2' <=> c \in usr2)
<1>1. UNCHANGED <<clk, pc, now, wait_until, movedAt>> /\ sub'[c] = sub[c]
  BY SubMoves DEF mainvars, stallvars
<1>2. /\ WorksOn(d) \/ Arrives(d) \/ MeetsGate(d) \/ Starts(d) \/ IsStalled(d)
         \/ UNCHANGED <<gate, usr2, urg>>
  BY SubMoves
<1>3. gate' = gate /\ (c \in usr2' <=> c \in usr2)
  BY <1>2 DEF WorksOn, Arrives, MeetsGate, Starts, IsStalled, Ending
<1>4. QED
  BY <1>1, <1>3

LEMMA OtherPunctual ==
  ASSUME Shape, NEW c \in CPUs, NEW d \in CPUs \ {c}, SubScheduler(d) \/ Handler(d),
         sub'[d].pc \in Ending, Punctual(c)
  PROVE  Punctual(c)'
<1>1. /\ UNCHANGED <<clk, pc, now, wait_until, movedAt, gate>>
      /\ sub'[c] = sub[c] /\ (c \in usr2' <=> c \in usr2)
  BY OtherEnds
<1>2. QED
  BY <1>1 DEF Punctual, Opened, Behind

\* The steps of the dispatcher, when one sub-scheduler has left.
LEMMA DispatcherPunctual ==
  ASSUME Shape, Told, Dispatcher, MovesInTime, MovesInTime', NEW c \in CPUs, InMain(c), ~BothRun,
         Punctual(c)
  PROVE  Punctual(c)'
<1> USE DEF Goto
<1>1. /\ clk \in Int /\ now \in Int /\ movedAt \in Int /\ gate \in 0..2 /\ clk >= 0
      /\ wait_until \in Int
      /\ sub[c].now \in Int /\ sub[c].last_tick \in Int /\ sub[c].stall_end \in Int
  BY TimeTypes
<1>2. UNCHANGED clk /\ (UNCHANGED sub \/ ((Open \/ Leave) /\ OpenGate))
  BY DispatcherMoves
<1>3. ~BothRun'
  <2>1. PICK d \in CPUs : sub[d].pc \in Ending
    BY DEF BothRun
  <2>2. sub'[d].pc \in Ending
    <3>1. CASE OpenGate
      BY <2>1, <3>1, OpenMoves DEF Ending
    <3>2. QED
      BY <1>2, <2>1, <3>1
  <2>3. QED
    BY <2>2 DEF BothRun
<1>4. ~receivingProcesses /\ pc # "receive"
  BY DEF Told, Untold, BothRun
<1>5. pc # "moved" /\ pc' # "moved"
  BY <1>3 DEF MovesInTime
<1>6. /\ now <= clk /\ sub[c].now <= clk /\ sub[c].last_tick <= clk
      /\ pc \in {"algo", "route", "threshold"} => now = clk
      /\ pc = "wait" => now > 0 /\ now = movedAt /\ wait_until = movedAt + 3 /\ clk <= wait_until
      /\ pc \notin {"waitpid", "exited"}
      /\ sub[c].pc \in {"finish", "down"} => sub[c].now = clk /\ sub[c].last_tick < clk
      /\ sub[c].pc \in {"gate", "frame"} => sub[c].last_tick <= sub[c].now
      /\ sub[c].pc = "gate" => sub[c].now # 0 /\ sub[c].now >= now
      /\ Opened => /\ sub[c].pc = "gate" => sub[c].now = clk /\ clk > now
                   /\ now > 0 /\ Behind(c) => gate > 0
      /\ pc = "wait" => /\ gate = 0 /\ Behind(c) /\ (clk > now => sub[c].pc = "gate")
                        /\ c \notin usr2 /\ sub[c].stalled => sub[c].stall_end = movedAt + 3
      /\ c \in usr2 => pc = "wait" /\ clk = now
  BY DEF Punctual
<1>7. CASE UNCHANGED <<pc, now, wait_until, movedAt, gate, usr2, sub>>
  BY <1>2, <1>7 DEF Punctual, Opened, Behind
<1>8. CASE NewTick
  <2>1. /\ pc = "spin" /\ pc' = "algo" /\ now' = clk /\ gate' = 0
        /\ UNCHANGED <<usr2, sub, wait_until, movedAt>>
    BY <1>4, <1>8 DEF NewTick, stallvars, subvars
  <2>2. c \notin usr2
    BY <1>6, <2>1
  <2>3. QED
    BY <1>1, <1>2, <1>6, <2>1, <2>2 DEF Punctual, Opened
<1>9. CASE Algo
  <2>1. /\ pc = "algo" /\ pc' \in {"after", "threshold", "route"} /\ (pc' = "after" => now = 0)
        /\ UNCHANGED <<now, gate, usr2, sub, wait_until, movedAt>>
    BY <1>9 DEF Algo, stallvars, subvars, msgvars
  <2>2. c \notin usr2 /\ now = clk
    BY <1>6, <2>1
  <2>3. QED
    BY <1>1, <1>2, <1>6, <2>1, <2>2 DEF Punctual, Opened
<1>10. CASE PublishRoutes
  <2>1. /\ pc = "route" /\ pc' = "threshold"
        /\ UNCHANGED <<now, gate, usr2, sub, wait_until, movedAt>>
    BY <1>10 DEF PublishRoutes, stallvars, subvars, msgvars
  <2>2. c \notin usr2 /\ now = clk
    BY <1>6, <2>1
  <2>3. QED
    BY <1>1, <1>2, <1>6, <2>1, <2>2 DEF Punctual, Opened
<1>11. CASE Check \/ NoCheck \/ NothingStolen
  <2>1. /\ pc \in {"threshold", "steal"} /\ pc' \in {"steal", "open"}
        /\ UNCHANGED <<now, gate, usr2, sub, wait_until, movedAt>>
    BY <1>11 DEF Check, NoCheck, NothingStolen, stallvars, subvars, msgvars
  <2>2. c \notin usr2
    BY <1>6, <2>1
  <2>3. QED
    BY <1>1, <1>2, <1>6, <2>1, <2>2 DEF Punctual, Opened
<1>12. CASE WaitOver
  <2>1. /\ pc = "wait" /\ pc' = "open" /\ clk >= wait_until
        /\ UNCHANGED <<now, gate, usr2, sub, wait_until, movedAt>>
    BY <1>12 DEF WaitOver, stallvars, subvars, msgvars
  <2>2. c \notin usr2
    BY <1>1, <1>6, <2>1
  <2>3. QED
    BY <1>1, <1>2, <1>6, <2>1, <2>2 DEF Punctual, Opened
<1>13. CASE Open
  <2>1. /\ pc = "open" /\ pc' = "after" /\ OpenGate
        /\ UNCHANGED <<now, usr2, wait_until, movedAt>>
    BY <1>13 DEF Open, stallvars, msgvars
  <2>2. /\ gate' = (IF sub[1].pc = "gate" THEN 0 ELSE 1) + (IF sub[2].pc = "gate" THEN 0 ELSE 1)
        /\ sub'[c].pc = IF sub[c].pc = "gate" THEN "frame" ELSE sub[c].pc
        /\ sub'[c].now = sub[c].now /\ sub'[c].last_tick = sub[c].last_tick
    BY <2>1, OpenMoves DEF KeepsTime
  <2>3. c \notin usr2
    BY <1>6, <2>1
  <2>4. now > 0 /\ Behind(c)' => gate' > 0
    <3>1. CASE sub[c].pc = "gate"
      <4>1. sub'[c].pc = "frame" /\ sub'[c].now >= now
        BY <1>6, <2>2, <3>1
      <4>2. ~Behind(c)'
        BY <1>1, <2>1, <2>2, <4>1 DEF Behind
      <4>3. QED
        BY <4>2
    <3>2. CASE sub[c].pc # "gate"
      <4>1. c = 1 \/ c = 2
        BY DEF CPUs
      <4>2. QED
        BY <2>2, <3>2, <4>1
    <3>3. QED
      BY <3>1, <3>2
  <2>5. sub'[c].pc # "gate"
    BY <2>2
  <2>6. QED
    BY <1>1, <1>2, <1>6, <2>1, <2>2, <2>3, <2>4, <2>5 DEF Punctual, Opened
<1>14. CASE After
  <2>1. /\ pc = "after" /\ pc' = "spin"
        /\ UNCHANGED <<now, gate, usr2, sub, wait_until, movedAt>>
    BY <1>14 DEF After, stallvars, subvars
  <2>2. c \notin usr2 /\ Behind(c)' = Behind(c)
    BY <1>6, <2>1 DEF Behind
  <2>3. QED
    BY <1>1, <1>2, <1>6, <2>1, <2>2 DEF Punctual, Opened
<1>15. ~Leave
  <2>1. SUFFICES ASSUME Leave PROVE FALSE
    OBVIOUS
  <2>2. subs_terminated \in Nat /\ subs_terminated >= 2 /\ EndsCounted /\ resp \in Seq(Answer)
    BY <2>1 DEF Leave, Busy, Shape, MainTypes, MessageTypes
  <2>3. Cardinality(Acks) \in Nat
    BY <2>2, AckPlacesFinite DEF Acks, AckPlaces
  <2>4. c \notin Ended
    BY DEF InMain, Ended, Ending
  <2>5. Ended \in {{}, {1}, {2}}
    BY <2>4 DEF Ended, CPUs
  <2>6. Cardinality({}) = 0 /\ Cardinality({1}) = 1 /\ Cardinality({2}) = 1
    BY FS_EmptySet, FS_Singleton
  <2>7. Cardinality(Ended) \in 0..1
    BY <2>5, <2>6
  <2>8. QED
    BY <2>2, <2>3, <2>7 DEF EndsCounted
<1>16. CASE SpinAcks \/ Route
  BY <1>7, <1>16 DEF SpinAcks, Route, stallvars, subvars
<1>17. ~(ReceiveProcess \/ ReceiveSync \/ ReceiveEnd \/ Stolen \/ PublishMove \/ Exit)
  BY <1>4, <1>5, <1>6 DEF ReceiveProcess, ReceiveSync, ReceiveEnd, Stolen, PublishMove, Exit
<1>18. QED
  BY <1>8, <1>9, <1>10, <1>11, <1>12, <1>13, <1>14, <1>15, <1>16, <1>17 DEF Dispatcher

\* A tick of the clock, when one sub-scheduler has left.
LEMMA ClockPunctual ==
  ASSUME Shape, Told, ClockTick, NEW c \in CPUs, InMain(c), ~BothRun, Punctual(c)
  PROVE  Punctual(c)'
<1>1. /\ clk \in Int /\ now \in Int /\ movedAt \in Int /\ gate \in 0..2 /\ clk >= 0
      /\ wait_until \in Int
      /\ sub[c].now \in Int /\ sub[c].last_tick \in Int /\ sub[c].stall_end \in Int
  BY TimeTypes
<1>2. /\ clk' = clk + 1
      /\ UNCHANGED <<pc, now, wait_until, movedAt, gate, usr2, sub>>
      /\ DispatcherWaits /\ SubWaits(c)
  BY DEF ClockTick, mainvars, stallvars, subvars, msgvars
<1>3. pc # "receive"
  BY DEF Told, Untold, BothRun
<1>4. /\ now <= clk /\ sub[c].now <= clk /\ sub[c].last_tick <= clk
      /\ pc = "wait" => now > 0 /\ now = movedAt /\ wait_until = movedAt + 3 /\ clk <= wait_until
      /\ pc \notin {"waitpid", "exited"}
      /\ Opened => /\ sub[c].pc = "gate" => sub[c].now = clk /\ clk > now
                   /\ now > 0 /\ Behind(c) => gate > 0
      /\ pc = "wait" => gate = 0 /\ Behind(c)
  BY DEF Punctual
<1>5. pc \in {"spin", "steal", "wait"} /\ (pc = "spin" => clk = now) /\ (pc = "wait" => clk < wait_until)
  BY <1>2, <1>3, <1>4 DEF DispatcherWaits
<1>6. c \notin usr2 /\ (sub[c].pc = "gate" \/ (sub[c].pc \in {"loop", "spin"} /\ sub[c].last_tick = clk))
  BY <1>2 DEF SubWaits, Spinning, InMain, Ending
<1>7. pc = "spin" => sub[c].pc # "gate"
  BY <1>1, <1>4, <1>5 DEF Opened
<1>8. pc = "wait" => sub[c].pc = "gate"
  BY <1>1, <1>4, <1>6 DEF Behind
<1>9. Behind(c)' = Behind(c) /\ Opened' = Opened
  BY <1>2 DEF Behind, Opened
<1>10. QED
  BY <1>1, <1>2, <1>4, <1>5, <1>6, <1>7, <1>8, <1>9 DEF Punctual, Opened

\* The one that is left alone, if one is.
Alone == ~BothRun => \A c \in CPUs : InMain(c) => Punctual(c)

LEMMA AllPunctual ==
  ASSUME Shape, BothRun => Paced, Alone, NEW c \in CPUs, InMain(c)
  PROVE  Punctual(c)
  BY PacedPunctual DEF Alone

LEMMA AloneStep ==
  ASSUME Shape, Told, [DualNext]_dualvars, MovesInTime, MovesInTime', BothRun => Paced, Alone
  PROVE  Alone'
<1>1. SUFFICES ASSUME NEW c \in CPUs, InMain(c)', ~BothRun' PROVE Punctual(c)'
  BY DEF Alone
<1>2. InMain(c) /\ Punctual(c)
  BY <1>1, MainBefore, AllPunctual
<1>3. Punctual(c)'
  <2>1. ASSUME NEW d \in CPUs, SubScheduler(d) \/ Handler(d) PROVE Punctual(c)'
    <3>1. CASE d = c
      BY <1>1, <1>2, <2>1, <3>1, OwnPunctual
    <3>2. CASE d # c
      <4>1. \A e \in CPUs : e = c \/ e = d
        BY <3>2 DEF CPUs
      <4>2. sub'[d].pc \in Ending
        BY <1>1, <4>1 DEF BothRun, InMain
      <4>3. QED
        BY <1>1, <1>2, <2>1, <3>2, <4>2, OtherPunctual
    <3>3. QED
      BY <3>1, <3>2
  <2>2. ASSUME Dispatcher \/ ClockTick PROVE ~BothRun
    <3>1. UNCHANGED sub \/ OpenGate
      BY <2>2, DispatcherMoves DEF ClockTick, subvars
    <3>2. PICK d \in CPUs : sub'[d].pc \in Ending
      BY <1>1 DEF BothRun
    <3>3. sub[d].pc \in Ending
      <4>1. CASE OpenGate
        BY <3>2, <4>1, OpenMoves DEF Ending
      <4>2. QED
        BY <3>1, <3>2, <4>1
    <3>4. QED
      BY <3>3 DEF BothRun
  <2>3. CASE Dispatcher
    BY <1>1, <1>2, <2>2, <2>3, DispatcherPunctual
  <2>4. CASE ClockTick
    BY <1>1, <1>2, <2>2, <2>4, ClockPunctual
  <2>5. CASE Generator \/ Terminated \/ UNCHANGED dualvars \/ \E p \in AllProcs : Child(p)
    <3>1. UNCHANGED <<clk, pc, now, wait_until, movedAt, gate, usr2, sub>>
      BY <2>5 DEF Generator, Terminated, Child, dualvars, mainvars, stallvars, subvars, msgvars
    <3>2. QED
      BY <1>2, <3>1 DEF Punctual, Opened, Behind
  <2>6. QED
    BY <2>1, <2>3, <2>4, <2>5 DEF DualNext
<1>4. QED
  BY <1>1, <1>3

-----------------------------------------------------------------------------
(* A sub-scheduler that is not stalled starts a frame in every tick.       *)

\* It sleeps through its stall.
Sleeps(c) == sub[c].stalled /\ sub[c].now < sub[c].stall_end

\* The dispatcher waits for the answer of one that has exited, and never opens the gate
\* again.
Lost(c) ==
    /\ pc = "steal" /\ c \notin urg /\ sub[Other(c)].pc = "exited"
    /\ \A i \in DOMAIN resp : resp[i].mtype # MTYPE_STEAL_EMPTY

Steady(c) ==
    /\ sub[c].pc = "gate" => sub[c].now = clk \/ Sleeps(c) \/ Lost(c)
    /\ sub[c].pc = "frame" => sub[c].now = clk \/ Sleeps(c)
    /\ sub[c].pc = "dispatch" => sub[c].last_tick = sub[c].now
    /\ pc = "wait" /\ c \notin usr2 => sub[c].stalled
    /\ ~sub[c].stalled =>
          /\ sub[c].pc \in AtTheGate => sub[c].now = sub[c].last_tick + 1
          /\ sub[c].pc \in Serving \cup {"dispatch"} => sub[c].last_tick = clk
          /\ sub[c].pc \in Looping => clk - sub[c].last_tick \in 0..1

LEMMA NotExited ==
  ASSUME Shape, NEW c \in CPUs, SubScheduler(c) \/ Handler(c)
  PROVE  sub[c].pc # "exited"
<1>1. QED
  BY DEF SubScheduler, Handler, Spin, Publish, SubNewTick, SubFinish, DownGate, Frame, SubDispatch,
         NoDispatch, Compute, ReadOther, SubLeave, SubAck, SubExit, OnSIGURG, OnSIGUSR2

LEMMA OwnSteady ==
  ASSUME Shape, NEW c \in CPUs, SubScheduler(c) \/ Handler(c), InMain(c)', Punctual(c), Steady(c)
  PROVE  Steady(c)'
<1>1. /\ clk \in Int /\ now \in Int /\ movedAt \in Int /\ clk >= 0
      /\ sub[c].now \in Int /\ sub[c].last_tick \in Int /\ sub[c].stall_end \in Int
      /\ sub[c].stalled \in BOOLEAN
  BY TimeTypes
<1>2. UNCHANGED <<clk, pc, now>> /\ \A d \in CPUs \ {c} : sub'[d] = sub[d]
  BY SubMoves DEF mainvars
<1>3. WorksOn(c) \/ Arrives(c) \/ MeetsGate(c) \/ Starts(c) \/ IsStalled(c)
  BY SubMoves DEF InMain
<1>4. /\ sub[c].pc = "gate" => sub[c].now = clk \/ Sleeps(c) \/ Lost(c)
      /\ sub[c].pc = "frame" => sub[c].now = clk \/ Sleeps(c)
      /\ sub[c].pc = "dispatch" => sub[c].last_tick = sub[c].now
      /\ pc = "wait" /\ c \notin usr2 => sub[c].stalled
      /\ ~sub[c].stalled =>
            /\ sub[c].pc \in AtTheGate => sub[c].now = sub[c].last_tick + 1
            /\ sub[c].pc \in Serving \cup {"dispatch"} => sub[c].last_tick = clk
            /\ sub[c].pc \in Looping => clk - sub[c].last_tick \in 0..1
  BY DEF Steady
<1>5. /\ sub[c].now <= clk /\ sub[c].last_tick <= clk
      /\ sub[c].pc \in {"finish", "down"} => sub[c].now = clk /\ sub[c].last_tick < clk
      /\ pc = "wait" => /\ Behind(c) /\ now = movedAt
                        /\ c \notin usr2 /\ sub[c].stalled => sub[c].stall_end = movedAt + 3
      /\ c \in usr2 => pc = "wait" /\ clk = now
  BY DEF Punctual
<1>6. CASE WorksOn(c)
  <2>1. /\ sub'[c].now = sub[c].now /\ sub'[c].last_tick = sub[c].last_tick
        /\ sub'[c].stalled = sub[c].stalled /\ sub'[c].stall_end = sub[c].stall_end
        /\ usr2' = usr2
    BY <1>6 DEF WorksOn, KeepsTime, KeepsStall
  <2>2. \/ sub'[c].pc = sub[c].pc
        \/ sub[c].pc \in Serving \cup {"dispatch"} /\ sub'[c].pc \in Serving \cup {"loop"}
        \/ sub[c].pc \in Looping /\ sub'[c].pc \in Looping
        \/ sub[c].pc = "finish" /\ sub'[c].pc = "down"
    BY <1>6 DEF WorksOn
  <2>3. Sleeps(c)' <=> Sleeps(c)
    BY <2>1 DEF Sleeps
  <2>4. Lost(c) => Lost(c)'
    <3>1. ASSUME Lost(c) PROVE urg' = urg /\ resp' = resp
      BY <1>6, <3>1 DEF WorksOn, Lost
    <3>2. Other(c) \in CPUs \ {c}
      BY DEF Other, CPUs
    <3>3. QED
      BY <1>2, <3>1, <3>2 DEF Lost
  <2>5. /\ sub'[c].pc = "gate" => sub'[c].now = clk \/ Sleeps(c)' \/ Lost(c)'
        /\ sub'[c].pc = "frame" => sub'[c].now = clk \/ Sleeps(c)'
        /\ sub'[c].pc = "dispatch" => sub'[c].last_tick = sub'[c].now
    BY <1>4, <2>1, <2>2, <2>3, <2>4 DEF Serving, Looping
  <2>6. ~sub'[c].stalled =>
            /\ sub'[c].pc \in AtTheGate => sub'[c].now = sub'[c].last_tick + 1
            /\ sub'[c].pc \in Serving \cup {"dispatch"} => sub'[c].last_tick = clk
            /\ sub'[c].pc \in Looping => clk - sub'[c].last_tick \in 0..1
    BY <1>1, <1>4, <2>1, <2>2 DEF Serving, Looping, AtTheGate
  <2>7. QED
    BY <1>2, <1>4, <2>1, <2>5, <2>6 DEF Steady
<1>7. CASE Arrives(c)
  <2>1. /\ sub[c].pc = "loop" /\ sub'[c].pc \in {"finish", "down"} /\ clk # sub[c].last_tick
        /\ sub'[c].now = clk /\ sub'[c].last_tick = sub[c].last_tick
        /\ sub'[c].stalled = sub[c].stalled /\ sub'[c].stall_end = sub[c].stall_end
        /\ usr2' = usr2
    BY <1>7 DEF Arrives, KeepsStall
  <2>2. ~sub[c].stalled => clk = sub[c].last_tick + 1
    BY <1>1, <1>4, <2>1 DEF Looping
  <2>3. QED
    BY <1>1, <1>2, <1>4, <2>1, <2>2 DEF Steady, Serving, Looping, AtTheGate
<1>8. CASE MeetsGate(c)
  <2>1. /\ sub[c].pc = "down" /\ usr2' = usr2 /\ sub'[c].pc \in {"gate", "frame"}
        /\ sub'[c].now = sub[c].now /\ sub'[c].last_tick = sub[c].last_tick
        /\ sub'[c].stalled = sub[c].stalled /\ sub'[c].stall_end = sub[c].stall_end
    BY <1>8 DEF MeetsGate, KeepsTime, KeepsStall
  <2>2. sub[c].now = clk
    BY <1>5, <2>1
  <2>3. QED
    BY <1>1, <1>2, <1>4, <2>1, <2>2 DEF Steady, Serving, Looping, AtTheGate
<1>9. CASE Starts(c)
  <2>1. /\ sub[c].pc = "frame" /\ sub'[c].pc = "dispatch" /\ usr2' = usr2
        /\ sub'[c].now = sub[c].now /\ sub'[c].last_tick = sub[c].now
        /\ sub'[c].stalled <=> sub[c].stalled /\ ~(sub[c].now >= sub[c].stall_end)
    BY <1>9 DEF Starts
  <2>2. ~sub'[c].stalled => sub[c].now = clk
    BY <1>1, <1>4, <2>1 DEF Sleeps
  <2>3. pc = "wait" /\ c \notin usr2 => sub'[c].stalled
    <3>1. SUFFICES ASSUME pc = "wait", c \notin usr2 PROVE sub'[c].stalled
      OBVIOUS
    <3>2. sub[c].stalled /\ sub[c].stall_end = movedAt + 3 /\ sub[c].now < now /\ now = movedAt
      BY <1>4, <1>5, <2>1, <3>1 DEF Behind
    <3>3. QED
      BY <1>1, <2>1, <3>2
  <2>4. QED
    BY <1>1, <1>2, <2>1, <2>2, <2>3 DEF Steady, Serving, Looping, AtTheGate
<1>10. CASE IsStalled(c)
  <2>1. /\ c \in usr2 /\ sub'[c].pc = sub[c].pc /\ sub'[c].stalled = TRUE
        /\ sub'[c].now = sub[c].now /\ sub'[c].last_tick = sub[c].last_tick
        /\ sub'[c].stall_end = clk + 3
    BY <1>10 DEF IsStalled, KeepsTime
  <2>2. Sleeps(c)'
    BY <1>1, <1>5, <2>1 DEF Sleeps
  <2>3. QED
    BY <1>2, <1>4, <2>1, <2>2 DEF Steady
<1>11. QED
  BY <1>3, <1>6, <1>7, <1>8, <1>9, <1>10

\* The steps of the other do not matter to c.
LEMMA OtherSteady ==
  ASSUME Shape, NEW c \in CPUs, NEW d \in CPUs \ {c}, SubScheduler(d) \/ Handler(d), Steady(c)
  PROVE  Steady(c)'
<1>1. UNCHANGED <<clk, pc>> /\ sub'[c] = sub[c]
  BY SubMoves DEF mainvars
<1>2. c \in usr2' <=> c \in usr2
  BY SubMoves DEF WorksOn, Arrives, MeetsGate, Starts, IsStalled
<1>3. ~Lost(c)
  <2>1. Other(c) = d
    BY DEF Other, CPUs
  <2>2. QED
    BY <2>1, NotExited DEF Lost
<1>4. Sleeps(c)' <=> Sleeps(c)
  BY <1>1 DEF Sleeps
<1>5. QED
  BY <1>1, <1>2, <1>3, <1>4 DEF Steady

LEMMA DispatcherSteady ==
  ASSUME Shape, Dispatcher, MovesInTime', NEW c \in CPUs, InMain(c), Steady(c)
  PROVE  Steady(c)'
<1> USE DEF Goto
<1>1. UNCHANGED clk /\ (UNCHANGED sub \/ ((Open \/ Leave) /\ OpenGate))
  BY DispatcherMoves
<1>2. KeepsTime(c) /\ KeepsStall(c)
  BY <1>1, OpenMoves DEF KeepsTime, KeepsStall
<1>3. Sleeps(c)' <=> Sleeps(c)
  BY <1>2 DEF Sleeps, KeepsTime, KeepsStall
<1>4. ~Lost(c)
  <2>1. SUFFICES ASSUME Lost(c) PROVE FALSE
    OBVIOUS
  <2>2. NothingStolen \/ Stolen
    BY <2>1 DEF Lost, Dispatcher, SpinAcks, NewTick, ReceiveProcess, ReceiveSync, ReceiveEnd, Algo,
                Route, PublishRoutes, Check, NoCheck, PublishMove, WaitOver, Open, After, Leave, Exit
  <2>3. CASE NothingStolen
    <3>1. resp \in Seq(Answer) /\ resp # <<>> /\ Head(resp).mtype = MTYPE_STEAL_EMPTY
      BY <2>3 DEF NothingStolen, Shape, MessageTypes
    <3>2. 1 \in DOMAIN resp /\ resp[1] = Head(resp)
      BY <3>1
    <3>3. QED
      BY <2>1, <3>1, <3>2 DEF Lost
  <2>4. CASE Stolen
    <3>1. pc' = "moved" /\ sub' = sub /\ Other(c) \in CPUs
      BY <2>4 DEF Stolen, subvars, Other, CPUs
    <3>2. sub'[Other(c)].pc = "exited"
      BY <2>1, <3>1 DEF Lost
    <3>3. QED
      BY <3>1, <3>2 DEF MovesInTime, BothRun, Ending
  <2>5. QED
    BY <2>2, <2>3, <2>4
<1>5. pc' = "wait" /\ c \notin usr2' => pc = "wait" /\ c \notin usr2
  BY DEF Dispatcher, SpinAcks, NewTick, ReceiveProcess, ReceiveSync, ReceiveEnd, Algo,
         Route, PublishRoutes, Check, NoCheck, NothingStolen, Stolen, PublishMove, WaitOver, Open,
         After, Leave, Exit
<1>6. CASE UNCHANGED sub
  BY <1>1, <1>3, <1>4, <1>5, <1>6 DEF Steady
<1>7. CASE (Open \/ Leave) /\ OpenGate
  <2>1. sub'[c].pc = IF sub[c].pc = "gate" THEN "frame" ELSE sub[c].pc
    BY <1>7, OpenMoves
  <2>2. pc' # "wait"
    BY <1>7 DEF Open, Leave
  <2>3. QED
    BY <1>1, <1>2, <1>3, <1>4, <2>1, <2>2
       DEF Steady, KeepsTime, KeepsStall, AtTheGate, Serving, Looping
<1>8. QED
  BY <1>1, <1>6, <1>7

LEMMA ClockSteady ==
  ASSUME Shape, Told, ClockTick, NEW c \in CPUs, InMain(c), BothRun => Paced, Punctual(c), Steady(c)
  PROVE  Steady(c)'
<1>1. /\ clk \in Int /\ now \in Int /\ movedAt \in Int /\ wait_until \in Int
      /\ sub[c].now \in Int /\ sub[c].last_tick \in Int /\ sub[c].stall_end \in Int
      /\ sub[c].stalled \in BOOLEAN
  BY TimeTypes
<1>2. /\ clk' = clk + 1
      /\ UNCHANGED <<pc, usr2, urg, resp, sub>>
      /\ DispatcherWaits /\ \A d \in CPUs : SubWaits(d)
  BY DEF ClockTick, mainvars, subvars, msgvars
<1>3. /\ sub[c].pc = "gate" \/ (sub[c].pc \in Looping /\ sub[c].last_tick = clk)
      /\ c \notin urg /\ c \notin usr2
  BY <1>2 DEF SubWaits, Spinning, InMain, Ending, Looping
<1>4. Sleeps(c)' <=> Sleeps(c)
  BY <1>2 DEF Sleeps
<1>5. Lost(c)' <=> Lost(c)
  BY <1>2 DEF Lost
<1>6. ASSUME sub[c].pc = "gate", sub[c].now = clk PROVE Sleeps(c) \/ Lost(c)
  <2>1. ~(pc = "spin" /\ clk = now)
    BY <1>1, <1>6 DEF Punctual, Opened
  <2>2. CASE pc = "wait" /\ clk < wait_until
    <3>1. wait_until = movedAt + 3 /\ sub[c].stalled /\ sub[c].stall_end = movedAt + 3
      BY <1>3, <2>2 DEF Punctual, Steady
    <3>2. QED
      BY <1>1, <1>6, <2>2, <3>1 DEF Sleeps
  <2>3. CASE BothRun
    BY <2>1, <2>2, <2>3, ClockWaits
  <2>4. CASE ~BothRun
    <3>1. pc # "receive" /\ pc \notin {"waitpid", "exited"}
      BY <2>4 DEF Told, Untold, BothRun, Punctual
    <3>2. CASE pc = "steal"
      <4>1. resp = <<>>
        BY <1>2, <3>2 DEF DispatcherWaits
      <4>2. Other(c) \in CPUs /\ \A d \in CPUs : d = c \/ d = Other(c)
        BY DEF Other, CPUs
      <4>3. sub[Other(c)].pc \in Ending
        BY <2>4, <4>2 DEF BothRun, InMain
      <4>4. sub[Other(c)].pc = "exited"
        BY <1>2, <4>2, <4>3 DEF SubWaits, Spinning, Ending
      <4>5. QED
        BY <1>3, <3>2, <4>1, <4>4 DEF Lost
    <3>3. QED
      BY <1>2, <2>1, <2>2, <3>1, <3>2 DEF DispatcherWaits
  <2>5. QED
    BY <2>3, <2>4
<1>7. sub[c].pc = "gate" => Sleeps(c) \/ Lost(c)
  BY <1>6 DEF Steady
<1>8. sub[c].pc \in Looping => clk' - sub[c].last_tick \in 0..1
  BY <1>1, <1>2, <1>3 DEF Looping
<1>9. QED
  BY <1>2, <1>3, <1>4, <1>5, <1>7, <1>8 DEF Steady, Looping, Serving, AtTheGate

\* Holds of every sub-scheduler that has not left.
AllSteady == \A c \in CPUs : InMain(c) => Steady(c)

LEMMA SteadyStep ==
  ASSUME Shape, Told, [DualNext]_dualvars, MovesInTime', BothRun => Paced, Alone, AllSteady
  PROVE  AllSteady'
<1>1. SUFFICES ASSUME NEW c \in CPUs, InMain(c)' PROVE Steady(c)'
  BY DEF AllSteady
<1>2. InMain(c) /\ Punctual(c) /\ Steady(c)
  BY <1>1, MainBefore, AllPunctual DEF AllSteady
<1>3. ASSUME NEW d \in CPUs, SubScheduler(d) \/ Handler(d) PROVE Steady(c)'
  BY <1>1, <1>2, <1>3, OwnSteady, OtherSteady
<1>4. CASE Generator \/ Terminated \/ UNCHANGED dualvars \/ \E p \in AllProcs : Child(p)
  <2>1. UNCHANGED <<clk, pc, usr2, urg, resp, sub>>
    BY <1>4 DEF Generator, Terminated, Child, dualvars, mainvars, subvars, msgvars
  <2>2. QED
    BY <1>2, <2>1 DEF Steady, Sleeps, Lost
<1>5. QED
  BY <1>2, <1>3, <1>4, DispatcherSteady, ClockSteady DEF DualNext

LEMMA SteadyInit == DualInit => AllSteady /\ Alone
<1> SUFFICES ASSUME DualInit PROVE AllSteady /\ Alone
  OBVIOUS
<1>1. clk = 0 /\ pc = "spin" /\ sub = [c \in CPUs |-> IdleSub]
  BY DEF DualInit
<1>2. \A c \in CPUs : sub[c].pc = "loop" /\ sub[c].last_tick = -1
  BY <1>1 DEF IdleSub
<1>3. BothRun
  BY <1>2 DEF BothRun, Ending
<1>4. \A c \in CPUs : Steady(c)
  BY <1>1, <1>2 DEF Steady, AtTheGate, Serving, Looping
<1>5. QED
  BY <1>3, <1>4 DEF AllSteady, Alone

-----------------------------------------------------------------------------
(* What a process that has a CPU has been charged for.                     *)

\* The tick up to which a process has been charged: it waited or ran in every tick
\* before it since its arrival.
Spent(p) == Arrival(p) + pcb[p].waiting_time + Runtime(p) - child[p].remainingtime

\* The work between the start of a tick and the wait for the next.
Resting == Serving \cup Looping

\* s: the sub-scheduler; k, r: the child and the PCB of its process, which has been
\* charged up to spent; done: its child has signalled its end; permit: a tick is
\* granted to it; t: the time.
Fits(s, k, r, done, permit, spent, t) ==
    /\ k.pc # "none" /\ (done <=> k.pc = "dead")
    /\ r.waiting_time >= 0
    /\ k.stopped => s.stalled
    /\ s.pc = "finish" => k.pc = "dead"
    /\ k.pc = "signal" => ~s.stalled /\ s.last_tick = t
    /\ k.pc \in {"signal", "dead"} =>
          /\ permit = 0 /\ spent = s.last_tick + 1
          /\ s.pc \in Resting \cup {"finish"} /\ t <= s.last_tick + 1
    /\ s.stalled /\ k.pc = "down" =>
          /\ k.stopped /\ permit = 0 /\ spent = r.last_stopped
          /\ 0 <= r.last_stopped /\ r.last_stopped <= t /\ r.last_stopped <= s.stall_end
    /\ ~s.stalled /\ k.pc = "down" =>
          /\ ~k.stopped
          /\ s.pc \in Resting => /\ spent = s.last_tick + 1 - permit
                                 /\ t > s.last_tick => permit = 0
          /\ s.pc \in AtTheGate \cup {"dispatch"} => permit = 0 /\ spent = s.now

Charges(c) ==
    LET p == sub[c].curr
    IN  child[p].cpu = c /\ Fits(sub[c], child[p], pcb[p], processFinished[c], sem[c], Spent(p), clk)

AllCharged == \A c \in CPUs : sub[c].curr # NoOne => InMain(c) /\ Charges(c)

LEMMA ChargeTypes ==
  ASSUME Shape, NEW p \in Procs
  PROVE  /\ p \in AllProcs /\ Arrival(p) \in Nat /\ Runtime(p) \in Nat
         /\ Arrival(p) = workload.arrival[p] /\ Runtime(p) = workload.runtime[p]
         /\ workload.runtime[p] > 0
         /\ pcb[p] \in PCBRec /\ child[p] \in ChildRec
         /\ pcb[p].waiting_time \in Int /\ pcb[p].last_stopped \in Int
         /\ child[p].remainingtime \in Nat /\ child[p].stopped \in BOOLEAN
         /\ child[p].pc \in {"none", "down", "signal", "dead"} /\ child[p].cpu \in CPUs
         /\ Spent(p) \in Int
         /\ \A c \in CPUs : sem[c] \in 0..1 /\ processFinished[c] \in BOOLEAN
<1>1. p \in AllProcs /\ p # Ghost /\ workload \in Workloads
  BY DualAssumption DEF AllProcs, Shape, InputTypes
<1>2. /\ Arrival(p) \in Nat /\ Runtime(p) \in Nat
      /\ Arrival(p) = workload.arrival[p] /\ Runtime(p) = workload.runtime[p]
      /\ workload.runtime[p] > 0
  <2>1. Arrival(p) = workload.arrival[p] /\ Runtime(p) = workload.runtime[p]
    BY <1>1 DEF Arrival, Runtime
  <2>2. workload.runtime[p] \in Nat \ {0}
    BY <1>1, WorkloadFacts
  <2>3. QED
    BY <1>1, <2>1, <2>2, WorkloadFacts
<1>3. pcb[p] \in PCBRec /\ child[p] \in ChildRec
  BY <1>1 DEF Shape, SubTypes, ChildTypes
<1>4. /\ pcb[p].waiting_time \in Int /\ pcb[p].last_stopped \in Int
      /\ child[p].remainingtime \in Nat /\ child[p].stopped \in BOOLEAN
      /\ child[p].pc \in {"none", "down", "signal", "dead"} /\ child[p].cpu \in CPUs
  BY <1>3 DEF PCBRec, ChildRec
<1>5. Spent(p) \in Int
  BY <1>2, <1>4 DEF Spent
<1>6. QED
  BY <1>1, <1>2, <1>3, <1>4, <1>5 DEF Shape, ChildTypes

\* The work of a sub-scheduler that leaves the process it has alone.
LEMMA OwnLeaves ==
  ASSUME Shape, Places, Traced, NEW c \in CPUs, sub[c].curr \in Procs,
         \/ Spin(c) \/ Publish(c, "spin", "loop") \/ SubNewTick(c) \/ DownGate(c)
         \/ Compute(c, "compute", "write") \/ Publish(c, "write", "read") \/ ReadOther(c)
         \/ OnSIGURG(c)
  PROVE  /\ pcb'[sub[c].curr] = pcb[sub[c].curr] /\ UNCHANGED <<child, sem, processFinished, usr2>>
         /\ sub'[c].pc = sub[c].pc \/ sub[c].pc \notin {"dispatch", "finish"}
         /\ sub'[c].pc = "finish" => sub[c].pc = "finish" \/ processFinished[c]
         /\ sub'[c].pc = "down" /\ sub[c].pc # "down" => ~processFinished[c]
         /\ sub'[c].pc = "dispatch" => sub[c].pc = "dispatch"
         /\ sub'[c].pc \in Ending => sub[c].pc \in Ending
<1>1. sub[c] \in SubRec /\ sub \in [CPUs -> SubRec] /\ DrainedPCB(c)[sub[c].curr] = pcb[sub[c].curr]
      /\ Drained(c) \in SubRec /\ Drained(c).pc = sub[c].pc
  BY SubReads, DrainedSame, DrainTypes
<1>2. CASE Spin(c)
  <2>1. /\ pcb' = DrainedPCB(c) /\ UNCHANGED <<child, sem, processFinished, usr2>>
        /\ sub[c].pc = "loop" /\ sub'[c].pc = "spin"
    BY <1>1, <1>2 DEF Spin, childvars, SubRec
  <2>2. QED
    BY <1>1, <2>1 DEF Ending
<1>3. CASE Publish(c, "spin", "loop")
  <2>1. /\ UNCHANGED <<pcb, child, sem, processFinished, usr2>>
        /\ sub[c].pc = "spin" /\ sub'[c].pc = "loop"
    BY <1>1, <1>3 DEF Publish, childvars, SubRec
  <2>2. QED
    BY <1>1, <2>1 DEF Ending
<1>4. CASE SubNewTick(c)
  <2>1. /\ pcb' = DrainedPCB(c) /\ UNCHANGED <<child, sem, processFinished, usr2>>
        /\ sub[c].pc = "loop" /\ sub'[c].pc = IF processFinished[c] THEN "finish" ELSE "down"
    BY <1>1, <1>4 DEF SubNewTick, childvars, SubRec
  <2>2. QED
    BY <1>1, <2>1 DEF Ending
<1>5. CASE DownGate(c)
  <2>1. /\ UNCHANGED <<pcb, child, sem, processFinished, usr2>>
        /\ sub[c].pc = "down" /\ sub'[c].pc \in {"frame", "gate"}
    BY <1>1, <1>5 DEF DownGate, SubGoto, childvars, SubRec
  <2>2. QED
    BY <1>1, <2>1 DEF Ending
<1>6. CASE Compute(c, "compute", "write")
  <2>1. /\ UNCHANGED <<pcb, child, sem, processFinished, usr2>>
        /\ sub[c].pc = "compute" /\ sub'[c].pc = "write"
    BY <1>1, <1>6 DEF Compute, childvars, SubRec
  <2>2. QED
    BY <1>1, <2>1 DEF Ending
<1>7. CASE Publish(c, "write", "read")
  <2>1. /\ UNCHANGED <<pcb, child, sem, processFinished, usr2>>
        /\ sub[c].pc = "write" /\ sub'[c].pc = "read"
    BY <1>1, <1>7 DEF Publish, childvars, SubRec
  <2>2. QED
    BY <1>1, <2>1 DEF Ending
<1>8. CASE ReadOther(c)
  <2>1. /\ UNCHANGED <<pcb, child, sem, processFinished, usr2>>
        /\ sub[c].pc = "read" /\ sub'[c].pc = "loop"
    BY <1>1, <1>8 DEF ReadOther, childvars, SubRec
  <2>2. QED
    BY <1>1, <2>1 DEF Ending
<1>9. CASE OnSIGURG(c)
  <2>1. pcb' = DrainedPCB(c) /\ UNCHANGED <<child, sem, processFinished, usr2>>
    BY <1>9 DEF OnSIGURG, childvars
  <2>2. sub'[c].pc = sub[c].pc
    <3> DEFINE r == AllButLast(Drained(c).ready)
    <3>1. CASE sub' = [sub EXCEPT ![c] = Drained(c)]
      BY <1>1, <3>1
    <3>2. CASE sub' = [sub EXCEPT ![c] = [Drained(c) EXCEPT !.ready = r]]
      <4> HIDE DEF r
      <4>1. QED
        BY <1>1, <3>2 DEF SubRec
    <3>3. QED
      BY <1>9, <3>1, <3>2 DEF OnSIGURG
  <2>3. QED
    BY <1>1, <2>1, <2>2
<1>10. QED
  BY <1>2, <1>3, <1>4, <1>5, <1>6, <1>7, <1>8, <1>9

LEMMA ChargesAre ==
  ASSUME NEW c \in CPUs, NEW p
  PROVE  /\ sub[c].curr = p =>
            (Charges(c) <=> /\ child[p].cpu = c
                            /\ Fits(sub[c], child[p], pcb[p], processFinished[c], sem[c],
                                    Spent(p), clk))
         /\ sub'[c].curr = p =>
            (Charges(c)' <=> /\ child'[p].cpu = c
                             /\ Fits(sub'[c], child'[p], pcb'[p], processFinished'[c], sem'[c],
                                     Spent(p)', clk'))
  BY DEF Charges, Spent, Arrival, Runtime

\* A sub-scheduler that has a process, and what it knows of the time.
HasOne(c, p) ==
    /\ sub[c].curr = p /\ p \in Procs
    /\ sub[c].pc \in Serving \cup Looping \cup AtTheGate \cup {"dispatch"}
    /\ sub[c].now <= clk /\ sub[c].last_tick <= clk
    /\ sub[c].pc \in {"finish", "down"} => sub[c].now = clk /\ sub[c].last_tick < clk
    /\ c \in usr2 => clk = now /\ Behind(c) /\ pc = "wait"
    /\ sub[c].pc = "gate" => sub[c].now = clk \/ Sleeps(c) \/ Lost(c)
    /\ sub[c].pc = "frame" => sub[c].now = clk \/ Sleeps(c)
    /\ sub[c].pc = "dispatch" => sub[c].last_tick = sub[c].now
    /\ ~sub[c].stalled =>
          /\ sub[c].pc \in AtTheGate => sub[c].now = sub[c].last_tick + 1
          /\ sub[c].pc \in Serving \cup {"dispatch"} => sub[c].last_tick = clk
          /\ sub[c].pc \in Looping => clk - sub[c].last_tick \in 0..1

LEMMA RunsNow ==
  ASSUME Shape, Genuine, NEW c \in CPUs, sub[c].curr # NoOne, InMain(c), Punctual(c), Steady(c)
  PROVE  HasOne(c, sub[c].curr)
<1>1. sub[c].curr \in Procs
  BY DEF Genuine
<1>2. sub[c].pc \in Serving \cup Looping \cup AtTheGate \cup {"dispatch"}
  <2>1. sub[c] \in SubRec
    BY SubReads
  <2>2. QED
    BY <2>1 DEF SubRec, InMain, Ending, Serving, Looping, AtTheGate
<1>3. QED
  BY <1>1, <1>2 DEF HasOne, Punctual, Steady

\* Steps that leave the process alone.
LEMMA LeavesCharged ==
  ASSUME Shape, Places, Traced, NEW c \in CPUs, SubScheduler(c) \/ Handler(c), NEW p \in Procs,
         HasOne(c, p), Charges(c), sub'[c].curr = p,
         \/ Spin(c) \/ Publish(c, "spin", "loop") \/ SubNewTick(c) \/ DownGate(c)
         \/ Compute(c, "compute", "write") \/ Publish(c, "write", "read") \/ ReadOther(c)
         \/ OnSIGURG(c)
  PROVE  sub'[c].pc \notin Ending /\ Charges(c)'
<1>1. sub[c].curr = p
  BY DEF HasOne
<1>2. /\ pcb'[p] = pcb[p]
      /\ child'[p] = child[p] /\ sem'[c] = sem[c] /\ processFinished'[c] = processFinished[c]
      /\ usr2' = usr2
      /\ sub'[c].pc = sub[c].pc \/ sub[c].pc \notin {"dispatch", "finish"}
      /\ sub'[c].pc = "finish" => sub[c].pc = "finish" \/ processFinished[c]
      /\ sub'[c].pc = "down" /\ sub[c].pc # "down" => ~processFinished[c]
      /\ sub'[c].pc = "dispatch" => sub[c].pc = "dispatch"
      /\ sub'[c].pc \in Ending => sub[c].pc \in Ending
  BY <1>1, OwnLeaves
<1>3. UNCHANGED <<clk, workload>>
  BY SubMoves
<1>4. Spent(p)' = Spent(p)
  BY <1>2, <1>3 DEF Spent, Arrival, Runtime
<1>5. Fits(sub[c], child[p], pcb[p], processFinished[c], sem[c], Spent(p), clk) /\ child[p].cpu = c
  BY <1>1, ChargesAre
<1>6. /\ Spent(p) \in Int /\ sem[c] \in Int /\ pcb[p].last_stopped \in Int
      /\ child[p].pc \in {"none", "down", "signal", "dead"}
      /\ clk \in Int /\ sub[c].now \in Int /\ sub[c].last_tick \in Int /\ sub[c].stall_end \in Int
      /\ sub[c].stalled \in BOOLEAN
  <2>1. sem[c] \in 0..1
    BY ChargeTypes
  <2>2. QED
    BY <2>1, ChargeTypes, TimeTypes
<1>7. sub'[c].pc \notin Ending
  BY <1>2 DEF HasOne, Serving, Looping, AtTheGate, Ending
<1>8. WorksOn(c) \/ Arrives(c) \/ MeetsGate(c)
  <2>1. WorksOn(c) \/ Arrives(c) \/ MeetsGate(c) \/ Starts(c) \/ IsStalled(c)
    BY <1>7, SubMoves
  <2>2. QED
    BY <1>2, <2>1 DEF Starts, IsStalled
<1>9. Fits(sub'[c], child[p], pcb[p], processFinished[c], sem[c], Spent(p), clk)
  <2>1. CASE WorksOn(c)
    <3>1. /\ sub'[c].now = sub[c].now /\ sub'[c].last_tick = sub[c].last_tick
          /\ sub'[c].stalled = sub[c].stalled /\ sub'[c].stall_end = sub[c].stall_end
      BY <2>1 DEF WorksOn, KeepsTime, KeepsStall
    <3>2. \/ sub'[c].pc = sub[c].pc
          \/ sub[c].pc \in Resting /\ sub'[c].pc \in Resting
      BY <1>2, <2>1 DEF WorksOn, Resting, Serving, Looping
    <3>3. \A l \in Resting : l \notin AtTheGate \cup {"dispatch"}
      BY DEF Resting, Serving, Looping, AtTheGate
    <3>4. "finish" \in AtTheGate
      BY DEF AtTheGate
    <3>5. QED
      BY <1>5, <3>1, <3>2, <3>3, <3>4 DEF Fits
  <2>2. CASE Arrives(c)
    <3>1. /\ sub[c].pc = "loop" /\ sub'[c].pc \in {"finish", "down"} /\ clk # sub[c].last_tick
          /\ sub'[c].now = clk /\ sub'[c].last_tick = sub[c].last_tick
          /\ sub'[c].stalled = sub[c].stalled /\ sub'[c].stall_end = sub[c].stall_end
      BY <2>2 DEF Arrives, KeepsStall
    <3>2. "loop" \in Resting /\ "finish" \notin Resting /\ "down" \notin Resting
      BY DEF Resting, Serving, Looping
    <3>3. clk > sub[c].last_tick /\ (~sub[c].stalled => clk = sub[c].last_tick + 1)
      BY <1>6, <3>1 DEF HasOne, Looping
    <3>4. sub'[c].pc = "finish" <=> processFinished[c]
      BY <1>2, <3>1
    <3>5. processFinished[c] <=> child[p].pc = "dead"
      BY <1>5 DEF Fits
    <3>6. QED
      BY <1>5, <1>6, <3>1, <3>2, <3>3, <3>4, <3>5 DEF Fits, AtTheGate
  <2>3. CASE MeetsGate(c)
    <3>1. /\ sub[c].pc = "down" /\ sub'[c].pc \in {"gate", "frame"}
          /\ sub'[c].now = sub[c].now /\ sub'[c].last_tick = sub[c].last_tick
          /\ sub'[c].stalled = sub[c].stalled /\ sub'[c].stall_end = sub[c].stall_end
      BY <2>3 DEF MeetsGate, KeepsTime, KeepsStall
    <3>2. QED
      BY <1>5, <3>1 DEF Fits, Resting, Serving, Looping, AtTheGate
  <2>4. QED
    BY <1>8, <2>1, <2>2, <2>3
<1>10. QED
  BY <1>2, <1>3, <1>4, <1>5, <1>7, <1>9, ChargesAre

LEMMA FrameCharged ==
  ASSUME Shape, Places, Traced, NEW c \in CPUs, SubScheduler(c), NEW p \in Procs,
         HasOne(c, p), Charges(c), sub'[c].curr = p, Frame(c)
  PROVE  sub'[c].pc \notin Ending /\ Charges(c)'
<1>1. sub[c].curr = p /\ p # NoOne /\ p \in AllProcs
  BY ChargeTypes, SubReads DEF HasOne
<1>2. /\ child \in [AllProcs -> ChildRec] /\ DrainedPCB(c) \in [AllProcs -> PCBRec]
      /\ DrainedPCB(c)[p] = pcb[p]
  BY SubReads, DrainTypes, DrainedSame
<1>3. /\ sub[c].pc = "frame" /\ sub'[c].pc = "dispatch"
      /\ sub'[c].now = sub[c].now /\ sub'[c].last_tick = sub[c].now
      /\ sub'[c].stalled <=> sub[c].stalled /\ ~(sub[c].now >= sub[c].stall_end)
  <2>1. sub[c].pc = "frame" /\ usr2' = usr2
    BY DEF Frame
  <2>2. Arrives(c) \/ MeetsGate(c) \/ Starts(c) \/ IsStalled(c)
    BY GateMoves
  <2>3. QED
    BY <2>1, <2>2 DEF Arrives, MeetsGate, Starts, IsStalled
<1>4. sub'[c].stall_end = sub[c].stall_end
  BY <1>3, SubMoves
     DEF WorksOn, Arrives, MeetsGate, Starts, IsStalled, Serving, Looping, Ending
<1>5. /\ UNCHANGED <<clk, workload>> /\ sem'[c] = sem[c] /\ processFinished'[c] = processFinished[c]
  BY SubMoves DEF Frame
<1>6. Fits(sub[c], child[p], pcb[p], processFinished[c], sem[c], Spent(p), clk) /\ child[p].cpu = c
  BY <1>1, ChargesAre
<1>7. /\ Spent(p) \in Int /\ sem[c] \in Int /\ pcb[p].last_stopped \in Int
      /\ child[p].pc \in {"none", "down", "signal", "dead"}
      /\ clk \in Int /\ sub[c].now \in Int /\ sub[c].last_tick \in Int /\ sub[c].stall_end \in Int
      /\ sub[c].stalled \in BOOLEAN /\ pcb[p].waiting_time \in Int
      /\ Arrival(p) \in Int /\ Runtime(p) \in Int /\ child[p].remainingtime \in Int
      /\ pcb[p] \in PCBRec /\ child[p] \in ChildRec
  <2>1. sem[c] \in 0..1
    BY ChargeTypes
  <2>2. QED
    BY <2>1, ChargeTypes, TimeTypes
<1>8. child[p].pc = "down"
  BY <1>3, <1>6, <1>7 DEF Fits, Resting, Serving, Looping
<1>9. CASE StallOver(c)
  <2>1. sub[c].stalled /\ sub[c].now >= sub[c].stall_end /\ ~sub'[c].stalled
    BY <1>3, <1>9 DEF StallOver
  <2> DEFINE r == [Charged(c, p) EXCEPT !.state = "R"]
  <2>2. pcb' = [DrainedPCB(c) EXCEPT ![p] = r] /\ child' = [child EXCEPT ![p].stopped = FALSE]
    BY <1>1, <1>9, Zenon DEF Frame
  <2>3. pcb[p].last_stopped >= 0 /\ pcb[p].last_stopped <= sub[c].stall_end
        /\ Spent(p) = pcb[p].last_stopped /\ sem[c] = 0
    BY <1>6, <1>8, <2>1 DEF Fits
  <2>4. r.waiting_time = pcb[p].waiting_time + sub[c].now - pcb[p].last_stopped
    <3>1. ~(pcb[p].last_stopped < 0)
      BY <1>7, <2>3
    <3>2. QED
      BY <1>7, <3>1 DEF Charged, PCBRec
  <2> HIDE DEF r
  <2>5. pcb'[p].waiting_time = pcb[p].waiting_time + sub[c].now - pcb[p].last_stopped
    BY <1>1, <1>2, <2>2, <2>4
  <2>6. /\ child'[p].pc = child[p].pc /\ child'[p].cpu = child[p].cpu /\ child'[p].stopped = FALSE
        /\ child'[p].remainingtime = child[p].remainingtime
    BY <1>1, <1>2, <1>7, <2>2 DEF ChildRec
  <2>7. Spent(p)' = Arrival(p) + pcb'[p].waiting_time + Runtime(p) - child[p].remainingtime
    BY <1>5, <2>6 DEF Spent, Arrival, Runtime
  <2>8. Spent(p)' = sub[c].now
    BY <1>7, <2>3, <2>5, <2>7 DEF Spent
  <2>9. pcb'[p].waiting_time >= 0
    <3>1. pcb[p].waiting_time >= 0
      BY <1>6 DEF Fits
    <3>2. QED
      BY <1>7, <2>1, <2>3, <2>5, <3>1
  <2>10. Fits(sub'[c], child'[p], pcb'[p], processFinished'[c], sem'[c], Spent(p)', clk')
    BY <1>3, <1>5, <1>6, <1>8, <2>1, <2>3, <2>6, <2>8, <2>9
       DEF Fits, Resting, Serving, Looping, AtTheGate
  <2>11. QED
    BY <1>3, <1>6, <2>6, <2>10, ChargesAre DEF Ending
<1>10. CASE ~StallOver(c)
  <2>1. sub'[c].stalled <=> sub[c].stalled
    BY <1>3, <1>10 DEF StallOver
  <2>2. pcb' = DrainedPCB(c) /\ child' = child
    BY <1>10 DEF Frame
  <2>3. pcb'[p] = pcb[p] /\ child'[p] = child[p]
    BY <1>2, <2>2
  <2>4. Spent(p)' = Spent(p)
    BY <1>5, <2>3 DEF Spent, Arrival, Runtime
  <2>5. Fits(sub'[c], child[p], pcb[p], processFinished[c], sem[c], Spent(p), clk)
    BY <1>3, <1>4, <1>6, <1>7, <1>8, <2>1 DEF Fits, Resting, Serving, Looping, AtTheGate
  <2>6. QED
    BY <1>3, <1>5, <1>6, <2>3, <2>4, <2>5, ChargesAre DEF Ending
<1>11. QED
  BY <1>9, <1>10

LEMMA GrantCharged ==
  ASSUME Shape, NEW c \in CPUs, SubScheduler(c), NEW p \in Procs,
         HasOne(c, p), Charges(c), sub'[c].curr = p, NoDispatch(c)
  PROVE  sub'[c].pc \notin Ending /\ Charges(c)'
<1>1. sub[c].curr = p /\ p # NoOne /\ p \in AllProcs
  BY ChargeTypes, SubReads DEF HasOne
<1>2. /\ sub \in [CPUs -> SubRec] /\ sub[c] \in SubRec /\ sem \in [CPUs -> 0..1]
  BY SubReads
<1>3. /\ sub[c].pc = "dispatch" /\ sub'[c].pc = "compute" /\ UNCHANGED <<pcb, child, processFinished>>
      /\ sub'[c].now = sub[c].now /\ sub'[c].last_tick = sub[c].last_tick
      /\ sub'[c].stalled = sub[c].stalled /\ sub'[c].stall_end = sub[c].stall_end
  BY <1>2 DEF NoDispatch, SubGoto, SubRec
<1>4. sem'[c] = IF sub[c].stalled THEN sem[c] ELSE 1
  BY <1>1, <1>2 DEF NoDispatch
<1>5. UNCHANGED <<clk, workload>>
  BY SubMoves
<1>6. Fits(sub[c], child[p], pcb[p], processFinished[c], sem[c], Spent(p), clk) /\ child[p].cpu = c
  BY <1>1, ChargesAre
<1>7. Spent(p)' = Spent(p)
  BY <1>3, <1>5 DEF Spent, Arrival, Runtime
<1>8. /\ Spent(p) \in Int /\ clk \in Int /\ sub[c].now \in Int /\ sub[c].last_tick \in Int
      /\ child[p].pc \in {"none", "down", "signal", "dead"}
      /\ sub[c].stalled \in BOOLEAN
  BY ChargeTypes, TimeTypes
<1>9. child[p].pc = "down" /\ sub[c].last_tick = sub[c].now
      /\ (~sub[c].stalled => sub[c].last_tick = clk)
  BY <1>3, <1>6, <1>8 DEF Fits, Resting, Serving, Looping, HasOne
<1>10. Fits(sub'[c], child[p], pcb[p], processFinished[c], sem'[c], Spent(p), clk)
  BY <1>3, <1>4, <1>6, <1>8, <1>9 DEF Fits, Resting, Serving, Looping, AtTheGate
<1>11. QED
  BY <1>3, <1>5, <1>6, <1>7, <1>10, ChargesAre DEF Ending

LEMMA StallCharged ==
  ASSUME Shape, Places, Traced, NEW c \in CPUs, Handler(c), NEW p \in Procs,
         HasOne(c, p), Charges(c), sub'[c].curr = p, OnSIGUSR2(c)
  PROVE  sub'[c].pc \notin Ending /\ Charges(c)'
<1>1. sub[c].curr = p /\ p # NoOne /\ p \in AllProcs
  BY ChargeTypes, SubReads DEF HasOne
<1>2. /\ child \in [AllProcs -> ChildRec] /\ DrainedPCB(c) \in [AllProcs -> PCBRec]
      /\ DrainedPCB(c)[p] = pcb[p]
  BY SubReads, DrainTypes, DrainedSame
<1>3. IsStalled(c)
  <2>1. c \in usr2 /\ usr2' = usr2 \ {c}
    BY DEF OnSIGUSR2
  <2>2. Arrives(c) \/ MeetsGate(c) \/ Starts(c) \/ IsStalled(c)
    BY GateMoves
  <2>3. QED
    BY <2>1, <2>2 DEF Arrives, MeetsGate, Starts
<1>4. /\ c \in usr2 /\ sub'[c].pc = sub[c].pc /\ sub'[c].stalled = TRUE
      /\ sub'[c].now = sub[c].now /\ sub'[c].last_tick = sub[c].last_tick
      /\ sub'[c].stall_end = clk + 3
  BY <1>3 DEF IsStalled, KeepsTime
<1>5. /\ UNCHANGED <<clk, workload>> /\ sem'[c] = sem[c] /\ processFinished'[c] = processFinished[c]
  BY SubMoves DEF OnSIGUSR2
<1>6. Fits(sub[c], child[p], pcb[p], processFinished[c], sem[c], Spent(p), clk) /\ child[p].cpu = c
  BY <1>1, ChargesAre
<1>7. /\ Spent(p) \in Int /\ sem[c] \in 0..1 /\ pcb[p].last_stopped \in Int
      /\ child[p].pc \in {"none", "down", "signal", "dead"}
      /\ clk \in Int /\ clk >= 0
      /\ sub[c].now \in Int /\ sub[c].last_tick \in Int /\ sub[c].stall_end \in Int
      /\ sub[c].stalled \in BOOLEAN
      /\ pcb[p] \in PCBRec /\ child[p] \in ChildRec
  BY ChargeTypes, TimeTypes
<1>8. clk = now /\ sub[c].last_tick < clk /\ (sub[c].pc = "frame" => sub[c].now < clk) /\ pc = "wait"
  BY <1>4 DEF HasOne, Behind
<1>9. child[p].pc # "signal"
  BY <1>6, <1>7, <1>8 DEF Fits
<1>10. sub'[c].pc \notin Ending
  BY <1>4 DEF HasOne, Serving, Looping, AtTheGate, Ending
<1>11. CASE ~sub[c].stalled
  <2> DEFINE r == [DrainedPCB(c)[p] EXCEPT !.last_stopped = clk, !.state = "W",
                                           !.remaining_time = shmRT[c]]
  <2>1. pcb' = [DrainedPCB(c) EXCEPT ![p] = [@ EXCEPT !.last_stopped = clk, !.state = "W",
                                                     !.remaining_time = shmRT[c]]]
        /\ child' = [child EXCEPT ![p].stopped = TRUE]
    BY <1>1, <1>11, Zenon DEF OnSIGUSR2
  <2>2. pcb' = [DrainedPCB(c) EXCEPT ![p] = r]
    BY <2>1
  <2>3. r.waiting_time = pcb[p].waiting_time /\ r.last_stopped = clk
    BY <1>2, <1>7 DEF PCBRec
  <2> HIDE DEF r
  <2>4. pcb'[p].waiting_time = pcb[p].waiting_time /\ pcb'[p].last_stopped = clk
    BY <1>1, <1>2, <2>2, <2>3
  <2>5. /\ child'[p].pc = child[p].pc /\ child'[p].cpu = child[p].cpu /\ child'[p].stopped = TRUE
        /\ child'[p].remainingtime = child[p].remainingtime
    BY <1>1, <1>2, <1>7, <2>1 DEF ChildRec
  <2>6. Spent(p)' = Spent(p)
    BY <1>5, <2>4, <2>5 DEF Spent, Arrival, Runtime
  <2>7. child[p].pc = "down" => Spent(p) = clk /\ sem[c] = 0
    <3>1. SUFFICES ASSUME child[p].pc = "down" PROVE Spent(p) = clk /\ sem[c] = 0
      OBVIOUS
    <3>2. CASE sub[c].pc \in Serving \cup {"dispatch"}
      BY <1>7, <1>8, <1>11, <3>2 DEF HasOne
    <3>3. CASE sub[c].pc \in Looping
      BY <1>6, <1>7, <1>8, <1>11, <3>1, <3>3 DEF HasOne, Fits, Resting
    <3>4. CASE sub[c].pc \in AtTheGate
      <4>1. sub[c].now = clk
        BY <1>7, <1>8, <1>11, <3>4 DEF HasOne, AtTheGate, Sleeps, Lost, Fits
      <4>2. QED
        BY <1>6, <1>11, <3>1, <3>4, <4>1 DEF Fits
    <3>5. QED
      BY <3>2, <3>3, <3>4 DEF HasOne
  <2>8. Fits(sub'[c], child'[p], pcb'[p], processFinished'[c], sem'[c], Spent(p)', clk')
    BY <1>4, <1>5, <1>6, <1>7, <1>9, <2>4, <2>5, <2>6, <2>7 DEF Fits
  <2>9. QED
    BY <1>6, <1>10, <2>5, <2>8, ChargesAre
<1>12. CASE sub[c].stalled
  <2>1. pcb' = DrainedPCB(c) /\ child' = child
    BY <1>12 DEF OnSIGUSR2
  <2>2. pcb'[p] = pcb[p] /\ child'[p] = child[p]
    BY <1>2, <2>1
  <2>3. Spent(p)' = Spent(p)
    BY <1>5, <2>2 DEF Spent, Arrival, Runtime
  <2>4. Fits(sub'[c], child[p], pcb[p], processFinished[c], sem[c], Spent(p), clk)
    BY <1>4, <1>6, <1>7, <1>9, <1>12 DEF Fits
  <2>5. QED
    BY <1>5, <1>6, <1>10, <2>2, <2>3, <2>4, ChargesAre
<1>13. QED
  BY <1>7, <1>11, <1>12

\* A process is sent in the tick of its arrival or later.
Come == g_now <= clk /\ \A p \in Known : workload.arrival[p] <= clk

LEMMA ComeStep ==
  ASSUME Shape, Places, Come, [DualNext]_dualvars
  PROVE  Come'
<1>1. clk \in Int /\ g_now \in Int /\ \A p \in Known : workload.arrival[p] \in Int
  <2>1. workload \in Workloads /\ workload.order \in Seq(Procs)
    BY WorkloadFacts DEF Shape, InputTypes
  <2>2. \A p \in Known : p \in Procs
    BY <2>1 DEF Known, ToSet
  <2>3. QED
    BY <2>1, <2>2, TimeTypes, WorkloadFacts
<1>2. CASE UNCHANGED <<workload, g_queue, g_now>> /\ clk' >= clk
  <2>1. Known' = Known
    BY <1>2 DEF Known
  <2>2. clk' >= clk
    BY <1>2
  <2>3. clk' \in Int
    <3>1. 1 \in CPUs
      BY DEF CPUs
    <3>2. QED
      BY <3>1, NowMoves
  <2>4. QED
    BY <1>1, <1>2, <2>1, <2>2, <2>3 DEF Come
<1>3. CASE Generator
  <2>1. UNCHANGED <<clk, workload>> /\ GenStep(pc = "exited")
    BY <1>3 DEF Generator
  <2>2. CASE GenSend
    <3>1. /\ g_queue # <<>> /\ g_queue \in Seq(Procs) /\ g_queue' = Tail(g_queue)
          /\ workload.arrival[Head(g_queue)] <= g_now /\ g_now' = g_now
      BY <2>2 DEF GenSend, Arrived, Shape, InputTypes
    <3>2. ToSet(g_queue) = {Head(g_queue)} \cup ToSet(g_queue')
      BY <3>1, TailFacts DEF Places
    <3>3. \A p \in Known' : p \in Known \/ p = Head(g_queue)
      BY <2>1, <3>2 DEF Known
    <3>4. Head(g_queue) \in Procs /\ workload \in Workloads
      BY <3>1 DEF Shape, InputTypes
    <3>5. workload.arrival[Head(g_queue)] \in Int
      BY <3>4, WorkloadFacts
    <3>6. QED
      BY <1>1, <2>1, <3>1, <3>3, <3>5 DEF Come
  <2>3. CASE ~GenSend
    <3>1. g_queue' = g_queue /\ (g_now' = g_now \/ g_now' = clk)
      BY <2>1, <2>3 DEF GenStep, GenPoll, GenSync, GenEnd, GenShutdown
    <3>2. Known' = Known
      BY <2>1, <3>1 DEF Known
    <3>3. QED
      BY <1>1, <2>1, <3>1, <3>2 DEF Come
  <2>4. QED
    BY <2>2, <2>3
<1>4. CASE \/ ClockTick \/ Terminated \/ UNCHANGED dualvars
           \/ (\E c \in CPUs : SubScheduler(c) \/ Handler(c)) \/ \E p \in AllProcs : Child(p)
  <2>1. UNCHANGED <<workload, g_queue, g_now>> /\ clk' >= clk
    BY <1>1, <1>4 DEF ClockTick, Terminated, SubScheduler, Handler, Child, dualvars, genvars
  <2>2. QED
    BY <1>2, <2>1
<1>5. CASE Dispatcher
  <2>1. UNCHANGED <<workload, g_queue, g_now>> /\ clk' >= clk
    BY <1>1, <1>5 DEF Dispatcher, genvars
  <2>2. QED
    BY <1>2, <2>1
<1>6. QED
  BY <1>3, <1>4, <1>5 DEF DualNext

LEMMA ComeInit == DualInit => Come
<1> SUFFICES ASSUME DualInit PROVE Come
  OBVIOUS
<1>1. clk = 0 /\ g_now = -1 /\ g_queue = workload.order
  BY DEF DualInit, GenInit
<1>2. Known = {}
  BY <1>1 DEF Known
<1>3. QED
  BY <1>1, <1>2 DEF Come

\* A process that gets the CPU has been charged up to that tick.
LEMMA StartCharged ==
  ASSUME Shape, Places, Traced, Genuine, Come, NEW c \in CPUs, SubScheduler(c), SubDispatch(c),
         Steady(c)
  PROVE  sub'[c].curr # NoOne /\ sub'[c].pc \notin Ending /\ Charges(c)'
<1> DEFINE q == sub[c].ready
           h == Head(q)
           r == [pcb[h] EXCEPT !.state = "R", !.forked = TRUE, !.start_time = sub[c].now,
                               !.waiting_time = sub[c].now - Arrival(h)]
           left == pcb[h].remaining_time
           k == [pc |-> AfterTick(left), cpu |-> c, stopped |-> FALSE, remainingtime |-> left]
           s == [sub[c] EXCEPT !.pc = "compute", !.curr = h, !.csu = -1, !.ready = Tail(q)]
<1>1. /\ UNCHANGED <<clk, workload, processFinished>> /\ sub[c].curr = NoOne /\ q # <<>>
      /\ ~sub[c].stalled /\ sub[c].pc = "dispatch"
      /\ sub \in [CPUs -> SubRec] /\ sub[c] \in SubRec /\ sem \in [CPUs -> 0..1]
      /\ pcb \in [AllProcs -> PCBRec] /\ child \in [AllProcs -> ChildRec]
  BY SubReads DEF SubScheduler, SubDispatch, CanDispatch
<1>2. /\ sub' = [sub EXCEPT ![c] = s] /\ pcb' = [pcb EXCEPT ![h] = r]
      /\ child' = [child EXCEPT ![h] = k] /\ sem' = [sem EXCEPT ![c] = 1]
  BY Zenon DEF SubDispatch, RunProcess, Rest
<1>3. h \in Procs /\ h \in AllProcs /\ h \in Real(q)
  <2>1. q \in Seq(Procs)
    BY DEF Genuine
  <2>2. h \in Procs
    BY <1>1, <2>1
  <2>3. q \in Seq(AllProcs)
    BY <1>1 DEF SubRec
  <2>4. h \in Real(q)
    BY <1>1, <2>2, <2>3, TailPlace
  <2>5. QED
    BY <2>2, <2>4 DEF AllProcs
<1>4. /\ ReadyOn(c) \in Locations /\ Place[ReadyOn(c)] = q
      /\ \A d \in CPUs : ReadyOn(c) # RunningOn(d)
  BY LocationsAre, PlaceAt
<1>5. PICK p \in Procs : p = h
  BY <1>3
<1>6. p \in Known /\ pcb[p] = NewPCB(p)
  BY <1>3, <1>4, <1>5, Unforked
<1>7. /\ p # NoOne /\ Arrival(p) \in Nat /\ Runtime(p) \in Nat /\ Runtime(p) > 0
      /\ Arrival(p) = workload.arrival[p]
  BY ChargeTypes, SubReads
<1>8. left = Runtime(p)
  BY <1>5, <1>6 DEF NewPCB
<1>9. /\ sub[c].now \in Int /\ clk \in Int /\ sub[c].last_tick = sub[c].now /\ sub[c].last_tick = clk
  BY <1>1, TimeTypes DEF Steady, Serving
<1>10. /\ s.pc = "compute" /\ s.curr = p /\ s.last_tick = clk /\ ~s.stalled
       /\ k.pc = "down" /\ k.cpu = c /\ k.stopped = FALSE /\ k.remainingtime = Runtime(p)
       /\ r.waiting_time = clk - Arrival(p)
  <2>1. s.pc = "compute" /\ s.curr = p /\ s.last_tick = clk /\ s.stalled = sub[c].stalled
    BY <1>1, <1>5, <1>9 DEF SubRec
  <2>2. k.pc = "down"
    BY <1>7, <1>8 DEF AfterTick
  <2>3. r.waiting_time = clk - Arrival(p)
    <3>1. pcb[h] \in PCBRec
      BY <1>1, <1>3
    <3>2. QED
      BY <1>5, <1>9, <3>1 DEF PCBRec
  <2>4. QED
    BY <1>1, <1>8, <2>1, <2>2, <2>3
<1>11. p \in AllProcs
  BY <1>3, <1>5
<1>12. pcb' = [pcb EXCEPT ![p] = r] /\ child' = [child EXCEPT ![p] = k]
  BY <1>2, <1>5
<1>13. ~processFinished[c]
  BY <1>1 DEF Shape, Served
<1> HIDE DEF q, h, r, k, s, left
<1>14. sub'[c] = s /\ pcb'[p] = r /\ child'[p] = k /\ sem'[c] = 1
  BY <1>1, <1>2, <1>11, <1>12
<1>15. Spent(p)' = clk
  <2>1. Spent(p)' = Arrival(p) + pcb'[p].waiting_time + Runtime(p) - child'[p].remainingtime
    BY <1>1 DEF Spent, Arrival, Runtime
  <2>2. QED
    BY <1>7, <1>9, <1>10, <1>14, <2>1
<1>16. r.waiting_time >= 0
  BY <1>6, <1>7, <1>9, <1>10 DEF Come
<1>17. Fits(sub'[c], child'[p], pcb'[p], processFinished'[c], sem'[c], Spent(p)', clk')
  BY <1>1, <1>9, <1>10, <1>13, <1>14, <1>15, <1>16 DEF Fits, Resting, Serving, Looping, AtTheGate
<1>18. QED
  BY <1>7, <1>10, <1>14, <1>17, ChargesAre DEF Ending

\* A process that finishes has been charged for every tick but those it ran in.
LEMMA FinishAccounts ==
  ASSUME Shape, NEW c \in CPUs, SubScheduler(c), NEW p \in Procs, HasOne(c, p), Charges(c),
         SubFinish(c)
  PROVE  /\ pcb'[p].waiting_time >= 0
         /\ pcb'[p].finish_time - workload'.arrival[p] = workload'.runtime[p] + pcb'[p].waiting_time
         /\ sub'[c].curr = NoOne
<1> DEFINE r == [pcb[p] EXCEPT !.finish_time = sub[c].now, !.remaining_time = 0, !.state = "F"]
<1>1. /\ sub[c].curr = p /\ p \in AllProcs /\ sub[c].pc = "finish" /\ child[p].pc = "dead"
      /\ sub \in [CPUs -> SubRec] /\ pcb \in [AllProcs -> PCBRec]
      /\ UNCHANGED <<clk, workload>> /\ Served
  BY ChargeTypes, SubReads DEF HasOne, SubFinish, SubScheduler, Shape
<1>2. pcb' = [pcb EXCEPT ![p] = r]
  BY <1>1, Zenon DEF SubFinish
<1>3. sub'[c].curr = NoOne
  BY <1>1 DEF SubFinish, SubRec
<1>4. /\ Arrival(p) \in Int /\ Runtime(p) \in Int /\ pcb[p] \in PCBRec
      /\ Arrival(p) = workload.arrival[p] /\ Runtime(p) = workload.runtime[p]
      /\ pcb[p].waiting_time \in Int
      /\ clk \in Int /\ sub[c].now \in Int /\ sub[c].last_tick \in Int
  BY ChargeTypes, TimeTypes
<1>5. child[p].remainingtime = 0
  BY <1>1 DEF Served
<1>6. Fits(sub[c], child[p], pcb[p], processFinished[c], sem[c], Spent(p), clk)
  BY <1>1, ChargesAre
<1>7. /\ Spent(p) = sub[c].last_tick + 1 /\ clk <= sub[c].last_tick + 1 /\ sub[c].last_tick < clk
      /\ sub[c].now = clk /\ pcb[p].waiting_time >= 0
  BY <1>1, <1>6 DEF Fits, HasOne
<1>8. Spent(p) = sub[c].now
  BY <1>4, <1>7
<1>9. r.waiting_time = pcb[p].waiting_time /\ r.finish_time = sub[c].now
  BY <1>4 DEF PCBRec
<1> HIDE DEF r
<1>10. pcb'[p] = r
  BY <1>1, <1>2
<1>11. QED
  BY <1>1, <1>3, <1>4, <1>5, <1>7, <1>8, <1>9, <1>10 DEF Spent

\* The steps of c itself.
LEMMA OwnCharged ==
  ASSUME Shape, Places, Traced, Genuine, Genuine', Come, NEW c \in CPUs,
         SubScheduler(c) \/ Handler(c), InMain(c) => Punctual(c) /\ Steady(c),
         sub[c].curr # NoOne => InMain(c) /\ Charges(c), sub'[c].curr # NoOne
  PROVE  InMain(c)' /\ Charges(c)'
<1>1. SUFFICES sub'[c].pc \notin Ending /\ Charges(c)'
  BY DEF InMain
<1>2. CASE SubScheduler(c) /\ SubDispatch(c)
  <2>1. InMain(c)
    BY <1>2 DEF SubDispatch, InMain, Ending
  <2>2. QED
    BY <1>2, <2>1, StartCharged
<1>3. ~(SubScheduler(c) /\ SubFinish(c))
  <2>1. SUFFICES ASSUME SubScheduler(c), SubFinish(c) PROVE FALSE
    OBVIOUS
  <2>2. sub[c].curr # NoOne
    BY <2>1 DEF SubFinish, Shape, Served
  <2>3. sub[c].curr \in Procs
    BY <2>2 DEF Genuine
  <2>4. HasOne(c, sub[c].curr)
    BY <2>2, RunsNow
  <2>5. QED
    BY <2>1, <2>2, <2>3, <2>4, FinishAccounts
<1>4. CASE ~(SubScheduler(c) /\ SubDispatch(c))
  <2>1. PICK p \in Procs : sub'[c].curr = p
    BY DEF Genuine
  <2>2. sub[c].curr = p
    BY <1>3, <1>4, <2>1, SubQuiet DEF Quiet
  <2>3. p # NoOne
    BY ChargeTypes, SubReads
  <2>4. InMain(c) /\ Charges(c) /\ HasOne(c, p)
    BY <2>2, <2>3, RunsNow
  <2>5. CASE \/ Spin(c) \/ Publish(c, "spin", "loop") \/ SubNewTick(c) \/ DownGate(c)
             \/ Compute(c, "compute", "write") \/ Publish(c, "write", "read") \/ ReadOther(c)
             \/ OnSIGURG(c)
    BY <2>1, <2>4, <2>5, LeavesCharged
  <2>6. CASE SubScheduler(c) /\ Frame(c)
    BY <2>1, <2>4, <2>6, FrameCharged
  <2>7. CASE SubScheduler(c) /\ NoDispatch(c)
    BY <2>1, <2>4, <2>7, GrantCharged
  <2>8. CASE Handler(c) /\ OnSIGUSR2(c)
    BY <2>1, <2>4, <2>8, StallCharged
  <2>9. ~SubLeave(c)
    BY <2>2, <2>3 DEF SubLeave, SubBusy
  <2>10. ~(Compute(c, "left", "last") \/ Publish(c, "last", "ack") \/ SubAck(c) \/ SubExit(c))
    BY <2>4 DEF InMain, Ending, Compute, Publish, SubAck, SubExit
  <2>11. QED
    BY <1>3, <1>4, <2>5, <2>6, <2>7, <2>8, <2>9, <2>10 DEF SubScheduler, Handler
<1>5. QED
  BY <1>2, <1>4

\* The steps of the other touch neither the process nor what c shares with its child.
LEMMA OtherCharged ==
  ASSUME Shape, Places, Traced, Genuine, AllCharged, NEW c \in CPUs, NEW d \in CPUs \ {c},
         SubScheduler(d) \/ Handler(d), sub'[c].curr # NoOne
  PROVE  InMain(c)' /\ Charges(c)'
<1>1. UNCHANGED <<clk, workload>> /\ sub'[c] = sub[c]
  BY SubMoves
<1>2. PICK p \in Procs : sub[c].curr = p
  BY <1>1 DEF Genuine
<1>3. p # NoOne /\ InMain(c) /\ Charges(c)
  BY <1>1, <1>2 DEF AllCharged
<1>4. child[p].cpu = c
      /\ Fits(sub[c], child[p], pcb[p], processFinished[c], sem[c], Spent(p), clk)
  BY <1>2, <1>3, ChargesAre
<1>5. p # sub[d].curr
  <2>1. SUFFICES ASSUME p = sub[d].curr PROVE FALSE
    OBVIOUS
  <2>2. Charges(d)
    BY <1>3, <2>1 DEF AllCharged
  <2>3. child[p].cpu = d
    BY <2>1, <2>2 DEF Charges
  <2>4. QED
    BY <1>4, <2>3
<1>6. ASSUME SubDispatch(d) PROVE p # Head(sub[d].ready)
  <2>1. sub[d].ready # <<>> /\ sub[d].ready \in Seq(AllProcs)
    BY <1>6, SubReads DEF SubDispatch, CanDispatch, SubRec
  <2>2. /\ ReadyOn(d) \in Locations /\ Place[ReadyOn(d)] = sub[d].ready
        /\ \A e \in CPUs : ReadyOn(d) # RunningOn(e)
    BY LocationsAre, PlaceAt
  <2>3. p = Head(sub[d].ready) => p \in Real(sub[d].ready)
    BY <2>1, TailPlace
  <2>4. p = Head(sub[d].ready) => child[p] = NoChild
    BY <2>2, <2>3, Unforked
  <2>5. QED
    BY <1>4, <2>4 DEF Fits, NoChild
<1>7. pcb'[p] = pcb[p] /\ child'[p] = child[p]
  BY <1>5, <1>6, OthersKept
<1>8. sem'[c] = sem[c] /\ processFinished'[c] = processFinished[c]
  <2>1. sem \in [CPUs -> 0..1] /\ processFinished \in [CPUs -> BOOLEAN]
    BY SubReads
  <2>2. /\ sem' = sem \/ sem' = [sem EXCEPT ![d] = 1]
        /\ processFinished' = processFinished
           \/ processFinished' = [processFinished EXCEPT ![d] = FALSE]
    BY DEF SubScheduler, Handler, Spin, Publish, SubNewTick, SubFinish, DownGate, Frame, SubDispatch,
           NoDispatch, Compute, ReadOther, SubLeave, SubAck, SubExit, OnSIGURG, OnSIGUSR2, childvars
  <2>3. QED
    BY <2>1, <2>2
<1>9. Spent(p)' = Spent(p)
  BY <1>1, <1>7 DEF Spent, Arrival, Runtime
<1>10. QED
  BY <1>1, <1>2, <1>3, <1>4, <1>7, <1>8, <1>9, ChargesAre DEF InMain

\* The steps of the children.
LEMMA ChildCharged ==
  ASSUME Shape, Genuine, NEW x \in AllProcs, Child(x), NEW c \in CPUs, NEW p \in Procs,
         sub[c].curr = p, HasOne(c, p), Charges(c)
  PROVE  Charges(c)'
<1>1. /\ UNCHANGED <<clk, workload, sub, pcb>>
      /\ ChildTick(x) \/ ChildExit(x)
      /\ sem \in [CPUs -> 0..1] /\ processFinished \in [CPUs -> BOOLEAN]
      /\ child \in [AllProcs -> ChildRec] /\ Served /\ child[x] \in ChildRec
  BY SubReads DEF Child, subvars, Shape
<1>2. child[p].cpu = c
      /\ Fits(sub[c], child[p], pcb[p], processFinished[c], sem[c], Spent(p), clk)
  BY ChargesAre
<1>3. /\ p \in AllProcs /\ Arrival(p) \in Int /\ Runtime(p) \in Int /\ pcb[p].waiting_time \in Int
      /\ child[p].remainingtime \in Int /\ Spent(p) \in Int /\ sem[c] \in 0..1
      /\ child[p].stopped \in BOOLEAN /\ sub[c].stalled \in BOOLEAN
      /\ clk \in Int /\ sub[c].now \in Int /\ sub[c].last_tick \in Int
  BY ChargeTypes, TimeTypes
<1>4. sub[child[x].cpu].curr = x /\ child[x].cpu \in CPUs /\ ~child[x].stopped
  BY <1>1 DEF ChildTick, ChildExit, Runs, Served, ChildRec
<1>5. CASE x # p
  <2>1. child[x].cpu # c
    BY <1>4, <1>5
  <2>2. child'[p] = child[p]
    <3>1. CASE ChildTick(x)
      <4>1. PICK r : \E l : child' = [child EXCEPT ![x].remainingtime = r, ![x].pc = l]
        BY <3>1, Zenon DEF ChildTick
      <4>2. QED
        BY <1>1, <1>3, <1>5, <4>1
    <3>2. CASE ChildExit(x)
      BY <1>1, <1>3, <1>5, <3>2 DEF ChildExit
    <3>3. QED
      BY <1>1, <3>1, <3>2
  <2>3. sem'[c] = sem[c] /\ processFinished'[c] = processFinished[c]
    BY <1>1, <2>1 DEF ChildTick, ChildExit
  <2>4. Spent(p)' = Spent(p)
    BY <1>1, <2>2 DEF Spent, Arrival, Runtime
  <2>5. QED
    BY <1>1, <1>2, <2>2, <2>3, <2>4, ChargesAre
<1>6. CASE x = p /\ ChildTick(x)
  <2> DEFINE left == child[p].remainingtime - 1
             l == AfterTick(left)
  <2>1. /\ child[p].pc = "down" /\ ~child[p].stopped /\ sem[c] > 0
        /\ sem' = [sem EXCEPT ![c] = @ - 1] /\ UNCHANGED processFinished
        /\ child' = [child EXCEPT ![p].remainingtime = left, ![p].pc = l]
    BY <1>2, <1>6 DEF ChildTick, Runs
  <2>2. l \in {"down", "signal"} /\ (l = "signal" => left <= 0)
    <3>1. left \in Int
      BY <1>3
    <3>2. QED
      BY <3>1 DEF AfterTick
  <2>3. left >= 0 /\ left \in Int /\ (l = "signal" => left = 0)
    BY <1>1, <1>3, <2>1, <2>2 DEF Served
  <2> HIDE DEF left, l
  <2>4. child'[p] = [child[p] EXCEPT !.remainingtime = left, !.pc = l]
    BY <1>1, <1>3, <2>1
  <2>5. /\ child'[p].pc = l /\ child'[p].remainingtime = left /\ child'[p].cpu = c
        /\ child'[p].stopped = FALSE
    <3>1. child[p] \in ChildRec /\ child[p].cpu = c /\ child[p].stopped = FALSE
      BY <1>1, <1>2, <1>3, <2>1
    <3>2. QED
      BY <2>4, <3>1 DEF ChildRec
  <2>6. Spent(p)' = Spent(p) + 1
    <3>1. Spent(p)' = Arrival(p) + pcb[p].waiting_time + Runtime(p) - left
      BY <1>1, <2>5 DEF Spent, Arrival, Runtime
    <3>2. QED
      BY <1>3, <3>1 DEF Spent, left
  <2>7. sem[c] = 1 /\ sem'[c] = 0
    BY <1>1, <1>3, <2>1
  <2>8. ~sub[c].stalled
    BY <1>2, <2>1 DEF Fits
  <2>9. sub[c].pc \in Resting
    BY <1>2, <2>1, <2>7, <2>8 DEF HasOne, Fits, Resting
  <2>10. Spent(p) = sub[c].last_tick /\ clk = sub[c].last_tick
    <3>1. Spent(p) = sub[c].last_tick + 1 - sem[c] /\ (clk > sub[c].last_tick => sem[c] = 0)
      BY <1>2, <2>1, <2>8, <2>9 DEF Fits
    <3>2. sub[c].last_tick <= clk
      BY DEF HasOne
    <3>3. QED
      BY <1>3, <2>7, <3>1, <3>2
  <2>11. Spent(p)' = sub[c].last_tick + 1
    BY <2>6, <2>10
  <2>12. /\ sub[c].pc \notin AtTheGate \cup {"dispatch"} /\ sub[c].pc # "finish"
    BY <2>9 DEF Resting, Serving, Looping, AtTheGate
  <2>13. Fits(sub[c], child'[p], pcb[p], processFinished[c], sem'[c], Spent(p)', clk)
    BY <1>2, <1>3, <2>1, <2>2, <2>5, <2>7, <2>8, <2>9, <2>10, <2>11, <2>12 DEF Fits
  <2>14. Fits(sub'[c], child'[p], pcb'[p], processFinished'[c], sem'[c], Spent(p)', clk')
    BY <1>1, <2>1, <2>13
  <2>15. sub'[c].curr = p
    BY <1>1
  <2>16. QED
    BY <2>5, <2>14, <2>15, ChargesAre
<1>7. CASE x = p /\ ChildExit(x)
  <2>1. /\ child[p].pc = "signal" /\ child' = [child EXCEPT ![p].pc = "dead"]
        /\ processFinished' = [processFinished EXCEPT ![c] = TRUE] /\ sem' = sem
    BY <1>2, <1>7 DEF ChildExit, Runs
  <2>2. /\ child'[p].pc = "dead" /\ child'[p].remainingtime = child[p].remainingtime
        /\ child'[p].cpu = c /\ child'[p].stopped = child[p].stopped
    BY <1>1, <1>2, <1>3, <2>1 DEF ChildRec
  <2>3. processFinished'[c] = TRUE
    BY <1>1, <2>1
  <2>4. Spent(p)' = Spent(p)
    BY <1>1, <2>2 DEF Spent, Arrival, Runtime
  <2>5. Fits(sub[c], child'[p], pcb[p], processFinished'[c], sem[c], Spent(p), clk)
    BY <1>2, <2>1, <2>2, <2>3 DEF Fits
  <2>6. Fits(sub'[c], child'[p], pcb'[p], processFinished'[c], sem'[c], Spent(p)', clk')
    BY <1>1, <2>1, <2>4, <2>5
  <2>7. sub'[c].curr = p
    BY <1>1
  <2>8. QED
    BY <2>2, <2>6, <2>7, ChargesAre
<1>8. QED
  BY <1>1, <1>5, <1>6, <1>7

\* A tick of the clock.
LEMMA ClockCharged ==
  ASSUME Shape, Genuine, ClockTick, NEW c \in CPUs, NEW p \in Procs, HasOne(c, p), Charges(c)
  PROVE  Charges(c)'
<1>1. /\ clk' = clk + 1
      /\ UNCHANGED <<workload, sub, pcb, child, sem, processFinished>>
      /\ SubWaits(c) /\ ChildWaits(p) /\ sub[c].curr = p
  BY ChargeTypes DEF ClockTick, subvars, childvars, HasOne
<1>2. child[p].cpu = c
      /\ Fits(sub[c], child[p], pcb[p], processFinished[c], sem[c], Spent(p), clk)
  BY <1>1, ChargesAre
<1>3. /\ clk \in Int /\ sub[c].last_tick \in Int /\ Spent(p) \in Int /\ pcb[p].last_stopped \in Int
      /\ child[p].pc \in {"none", "down", "signal", "dead"} /\ sub[c].stalled \in BOOLEAN
      /\ sem[c] \in 0..1
  BY ChargeTypes, TimeTypes
<1>4. sub[c].pc = "gate" \/ (sub[c].pc \in Looping /\ sub[c].last_tick = clk)
  BY <1>1 DEF SubWaits, Spinning, HasOne, Serving, Looping, AtTheGate
<1>5. child[p].pc # "signal"
  BY <1>1, <1>2 DEF ChildWaits, Fits
<1>6. child[p].pc = "dead" => sub[c].last_tick = clk
  BY <1>2, <1>4 DEF Fits, Resting, Serving, Looping
<1>7. child[p].pc = "down" /\ ~sub[c].stalled => sem[c] = 0
  BY <1>1, <1>2 DEF ChildWaits, Fits
<1>8. Spent(p)' = Spent(p)
  BY <1>1 DEF Spent, Arrival, Runtime
<1>9. Fits(sub[c], child[p], pcb[p], processFinished[c], sem[c], Spent(p), clk + 1)
  BY <1>2, <1>3, <1>5, <1>6, <1>7 DEF Fits
<1>10. QED
  BY <1>1, <1>2, <1>8, <1>9, ChargesAre

\* Whoever has a process sees the time as it is.
LEMMA AllHave ==
  ASSUME Shape, Genuine, BothRun => Paced, Alone, AllSteady, AllCharged, NEW c \in CPUs,
         sub[c].curr # NoOne
  PROVE  InMain(c) /\ Charges(c) /\ HasOne(c, sub[c].curr) /\ sub[c].curr \in Procs
<1>1. InMain(c) /\ Charges(c)
  BY DEF AllCharged
<1>2. Punctual(c) /\ Steady(c)
  BY <1>1, AllPunctual DEF AllSteady
<1>3. QED
  BY <1>1, <1>2, RunsNow DEF Genuine

LEMMA OpenKeepsOne ==
  ASSUME Shape, UNCHANGED sub \/ OpenGate, NEW c \in CPUs
  PROVE  sub'[c].curr = sub[c].curr
<1>1. sub[c] \in SubRec
  BY SubReads
<1>2. OpenGate => \E l : sub'[c] = sub[c] \/ sub'[c] = [sub[c] EXCEPT !.pc = l]
  BY DEF OpenGate
<1>3. QED
  BY <1>1, <1>2 DEF SubRec

LEMMA ChargedStep ==
  ASSUME Shape, Places, Traced, Genuine, Genuine', Come, [DualNext]_dualvars,
         BothRun => Paced, Alone, AllSteady, AllCharged
  PROVE  AllCharged'
<1>1. SUFFICES ASSUME NEW c \in CPUs, sub'[c].curr # NoOne PROVE InMain(c)' /\ Charges(c)'
  BY DEF AllCharged
<1>2. ASSUME NEW d \in CPUs, SubScheduler(d) \/ Handler(d) PROVE InMain(c)' /\ Charges(c)'
  <2>1. CASE d = c
    <3>1. InMain(c) => Punctual(c) /\ Steady(c)
      BY AllPunctual DEF AllSteady
    <3>2. sub[c].curr # NoOne => InMain(c) /\ Charges(c)
      BY DEF AllCharged
    <3>3. QED
      BY <1>1, <1>2, <2>1, <3>1, <3>2, OwnCharged
  <2>2. CASE d # c
    BY <1>1, <1>2, <2>2, OtherCharged
  <2>3. QED
    BY <2>1, <2>2
<1>3. CASE Dispatcher
  <2>1. /\ UNCHANGED <<clk, workload, childvars, pcb>>
        /\ UNCHANGED sub \/ OpenGate
    BY <1>3 DEF Dispatcher, SpinAcks, NewTick, ReceiveProcess, ReceiveSync, ReceiveEnd,
         Algo, Route, PublishRoutes, Check, NoCheck, NothingStolen, Stolen,
         PublishMove, WaitOver, Open, After, Leave, Exit, subvars
  <2>2. sub'[c].curr = sub[c].curr
    BY <2>1, OpenKeepsOne
  <2>3. PICK p \in Procs : sub[c].curr = p
    BY <1>1, <2>2 DEF Genuine
  <2>4. p # NoOne
    BY ChargeTypes, SubReads
  <2>5. InMain(c) /\ Charges(c)
    BY <2>3, <2>4, AllHave
  <2>6. /\ child'[p] = child[p] /\ pcb'[p] = pcb[p] /\ sem'[c] = sem[c]
        /\ processFinished'[c] = processFinished[c]
    BY <2>1 DEF childvars
  <2>7. Spent(p)' = Spent(p)
    BY <2>1, <2>6 DEF Spent, Arrival, Runtime
  <2>8. child[p].cpu = c
        /\ Fits(sub[c], child[p], pcb[p], processFinished[c], sem[c], Spent(p), clk)
    BY <2>3, <2>5, ChargesAre
  <2>9. Fits(sub'[c], child[p], pcb[p], processFinished[c], sem[c], Spent(p), clk)
        /\ sub'[c].pc \notin Ending
    <3>1. CASE UNCHANGED sub
      BY <2>5, <2>8, <3>1 DEF InMain
    <3>2. CASE OpenGate
      <4>1. /\ sub'[c].now = sub[c].now /\ sub'[c].last_tick = sub[c].last_tick
            /\ sub'[c].stalled = sub[c].stalled /\ sub'[c].stall_end = sub[c].stall_end
            /\ sub'[c].pc = IF sub[c].pc = "gate" THEN "frame" ELSE sub[c].pc
        BY <3>2, OpenMoves DEF KeepsTime, KeepsStall
      <4>2. QED
        BY <2>5, <2>8, <4>1 DEF Fits, InMain, Ending, Resting, Serving, Looping, AtTheGate
    <3>3. QED
      BY <2>1, <3>1, <3>2
  <2>10. QED
    BY <2>1, <2>2, <2>3, <2>6, <2>7, <2>8, <2>9, ChargesAre DEF InMain
<1>4. ASSUME NEW x \in AllProcs, Child(x) PROVE InMain(c)' /\ Charges(c)'
  <2>1. UNCHANGED sub
    BY <1>4 DEF Child, subvars
  <2>2. PICK p \in Procs : sub[c].curr = p
    BY <1>1, <2>1 DEF Genuine
  <2>3. InMain(c) /\ Charges(c) /\ HasOne(c, p)
    BY <1>1, <2>1, <2>2, AllHave
  <2>4. QED
    BY <1>4, <2>1, <2>2, <2>3, ChildCharged DEF InMain
<1>5. CASE ClockTick
  <2>1. UNCHANGED sub
    BY <1>5 DEF ClockTick, subvars
  <2>2. PICK p \in Procs : sub[c].curr = p
    BY <1>1, <2>1 DEF Genuine
  <2>3. InMain(c) /\ Charges(c) /\ HasOne(c, p)
    BY <1>1, <2>1, <2>2, AllHave
  <2>4. QED
    BY <1>5, <2>1, <2>3, ClockCharged DEF InMain
<1>6. CASE Generator \/ Terminated \/ UNCHANGED dualvars
  <2>1. UNCHANGED <<clk, workload, sub, pcb, child, sem, processFinished>>
    BY <1>6 DEF Generator, Terminated, dualvars, subvars, childvars
  <2>2. InMain(c) /\ Charges(c)
    BY <1>1, <2>1 DEF AllCharged
  <2>3. QED
    BY <2>1, <2>2 DEF InMain, Charges, Spent, Arrival, Runtime
<1>7. QED
  BY <1>2, <1>3, <1>4, <1>5, <1>6 DEF DualNext

LEMMA ChargedInit == DualInit => AllCharged /\ AccountingAtFinish
<1> SUFFICES ASSUME DualInit PROVE AllCharged /\ AccountingAtFinish
  OBVIOUS
<1>1. \A c \in CPUs : sub[c].curr = NoOne
  BY DEF DualInit, IdleSub
<1>2. \A p \in Procs : pcb[p].state = "W"
  BY DEF DualInit, NewPCB, AllProcs
<1>3. QED
  BY <1>1, <1>2 DEF AllCharged, AccountingAtFinish, Finished

LEMMA AccountingStep ==
  ASSUME Shape, Shape', Places, Traced, Genuine, [DualNext]_dualvars,
         BothRun => Paced, Alone, AllSteady, AllCharged, AccountingAtFinish
  PROVE  AccountingAtFinish'
<1>1. workload' = workload
  BY DEF DualNext, ClockTick, Generator, Dispatcher, Terminated, SubScheduler, Handler, Child,
         dualvars
<1>2. SUFFICES ASSUME NEW p \in Procs, Finished(p)'
               PROVE  /\ pcb'[p].waiting_time >= 0
                      /\ pcb'[p].finish_time - workload'.arrival[p]
                           = workload'.runtime[p] + pcb'[p].waiting_time
  BY DEF AccountingAtFinish
<1>3. CASE Finished(p)
  <2>1. pcb'[p] = pcb[p]
    BY <1>3, FinishedKept
  <2>2. QED
    BY <1>1, <1>3, <2>1 DEF AccountingAtFinish
<1>4. CASE ~Finished(p)
  <2>1. PICK c \in CPUs : SubScheduler(c) \/ Handler(c)
    <3>1. CASE ClockTick \/ Generator \/ Dispatcher \/ Terminated \/ UNCHANGED dualvars
               \/ \E k \in AllProcs : Child(k)
      <4>1. pcb' = pcb
        BY <3>1 DEF ClockTick, Generator, Terminated, Child, dualvars, subvars,
              Dispatcher, SpinAcks, NewTick, ReceiveProcess, ReceiveSync, ReceiveEnd, Algo, Route,
              PublishRoutes, Check, NoCheck, NothingStolen, Stolen, PublishMove, WaitOver, Open,
              After, Leave, Exit
      <4>2. QED
        BY <1>2, <1>4, <4>1 DEF Finished
    <3>2. QED
      BY <3>1 DEF DualNext
  <2>2. SubScheduler(c) /\ SubFinish(c)
    <3>1. CASE SubScheduler(c) /\ SubDispatch(c)
      BY <1>2, <1>4, <3>1, DispatchEndsNone DEF Finished
    <3>2. CASE ~(SubScheduler(c) /\ SubDispatch(c)) /\ ~(SubScheduler(c) /\ SubFinish(c))
      <4>1. Quiet
        BY <2>1, <3>2, SubQuiet
      <4>2. QED
        BY <1>2, <1>4, <4>1 DEF Quiet, Finished
    <3>3. QED
      BY <3>1, <3>2
  <2>3. p = sub[c].curr
    <3>1. SUFFICES ASSUME p # sub[c].curr PROVE FALSE
      OBVIOUS
    <3>2. ~SubDispatch(c)
      BY <2>2 DEF SubFinish, SubDispatch
    <3>3. pcb'[p] = pcb[p]
      BY <2>2, <3>1, <3>2, OthersKept
    <3>4. QED
      BY <1>2, <1>4, <3>3 DEF Finished
  <2>4. p # NoOne
    BY ChargeTypes, SubReads
  <2>5. HasOne(c, p) /\ Charges(c)
    BY <2>3, <2>4, AllHave
  <2>6. QED
    BY <2>2, <2>5, FinishAccounts
<1>5. QED
  BY <1>3, <1>4

\* Accounting, as long as no process is moved after a sub-scheduler has left: whatever
\* the order of signals, messages and ticks, a process that finishes has been charged
\* for every tick since its arrival but those it ran in, stalls and moves included.
THEOREM AccountingIsRight == DualSpec /\ []MovesInTime => []Accounting
<1> DEFINE Inv == /\ Shape /\ Places /\ Traced /\ Genuine /\ Reported /\ Told
                  /\ BothRun => Paced
                  /\ Alone /\ AllSteady /\ Come /\ AllCharged /\ AccountingAtFinish
<1>1. DualInit => Inv
  BY ShapeInit, PlacesInit, InitShared, GenuineInit, ReportedInit, ToldInit, PacedInit, SteadyInit,
     ComeInit, ChargedInit
<1>2. ASSUME Inv, [DualNext]_dualvars, MovesInTime, MovesInTime' PROVE Inv'
  <2>1. Shape'
    BY <1>2, ShapeStep, GeneratorShape
  <2>2. Places' /\ Traced'
    BY <1>2, <2>1, PlacesStep, GeneratorPlaces, StepShared
  <2>3. Genuine'
    BY <1>2, GenuineStep
  <2>4. Reported' /\ Told'
    BY <1>2, <2>1, ReportedStep, ToldStep
  <2>5. (BothRun => Paced)'
    BY <1>2, PacedStep
  <2>6. Alone' /\ AllSteady' /\ Come'
    BY <1>2, AloneStep, SteadyStep, ComeStep
  <2>7. AllCharged' /\ AccountingAtFinish'
    BY <1>2, <2>1, <2>3, ChargedStep, AccountingStep
  <2>8. QED
    BY <2>1, <2>2, <2>3, <2>4, <2>5, <2>6, <2>7
<1>3. Inv => Accounting
  BY GenuineShows DEF Accounting, Reported
<1> HIDE DEF Inv
<1>4. QED
  BY <1>1, <1>2, <1>3, PTL DEF DualSpec

-----------------------------------------------------------------------------
(* The load table, as long as both sub-schedulers run.  Between the moment *)
(* the clock goes on and the comparison of the loads, nobody works: what   *)
(* is left to do changes only by what the dispatcher routes.               *)

\* What a sub-scheduler takes is as much as what it was sent.
LEMMA FetchedLoad ==
  ASSUME Shape, Places, Traced, Genuine, NEW c \in CPUs, NoEnd(c)
  PROVE  /\ LeftBehind(c) = <<>>
         /\ sub[c].ready \in Seq(Procs) /\ sub[c].ready \o NewProcs(c) \in Seq(Procs)
         /\ Remaining(sub[c].ready \o NewProcs(c), DrainedPCB(c))
               = Remaining(sub[c].ready, pcb)
                 + Total(Carried(submsg[c]), [p \in AllProcs |-> Runtime(p)])
<1> DEFINE q == sub[c].ready
           r == NewProcs(c)
           f == [p \in AllProcs |-> DrainedPCB(c)[p].remaining_time]
           g == [p \in AllProcs |-> pcb[p].remaining_time]
           h == [p \in AllProcs |-> Runtime(p)]
<1>1. submsg[c] \in Seq(RealOrder) /\ submsg[c] \in Seq(Order) /\ q \in Seq(Procs)
  BY SubReads DEF Genuine
<1>2. EndAt(c) = 0 /\ Taken(c) = Len(submsg[c])
  BY DrainUntold DEF Taken
<1>3. /\ LeftBehind(c) \in Seq(Order) /\ Len(LeftBehind(c)) = Len(submsg[c]) - Taken(c)
      /\ Len(submsg[c]) \in Nat
  BY <1>1, TakenIs
<1>4. Len(LeftBehind(c)) = 0
  BY <1>2, <1>3
<1>5. LeftBehind(c) = <<>>
  BY <1>3, <1>4
<1>6. r = Carried(submsg[c])
  <2>1. DOMAIN submsg[c] = 1..Len(submsg[c])
    BY <1>1
  <2>2. QED
    BY <1>2, <2>1 DEF NewProcs, Carried
<1>7. r \in Seq(Procs)
  <2>1. \A i \in 1..Len(submsg[c]) : submsg[c][i] \in RealOrder /\ submsg[c][i].mtype # MTYPE_TERMINATE
    BY <1>1 DEF NoEnd
  <2>2. \A i \in 1..Len(submsg[c]) : submsg[c][i].proc \in Procs
    BY <2>1, RealMessages
  <2>3. r = [i \in 1..Len(submsg[c]) |-> submsg[c][i].proc]
    BY <1>2 DEF NewProcs
  <2> HIDE DEF r
  <2>4. QED
    BY <1>3, <2>2, <2>3
<1>8. f \in [AllProcs -> Int] /\ g \in [AllProcs -> Int] /\ h \in [AllProcs -> Int]
  <2>1. DrainedPCB(c) \in [AllProcs -> PCBRec] /\ pcb \in [AllProcs -> PCBRec]
    BY DrainTypes, SubReads
  <2>2. \A p \in AllProcs : Runtime(p) \in Nat
    BY SubReads, WorkloadFacts
  <2>3. QED
    BY <2>1, <2>2 DEF PCBRec
<1>9. \A i \in DOMAIN q : f[q[i]] = g[q[i]]
  <2>1. \A p \in Procs : p \in AllProcs /\ DrainedPCB(c)[p] = pcb[p]
    BY DrainedSame DEF AllProcs
  <2>2. \A i \in DOMAIN q : q[i] \in Procs
    BY <1>1
  <2>3. QED
    BY <2>1, <2>2
<1>10. \A i \in DOMAIN r : f[r[i]] = h[r[i]]
  <2>1. SUFFICES ASSUME NEW i \in DOMAIN r PROVE f[r[i]] = h[r[i]]
    OBVIOUS
  <2>2. r[i] \in Procs /\ r[i] \in AllProcs /\ r[i] \in ToSet(r)
    BY <1>7 DEF AllProcs, ToSet
  <2>3. DrainedPCB(c)[r[i]] = NewPCB(r[i])
    BY <2>2 DEF DrainedPCB
  <2>4. NewPCB(r[i]).remaining_time = Runtime(r[i])
    BY DEF NewPCB
  <2>5. QED
    BY <2>2, <2>3, <2>4
<1>11. q \in Seq(AllProcs) /\ r \in Seq(AllProcs) /\ q \o r \in Seq(Procs)
  <2>1. Procs \subseteq AllProcs
    BY DEF AllProcs
  <2> HIDE DEF q, r
  <2>2. QED
    BY <1>1, <1>7, <2>1
<1> HIDE DEF f, g, h, q, r
<1>12. Total(q \o r, f) = Total(q, f) + Total(r, f)
  BY <1>8, <1>11, TotalConcat
<1>13. Total(q, f) = Total(q, g) /\ Total(r, f) = Total(r, h)
  BY <1>9, <1>10, <1>11, TotalSame
<1>14. QED
  BY <1>1, <1>5, <1>6, <1>11, <1>12, <1>13 DEF f, g, h, q, r, Remaining

LEMMA RemainingSame ==
  ASSUME NEW q \in Seq(Procs), NEW r, NEW s,
         \A p \in Procs : p \in ToSet(q) => r[p].remaining_time = s[p].remaining_time
  PROVE  Remaining(q, r) = Remaining(q, s)
<1> DEFINE f == [p \in AllProcs |-> r[p].remaining_time]
           g == [p \in AllProcs |-> s[p].remaining_time]
<1>1. \A i \in DOMAIN q : f[q[i]] = g[q[i]]
  <2>1. \A i \in DOMAIN q : q[i] \in Procs /\ q[i] \in AllProcs /\ q[i] \in ToSet(q)
    BY DEF AllProcs, ToSet
  <2>2. QED
    BY <2>1
<1> HIDE DEF f, g
<1>2. Total(q, f) = Total(q, g)
  BY <1>1, TotalSame
<1>3. QED
  BY <1>2 DEF f, g, Remaining

\* What is left to do on a CPU that nobody touches.
LEMMA LeftKept ==
  ASSUME NEW c \in CPUs, sub[c].ready \in Seq(Procs),
         sub'[c].ready = sub[c].ready, sub'[c].curr = sub[c].curr, shmRT'[c] = shmRT[c],
         submsg'[c] = submsg[c], workload' = workload,
         \A p \in Procs : p \in ToSet(sub[c].ready) => pcb'[p].remaining_time = pcb[p].remaining_time
  PROVE  LeftToDo(c)' = LeftToDo(c)
<1>1. Remaining(sub[c].ready, pcb') = Remaining(sub[c].ready, pcb)
  BY RemainingSame
<1>2. \A p : Runtime(p)' = Runtime(p)
  BY DEF Runtime
<1>3. RunningRT(c)' = RunningRT(c)
  BY DEF RunningRT
<1>4. QED
  BY <1>1, <1>2, <1>3 DEF LeftToDo

LEMMA LeftTypes ==
  ASSUME Shape, NEW c \in CPUs
  PROVE  /\ Remaining(sub[c].ready, pcb) \in Int /\ RunningRT(c) \in Int
         /\ Total(Carried(submsg[c]), [p \in AllProcs |-> Runtime(p)]) \in Int
         /\ LeftToDo(c) \in Int
<1>1. /\ sub[c] \in SubRec /\ pcb \in [AllProcs -> PCBRec] /\ shmRT \in [CPUs -> Nat]
      /\ submsg[c] \in Seq(Order)
  BY SubReads
<1>2. Remaining(sub[c].ready, pcb) \in Nat
  BY <1>1, RemainingNat DEF SubRec
<1>3. RunningRT(c) \in Nat
  BY <1>1 DEF RunningRT, NotBelow0
<1>4. Total(Carried(submsg[c]), [p \in AllProcs |-> Runtime(p)]) \in Nat
  <2>1. Carried(submsg[c]) \in Seq(AllProcs)
    BY <1>1, CarriedIs, MessageIs
  <2>2. [p \in AllProcs |-> Runtime(p)] \in [AllProcs -> Nat]
    BY SubReads, WorkloadFacts
  <2> DEFINE h == [p \in AllProcs |-> Runtime(p)]
  <2> HIDE DEF h
  <2>3. h \in [AllProcs -> Nat]
    BY <2>2 DEF h
  <2>4. Total(Carried(submsg[c]), h) \in Nat
    BY <2>1, <2>3, TotalNat
  <2>5. QED
    BY <2>4 DEF h
<1>5. QED
  BY <1>2, <1>3, <1>4 DEF LeftToDo


\* A process is in one queue or on one CPU.
LEMMA Apart ==
  ASSUME Shape, Places, NEW c \in CPUs, NEW d \in CPUs, NEW p \in Procs, sub[c].curr = p
  PROVE  /\ p \notin ToSet(sub[d].ready)
         /\ sub[d].curr = p => d = c
<1>1. /\ RunningOn(c) \in Locations /\ RunningOn(d) \in Locations /\ ReadyOn(d) \in Locations
      /\ RunningOn(c) # ReadyOn(d) /\ (c # d => RunningOn(c) # RunningOn(d))
  BY LocationsAre
<1>2. /\ Place[RunningOn(c)] = OnCPU(sub[c].curr) /\ Place[RunningOn(d)] = OnCPU(sub[d].curr)
      /\ Place[ReadyOn(d)] = sub[d].ready
  BY PlaceAt
<1>3. \A l, m \in Locations : l # m => Real(Place[l]) \cap Real(Place[m]) = {}
  BY DEF Places, Sound
<1>4. p \in Real(OnCPU(p))
  BY OnCPUIs DEF AllProcs
<1>5. QED
  BY <1>1, <1>2, <1>3, <1>4 DEF Real

\* The shared word of a CPU holds what the child there has left.
Mirrored ==
    \A c \in CPUs : sub[c].curr # NoOne =>
        child[sub[c].curr].cpu = c /\ shmRT[c] = child[sub[c].curr].remainingtime

LEMMA MirroredKept ==
  ASSUME Shape, Genuine, Mirrored, shmRT' = shmRT,
         \A c \in CPUs : sub'[c].curr \in {sub[c].curr, NoOne},
         \A p \in Procs : child'[p].cpu = child[p].cpu
                          /\ child'[p].remainingtime = child[p].remainingtime
  PROVE  Mirrored'
<1>1. SUFFICES ASSUME NEW c \in CPUs, sub'[c].curr # NoOne
               PROVE  child'[sub'[c].curr].cpu = c
                      /\ shmRT'[c] = child'[sub'[c].curr].remainingtime
  BY DEF Mirrored
<1>2. sub'[c].curr = sub[c].curr /\ sub[c].curr \in Procs
  BY <1>1 DEF Genuine
<1>3. QED
  BY <1>1, <1>2 DEF Mirrored

LEMMA SubMirrored ==
  ASSUME Shape, Places, Genuine, Mirrored, NEW c \in CPUs, SubScheduler(c) \/ Handler(c)
  PROVE  Mirrored'
<1>1. /\ sub \in [CPUs -> SubRec] /\ sub[c] \in SubRec /\ child \in [AllProcs -> ChildRec]
      /\ shmRT \in [CPUs -> Nat] /\ Procs \subseteq AllProcs
  BY SubReads DEF AllProcs
<1>2. ASSUME NEW s, sub' = [sub EXCEPT ![c] = s], s.curr \in {sub[c].curr, NoOne},
             shmRT' = shmRT,
             \/ child' = child
             \/ \E b \in BOOLEAN : child' = [child EXCEPT ![sub[c].curr].stopped = b]
      PROVE  Mirrored'
  <2>1. sub'[c] = s /\ \A d \in CPUs \ {c} : sub'[d] = sub[d]
    BY <1>2, OwnKept
  <2>2. \A p \in Procs : child'[p].cpu = child[p].cpu
                         /\ child'[p].remainingtime = child[p].remainingtime
    <3>1. SUFFICES ASSUME NEW b \in BOOLEAN, child' = [child EXCEPT ![sub[c].curr].stopped = b]
                   PROVE  \A p \in Procs : child'[p].cpu = child[p].cpu
                                           /\ child'[p].remainingtime = child[p].remainingtime
      BY <1>2
    <3>2. \A p \in Procs : child[p] \in ChildRec
                           /\ child'[p] \in {child[p], [child[p] EXCEPT !.stopped = b]}
      BY <1>1, <3>1
    <3>3. QED
      BY <3>2 DEF ChildRec
  <2>3. QED
    BY <1>2, <2>1, <2>2, MirroredKept
<1>3. Drained(c).curr = sub[c].curr /\ Drained(c) \in SubRec
  BY DrainTypes
<1>4. CASE Spin(c)
  <2> DEFINE s == [Drained(c) EXCEPT !.pc = "spin",
                                     !.pub = LoadOf(c, Drained(c).ready, DrainedPCB(c))]
  <2>1. sub' = [sub EXCEPT ![c] = s] /\ shmRT' = shmRT /\ child' = child
    BY <1>4 DEF Spin, childvars
  <2>2. s.curr = sub[c].curr
    BY <1>3 DEF SubRec
  <2> HIDE DEF s
  <2>3. QED
    BY <1>2, <2>1, <2>2
<1>5. CASE SubNewTick(c)
  <2> DEFINE s == [Drained(c) EXCEPT !.pc = IF processFinished[c] THEN "finish" ELSE "down",
                                     !.now = clk]
  <2>1. sub' = [sub EXCEPT ![c] = s] /\ shmRT' = shmRT /\ child' = child
    BY <1>5 DEF SubNewTick, childvars
  <2>2. s.curr = sub[c].curr
    BY <1>3 DEF SubRec
  <2> HIDE DEF s
  <2>3. QED
    BY <1>2, <2>1, <2>2
<1>6. CASE SubFinish(c)
  <2> DEFINE s == [sub[c] EXCEPT !.curr = NoOne, !.pc = "down", !.csu = sub[c].now + 1]
  <2>1. sub' = [sub EXCEPT ![c] = s] /\ shmRT' = shmRT /\ child' = child
    BY <1>6 DEF SubFinish
  <2>2. s.curr = NoOne
    BY <1>1 DEF SubRec
  <2> HIDE DEF s
  <2>3. QED
    BY <1>2, <2>1, <2>2
<1>7. CASE Frame(c)
  <2> DEFINE s == [Drained(c) EXCEPT !.pc = "dispatch", !.last_tick = sub[c].now,
                                     !.stalled = sub[c].stalled /\ ~StallOver(c)]
  <2>1. sub' = [sub EXCEPT ![c] = s] /\ shmRT' = shmRT
        /\ (child' = child \/ child' = [child EXCEPT ![sub[c].curr].stopped = FALSE])
    BY <1>7 DEF Frame
  <2>2. s.curr = sub[c].curr
    BY <1>3 DEF SubRec
  <2> HIDE DEF s
  <2>3. QED
    BY <1>2, <2>1, <2>2
<1>8. CASE OnSIGUSR2(c)
  <2> DEFINE s == [Drained(c) EXCEPT !.stalled = TRUE, !.stall_end = StallEnd]
  <2>1. sub' = [sub EXCEPT ![c] = s] /\ shmRT' = shmRT
        /\ (child' = child \/ child' = [child EXCEPT ![sub[c].curr].stopped = TRUE])
    BY <1>8 DEF OnSIGUSR2
  <2>2. s.curr = sub[c].curr
    BY <1>3 DEF SubRec
  <2> HIDE DEF s
  <2>3. QED
    BY <1>2, <2>1, <2>2
<1>9. CASE OnSIGURG(c)
  <2>1. PICK s \in {Drained(c), [Drained(c) EXCEPT !.ready = AllButLast(Drained(c).ready)]} :
            sub' = [sub EXCEPT ![c] = s]
    BY <1>9 DEF OnSIGURG
  <2>2. shmRT' = shmRT /\ child' = child
    BY <1>9 DEF OnSIGURG, childvars
  <2>3. s.curr = sub[c].curr
    BY <1>3, <2>1 DEF SubRec
  <2>4. QED
    BY <1>2, <2>1, <2>2, <2>3
<1>10. CASE SubDispatch(c)
  <2> DEFINE p == Head(sub[c].ready)
             left == pcb[p].remaining_time
             s == [sub[c] EXCEPT !.pc = "compute", !.curr = p, !.csu = -1,
                                 !.ready = Rest(sub[c].ready)]
  <2>1. /\ sub' = [sub EXCEPT ![c] = s] /\ shmRT' = [shmRT EXCEPT ![c] = left]
        /\ child' = [child EXCEPT ![p] = [pc |-> AfterTick(left), cpu |-> c, stopped |-> FALSE,
                                          remainingtime |-> left]]
        /\ sub[c].ready # <<>>
    BY <1>10 DEF SubDispatch, RunProcess, CanDispatch
  <2>2. s.curr = p
    BY <1>1 DEF SubRec
  <2>3. p \in Procs /\ p \in AllProcs /\ p \in ToSet(sub[c].ready)
    <3>1. sub[c].ready \in Seq(Procs)
      BY DEF Genuine
    <3>2. QED
      BY <1>1, <2>1, <3>1 DEF ToSet
  <2>4. sub'[c] = s /\ \A d \in CPUs \ {c} : sub'[d] = sub[d]
    BY <2>1, OwnKept
  <2> HIDE DEF s, p, left
  <2>5. SUFFICES ASSUME NEW d \in CPUs, sub'[d].curr # NoOne
                 PROVE  child'[sub'[d].curr].cpu = d
                        /\ shmRT'[d] = child'[sub'[d].curr].remainingtime
    BY DEF Mirrored
  <2>6. CASE d = c
    <3>1. sub'[d].curr = p /\ child'[p].cpu = c /\ child'[p].remainingtime = left
      BY <1>1, <2>1, <2>2, <2>3, <2>4, <2>6
    <3>2. shmRT'[d] = left
      BY <1>1, <2>1, <2>6
    <3>3. QED
      BY <2>6, <3>1, <3>2
  <2>7. CASE d # c
    <3>1. sub'[d].curr = sub[d].curr /\ sub[d].curr \in Procs
      BY <2>4, <2>5, <2>7 DEF Genuine
    <3>2. sub[d].curr # p
      BY <2>3, <3>1, Apart
    <3>3. child'[sub[d].curr] = child[sub[d].curr] /\ shmRT'[d] = shmRT[d]
      BY <1>1, <2>1, <2>7, <3>1, <3>2
    <3>4. QED
      BY <2>5, <3>1, <3>3 DEF Mirrored
  <2>8. QED
    BY <2>6, <2>7
<1>11. CASE \/ Publish(c, "spin", "loop") \/ DownGate(c) \/ NoDispatch(c)
            \/ Compute(c, "compute", "write") \/ Publish(c, "write", "read") \/ ReadOther(c)
            \/ SubLeave(c) \/ Compute(c, "left", "last") \/ Publish(c, "last", "ack")
            \/ SubAck(c) \/ SubExit(c)
  <2>1. shmRT' = shmRT /\ child' = child
    BY <1>11 DEF Publish, DownGate, NoDispatch, Compute, ReadOther, SubLeave, SubAck, SubExit, childvars
  <2>2. CASE \/ DownGate(c) \/ NoDispatch(c) \/ SubLeave(c) \/ SubAck(c) \/ SubExit(c)
    <3>1. \E l : sub' = [sub EXCEPT ![c].pc = l]
      BY <2>2 DEF DownGate, NoDispatch, SubLeave, SubAck, SubExit, SubGoto
    <3>2. PICK l : sub' = [sub EXCEPT ![c] = [sub[c] EXCEPT !.pc = l]]
      BY <3>1
    <3> DEFINE s == [sub[c] EXCEPT !.pc = l]
    <3>3. sub' = [sub EXCEPT ![c] = s] /\ s.curr = sub[c].curr
      BY <1>1, <3>2 DEF SubRec
    <3> HIDE DEF s
    <3>4. QED
      BY <1>2, <2>1, <3>3
  <2>3. CASE \/ Publish(c, "spin", "loop") \/ Publish(c, "write", "read") \/ Publish(c, "last", "ack")
             \/ Compute(c, "compute", "write") \/ Compute(c, "left", "last")
    <3>1. \E l, b : sub' = [sub EXCEPT ![c].pc = l, ![c].pub = b]
      BY <2>3 DEF Publish, Compute
    <3>2. PICK l, b : sub' = [sub EXCEPT ![c].pc = l, ![c].pub = b]
      BY <3>1
    <3> DEFINE s == [sub[c] EXCEPT !.pc = l, !.pub = b]
    <3>3. sub' = [sub EXCEPT ![c] = s] /\ s.curr = sub[c].curr
      BY <1>1, <3>2 DEF SubRec
    <3> HIDE DEF s
    <3>4. QED
      BY <1>2, <2>1, <3>3
  <2>4. CASE ReadOther(c)
    <3>1. sub' = [sub EXCEPT ![c].pc = "loop", ![c].remaining = load[Other(c)].rt]
      BY <2>4 DEF ReadOther
    <3> DEFINE s == [sub[c] EXCEPT !.pc = "loop", !.remaining = load[Other(c)].rt]
    <3>2. sub' = [sub EXCEPT ![c] = s] /\ s.curr = sub[c].curr
      BY <1>1, <3>1 DEF SubRec
    <3> HIDE DEF s
    <3>3. QED
      BY <1>2, <2>1, <3>2
  <2>5. QED
    BY <1>11, <2>2, <2>3, <2>4
<1>12. QED
  BY <1>4, <1>5, <1>6, <1>7, <1>8, <1>9, <1>10, <1>11 DEF SubScheduler, Handler


LEMMA ChildMirrored ==
  ASSUME Shape, Genuine, Mirrored, NEW x \in AllProcs, Child(x)
  PROVE  Mirrored'
<1>1. /\ UNCHANGED sub /\ child \in [AllProcs -> ChildRec] /\ child[x] \in ChildRec
      /\ shmRT \in [CPUs -> Nat] /\ Procs \subseteq AllProcs
  BY DEF Child, subvars, AllProcs, Shape, ChildTypes
<1>2. CASE ChildExit(x)
  <2>1. shmRT' = shmRT /\ child' = [child EXCEPT ![x] = [child[x] EXCEPT !.pc = "dead"]]
    BY <1>1, <1>2 DEF ChildExit
  <2>2. /\ [child[x] EXCEPT !.pc = "dead"].cpu = child[x].cpu
        /\ [child[x] EXCEPT !.pc = "dead"].remainingtime = child[x].remainingtime
    BY <1>1 DEF ChildRec
  <2>3. \A p \in Procs : child'[p].cpu = child[p].cpu
                         /\ child'[p].remainingtime = child[p].remainingtime
    BY <1>1, <2>1, <2>2
  <2>4. QED
    BY <1>1, <2>1, <2>3, MirroredKept
<1>3. CASE ChildTick(x)
  <2> DEFINE k == child[x].cpu
             left == child[x].remainingtime - 1
             r == [child[x] EXCEPT !.remainingtime = left, !.pc = AfterTick(left)]
  <2>1. /\ shmRT' = [shmRT EXCEPT ![k] = left] /\ child' = [child EXCEPT ![x] = r]
        /\ child[x].pc = "down"
    BY <1>1, <1>3 DEF ChildTick, Runs
  <2>2. r.cpu = k /\ r.remainingtime = left /\ k \in CPUs
    BY <1>1 DEF ChildRec
  <2>3. sub[k].curr = x
    BY <2>1 DEF Shape, Served
  <2> HIDE DEF k, left, r
  <2>4. SUFFICES ASSUME NEW d \in CPUs, sub[d].curr # NoOne
                 PROVE  child'[sub[d].curr].cpu = d
                        /\ shmRT'[d] = child'[sub[d].curr].remainingtime
    BY <1>1 DEF Mirrored
  <2>5. child[sub[d].curr].cpu = d /\ shmRT[d] = child[sub[d].curr].remainingtime
    BY <2>4 DEF Mirrored
  <2>6. CASE sub[d].curr = x
    <3>1. d = k
      BY <2>5, <2>6 DEF k
    <3>2. QED
      BY <1>1, <2>1, <2>2, <2>6, <3>1
  <2>7. CASE sub[d].curr # x
    <3>1. d # k
      BY <2>3, <2>7
    <3>2. sub[d].curr \in AllProcs
      BY <1>1, <2>4 DEF Genuine
    <3>3. child'[sub[d].curr] = child[sub[d].curr] /\ shmRT'[d] = shmRT[d]
      BY <1>1, <2>1, <2>7, <3>1, <3>2
    <3>4. QED
      BY <2>5, <3>3
  <2>8. QED
    BY <2>6, <2>7
<1>4. QED
  BY <1>2, <1>3 DEF Child

LEMMA MirroredStep ==
  ASSUME Shape, Places, Genuine, Mirrored, [DualNext]_dualvars
  PROVE  Mirrored'
<1>1. CASE Dispatcher
  <2>1. UNCHANGED childvars /\ (UNCHANGED sub \/ OpenGate)
    BY <1>1 DEF Dispatcher, SpinAcks, NewTick, ReceiveProcess, ReceiveSync, ReceiveEnd,
         Algo, Route, PublishRoutes, Check, NoCheck, NothingStolen, Stolen,
         PublishMove, WaitOver, Open, After, Leave, Exit, subvars
  <2>2. \A c \in CPUs : sub'[c].curr = sub[c].curr
    BY <2>1, OpenKeepsOne
  <2>3. QED
    BY <2>1, <2>2, MirroredKept DEF childvars
<1>2. CASE ClockTick \/ Generator \/ Terminated \/ UNCHANGED dualvars
  BY <1>2 DEF ClockTick, Generator, Terminated, dualvars, subvars, childvars, Mirrored
<1>3. QED
  BY <1>1, <1>2, SubMirrored, ChildMirrored DEF DualNext

LEMMA MirroredInit == DualInit => Mirrored
  BY DEF DualInit, IdleSub, Mirrored


\* From the moment the clock goes on until the dispatcher has compared the loads.
Early ==
    clk > 0 /\ (pc \in {"receive", "algo", "route", "threshold"} \/ (pc = "spin" /\ clk # now))

\* Neither of the two cases in which a sub-scheduler writes its load then.
Undisturbed == Prompt /\ (movedAt < 0 \/ clk > movedAt + 3)

\* The load that the dispatcher will compare.
CountedLoad(c) == IF pc = "route" THEN projected[c].rt ELSE load[c].rt

\* A sub-scheduler on its way to the gate, which is closed.
Untouched(c) ==
    /\ sub[c].pc \in {"loop", "finish", "down", "gate"}
    /\ sub[c].pc = "loop" => clk # sub[c].last_tick /\ SubBusy(c)
    /\ c \notin urg /\ NoEnd(c)
    /\ CountedLoad(c) = LeftToDo(c)

Calm ==
    Undisturbed /\ Early =>
        (\A p \in AllProcs : ChildWaits(p)) /\ \A c \in CPUs : Untouched(c)

\* The dispatcher has seen the first tick.
Begun == pc # "spin" => now >= 0

\* Whoever comes to the gate then has no message, takes all there are, or ends a
\* process that has nothing left.
LEMMA OwnUntouched ==
  ASSUME Shape, Places, Traced, Genuine, Mirrored, Paced, NEW c \in CPUs,
         SubScheduler(c) \/ Handler(c), Early, Untouched(c), \A p \in AllProcs : ChildWaits(p)
  PROVE  /\ Untouched(c)' /\ UNCHANGED <<sem, child, shmRT>>
         /\ \A d \in CPUs \ {c} : submsg'[d] = submsg[d]
         /\ \A d \in CPUs : \A p \in Procs : d # c /\ p \in ToSet(sub[d].ready) => pcb'[p] = pcb[p]
<1>1. /\ sub \in [CPUs -> SubRec] /\ sub[c] \in SubRec /\ clk \in Int /\ now \in Int
      /\ submsg \in [CPUs -> Seq(Order)] /\ pcb \in [AllProcs -> PCBRec]
      /\ child \in [AllProcs -> ChildRec] /\ shmRT \in [CPUs -> Nat] /\ gate \in 0..2
  BY SubReads, TimeTypes
<1>2. /\ UNCHANGED <<clk, workload, mainvars>> /\ \A d \in CPUs \ {c} : sub'[d] = sub[d]
  BY SubMoves
<1>3. ~OnSIGURG(c) /\ ~OnSIGUSR2(c)
  BY DEF OnSIGURG, OnSIGUSR2, Untouched, Early, Paced, StallsEnd
<1>4. SubNewTick(c) \/ SubFinish(c) \/ DownGate(c)
  BY <1>3 DEF SubScheduler, Handler, Untouched, Spin, Publish, SubNewTick, SubFinish, DownGate,
     Frame, SubDispatch, NoDispatch, Compute, ReadOther, SubLeave, SubAck, SubExit
<1>5. sub[c].ready \in Seq(Procs) /\ sub[c].curr \in Procs \cup {NoOne}
      /\ \A d \in CPUs : sub[d].ready \in Seq(Procs)
  BY DEF Genuine
<1>6. /\ CountedLoad(c)' = CountedLoad(c) /\ urg' = urg
  BY <1>2, <1>4 DEF CountedLoad, mainvars, SubNewTick, SubFinish, DownGate
<1>7. CASE SubNewTick(c)
  <2> DEFINE s == [Drained(c) EXCEPT !.pc = IF processFinished[c] THEN "finish" ELSE "down",
                                     !.now = clk]
             q == sub[c].ready \o NewProcs(c)
             h == [p \in AllProcs |-> Runtime(p)]
  <2>1. /\ sub' = [sub EXCEPT ![c] = s] /\ pcb' = DrainedPCB(c) /\ DrainMessages(c)
        /\ UNCHANGED <<sem, child, shmRT>>
    BY <1>7 DEF SubNewTick, childvars
  <2>2. /\ LeftBehind(c) = <<>>
        /\ Remaining(q, DrainedPCB(c)) = Remaining(sub[c].ready, pcb) + Total(Carried(submsg[c]), h)
    BY FetchedLoad DEF Untouched
  <2>3. /\ s.ready = q /\ s.curr = sub[c].curr /\ s.pc \in {"finish", "down"}
        /\ submsg' = [submsg EXCEPT ![c] = LeftBehind(c)]
    BY <2>1, DrainTypes DEF SubRec
  <2>4. submsg'[c] = <<>> /\ \A d \in CPUs \ {c} : submsg'[d] = submsg[d]
    BY <1>1, <2>2, <2>3
  <2> HIDE DEF s
  <2>5. sub'[c].ready = q /\ sub'[c].curr = sub[c].curr /\ sub'[c].pc \in {"finish", "down"}
    BY <1>1, <2>1, <2>3
  <2>6. \A p \in Procs : pcb'[p] = pcb[p]
    BY <2>1, DrainedSame
  <2>7. Total(Carried(submsg'[c]), h') = 0
    <3>1. Carried(<<>>) = <<>>
      BY DEF Carried
    <3>2. QED
      BY <2>4, <3>1, TotalNone
  <2>8. RunningRT(c)' = RunningRT(c)
    BY <2>1, <2>5 DEF RunningRT
  <2>9. /\ Remaining(sub[c].ready, pcb) \in Int /\ RunningRT(c) \in Int
        /\ Total(Carried(submsg[c]), h) \in Int
    BY LeftTypes
  <2>10. Remaining(sub'[c].ready, pcb') = Remaining(sub[c].ready, pcb) + Total(Carried(submsg[c]), h)
    BY <2>1, <2>2, <2>5
  <2> HIDE DEF h, q
  <2>11. Remaining(sub'[c].ready, pcb') + RunningRT(c)' + Total(Carried(submsg'[c]), h')
           = Remaining(sub[c].ready, pcb) + RunningRT(c) + Total(Carried(submsg[c]), h)
    BY <2>7, <2>8, <2>9, <2>10
  <2>12. LeftToDo(c)' = LeftToDo(c)
    BY <2>11 DEF LeftToDo, h
  <2>13. NoEnd(c)'
    BY <2>4 DEF NoEnd
  <2>14. QED
    BY <1>6, <2>1, <2>4, <2>5, <2>6, <2>12, <2>13 DEF Untouched
<1>8. CASE SubFinish(c)
  <2> DEFINE p == sub[c].curr
             s == [sub[c] EXCEPT !.curr = NoOne, !.pc = "down", !.csu = sub[c].now + 1]
  <2>1. /\ sub' = [sub EXCEPT ![c] = s] /\ UNCHANGED <<sem, child, shmRT, submsg>>
        /\ child[p].pc = "dead" /\ sub[c].pc = "finish"
        /\ \E r : pcb' = [pcb EXCEPT ![p] = r]
    BY <1>8 DEF SubFinish
  <2>2. s.curr = NoOne /\ s.pc = "down" /\ s.ready = sub[c].ready
    BY <1>1 DEF SubRec
  <2> HIDE DEF s
  <2>3. sub'[c].curr = NoOne /\ sub'[c].pc = "down" /\ sub'[c].ready = sub[c].ready
    BY <1>1, <2>1, <2>2
  <2>4. p # NoOne /\ p \in Procs /\ p \in AllProcs
    BY <1>5, <2>1 DEF Shape, Served, AllProcs
  <2>5. shmRT[c] = 0
    BY <2>1, <2>4 DEF Mirrored, Shape, Served
  <2>6. \A d \in CPUs : p \notin ToSet(sub[d].ready)
    BY <2>4, Apart
  <2>7. \A d \in CPUs : \A x \in Procs : x \in ToSet(sub[d].ready) => pcb'[x] = pcb[x]
    BY <1>1, <2>1, <2>4, <2>6
  <2>8. RunningRT(c)' = 0 /\ RunningRT(c) = 0
    BY <2>3, <2>4, <2>5 DEF RunningRT, NotBelow0
  <2>9. Remaining(sub[c].ready, pcb') = Remaining(sub[c].ready, pcb)
    BY <1>5, <2>7, RemainingSame
  <2>10. \A x : Runtime(x)' = Runtime(x)
    BY <1>2 DEF Runtime
  <2>11. LeftToDo(c)' = LeftToDo(c)
    BY <2>1, <2>3, <2>8, <2>9, <2>10 DEF LeftToDo
  <2>12. NoEnd(c)'
    BY <2>1 DEF NoEnd, Untouched
  <2>13. QED
    BY <1>6, <2>1, <2>3, <2>7, <2>11, <2>12 DEF Untouched
<1>9. CASE DownGate(c)
  <2>1. sub[c].pc = "down" /\ UNCHANGED <<sem, child, shmRT, submsg, pcb>>
    BY <1>9 DEF DownGate, childvars
  <2>2. sub[c].now = clk /\ clk > 0
    BY <2>1 DEF Paced, Ticks, Early
  <2>3. ~(gate > 0)
    BY <1>1, <2>2 DEF Early, Paced, Timed, HeldAtStart, HeldClosed, HeldOpen, Opened
  <2>4. sub' = [sub EXCEPT ![c].pc = "gate"]
    BY <1>1, <1>9, <2>2, <2>3 DEF DownGate, PassesFreely, SubGoto
  <2>5. sub'[c] = [sub[c] EXCEPT !.pc = "gate"]
    BY <1>1, <2>4
  <2>6. sub'[c].pc = "gate" /\ sub'[c].ready = sub[c].ready /\ sub'[c].curr = sub[c].curr
    BY <1>1, <2>5 DEF SubRec
  <2>7. LeftToDo(c)' = LeftToDo(c)
    BY <1>2, <1>5, <2>1, <2>6, LeftKept
  <2>8. NoEnd(c)'
    BY <2>1 DEF NoEnd, Untouched
  <2>9. QED
    BY <1>6, <2>1, <2>6, <2>7, <2>8 DEF Untouched
<1>10. QED
  BY <1>4, <1>7, <1>8, <1>9


\* What the others have to leave alone.
LEMMA UntouchedKept ==
  ASSUME NEW c \in CPUs, Untouched(c), sub[c].ready \in Seq(Procs), UNCHANGED <<clk, workload>>,
         sub'[c] = sub[c], submsg'[c] = submsg[c], shmRT'[c] = shmRT[c], urg' \subseteq urg,
         CountedLoad(c)' = CountedLoad(c),
         \A p \in Procs : p \in ToSet(sub[c].ready) => pcb'[p] = pcb[p]
  PROVE  Untouched(c)'
<1>1. LeftToDo(c)' = LeftToDo(c)
  BY LeftKept
<1>2. QED
  BY <1>1 DEF Untouched, SubBusy, NoEnd

LEMMA SubCalm ==
  ASSUME Shape, Places, Traced, Genuine, Mirrored, Paced, Calm,
         NEW c \in CPUs, SubScheduler(c) \/ Handler(c)
  PROVE  Calm'
<1>1. UNCHANGED <<clk, workload, mainvars>> /\ \A d \in CPUs \ {c} : sub'[d] = sub[d]
  BY SubMoves
<1>2. UNCHANGED <<pc, now, movedAt, projected>>
  BY <1>1 DEF mainvars, stallvars
<1>3. SUFFICES ASSUME Undisturbed, Early
               PROVE  (\A p \in AllProcs : ChildWaits(p)') /\ \A d \in CPUs : Untouched(d)'
  BY <1>1, <1>2 DEF Calm, Undisturbed, Early, Prompt
<1>4. (\A p \in AllProcs : ChildWaits(p)) /\ \A d \in CPUs : Untouched(d)
  BY <1>3 DEF Calm
<1>5. /\ Untouched(c)' /\ UNCHANGED <<sem, child, shmRT>>
      /\ \A d \in CPUs \ {c} : submsg'[d] = submsg[d]
      /\ \A d \in CPUs : \A p \in Procs : d # c /\ p \in ToSet(sub[d].ready) => pcb'[p] = pcb[p]
  BY <1>3, <1>4, OwnUntouched
<1>6. \A p \in AllProcs : ChildWaits(p)'
  BY <1>4, <1>5 DEF ChildWaits
<1>7. urg' \subseteq urg
  BY DEF SubScheduler, Handler, Spin, Publish, SubNewTick, SubFinish, DownGate, Frame, SubDispatch,
         NoDispatch, Compute, ReadOther, SubLeave, SubAck, SubExit, OnSIGURG, OnSIGUSR2
<1>8. ASSUME NEW d \in CPUs, d # c PROVE load'[d] = load[d]
  <2>1. load' = load \/ \E l : load' = [load EXCEPT ![c] = l]
    BY DEF SubScheduler, Handler, Spin, Publish, SubNewTick, SubFinish, DownGate, Frame,
           SubDispatch, NoDispatch, Compute, ReadOther, SubLeave, SubAck, SubExit, OnSIGURG, OnSIGUSR2
  <2>2. load \in [CPUs -> LoadRec]
    BY DEF Shape, LoadTypes
  <2>3. QED
    BY <1>8, <2>1, <2>2
<1>9. ASSUME NEW d \in CPUs, d # c PROVE Untouched(d)'
  <2>1. CountedLoad(d)' = CountedLoad(d)
    BY <1>2, <1>8, <1>9 DEF CountedLoad
  <2>2. sub[d].ready \in Seq(Procs)
    BY DEF Genuine
  <2>3. QED
    BY <1>1, <1>4, <1>5, <1>7, <1>9, <2>1, <2>2, UntouchedKept
<1>10. QED
  BY <1>5, <1>6, <1>9

LEMMA ChildCalm ==
  ASSUME Calm, NEW x \in AllProcs, Child(x)
  PROVE  Calm'
<1>1. UNCHANGED <<clk, workload, pc, now, movedAt>>
  BY DEF Child, mainvars, stallvars
<1>2. ~ChildWaits(x)
  BY DEF Child, ChildTick, ChildExit, Runs, ChildWaits
<1>3. ~(Undisturbed /\ Early)
  BY <1>2 DEF Calm
<1>4. QED
  BY <1>1, <1>3 DEF Calm, Undisturbed, Early, Prompt

\* A tick begins when nobody has anything to do, and all loads have been published.
LEMMA ClockCalm ==
  ASSUME Shape, BothRun, Genuine, Paced, ClockTick
  PROVE  Calm'
<1>1. /\ clk' = clk + 1 /\ clk \in Int /\ now \in Int /\ clk >= 0
      /\ UNCHANGED <<workload, sub, pcb, child, sem, shmRT, load, submsg, urg, pc, now, movedAt,
                     projected>>
  BY TimeTypes DEF ClockTick, subvars, childvars, msgvars, mainvars, stallvars, Shape, InputTypes
<1>2. SUFFICES ASSUME Undisturbed', Early'
               PROVE  (\A p \in AllProcs : ChildWaits(p)') /\ \A c \in CPUs : Untouched(c)'
  BY DEF Calm
<1>3. pc = "spin" /\ clk = now
  BY <1>1, <1>2, ClockWaits DEF Early
<1>4. \A p \in AllProcs : ChildWaits(p)'
  BY <1>1 DEF ClockTick, ChildWaits
<1>5. Prompt
  BY <1>1, <1>2 DEF Undisturbed, Prompt
<1>6. SUFFICES ASSUME NEW c \in CPUs PROVE Untouched(c)'
  BY <1>4
<1>7. sub[c].pc # "gate"
  BY <1>1, <1>3 DEF Paced, HeldAtStart, HeldOpen, Opened
<1>8. /\ sub[c].pc = "loop" /\ SubBusy(c) /\ sub[c].last_tick = clk /\ c \notin urg
      /\ submsg[c] = <<>> /\ load[c] = LoadOf(c, sub[c].ready, pcb)
  BY <1>5, <1>7, ClockWaits DEF ClockTick, SubWaits, Spinning, NothingNew, BothRun, Ending
<1>9. load[c].rt = LeftToDo(c)
  <2>1. load[c].rt = Remaining(sub[c].ready, pcb) + RunningRT(c)
    BY <1>8 DEF LoadOf
  <2>2. Carried(submsg[c]) = <<>>
    BY <1>8 DEF Carried
  <2>3. Total(Carried(submsg[c]), [p \in AllProcs |-> Runtime(p)]) = 0
    BY <2>2, TotalNone
  <2>4. Remaining(sub[c].ready, pcb) \in Int /\ RunningRT(c) \in Int
    BY LeftTypes
  <2>5. QED
    BY <2>1, <2>3, <2>4 DEF LeftToDo
<1>10. LeftToDo(c)' = LeftToDo(c)
  BY <1>1, LeftKept DEF Genuine
<1>11. CountedLoad(c)' = LeftToDo(c)'
  BY <1>1, <1>3, <1>9, <1>10 DEF CountedLoad
<1>12. SubBusy(c)' /\ clk' # sub'[c].last_tick
  BY <1>1, <1>8 DEF SubBusy
<1>13. NoEnd(c)'
  BY <1>1, <1>8 DEF NoEnd
<1>14. QED
  BY <1>1, <1>8, <1>11, <1>12, <1>13 DEF Untouched


\* One more process to do on the CPU that it is sent to.
LEMMA RouteLeft ==
  ASSUME Shape, Genuine, NEW c \in CPUs, NEW p \in Procs,
         submsg' = Sent(c, Msg(MTYPE_NEW_PROCESS, p)),
         UNCHANGED <<workload, sub, pcb, shmRT>>
  PROVE  /\ LeftToDo(c)' = LeftToDo(c) + Runtime(p)
         /\ \A d \in CPUs \ {c} : submsg'[d] = submsg[d]
         /\ submsg'[c] = Append(submsg[c], Msg(MTYPE_NEW_PROCESS, p))
<1> DEFINE m == Msg(MTYPE_NEW_PROCESS, p)
           h == [x \in AllProcs |-> Runtime(x)]
           q == Carried(submsg[c])
<1>1. /\ submsg \in [CPUs -> Seq(Order)] /\ submsg[c] \in Seq(RealOrder)
      /\ submsg[c] \in Seq(Message) /\ m \in Message /\ m.proc = p /\ p \in AllProcs
  <2>1. submsg \in [CPUs -> Seq(Order)] /\ submsg[c] \in Seq(RealOrder)
    BY DEF Shape, MessageTypes, Genuine
  <2>2. m \in RealOrder /\ m.proc = p
    BY RealMessages DEF Msg
  <2>3. submsg[c] \in Seq(Message) /\ m \in Message
    <3>1. submsg[c] \in Seq(Order)
      BY <2>1
    <3>2. m \in Message
      BY DEF Msg, Message, MTYPE_NEW_PROCESS, AllProcs
    <3>3. QED
      BY <3>1, <3>2, MessageIs
  <2>4. QED
    BY <2>1, <2>2, <2>3 DEF AllProcs
<1>2. submsg'[c] = Append(submsg[c], m) /\ \A d \in CPUs \ {c} : submsg'[d] = submsg[d]
  BY <1>1 DEF Sent
<1>3. h \in [AllProcs -> Int] /\ h[p] = Runtime(p)
  <2>1. \A x \in AllProcs : Runtime(x) \in Nat
    BY SubReads, WorkloadFacts
  <2>2. QED
    BY <1>1, <2>1
<1> HIDE DEF m, h
<1>4. q \in Seq(AllProcs) /\ Len(q) = Len(submsg[c]) /\ \A i \in 1..Len(q) : q[i] = submsg[c][i].proc
  BY <1>1, CarriedIs
<1>5. Carried(Append(submsg[c], m)) = q \o <<p>>
  <2> DEFINE a == Append(submsg[c], m)
             r == Carried(a)
  <2>1. a \in Seq(Message) /\ Len(a) = Len(submsg[c]) + 1 /\ a[Len(submsg[c]) + 1] = m
        /\ Len(submsg[c]) \in Nat /\ \A i \in 1..Len(submsg[c]) : a[i] = submsg[c][i]
    BY <1>1
  <2> HIDE DEF a
  <2>2. r \in Seq(AllProcs) /\ Len(r) = Len(a) /\ \A i \in 1..Len(a) : r[i] = a[i].proc
    BY <2>1, CarriedIs
  <2> HIDE DEF r, q
  <2>3. Len(r) = Len(q) + 1 /\ r[Len(q) + 1] = p /\ Len(q) \in Nat
    BY <1>1, <1>4, <2>1, <2>2
  <2>4. \A i \in 1..Len(q) : r[i] = q[i]
    BY <1>4, <2>1, <2>2
  <2>5. q \o <<p>> \in Seq(AllProcs) /\ Len(q \o <<p>>) = Len(q) + 1
        /\ (q \o <<p>>)[Len(q) + 1] = p /\ \A i \in 1..Len(q) : (q \o <<p>>)[i] = q[i]
    BY <1>1, <1>4
  <2>6. r = q \o <<p>>
    <3>1. \A i \in 1..Len(r) : r[i] = (q \o <<p>>)[i]
      BY <2>3, <2>4, <2>5
    <3>2. QED
      BY <2>2, <2>3, <2>5, <3>1
  <2>7. QED
    BY <2>6 DEF r, a
<1> HIDE DEF q
<1>6. Total(q \o <<p>>, h) = Total(q, h) + Runtime(p) /\ Total(q, h) \in Int
  <2>1. <<p>> \in Seq(AllProcs) /\ Total(<<p>>, h) = Runtime(p)
    BY <1>1, <1>3, TotalOne
  <2>2. Total(q \o <<p>>, h) = Total(q, h) + Total(<<p>>, h) /\ Total(q, h) \in Int
    BY <1>3, <1>4, <2>1, TotalConcat
  <2>3. QED
    BY <2>1, <2>2
<1>7. h' = h
  <2>1. \A x : Runtime(x)' = Runtime(x)
    BY DEF Runtime
  <2>2. QED
    BY <2>1 DEF h
<1>8. Total(Carried(submsg'[c]), h') = Total(Carried(submsg[c]), h) + Runtime(p)
  BY <1>2, <1>5, <1>6, <1>7 DEF q
<1>9. /\ Remaining(sub'[c].ready, pcb') = Remaining(sub[c].ready, pcb)
      /\ RunningRT(c)' = RunningRT(c)
  BY DEF RunningRT
<1>10. /\ Remaining(sub[c].ready, pcb) \in Int /\ RunningRT(c) \in Int
       /\ Total(Carried(submsg[c]), h) \in Int /\ Runtime(p) \in Int
  <2>1. Runtime(p) \in Int
    BY <1>1, <1>3
  <2>2. QED
    BY <2>1, LeftTypes DEF h
<1>11. Remaining(sub'[c].ready, pcb') + RunningRT(c)' + Total(Carried(submsg'[c]), h')
         = Remaining(sub[c].ready, pcb) + RunningRT(c) + Total(Carried(submsg[c]), h) + Runtime(p)
  BY <1>8, <1>9, <1>10
<1>12. LeftToDo(c)' = LeftToDo(c) + Runtime(p)
  BY <1>11 DEF LeftToDo, h
<1>13. QED
  BY <1>2, <1>12 DEF m

\* The steps of the dispatcher that leave the loads and the messages alone.
LEMMA MainCalm ==
  ASSUME Genuine, Calm, Early \/ ~Early',
         UNCHANGED <<clk, workload, sub, pcb, child, sem, shmRT, submsg, urg, movedAt>>,
         \A c \in CPUs : CountedLoad(c)' = CountedLoad(c)
  PROVE  Calm'
<1>1. SUFFICES ASSUME Undisturbed', Early'
               PROVE  (\A p \in AllProcs : ChildWaits(p)') /\ \A c \in CPUs : Untouched(c)'
  BY DEF Calm
<1>2. (\A p \in AllProcs : ChildWaits(p)) /\ \A c \in CPUs : Untouched(c)
  BY <1>1 DEF Calm, Undisturbed, Prompt
<1>3. \A p \in AllProcs : ChildWaits(p)'
  BY <1>2 DEF ChildWaits
<1>4. \A c \in CPUs : Untouched(c)'
  BY <1>2, UntouchedKept DEF Genuine
<1>5. QED
  BY <1>3, <1>4

LEMMA RouteCalm ==
  ASSUME Shape, Genuine, Calm, Route, UNCHANGED <<clk, workload, childvars>>
  PROVE  Calm'
<1>1. /\ UNCHANGED <<pc, now, movedAt, sub, pcb, child, sem, shmRT, urg>>
      /\ pc = "route" /\ projected \in [CPUs -> LoadRec] /\ readyQueue # <<>>
  BY DEF Route, Shape, MainTypes, LoadTypes, stallvars, subvars, childvars
<1>2. SUFFICES ASSUME Undisturbed, Early
               PROVE  (\A p \in AllProcs : ChildWaits(p)') /\ \A c \in CPUs : Untouched(c)'
  BY <1>1 DEF Calm, Undisturbed, Early, Prompt
<1>3. (\A p \in AllProcs : ChildWaits(p)) /\ \A c \in CPUs : Untouched(c)
  BY <1>2 DEF Calm
<1>4. \A p \in AllProcs : ChildWaits(p)'
  BY <1>1, <1>3 DEF ChildWaits
<1>5. PICK p \in Procs : p = Head(readyQueue)
  BY <1>1 DEF Shape, MainTypes
<1>6. PICK b \in CPUs : b = LighterReady
  BY DEF LighterReady, CPUs
<1>7. /\ submsg' = Sent(b, Msg(MTYPE_NEW_PROCESS, p)) /\ projected' = Added(projected, b, p)
  BY <1>5, <1>6 DEF Route
<1>8. /\ LeftToDo(b)' = LeftToDo(b) + Runtime(p)
      /\ \A d \in CPUs \ {b} : submsg'[d] = submsg[d]
      /\ submsg'[b] = Append(submsg[b], Msg(MTYPE_NEW_PROCESS, p))
  BY <1>1, <1>7, RouteLeft
<1>9. projected'[b].rt = projected[b].rt + Runtime(p)
      /\ \A d \in CPUs \ {b} : projected'[d] = projected[d]
  BY <1>1, <1>7 DEF Added
<1>10. Untouched(b)'
  <2>1. NoEnd(b)'
    <3>1. submsg[b] \in Seq(RealOrder) /\ NoEnd(b)
      BY <1>3 DEF Genuine, Untouched
    <3>2. Msg(MTYPE_NEW_PROCESS, p).mtype # MTYPE_TERMINATE
      BY DEF Msg, MTYPE_NEW_PROCESS, MTYPE_TERMINATE
    <3>3. QED
      BY <1>8, <3>1, <3>2 DEF NoEnd
  <2>2. CountedLoad(b)' = LeftToDo(b)'
    BY <1>1, <1>3, <1>8, <1>9 DEF CountedLoad, Untouched
  <2>3. QED
    BY <1>1, <1>3, <2>1, <2>2 DEF Untouched, SubBusy
<1>11. ASSUME NEW d \in CPUs, d # b PROVE Untouched(d)'
  <2>1. CountedLoad(d)' = CountedLoad(d)
    BY <1>1, <1>9, <1>11 DEF CountedLoad
  <2>2. QED
    BY <1>1, <1>3, <1>8, <1>11, <2>1, UntouchedKept DEF Genuine
<1>12. QED
  BY <1>4, <1>10, <1>11

LEMMA DispatcherCalm ==
  ASSUME Shape, BothRun, Genuine, Paced, Begun, Calm, Dispatcher
  PROVE  Calm' /\ Begun'
<1> USE DEF subvars, stallvars, childvars, inputvars, endvars, msgvars, Goto
<1>1. /\ UNCHANGED <<clk, workload, childvars>> /\ clk \in Int /\ now \in Int /\ movedAt \in Int
      /\ clk >= 0
  BY TimeTypes DEF Dispatcher, Shape, InputTypes
<1>2. ~Leave /\ ~Exit
  BY NotBothEnded DEF Leave, Exit, Paced, Timed
<1>3. CASE Route
  <2>1. Calm'
    BY <1>1, <1>3, RouteCalm
  <2>2. QED
    BY <1>3, <2>1 DEF Begun, Route
<1>4. CASE NewTick \/ ReceiveProcess \/ ReceiveSync \/ ReceiveEnd \/ Algo \/ PublishRoutes
  <2>1. Early \/ ~Early'
    BY <1>1, <1>4
       DEF Early, NewTick, ReceiveProcess, ReceiveSync, ReceiveEnd, Algo, PublishRoutes
  <2>2. UNCHANGED <<sub, pcb, submsg, urg, movedAt>>
    BY <1>4 DEF NewTick, ReceiveProcess, ReceiveSync, ReceiveEnd, Algo, PublishRoutes
  <2>3. \A c \in CPUs : CountedLoad(c)' = CountedLoad(c)
    BY <1>1, <1>4 DEF CountedLoad, Begun, NewTick, ReceiveProcess, ReceiveSync, ReceiveEnd, Algo,
                      PublishRoutes, Published
  <2>4. Calm'
    BY <1>1, <2>1, <2>2, <2>3, MainCalm
  <2>5. Begun'
    BY <1>1, <1>4 DEF Begun, NewTick, ReceiveProcess, ReceiveSync, ReceiveEnd, Algo, PublishRoutes
  <2>6. QED
    BY <2>4, <2>5
<1>5. CASE \/ SpinAcks \/ Check \/ NoCheck \/ NothingStolen \/ Stolen \/ PublishMove \/ WaitOver
           \/ Open
  <2>1. ~Early'
    BY <1>1, <1>5 DEF Early, SpinAcks, Check, NoCheck, NothingStolen, Stolen, PublishMove,
                      WaitOver, Open
  <2>2. Begun'
    BY <1>5 DEF Begun, SpinAcks, Check, NoCheck, NothingStolen, Stolen, PublishMove, WaitOver, Open
  <2>3. QED
    BY <2>1, <2>2 DEF Calm
<1>6. CASE After
  <2>1. pc = "after" /\ pc' = "spin" /\ UNCHANGED <<now, movedAt>> /\ now >= 0
    BY <1>6 DEF After, Begun
  <2>2. ~(Undisturbed' /\ Early')
    BY <1>1, <2>1 DEF Undisturbed, Early, Paced, Timed, AfterStall
  <2>3. QED
    BY <2>1, <2>2 DEF Calm, Begun
<1>7. QED
  BY <1>2, <1>3, <1>4, <1>5, <1>6 DEF Dispatcher

LEMMA CalmStep ==
  ASSUME Shape, BothRun, Places, Traced, Genuine, Mirrored, Paced, Begun, Calm,
         [DualNext]_dualvars
  PROVE  Calm' /\ Begun'
<1>1. CASE Dispatcher
  BY <1>1, DispatcherCalm
<1>2. ASSUME NEW c \in CPUs, SubScheduler(c) \/ Handler(c) PROVE Calm' /\ Begun'
  BY <1>2, SubCalm, SubMoves DEF Begun, mainvars
<1>3. ASSUME NEW p \in AllProcs, Child(p) PROVE Calm' /\ Begun'
  BY <1>3, ChildCalm DEF Begun, Child, mainvars
<1>4. CASE ClockTick
  BY <1>4, ClockCalm DEF Begun, ClockTick, mainvars
<1>5. CASE Generator \/ Terminated \/ UNCHANGED dualvars
  <2>1. UNCHANGED <<clk, workload, childvars, load, submsg, urg, mainvars, sub, pcb>>
    BY <1>5 DEF Generator, Terminated, dualvars, msgvars, subvars
  <2>2. QED
    BY <2>1 DEF Calm, Begun, Early, Undisturbed, Untouched, CountedLoad, LeftToDo, SubBusy, NoEnd,
       ChildWaits, RunningRT, Runtime, Prompt, mainvars, stallvars, childvars
<1>6. QED
  BY <1>1, <1>2, <1>3, <1>4, <1>5 DEF DualNext

\* LoadsAgreeUndisturbed: as long as both sub-schedulers run, the loads that the
\* dispatcher compares are what is left to do on each CPU, although a part of the
\* processes counted is still in the messages.
THEOREM LoadsAreTrue == DualSpec => []LoadsAgreeUndisturbed
<1> DEFINE Inv == /\ Shape /\ Places /\ Traced
                  /\ BothRun => Paced /\ Genuine /\ Mirrored /\ Begun /\ Calm
<1>1. DualInit => Inv
  <2>1. DualInit => Begun /\ Calm
    BY DEF DualInit, Begun, Calm, Early
  <2>2. QED
    BY <2>1, ShapeInit, PlacesInit, InitShared, PacedInit, GenuineInit, MirroredInit
<1>2. ASSUME Inv, [DualNext]_dualvars PROVE Inv'
  <2>1. Shape'
    BY <1>2, ShapeStep, GeneratorShape
  <2>2. Places' /\ Traced'
    BY <1>2, <2>1, PlacesStep, GeneratorPlaces, StepShared
  <2>3. SUFFICES ASSUME BothRun' PROVE Paced' /\ Genuine' /\ Mirrored' /\ Begun' /\ Calm'
    BY <2>1, <2>2
  <2>4. BothRun
    BY <1>2, <2>3, RunBefore
  <2>5. MovesInTime'
    BY <2>3 DEF MovesInTime
  <2>6. Paced'
    BY <1>2, <2>3, PacedStep
  <2>7. Genuine' /\ Mirrored'
    BY <1>2, <2>4, <2>5, GenuineStep, MirroredStep
  <2>8. Calm' /\ Begun'
    BY <1>2, <2>4, CalmStep
  <2>9. QED
    BY <2>6, <2>7, <2>8
<1>3. Inv => LoadsAgreeUndisturbed
  <2>1. SUFFICES ASSUME Inv, BothRun, pc = "threshold", Undisturbed
                 PROVE  LoadsTrue
    BY DEF LoadsAgreeUndisturbed, Undisturbed
  <2>2. Early
    BY <2>1, TimeTypes DEF Early, Paced, Timed
  <2>3. \A c \in CPUs : Untouched(c)
    BY <2>1, <2>2 DEF Calm
  <2>4. QED
    BY <2>1, <2>3 DEF Untouched, CountedLoad, LoadsTrue
<1> HIDE DEF Inv
<1>4. QED
  BY <1>1, <1>2, <1>3, PTL DEF DualSpec

=============================================================================
