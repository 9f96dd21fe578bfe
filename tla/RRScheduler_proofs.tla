------------------------- MODULE RRScheduler_proofs -------------------------
(***************************************************************************)
(* Theorems about the round-robin simulation, for any number of processes, *)
(* any memory, any input files and any timing (Prompt or not).             *)
(*                                                                         *)
(* Shape is the type invariant and what it rests on; StepMMU shows that    *)
(* the simulation calls the memory manager only as module MMU says, so     *)
(* that every theorem of MMU_proofs holds of it.  Places is the inductive  *)
(* form of ProcessesInPlace.  Carried relates the clocks of the children   *)
(* to the PCBs, and with it each step is one of CPUSharing or a stutter.   *)
(*                                                                         *)
(* The round-robin scheduler overlooks no event of a tick: neither the end *)
(* of a wait, which three places look for, nor an arrival, which the       *)
(* generator announces.  Watched and Announced are the inductive forms of  *)
(* the two parts of NothingOverlooked.                                     *)
(*                                                                         *)
(* While the processes keep pace with the clock, a tick that was granted   *)
(* is used, and its request answered, before the next: Timely says where   *)
(* scheduler, generator and children are within a tick.  RequestsAnswered  *)
(* follows from it; Kept and Spaced add the counter of quantums and the    *)
(* last grant (QuantumsKept), Recorded, Charges and Budget the sums of the *)
(* times (Accounting).                                                     *)
(***************************************************************************)
EXTENDS RRScheduler, MMU_proofs, FiniteSetTheorems, SequenceTheorems

-----------------------------------------------------------------------------
(* What the calls of the memory manager do to the states of the PCBs.       *)

LEMMA PCBKnown ==
  ASSUME MMUTypeOK
  PROVE  /\ Mem \in MemState /\ clk \in Int /\ Mem.pcb = pcb /\ pcb \in [Procs -> PCBRec]
         /\ \A p \in Procs : /\ pcb[p].state \in {"W", "R", "B", "F"}
                             /\ pcb[p].forked \in BOOLEAN
<1>1. Mem \in MemState /\ clk \in Int /\ Mem.pcb = pcb
  BY DEF MMUTypeOK, Mem
<1>2. pcb \in [Procs -> PCBRec]
  BY <1>1, MemStateParts DEF PCBType
<1>3. QED
  BY <1>1, <1>2 DEF PCBRec

LEMMA DispatchPCB ==
  ASSUME MMUTypeOK, NEW p \in Procs, Dispatch(p)
  PROVE  /\ pcb[p].state = "W" /\ pcb'[p].state = "R" /\ pcb'[p].forked
         /\ \A q \in Procs \ {p} : /\ pcb'[q].state = pcb[q].state
                                   /\ pcb'[q].forked = pcb[q].forked
<1> DEFINE m == IF pcb[p].forked THEN Mem ELSE InitializePCB(Mem, p)
<1>1. m \in MemState
  BY PCBKnown, InitializePCBType
<1>2. m.pcb \in [Procs -> PCBRec]
  BY <1>1, MemStateParts DEF PCBType
<1>3. \A q \in Procs : m.pcb[q].state = pcb[q].state /\ m.pcb[q].forked = pcb[q].forked
  BY PCBKnown, InitializePCBKeepsState
<1>4. pcb' = [m.pcb EXCEPT ![p].state = "R", ![p].forked = TRUE] /\ pcb[p].state = "W"
  BY DEF Dispatch
<1> HIDE DEF m
<1>5. QED
  BY <1>2, <1>3, <1>4 DEF PCBRec

LEMMA FaultPCB ==
  ASSUME MMUTypeOK, NEW p \in Procs, NEW v, NEW op, Fault(p, v, op)
  PROVE  /\ pcb[p].state = "R" /\ pcb'[p].state = "B" /\ pcb'[p].forked = pcb[p].forked
         /\ \A q \in Procs \ {p} : /\ pcb'[q].state = pcb[q].state
                                   /\ pcb'[q].forked = pcb[q].forked
<1> DEFINE i == FrameFor(Mem)
           n == LoadPage(Block(Mem, p), p, v, i, op)
           x == FaultDemand(Mem, p, v, op)
<1>1. PICK t : Block(Mem, p).pcb = [pcb EXCEPT ![p] =
                 [@ EXCEPT !.state = "B", !.unblock_at = t,
                           !.pending_page = NoPage, !.pending_frame = NoFrame]]
  BY PCBKnown DEF Block
<1>2. n.pcb = Block(Mem, p).pcb
  <2>1. \A a : Unmap(a, i).pcb = a.pcb
    BY DEF Unmap
  <2>2. QED
    BY <2>1 DEF LoadPage, MapPage
<1>3. CASE i = NoFrame
  <2>1. pcb' = Block(Mem, p).pcb /\ pcb[p].state = "R"
    BY <1>3 DEF Fault, Become, FaultDemand
  <2>2. QED
    BY <1>1, <2>1, PCBKnown DEF PCBRec
<1>4. CASE i # NoFrame
  <2>1. PICK u : x.pcb = [n.pcb EXCEPT ![p] = [@ EXCEPT !.unblock_at = u, !.pending_page = v,
                                                        !.pending_frame = i]]
    BY <1>4 DEF FaultDemand
  <2>2. pcb' = x.pcb /\ pcb[p].state = "R"
    BY DEF Fault, Become
  <2> HIDE DEF n, x, i
  <2>3. QED
    BY <1>1, <1>2, <2>1, <2>2, PCBKnown DEF PCBRec
<1>5. QED
  BY <1>3, <1>4

LEMMA FinishPCB ==
  ASSUME MMUTypeOK, NEW p \in Procs, Finish(p)
  PROVE  /\ pcb[p].state = "R" /\ pcb'[p].state = "F" /\ pcb'[p].forked = pcb[p].forked
         /\ \A q \in Procs \ {p} : /\ pcb'[q].state = pcb[q].state
                                   /\ pcb'[q].forked = pcb[q].forked
<1>1. pcb' = [pcb EXCEPT ![p].state = "F"] /\ pcb[p].state = "R"
  BY PCBKnown DEF Finish, FreePageTable
<1>2. QED
  BY <1>1, PCBKnown DEF PCBRec

LEMMA PreemptPCB ==
  ASSUME MMUTypeOK, NEW p \in Procs, Preempt(p)
  PROVE  /\ pcb[p].state = "R" /\ pcb'[p].state = "W" /\ pcb'[p].forked = pcb[p].forked
         /\ \A q \in Procs \ {p} : /\ pcb'[q].state = pcb[q].state
                                   /\ pcb'[q].forked = pcb[q].forked
BY PCBKnown DEF Preempt, PCBRec

LEMMA WakePCB ==
  ASSUME MMUTypeOK, Wake \/ (Overdue = {} /\ UNCHANGED MMUvars)
  PROVE  \A q \in Procs : /\ pcb'[q].state = IF q \in Overdue THEN "W" ELSE pcb[q].state
                          /\ pcb'[q].forked = pcb[q].forked
<1>1. CASE Wake
  <2>1. pcb' = EndFaults(Mem, Overdue).pcb
    BY <1>1 DEF Wake, Become
  <2>2. SUFFICES ASSUME NEW q \in Procs
                 PROVE  /\ pcb'[q].state = IF q \in Overdue THEN "W" ELSE pcb[q].state
                        /\ pcb'[q].forked = pcb[q].forked
    OBVIOUS
  <2>3. \/ q \notin Overdue /\ pcb'[q] = pcb[q]
        \/ q \in Overdue /\ pcb'[q] = [pcb[q] EXCEPT !.state = "W", !.pending_page = NoPage,
                                                     !.pending_frame = NoFrame]
        \/ q \in Overdue /\ pcb'[q] = [pcb[q] EXCEPT !.state = "W"]
    BY <2>1, PCBKnown DEF EndFaults
  <2>4. QED
    BY <2>3, PCBKnown DEF PCBRec
<1>2. CASE Overdue = {} /\ UNCHANGED MMUvars
  BY <1>2 DEF MMUvars
<1>3. QED
  BY <1>1, <1>2

LEMMA ClearPCB == Clear => pcb' = pcb
BY DEF Clear, Become, ClearRecent, Mem

LEMMA HitPCB == \A p, v, op : Hit(p, v, op) => pcb' = pcb
BY DEF Hit, Become, Touch, Mem

\* checkBlockEnd: the overdue processes go from one queue to the other.
LEMMA CheckBlockEndEffect ==
  ASSUME MMUTypeOK, readyQueue \in Seq(Procs), blockQueue \in Seq(Procs), CheckBlockEnd
  PROVE  /\ readyQueue' \in Seq(Procs) /\ blockQueue' \in Seq(Procs)
         /\ readyQueue # <<>> => readyQueue' # <<>>
         /\ ToSet(readyQueue') = ToSet(readyQueue) \cup (ToSet(blockQueue) \cap Overdue)
         /\ ToSet(blockQueue') = ToSet(blockQueue) \ Overdue
         /\ IsInjective(blockQueue) => IsInjective(blockQueue')
         /\ IsInjective(readyQueue) /\ IsInjective(blockQueue)
              /\ ToSet(readyQueue) \cap ToSet(blockQueue) = {} => IsInjective(readyQueue')
         /\ \A q \in Procs : /\ pcb'[q].state = IF q \in Overdue THEN "W" ELSE pcb[q].state
                             /\ pcb'[q].forked = pcb[q].forked
         /\ Wake \/ UNCHANGED MMUvars
<1>1. /\ readyQueue' = readyQueue \o InOrder(blockQueue, Overdue)
      /\ blockQueue' = InOrder(blockQueue, Procs \ Overdue)
      /\ Wake \/ (Overdue = {} /\ UNCHANGED MMUvars)
  BY DEF CheckBlockEnd, ToQueue, Without
<1>2. /\ InOrder(blockQueue, Overdue) \in Seq(Procs)
      /\ ToSet(InOrder(blockQueue, Overdue)) = ToSet(blockQueue) \cap Overdue
      /\ IsInjective(blockQueue) => IsInjective(InOrder(blockQueue, Overdue))
  BY InOrderFacts
<1>3. /\ blockQueue' \in Seq(Procs)
      /\ ToSet(blockQueue') = ToSet(blockQueue) \cap (Procs \ Overdue)
      /\ IsInjective(blockQueue) => IsInjective(blockQueue')
  BY <1>1, InOrderFacts
<1>4. ToSet(blockQueue) \subseteq Procs
  BY DEF ToSet
<1>5. /\ readyQueue' \in Seq(Procs)
      /\ readyQueue # <<>> => readyQueue' # <<>>
      /\ ToSet(readyQueue') = ToSet(readyQueue) \cup ToSet(InOrder(blockQueue, Overdue))
      /\ IsInjective(readyQueue) /\ IsInjective(InOrder(blockQueue, Overdue))
            /\ ToSet(readyQueue) \cap ToSet(InOrder(blockQueue, Overdue)) = {}
         => IsInjective(readyQueue')
  BY <1>1, <1>2, ConcatFacts
<1>6. QED
  BY <1>1, <1>2, <1>3, <1>4, <1>5, WakePCB

-----------------------------------------------------------------------------
(* Type correctness, and the calls of the memory manager.                   *)

\* A child that has work left in its loop has at least one tick of it; a process
\* that was never forked has the record that receiveProcesses or the start of
\* the program gave it; the scheduler waits for a child, or for a tick between
\* two processes, only when there are such.
Shape ==
    /\ RRTypeOK
    /\ MMUTypeOK
    /\ \A p \in Procs :
          /\ child[p].pc \in {"boot", "down", "send", "count"} => child[p].remainingtime >= 1
          /\ ~pcb[p].forked => acct[p] = NewAcct(p)
          /\ pcb[p].state # "W" => pcb[p].forked
    /\ pc = "waitpid" => currProcess # NoOne
    /\ pc \in {"preempted", "wait"} => currProcess # NoOne /\ readyQueue # <<>>

LEMMA ChildMMU ==
  ASSUME NEW p \in Procs, Child(p) PROVE UNCHANGED MMUvars
BY DEF Child, ChildBoot, ChildDown, ChildSend, ChildCount, ChildExit

LEMMA GeneratorMMU ==
  ASSUME Generator PROVE UNCHANGED MMUvars
BY DEF Generator

LEMMA WorkloadType ==
  ASSUME workload \in Workloads
  PROVE  /\ workload.order \in Seq(Procs) /\ IsInjective(workload.order)
         /\ workload.arrival \in [Procs -> Nat]
         /\ workload.runtime \in [Procs -> Nat \ {0}]
         /\ workload.requests \in [Procs -> Seq(Request)]
BY RRAssumption

LEMMA TimesType ==
  ASSUME RRTypeOK, NEW p \in Procs
  PROVE  /\ workload.arrival[p] \in Nat /\ workload.runtime[p] \in Nat
         /\ acct[p] \in AcctRec
         /\ acct[p].waiting_time \in Int /\ acct[p].last_stopped \in Int
         /\ acct[p].remaining_time \in Int
<1>1. workload \in Workloads /\ acct \in [Procs -> AcctRec]
  BY DEF RRTypeOK
<1>2. workload.arrival[p] \in Nat /\ workload.runtime[p] \in Nat
  BY <1>1, WorkloadType
<1>3. acct[p] \in AcctRec
  BY <1>1
<1>4. QED
  BY <1>2, <1>3 DEF AcctRec

LEMMA NewAcctType ==
  ASSUME workload \in Workloads, NEW p \in Procs
  PROVE  NewAcct(p) \in AcctRec /\ NewAcct(p).remaining_time \in Nat \ {0}
BY WorkloadType DEF NewAcct, AcctRec

LEMMA CurrentKnown ==
  ASSUME RRTypeOK, currProcess # NoOne PROVE currProcess \in Procs
BY DEF RRTypeOK

\* A request in the queue names a page that exists or the limit.
LEMMA ReceivedType ==
  ASSUME RRTypeOK, RequestThere
  PROVE  /\ currProcess \in Procs /\ Received \in Request
         /\ Received.page \in 0..NUM_PAGES /\ Received.op \in Op
<1>1. currProcess \in Procs /\ req_msgq[currProcess] \in Seq(Request) /\ req_msgq[currProcess] # <<>>
  BY DEF RRTypeOK, RequestThere
<1>2. Received \in Request
  BY <1>1 DEF Received
<1>3. QED
  BY <1>1, <1>2 DEF Request

LEMMA SwitchMMU ==
  ASSUME RRTypeOK, readyQueue # <<>>, Switch
  PROVE  Head(readyQueue) \in Procs /\ Dispatch(Head(readyQueue))
<1>1. readyQueue \in Seq(Procs)
  BY DEF RRTypeOK
<1>2. Dispatch(Head(readyQueue))
  BY DEF Switch, RunProcess
<1>3. QED
  BY <1>1, <1>2

\* What the code above the memory manager does to it is a call of one of its
\* handlers, or nothing.
LEMMA SchedulerMMU ==
  ASSUME Shape, undefined = "no", Scheduler
  PROVE  [MMUNext]_MMUvars
<1>1. CASE NewTick \/ Exit \/ NoRequest \/ FinishCheck \/ Gate \/ ReceiveProcess \/ ReceiveSync
           \/ ReceiveEnd \/ AlgoNothing \/ AlgoExtend \/ Grant
  BY <1>1 DEF NewTick, Exit, NoRequest, FinishCheck, Gate, ReceiveProcess, ReceiveSync, ReceiveEnd,
              AlgoNothing, AlgoExtend, Grant
<1>2. CASE RequestAnswered
  <2>1. currProcess \in Procs /\ Received.page \in 0..NUM_PAGES /\ Received.op \in Op
    BY <1>2, ReceivedType DEF RequestAnswered, TakeRequest, Shape
  <2>2. QED
    BY <1>2, <2>1 DEF RequestAnswered, MMUNext
<1>3. CASE RequestFaults
  <2>1. currProcess \in Procs /\ Received.page \in 0..NUM_PAGES /\ Received.op \in Op
    BY <1>3, ReceivedType DEF RequestFaults, TakeRequest, Shape
  <2>2. QED
    BY <1>3, <2>1 DEF RequestFaults, MMUNext
<1>4. CASE BlockCheck \/ PreemptedCheck \/ TailCheck
  BY <1>4 DEF BlockCheck, PreemptedCheck, TailCheck, CheckBlockEnd, MMUNext
<1>5. CASE Reap
  <2>1. currProcess \in Procs
    BY <1>5, CurrentKnown DEF Reap, Shape
  <2>2. QED
    BY <1>5, <2>1 DEF Reap, MMUNext
<1>6. CASE AlgoDispatch
  BY <1>6, SwitchMMU DEF AlgoDispatch, Shape, MMUNext
<1>7. CASE AlgoPreempt
  <2>1. currProcess \in Procs
    BY <1>7, CurrentKnown DEF AlgoPreempt, QuantumOver, Shape
  <2>2. QED
    BY <1>7, <2>1 DEF AlgoPreempt, MMUNext
<1>8. CASE WaitOver
  BY <1>8, SwitchMMU DEF WaitOver, Shape, MMUNext
<1>9. CASE ClearCheck
  BY <1>9 DEF ClearCheck, MMUNext
<1>10. QED
  BY <1>1, <1>2, <1>3, <1>4, <1>5, <1>6, <1>7, <1>8, <1>9 DEF Scheduler

LEMMA StepMMU ==
  ASSUME Shape, [RRNext]_rrvars
  PROVE  [MMUNext]_MMUvars
<1>1. CASE undefined = "no" /\ ClockTick
  BY <1>1 DEF ClockTick, MMUNext
<1>2. CASE undefined = "no" /\ Generator
  BY <1>2, GeneratorMMU
<1>3. ASSUME NEW p \in Procs, Child(p)
      PROVE  [MMUNext]_MMUvars
  BY <1>3, ChildMMU
<1>4. CASE undefined = "no" /\ Scheduler
  BY <1>4, SchedulerMMU
<1>5. CASE Terminated \/ UNCHANGED rrvars
  BY <1>5 DEF Terminated, rrvars
<1>6. QED
  BY <1>1, <1>2, <1>3, <1>4, <1>5 DEF RRNext

LEMMA ShapeInit ==
  ASSUME RRInit PROVE Shape
<1>1. workload \in Workloads
  BY DEF RRInit
<1>2. MMUTypeOK
  BY InitType DEF RRInit
<1>3. acct \in [Procs -> AcctRec]
  BY <1>1, NewAcctType DEF RRInit
<1>4. child \in [Procs -> ChildRec]
  BY DEF RRInit, NoChild, ChildRec
<1>5. /\ g_pc \in {"poll", "send", "waitpid", "exited"}
      /\ g_queue \in Seq(Procs) /\ g_now \in Int /\ lastTime \in Int
      /\ msgq \in [arrived: Seq(Procs), sync: Seq(Int), end: BOOLEAN]
  BY <1>1, WorkloadType DEF RRInit, GenInit, NoMessage
<1>6. perf \in [num_procs: Nat, first_arrival: Int, total_runtime: Int, finish_time: Int,
                waiting: Int]
  BY DEF RRInit
<1>7. req_msgq \in [Procs -> Seq(Request)]
  BY DEF RRInit
<1>8. lastGrant \in [to: Procs \cup {NoOne}, at: Int]
  BY DEF RRInit
<1>9. readyQueue \in Seq(Procs) /\ blockQueue \in Seq(Procs) /\ currentPCBs \in Seq(Procs)
  BY DEF RRInit
<1>10. /\ sem \in 0..1 /\ shmRT \in Int
       /\ now \in Int /\ last_tick \in Int /\ wait_until \in Int
       /\ next_preemtion_time \in Int /\ context_switch_until \in Int
       /\ quantums_passed \in Nat /\ last_print \in Int /\ last_received_sync \in Int
       /\ currProcess \in Procs \cup {NoOne} /\ pc = "spin"
  BY DEF RRInit
<1>11. processFinishedSignal \in BOOLEAN /\ checked \in BOOLEAN /\ receivingProcesses \in BOOLEAN
  BY Zenon DEF RRInit
<1>12. RRTypeOK
  BY <1>1, <1>3, <1>4, <1>5, <1>6, <1>7, <1>8, <1>9, <1>10, <1>11 DEF RRTypeOK
<1>13. QED
  BY <1>2, <1>12 DEF RRInit, MMUInit, Shape, NewPCB, NoChild

LEMMA GeneratorShape ==
  ASSUME Shape, Generator PROVE Shape'
<1>1. RRTypeOK
  BY DEF Shape
<1>2. /\ g_pc' \in {"poll", "send", "waitpid", "exited"}
      /\ g_queue' \in Seq(Procs) /\ g_now' \in Int /\ lastTime' \in Int
      /\ msgq' \in [arrived: Seq(Procs), sync: Seq(Int), end: BOOLEAN]
  <2>1. clk \in Int
    BY PCBKnown DEF Shape
  <2>2. CASE GenSend
    <3>1. Head(g_queue) \in Procs /\ Tail(g_queue) \in Seq(Procs)
      BY <1>1, <2>2, TailFacts DEF RRTypeOK, GenSend, Arrived
    <3>2. Append(msgq.arrived, Head(g_queue)) \in Seq(Procs)
      BY <1>1, <3>1, AppendFacts DEF RRTypeOK
    <3>3. QED
      BY <1>1, <2>2, <3>1, <3>2 DEF RRTypeOK, GenSend
  <2>3. CASE GenSync
    <3>1. Append(msgq.sync, g_now) \in Seq(Int)
      BY <1>1, AppendFacts DEF RRTypeOK
    <3>2. QED
      BY <1>1, <2>3, <3>1 DEF RRTypeOK, GenSync
  <2>4. CASE GenPoll \/ GenEnd \/ GenShutdown(pc = "exited")
    BY <1>1, <2>1, <2>4 DEF RRTypeOK, GenPoll, GenEnd, GenShutdown
  <2>5. QED
    BY <2>2, <2>3, <2>4 DEF Generator, GenStep
<1>3. RRTypeOK'
  BY <1>1, <1>2 DEF RRTypeOK, Generator, schedvars, queuevars, timevars, countvars
<1>4. MMUTypeOK'
  BY GeneratorMMU, NextType DEF Shape
<1>5. QED
  BY <1>3, <1>4 DEF Shape, Generator, schedvars, queuevars, timevars, countvars, MMUvars, NewAcct

LEMMA ChildShape ==
  ASSUME Shape, NEW p \in Procs, Child(p) PROVE Shape'
<1>1. RRTypeOK /\ child[p] \in ChildRec
  BY DEF Shape, RRTypeOK
<1>2. MMUTypeOK'
  BY ChildMMU, NextType DEF Shape
<1>3. /\ UNCHANGED <<MMUvars, workload, genvars, msgq, schedvars, lastGrant>>
      /\ child' \in [Procs -> ChildRec] /\ req_msgq' \in [Procs -> Seq(Request)]
      /\ sem' \in 0..1 /\ shmRT' \in Int /\ processFinishedSignal' \in BOOLEAN
      /\ \A q \in Procs : child'[q].pc \in {"boot", "down", "send", "count"} =>
                             child'[q].remainingtime >= 1
  <2>1. /\ child \in [Procs -> ChildRec] /\ req_msgq \in [Procs -> Seq(Request)]
        /\ sem \in 0..1 /\ shmRT \in Int /\ processFinishedSignal \in BOOLEAN
        /\ \A q \in Procs : child[q].pc \in {"boot", "down", "send", "count"} =>
                               child[q].remainingtime >= 1
    BY <1>1 DEF Shape, RRTypeOK
  <2>2. CASE ChildBoot(p)
    BY <2>1, <2>2 DEF ChildBoot, Runs, ChildRec, ipcvars
  <2>3. CASE ChildDown(p)
    <3>1. /\ child' = [child EXCEPT ![p].pc = "send"] /\ child[p].pc = "down"
          /\ sem' = sem - 1 /\ sem > 0
          /\ UNCHANGED <<MMUvars, workload, genvars, msgq, req_msgq, shmRT,
                         processFinishedSignal, schedvars, lastGrant>>
      BY <2>3 DEF ChildDown, Runs
    <3>2. sem' \in 0..1
      BY <2>1, <3>1
    <3>3. child' \in [Procs -> ChildRec]
      BY <2>1, <3>1 DEF ChildRec
    <3>4. \A q \in Procs : child'[q].pc \in {"boot", "down", "send", "count"} =>
                               child'[q].remainingtime >= 1
      BY <2>1, <3>1 DEF ChildRec
    <3>5. QED
      BY <2>1, <3>1, <3>2, <3>3, <3>4
  <2>4. CASE ChildSend(p)
    <3>1. /\ UNCHANGED <<MMUvars, workload, genvars, msgq, schedvars, lastGrant, sem, shmRT,
                         processFinishedSignal>>
          /\ \/ child' = [child EXCEPT ![p].pc = "count", ![p].req_index = @ + 1]
             \/ child' = [child EXCEPT ![p].pc = "count"]
          /\ child[p].pc = "send"
      BY <2>4 DEF ChildSend, Runs
    <3>2. child' \in [Procs -> ChildRec]
      <4>1. CASE child' = [child EXCEPT ![p].pc = "count"]
        BY <2>1, <4>1 DEF ChildRec
      <4>2. CASE child' = [child EXCEPT ![p].pc = "count", ![p].req_index = @ + 1]
        <5> DEFINE i == child[p].req_index + 1
        <5>1. i \in Nat
          BY <1>1 DEF ChildRec
        <5>2. child' = [child EXCEPT ![p] = [@ EXCEPT !.pc = "count", !.req_index = i]]
          BY <2>1, <4>2 DEF ChildRec
        <5> HIDE DEF i
        <5>3. [child[p] EXCEPT !.pc = "count", !.req_index = i] \in ChildRec
          BY <1>1, <5>1 DEF ChildRec
        <5>4. QED
          BY <2>1, <5>2, <5>3
      <4>3. QED
        BY <3>1, <4>1, <4>2
    <3>3. \A q \in Procs : child'[q].pc \in {"boot", "down", "send", "count"} =>
                               child'[q].remainingtime >= 1
      BY <2>1, <3>1 DEF ChildRec
    <3>4. req_msgq' \in [Procs -> Seq(Request)]
      <4>1. CASE Due(p)
        <5>1. workload.requests[p] \in Seq(Request)
          BY <1>1, WorkloadType DEF RRTypeOK
        <5>2. child[p].req_index + 1 \in 1..Len(workload.requests[p])
          BY <1>1, <4>1, <5>1 DEF Due, ChildRec
        <5>3. NextRequest(p) \in Request
          BY <5>1, <5>2 DEF NextRequest
        <5>4. Append(req_msgq[p], NextRequest(p)) \in Seq(Request)
          BY <2>1, <5>3, AppendFacts
        <5>5. req_msgq' = [req_msgq EXCEPT ![p] = Append(@, NextRequest(p))]
          BY <2>4, <4>1 DEF ChildSend
        <5>6. QED
          BY <2>1, <5>4, <5>5
      <4>2. CASE ~Due(p)
        BY <2>1, <2>4, <4>2 DEF ChildSend
      <4>3. QED
        BY <4>1, <4>2
    <3>5. QED
      BY <2>1, <3>1, <3>2, <3>3, <3>4
  <2>5. CASE ChildCount(p)
    <3> DEFINE left == child[p].remainingtime - 1
    <3>1. left \in Nat
      <4>1. child[p].remainingtime \in Nat /\ child[p].remainingtime >= 1
        BY <1>1, <2>1, <2>5 DEF ChildCount, Runs, ChildRec
      <4>2. QED
        BY <4>1
    <3>2. child' = [child EXCEPT ![p].remainingtime = left, ![p].running_time = @ + 1,
                                 ![p].pc = IF left > 0 THEN "down" ELSE "signal"]
      BY <2>5 DEF ChildCount, AfterTick
    <3>3. shmRT' = left /\ UNCHANGED <<MMUvars, workload, genvars, msgq, req_msgq, sem,
                                       processFinishedSignal, schedvars, lastGrant>>
      BY <2>5 DEF ChildCount
    <3> HIDE DEF left
    <3>4. QED
      BY <2>1, <3>1, <3>2, <3>3 DEF ChildRec
  <2>6. CASE ChildExit(p)
    BY <2>1, <2>6 DEF ChildExit, Runs, ChildRec
  <2>7. QED
    BY <2>2, <2>3, <2>4, <2>5, <2>6 DEF Child
<1>4. RRTypeOK'
  BY SMTT(30), <1>1, <1>3 DEF RRTypeOK, genvars, schedvars, queuevars, timevars, countvars
<1>5. QED
  BY <1>2, <1>3, <1>4 DEF Shape, schedvars, queuevars, timevars, countvars, MMUvars, NewAcct

LEMMA ClockShape ==
  ASSUME Shape, undefined = "no", ClockTick PROVE Shape'
<1>1. RRTypeOK' /\ pcb' = pcb
  BY DEF Shape, RRTypeOK, ClockTick, Tick, genvars, ipcvars, schedvars, queuevars, timevars,
         countvars
<1>2. MMUTypeOK'
  BY NextType DEF Shape, ClockTick, MMUNext
<1>3. QED
  BY <1>1, <1>2 DEF Shape, ClockTick, ipcvars, schedvars, queuevars, countvars, NewAcct

LEMMA StutterShape ==
  ASSUME Shape, UNCHANGED rrvars PROVE Shape'
<1>1. RRTypeOK'
  BY DEF Shape, RRTypeOK, rrvars, genvars, ipcvars, schedvars, queuevars, timevars, countvars
<1>2. MMUTypeOK'
  BY NextType DEF Shape, rrvars
<1>3. QED
  BY <1>1, <1>2 DEF Shape, rrvars, MMUvars, schedvars, queuevars, countvars, NewAcct

\* Most steps of the scheduler leave the children, the PCBs and the queues alone.
LEMMA PlainShape ==
  ASSUME Shape, NewTick \/ Exit \/ NoRequest \/ FinishCheck \/ Gate \/ AlgoNothing \/ AlgoExtend
                \/ Grant
  PROVE  Shape'
<1>1. RRTypeOK /\ clk \in Int
  BY PCBKnown DEF Shape
<1>2. quantum \in Int /\ clk + 1 \in Int
  BY <1>1, RRAssumption
<1>3. /\ UNCHANGED <<MMUvars, workload, genvars, child, msgq, req_msgq, shmRT, queuevars, acct,
                     perf, checked, receivingProcesses, last_received_sync, last_print>>
      /\ pc' \in {"requests", "exited", "block", "waitpid", "gate", "receive", "algo", "tail",
                  "clear"}
      /\ pc' = "waitpid" => currProcess # NoOne
      /\ now' \in Int /\ last_tick' \in Int /\ wait_until' \in Int
      /\ next_preemtion_time' \in Int /\ context_switch_until' \in Int
      /\ quantums_passed' \in Nat
      /\ sem' \in 0..1
      /\ processFinishedSignal' \in BOOLEAN
      /\ lastGrant' \in [to: Procs \cup {NoOne}, at: Int]
  <2>1. /\ now \in Int /\ last_tick \in Int /\ wait_until \in Int
        /\ next_preemtion_time \in Int /\ context_switch_until \in Int
        /\ quantums_passed \in Nat /\ sem \in 0..1 /\ processFinishedSignal \in BOOLEAN
        /\ lastGrant \in [to: Procs \cup {NoOne}, at: Int]
        /\ currProcess \in Procs \cup {NoOne}
    BY <1>1 DEF RRTypeOK
  <2>2. CASE NewTick
    BY <1>1, <2>1, <2>2 DEF NewTick, Goto, ipcvars, queuevars, countvars
  <2>3. CASE Exit \/ NoRequest \/ AlgoNothing
    BY <2>1, <2>3 DEF Exit, NoRequest, AlgoNothing, Goto, ipcvars, queuevars, timevars, countvars
  <2>4. CASE FinishCheck
    BY <2>1, <2>4 DEF FinishCheck, Goto, queuevars, timevars, countvars
  <2>5. CASE Gate
    BY <1>1, <2>1, <2>5 DEF Gate, Goto, ipcvars, queuevars, countvars
  <2>6. CASE AlgoExtend
    BY <1>1, <1>2, <2>1, <2>6 DEF AlgoExtend, Goto, ipcvars, queuevars
  <2>7. CASE Grant
    BY <1>1, <2>1, <2>7 DEF Grant, Goto, queuevars, timevars, countvars
  <2>8. QED
    BY <2>2, <2>3, <2>4, <2>5, <2>6, <2>7
<1>4. RRTypeOK'
  BY <1>1, <1>3 DEF RRTypeOK, genvars, queuevars
<1>5. MMUTypeOK'
  BY <1>3, NextType DEF Shape
<1>6. QED
  BY <1>3, <1>4, <1>5 DEF Shape, MMUvars, queuevars, NewAcct

LEMMA AnsweredShape ==
  ASSUME Shape, MMUTypeOK', RequestAnswered PROVE Shape'
<1>1. RRTypeOK
  BY DEF Shape
<1>2. pcb' = pcb
  BY HitPCB DEF RequestAnswered, ReadPastTable, ReadNoTable, MMUvars
<1>3. req_msgq' \in [Procs -> Seq(Request)]
  <2>1. currProcess \in Procs /\ req_msgq[currProcess] # <<>>
        /\ req_msgq' = [req_msgq EXCEPT ![currProcess] = Tail(@)]
    BY <1>1, ReceivedType DEF RequestAnswered, TakeRequest, RequestThere
  <2>2. Tail(req_msgq[currProcess]) \in Seq(Request)
    BY <1>1, <2>1, TailFacts DEF RRTypeOK
  <2>3. QED
    BY <1>1, <2>1, <2>2 DEF RRTypeOK
<1>4. RRTypeOK'
  BY <1>1, <1>3 DEF RRTypeOK, RequestAnswered, TakeRequest, Goto, genvars
<1>5. QED
  BY <1>2, <1>4 DEF Shape, RequestAnswered, TakeRequest, Goto, NewAcct

\* A process that is stopped: its child loses nothing, and its times are saved.
LEMMA StoppedFacts ==
  ASSUME RRTypeOK, NEW p \in Procs
  PROVE  /\ Stopped(p) \in [Procs -> ChildRec]
         /\ \A q \in Procs : /\ Stopped(p)[q].pc = child[q].pc
                             /\ Stopped(p)[q].remainingtime = child[q].remainingtime
<1> DEFINE c == [child[p] EXCEPT !.stopped = TRUE]
<1>1. child \in [Procs -> ChildRec] /\ child[p] \in ChildRec
  BY DEF RRTypeOK
<1>2. Stopped(p) = [child EXCEPT ![p] = c]
  BY <1>1 DEF Stopped, ChildRec
<1>3. c \in ChildRec /\ c.pc = child[p].pc /\ c.remainingtime = child[p].remainingtime
  BY <1>1 DEF ChildRec
<1> HIDE DEF c
<1>4. QED
  BY <1>1, <1>2, <1>3

LEMMA TwoTimes ==
  ASSUME RRTypeOK, NEW p \in Procs, NEW t \in Int, NEW u \in Int
  PROVE  /\ [acct[p] EXCEPT !.remaining_time = t, !.last_stopped = u] \in AcctRec
         /\ [acct[p] EXCEPT !.finish_time = u, !.remaining_time = t] \in AcctRec
<1>1. acct[p] \in AcctRec
  BY DEF RRTypeOK
<1>2. QED
  BY <1>1 DEF AcctRec

LEMMA SavedFacts ==
  ASSUME RRTypeOK, clk \in Int, NEW p \in Procs
  PROVE  /\ Saved(p) \in [Procs -> AcctRec]
         /\ \A q \in Procs \ {p} : Saved(p)[q] = acct[q]
<1> DEFINE a == [acct[p] EXCEPT !.remaining_time = shmRT, !.last_stopped = clk]
<1>1. acct \in [Procs -> AcctRec] /\ shmRT \in Int
  BY DEF RRTypeOK
<1>2. a \in AcctRec
  BY <1>1, TwoTimes
<1>3. Saved(p) = [acct EXCEPT ![p] = a]
  BY <1>1 DEF Saved
<1> HIDE DEF a
<1>4. QED
  BY <1>1, <1>2, <1>3

LEMMA FaultsShape ==
  ASSUME Shape, MMUTypeOK', RequestFaults PROVE Shape'
<1> DEFINE p == currProcess
<1>1. RRTypeOK /\ clk \in Int /\ p \in Procs
  BY PCBKnown, ReceivedType DEF Shape, RequestFaults, TakeRequest
<1>2. /\ pcb[p].state = "R" /\ pcb'[p].forked = pcb[p].forked
      /\ \A q \in Procs \ {p} : pcb'[q].state = pcb[q].state /\ pcb'[q].forked = pcb[q].forked
  BY <1>1, FaultPCB DEF Shape, RequestFaults
<1>3. pcb[p].forked
  BY <1>1, <1>2 DEF Shape
<1>4. req_msgq' \in [Procs -> Seq(Request)]
  <2>1. req_msgq[p] # <<>> /\ req_msgq' = [req_msgq EXCEPT ![p] = Tail(@)]
    BY DEF RequestFaults, TakeRequest, RequestThere
  <2>2. Tail(req_msgq[p]) \in Seq(Request)
    BY <1>1, <2>1, TailFacts DEF RRTypeOK
  <2>3. QED
    BY <1>1, <2>1, <2>2 DEF RRTypeOK
<1>5. /\ acct' \in [Procs -> AcctRec]
      /\ \A q \in Procs \ {p} : acct'[q] = acct[q]
  <2>1. acct' = Saved(p)
    BY DEF RequestFaults
  <2>2. QED
    BY <1>1, <2>1, SavedFacts
<1>6. /\ child' \in [Procs -> ChildRec]
      /\ \A q \in Procs : child'[q].pc = child[q].pc
                          /\ child'[q].remainingtime = child[q].remainingtime
  <2>1. child' = Stopped(p)
    BY DEF RequestFaults
  <2>2. QED
    BY <1>1, <2>1, StoppedFacts
<1>7. blockQueue' \in Seq(Procs)
  BY <1>1, AppendFacts DEF RequestFaults, RRTypeOK
<1>8. /\ currProcess' = NoOne /\ next_preemtion_time' \in Int /\ context_switch_until' \in Int
      /\ quantums_passed' \in Nat /\ pc' = "block"
      /\ UNCHANGED <<workload, genvars, msgq, sem, shmRT, processFinishedSignal, now, last_tick,
                     wait_until, readyQueue, currentPCBs, last_print, checked,
                     receivingProcesses, last_received_sync, perf, lastGrant>>
  BY <1>1 DEF RequestFaults, TakeRequest, Goto, SwitchUntil, RRTypeOK
<1>9. RRTypeOK'
  BY <1>1, <1>4, <1>5, <1>6, <1>7, <1>8 DEF RRTypeOK, genvars
<1>10. QED
  BY <1>2, <1>3, <1>5, <1>6, <1>8, <1>9 DEF Shape, NewAcct

\* The three places that call checkBlockEnd.
LEMMA CheckShape ==
  ASSUME Shape, MMUTypeOK', BlockCheck \/ PreemptedCheck \/ TailCheck PROVE Shape'
<1>1. RRTypeOK /\ clk \in Int /\ clk + 1 \in Int
  BY PCBKnown DEF Shape
<1>2. CheckBlockEnd \/ UNCHANGED <<MMUvars, readyQueue, blockQueue>>
  BY DEF BlockCheck, PreemptedCheck, TailCheck
<1>3. /\ readyQueue' \in Seq(Procs) /\ blockQueue' \in Seq(Procs)
      /\ readyQueue # <<>> => readyQueue' # <<>>
      /\ \A q \in Procs : pcb'[q].forked = pcb[q].forked
                          /\ (pcb'[q].state # "W" => pcb[q].state # "W")
  <2>1. CASE CheckBlockEnd
    BY <1>1, <2>1, CheckBlockEndEffect DEF Shape, RRTypeOK
  <2>2. CASE UNCHANGED <<MMUvars, readyQueue, blockQueue>>
    BY <1>1, <2>2 DEF RRTypeOK, MMUvars
  <2>3. QED
    BY <1>2, <2>1, <2>2
<1>4. /\ UNCHANGED <<workload, genvars, child, ipcvars, currentPCBs, currProcess, now, last_tick,
                     next_preemtion_time, context_switch_until, quantums_passed, last_print,
                     receivingProcesses, last_received_sync, acct, perf, lastGrant>>
      /\ checked' \in BOOLEAN /\ wait_until' \in Int
      /\ pc' \in {"finish", "wait", "spin"} /\ (pc' = "wait" => pc = "preempted")
  BY <1>1 DEF BlockCheck, PreemptedCheck, TailCheck, Goto, timevars, countvars, RRTypeOK
<1>5. RRTypeOK'
  BY <1>1, <1>3, <1>4 DEF RRTypeOK, genvars, ipcvars
<1>6. QED
  BY <1>3, <1>4, <1>5 DEF Shape, NewAcct

LEMMA ReapShape ==
  ASSUME Shape, MMUTypeOK', Reap PROVE Shape'
<1> DEFINE p == currProcess
<1>1. RRTypeOK /\ clk \in Int /\ p \in Procs
  BY PCBKnown, CurrentKnown DEF Shape, Reap
<1>2. /\ pcb[p].state = "R" /\ pcb'[p].forked = pcb[p].forked
      /\ \A q \in Procs \ {p} : pcb'[q].state = pcb[q].state /\ pcb'[q].forked = pcb[q].forked
  <2>1. CASE Finish(p)
    BY <1>1, <2>1, FinishPCB DEF Shape
  <2>2. CASE ReadNoTable(p)
    BY <2>2 DEF ReadNoTable
  <2>3. QED
    BY <2>1, <2>2 DEF Reap
<1>3. pcb[p].forked
  BY <1>1, <1>2 DEF Shape
<1>4. /\ acct' \in [Procs -> AcctRec]
      /\ \A q \in Procs \ {p} : acct'[q] = acct[q]
  <2> DEFINE a == [acct[p] EXCEPT !.finish_time = clk, !.remaining_time = shmRT]
  <2>1. acct \in [Procs -> AcctRec] /\ shmRT \in Int
    BY <1>1 DEF RRTypeOK
  <2>2. a \in AcctRec
    BY <1>1, <2>1, TwoTimes
  <2>3. acct' = [acct EXCEPT ![p] = a]
    BY <2>1 DEF Reap
  <2> HIDE DEF a
  <2>4. QED
    BY <1>1, <2>1, <2>2, <2>3
<1>5. perf' \in [num_procs: Nat, first_arrival: Int, total_runtime: Int, finish_time: Int,
                 waiting: Int]
  <2> DEFINE w == acct[p].waiting_time
             r == workload.runtime[p]
  <2>1. w \in Int /\ r \in Nat
    BY <1>1, TimesType
  <2> DEFINE a == perf.num_procs + 1
             b == perf.waiting + w
             c == perf.total_runtime + r
  <2>2. perf \in [num_procs: Nat, first_arrival: Int, total_runtime: Int, finish_time: Int,
                  waiting: Int]
    BY <1>1 DEF RRTypeOK
  <2>3. perf' = [perf EXCEPT !.num_procs = a, !.waiting = b, !.total_runtime = c,
                             !.finish_time = clk]
    BY <2>2 DEF Reap
  <2> HIDE DEF w, r
  <2>4. a \in Nat /\ b \in Int /\ c \in Int
    BY <2>1, <2>2
  <2> HIDE DEF a, b, c
  <2>5. QED
    BY <1>1, <2>2, <2>3, <2>4
<1>6. currentPCBs' \in Seq(Procs)
  BY <1>1, InOrderFacts DEF Reap, RRTypeOK, Without
<1>7. /\ currProcess' = NoOne /\ next_preemtion_time' \in Int /\ context_switch_until' \in Int
      /\ quantums_passed' \in Nat /\ pc' = "gate"
      /\ UNCHANGED <<workload, genvars, child, ipcvars, readyQueue, blockQueue, now, last_tick,
                     wait_until, last_print, checked, receivingProcesses, last_received_sync,
                     lastGrant>>
  <2>1. quantums_passed \in Nat
    BY <1>1 DEF RRTypeOK
  <2>2. QED
    BY <1>1, <2>1 DEF Reap, Goto, SwitchUntil
<1>8. RRTypeOK'
  BY <1>1, <1>4, <1>5, <1>6, <1>7 DEF RRTypeOK, genvars, ipcvars
<1>9. QED
  BY <1>2, <1>3, <1>4, <1>7, <1>8 DEF Shape, NewAcct

LEMMA ReceiveProcessShape ==
  ASSUME Shape, MMUTypeOK', ReceiveProcess PROVE Shape'
<1> DEFINE p == Head(msgq.arrived)
<1>1. RRTypeOK
  BY DEF Shape
<1>2. p \in Procs /\ Tail(msgq.arrived) \in Seq(Procs)
  BY <1>1, TailFacts DEF RRTypeOK, ReceiveProcess
<1>3. NewAcct(p) \in AcctRec /\ workload.arrival[p] \in Int
  <2>1. workload \in Workloads
    BY <1>1 DEF RRTypeOK
  <2>2. NewAcct(p) \in AcctRec
    BY <1>2, <2>1, NewAcctType
  <2>3. workload.arrival \in [Procs -> Nat]
    BY <2>1, WorkloadType
  <2>4. QED
    BY <1>2, <2>2, <2>3
<1>4. acct' = [acct EXCEPT ![p] = NewAcct(p)] /\ acct' \in [Procs -> AcctRec]
  BY <1>1, <1>2, <1>3 DEF ReceiveProcess, RRTypeOK
<1>5. readyQueue' \in Seq(Procs) /\ currentPCBs' \in Seq(Procs)
  BY <1>1, <1>2, AppendFacts DEF ReceiveProcess, RRTypeOK
<1>6. perf' \in [num_procs: Nat, first_arrival: Int, total_runtime: Int, finish_time: Int,
                 waiting: Int]
  BY <1>1, <1>3 DEF ReceiveProcess, FirstArrival, RRTypeOK
<1>7. msgq' \in [arrived: Seq(Procs), sync: Seq(Int), end: BOOLEAN]
  BY <1>1, <1>2 DEF ReceiveProcess, RRTypeOK
<1>8. /\ UNCHANGED <<MMUvars, workload, genvars, child, req_msgq, sem, shmRT, lastGrant,
                     processFinishedSignal, pc, timevars, blockQueue, currProcess,
                     quantums_passed, last_print, checked, receivingProcesses,
                     last_received_sync>>
      /\ pc = "receive"
  BY DEF ReceiveProcess
<1>9. RRTypeOK'
  BY <1>1, <1>4, <1>5, <1>6, <1>7, <1>8 DEF RRTypeOK, genvars, timevars
<1>10. \A q \in Procs : ~pcb'[q].forked => acct'[q] = NewAcct(q)'
  BY <1>1, <1>2, <1>4, <1>8 DEF Shape, RRTypeOK, MMUvars, NewAcct
<1>11. QED
  BY <1>8, <1>9, <1>10 DEF Shape, MMUvars

LEMMA ReceiveEndShape ==
  ASSUME Shape, MMUTypeOK', ReceiveSync \/ ReceiveEnd PROVE Shape'
<1>1. RRTypeOK
  BY DEF Shape
<1>2. /\ msgq' \in [arrived: Seq(Procs), sync: Seq(Int), end: BOOLEAN]
      /\ last_received_sync' \in Int
  <2>1. CASE ReceiveSync
    <3>1. Head(msgq.sync) \in Int /\ Tail(msgq.sync) \in Seq(Int)
      BY <1>1, <2>1, TailFacts DEF RRTypeOK, ReceiveSync
    <3>2. QED
      BY <1>1, <2>1, <3>1 DEF RRTypeOK, ReceiveSync
  <2>2. CASE ReceiveEnd
    BY <1>1, <2>2 DEF RRTypeOK, ReceiveEnd
  <2>3. QED
    BY <2>1, <2>2
<1>3. receivingProcesses' \in BOOLEAN
  BY <1>1 DEF RRTypeOK, ReceiveSync, ReceiveEnd
<1>4. /\ UNCHANGED <<MMUvars, workload, genvars, child, req_msgq, sem, shmRT, lastGrant,
                     processFinishedSignal, timevars, queuevars, quantums_passed, last_print,
                     checked, acct, perf>>
      /\ pc' \in {"receive", "algo"}
  BY DEF ReceiveSync, ReceiveEnd, Goto
<1>5. RRTypeOK'
  BY <1>1, <1>2, <1>3, <1>4 DEF RRTypeOK, genvars, timevars, queuevars
<1>6. QED
  BY <1>4, <1>5 DEF Shape, MMUvars, queuevars, NewAcct

LEMMA SwitchShape ==
  ASSUME Shape, MMUTypeOK', readyQueue # <<>>, Switch PROVE Shape'
<1> DEFINE p == Head(readyQueue)
<1>1. RRTypeOK /\ clk \in Int
  BY PCBKnown DEF Shape
<1>2. p \in Procs /\ Tail(readyQueue) \in Seq(Procs) /\ Dispatch(p)
  BY <1>1, SwitchMMU, TailFacts DEF RRTypeOK
<1>3. /\ pcb'[p].forked
      /\ \A q \in Procs \ {p} : pcb'[q].state = pcb[q].state /\ pcb'[q].forked = pcb[q].forked
  BY <1>2, DispatchPCB DEF Shape
<1>4. acct[p] \in AcctRec /\ workload.arrival[p] \in Int
  BY <1>1, <1>2, TimesType
<1>5. Charged(p) \in AcctRec
  <2> DEFINE a == acct[p]
             t == clk - workload.arrival[p]
             b == IF a.start_time # -1 THEN a
                  ELSE [a EXCEPT !.start_time = clk, !.waiting_time = t]
             w == b.waiting_time + clk - a.last_stopped
  <2>1. t \in Int
    BY <1>1, <1>4
  <2>2. Charged(p) = b \/ Charged(p) = [b EXCEPT !.waiting_time = w]
    BY DEF Charged
  <2> HIDE DEF t
  <2>3. b \in AcctRec
    BY <1>1, <1>4, <2>1 DEF AcctRec
  <2>4. a.last_stopped \in Int
    BY <1>1, <1>2, TimesType
  <2> HIDE DEF a, b
  <2>5. w \in Int
    BY <1>1, <2>3, <2>4 DEF AcctRec
  <2> HIDE DEF w
  <2>6. QED
    BY <2>2, <2>3, <2>5 DEF AcctRec
<1>6. /\ acct' \in [Procs -> AcctRec]
      /\ \A q \in Procs \ {p} : acct'[q] = acct[q]
  BY <1>1, <1>2, <1>5 DEF Switch, RunProcess, RRTypeOK
<1>7. shmRT' = acct[p].remaining_time /\ shmRT' \in Int
  BY <1>4 DEF Switch, RunProcess, AcctRec
<1>8. /\ child' \in [Procs -> ChildRec]
      /\ \A q \in Procs : child'[q].pc \in {"boot", "down", "send", "count"} =>
                             child'[q].remainingtime >= 1
  <2>1. child \in [Procs -> ChildRec]
    BY <1>1 DEF RRTypeOK
  <2>2. CASE pcb[p].forked
    <3>1. child' = [child EXCEPT ![p] = [@ EXCEPT !.stopped = FALSE]]
      BY <2>2 DEF Switch, RunProcess
    <3>2. [child[p] EXCEPT !.stopped = FALSE] \in ChildRec
      BY <1>2, <2>1 DEF ChildRec
    <3>3. child' \in [Procs -> ChildRec]
      BY <1>2, <2>1, <3>1, <3>2
    <3>4. \A q \in Procs : child'[q].pc = child[q].pc
                           /\ child'[q].remainingtime = child[q].remainingtime
      BY <1>2, <2>1, <3>1 DEF ChildRec
    <3>5. QED
      BY <3>3, <3>4 DEF Shape
  <2>3. CASE ~pcb[p].forked
    <3> DEFINE t == acct[p].remaining_time
               c == [NoChild EXCEPT !.pc = "boot", !.remainingtime = t]
    <3>1. t \in Nat \ {0}
      BY <1>1, <1>2, <2>3, NewAcctType DEF Shape, RRTypeOK
    <3>2. child' = [child EXCEPT ![p] = c]
      BY <2>3 DEF Switch, RunProcess
    <3> HIDE DEF t
    <3>3. c \in ChildRec /\ c.pc = "boot" /\ c.remainingtime >= 1
      <4>1. NoChild \in ChildRec
        BY DEF NoChild, ChildRec
      <4>2. t \in Nat /\ t >= 1
        BY <3>1
      <4>3. \A n \in ChildRec : LET d == [n EXCEPT !.pc = "boot", !.remainingtime = t]
                                IN  d \in ChildRec /\ d.pc = "boot" /\ d.remainingtime = t
        BY <4>2 DEF ChildRec
      <4>4. QED
        BY <4>1, <4>2, <4>3
    <3> HIDE DEF c
    <3>4. QED
      BY <1>2, <2>1, <3>2, <3>3 DEF Shape
  <2>4. QED
    BY <2>2, <2>3
<1>9. /\ currProcess' = p /\ readyQueue' = Tail(readyQueue) /\ next_preemtion_time' \in Int
      /\ pc' = "clear"
      /\ UNCHANGED <<workload, genvars, msgq, req_msgq, sem, processFinishedSignal, blockQueue,
                     currentPCBs, context_switch_until, wait_until, now, last_tick,
                     quantums_passed, last_print, checked, receivingProcesses,
                     last_received_sync, perf, lastGrant>>
  BY <1>1, RRAssumption DEF Switch, Goto, RRTypeOK
<1>10. RRTypeOK'
  BY <1>1, <1>2, <1>6, <1>7, <1>8, <1>9 DEF RRTypeOK, genvars
<1>11. QED
  BY <1>3, <1>6, <1>8, <1>9, <1>10 DEF Shape, NewAcct

LEMMA PreemptShape ==
  ASSUME Shape, MMUTypeOK', AlgoPreempt PROVE Shape'
<1> DEFINE p == currProcess
<1>1. RRTypeOK /\ clk \in Int /\ p \in Procs
  BY PCBKnown, CurrentKnown DEF Shape, AlgoPreempt, QuantumOver
<1>2. /\ pcb[p].state = "R" /\ pcb'[p].state = "W" /\ pcb'[p].forked = pcb[p].forked
      /\ \A q \in Procs \ {p} : pcb'[q].state = pcb[q].state /\ pcb'[q].forked = pcb[q].forked
  BY <1>1, PreemptPCB DEF Shape, AlgoPreempt
<1>3. pcb[p].forked
  BY <1>1, <1>2 DEF Shape
<1>4. /\ acct' \in [Procs -> AcctRec]
      /\ \A q \in Procs \ {p} : acct'[q] = acct[q]
  <2>1. acct' = Saved(p)
    BY DEF AlgoPreempt
  <2>2. QED
    BY <1>1, <2>1, SavedFacts
<1>5. /\ child' \in [Procs -> ChildRec]
      /\ \A q \in Procs : child'[q].pc = child[q].pc
                          /\ child'[q].remainingtime = child[q].remainingtime
  <2>1. child' = Stopped(p)
    BY DEF AlgoPreempt
  <2>2. QED
    BY <1>1, <2>1, StoppedFacts
<1>6. readyQueue' \in Seq(Procs) /\ readyQueue' # <<>>
  BY <1>1, AppendFacts DEF AlgoPreempt, RRTypeOK
<1>7. /\ context_switch_until' \in Int /\ quantums_passed' \in Nat /\ pc' = "preempted"
      /\ currProcess # NoOne
      /\ UNCHANGED <<workload, genvars, ipcvars, blockQueue, currentPCBs, currProcess,
                     next_preemtion_time, wait_until, now, last_tick, last_print, checked,
                     receivingProcesses, last_received_sync, perf, lastGrant>>
  BY <1>1 DEF AlgoPreempt, QuantumOver, Goto, SwitchUntil, RRTypeOK
<1>8. RRTypeOK'
  BY <1>1, <1>4, <1>5, <1>6, <1>7 DEF RRTypeOK, genvars, ipcvars
<1>9. QED
  BY <1>2, <1>3, <1>4, <1>5, <1>6, <1>7, <1>8 DEF Shape, NewAcct

LEMMA ClearShape ==
  ASSUME Shape, MMUTypeOK', ClearCheck PROVE Shape'
<1>1. RRTypeOK
  BY DEF Shape
<1>2. pcb' = pcb
  BY ClearPCB DEF ClearCheck, MMUvars
<1>3. last_print' \in Int
  BY <1>1 DEF ClearCheck, RRTypeOK
<1>4. RRTypeOK'
  BY <1>1, <1>3 DEF ClearCheck, Goto, RRTypeOK, genvars, ipcvars, queuevars, timevars
<1>5. QED
  BY <1>2, <1>4 DEF Shape, ClearCheck, Goto, queuevars, NewAcct

LEMMA ShapeNext ==
  ASSUME Shape, [RRNext]_rrvars PROVE Shape'
<1>1. MMUTypeOK'
  BY StepMMU, NextType DEF Shape
<1>2. CASE undefined = "no" /\ ClockTick
  BY <1>2, ClockShape
<1>3. CASE Generator
  BY <1>3, GeneratorShape
<1>4. ASSUME NEW p \in Procs, Child(p) PROVE Shape'
  BY <1>4, ChildShape
<1>5. CASE Scheduler
  <2>1. CASE AlgoDispatch
    BY <1>1, <2>1, SwitchShape DEF AlgoDispatch
  <2>2. CASE WaitOver
    BY <1>1, <2>2, SwitchShape DEF WaitOver, Shape
  <2>3. QED
    BY <1>1, <1>5, <2>1, <2>2, PlainShape, AnsweredShape, FaultsShape, CheckShape, ReapShape,
       ReceiveProcessShape, ReceiveEndShape, PreemptShape, ClearShape DEF Scheduler
<1>6. CASE Terminated \/ UNCHANGED rrvars
  BY <1>6, StutterShape DEF Terminated
<1>7. QED
  BY <1>2, <1>3, <1>4, <1>5, <1>6 DEF RRNext

LEMMA ShapeHolds == RRSpec => []Shape
<1>1. RRInit => Shape
  BY ShapeInit
<1>2. Shape /\ [RRNext]_rrvars => Shape'
  BY ShapeNext
<1>3. QED
  BY <1>1, <1>2, PTL DEF RRSpec

\* RRTypeOK: the queues hold processes, a child has a remaining time that is never
\* negative, and the counters of RR_algo and of the report have their types.
THEOREM RRTypeCorrect == RRSpec => []RRTypeOK
<1>1. Shape => RRTypeOK
  BY DEF Shape
<1>2. QED
  BY <1>1, ShapeHolds, PTL

\* MMUSpec: handleRequests, runProcess, checkBlockEnd, handleFinishedProcesses and
\* the preemption of RR_algo call the memory manager only for a process in the
\* state its handlers expect, so what MMU_proofs proves of MMUSpec holds here.
THEOREM ImplementsMMU == RRSpec => MMUSpec
<1>1. RRInit => MMUInit
  BY DEF RRInit
<1>2. Shape /\ [RRNext]_rrvars => [MMUNext]_MMUvars
  BY StepMMU
<1>3. QED
  BY <1>1, <1>2, ShapeHolds, PTL DEF RRSpec, MMUSpec

-----------------------------------------------------------------------------
(* Every process in its place.                                              *)

\* The processes that the scheduler does not know yet.
Unknown == ToSet(g_queue) \cup ToSet(msgq.arrived)

\* Each process is sent and received once, and a process is blocked only as long
\* as it is in the block queue: the set that checkBlockEnd wakes.
Places ==
    /\ ProcessesInPlace
    /\ IsInjective(g_queue) /\ IsInjective(msgq.arrived)
    /\ ToSet(g_queue) \cap ToSet(msgq.arrived) = {}
    /\ \A p \in Unknown : p \notin ToSet(currentPCBs) /\ pcb[p].state = "W"
    /\ \A p \in Procs : pcb[p].state = "B" => p \in ToSet(blockQueue)

\* The same in terms of sets.
LEMMA PlacesParts ==
  Places <=>
    /\ IsInjective(readyQueue) /\ IsInjective(blockQueue) /\ IsInjective(currentPCBs)
    /\ IsInjective(g_queue) /\ IsInjective(msgq.arrived)
    /\ ToSet(g_queue) \cap ToSet(msgq.arrived) = {}
    /\ ToSet(currentPCBs) = Running \cup ToSet(readyQueue) \cup ToSet(blockQueue)
    /\ \A p \in Procs :
          /\ p \in ToSet(currentPCBs) => pcb[p].state =
                IF p \in Running THEN "R" ELSE IF p \in ToSet(blockQueue) THEN "B" ELSE "W"
          /\ p \in Running => p \notin ToSet(readyQueue) \cup ToSet(blockQueue)
          /\ p \in ToSet(blockQueue) => p \notin ToSet(readyQueue)
          /\ p \notin Running => child[p].pc \in {"none", "dead"} \/ child[p].stopped
          /\ pcb[p].state = "B" => p \in ToSet(blockQueue)
    /\ \A p \in Unknown : p \notin ToSet(currentPCBs) /\ pcb[p].state = "W"
BY DEF Places, ProcessesInPlace, QueuesPartition, OnlyCurrentRuns

LEMMA QueueSets ==
  ASSUME RRTypeOK
  PROVE  /\ ToSet(readyQueue) \subseteq Procs /\ ToSet(blockQueue) \subseteq Procs
         /\ ToSet(currentPCBs) \subseteq Procs /\ Unknown \subseteq Procs /\ Running \subseteq Procs
<1>1. /\ readyQueue \in Seq(Procs) /\ blockQueue \in Seq(Procs) /\ currentPCBs \in Seq(Procs)
      /\ g_queue \in Seq(Procs) /\ msgq.arrived \in Seq(Procs)
      /\ currProcess \in Procs \cup {NoOne}
  BY DEF RRTypeOK
<1>2. \A q \in Seq(Procs) : ToSet(q) \subseteq Procs
  BY DEF ToSet
<1>3. QED
  BY <1>1, <1>2 DEF Unknown, Running

\* Steps that move no process and change no state of a PCB.
LEMMA StillPlaces ==
  ASSUME Shape, Places,
         UNCHANGED <<readyQueue, blockQueue, currentPCBs, currProcess, g_queue, child>>,
         msgq'.arrived = msgq.arrived,
         \A p \in Procs : pcb'[p].state = pcb[p].state,
         pc' = pc \/ (pc \notin {"preempted", "wait"} /\ pc' \notin {"preempted", "wait"})
  PROVE  Places'
<1>1. Running' = Running
  BY DEF Running
<1>2. Unknown' = Unknown
  BY DEF Unknown
<1>3. Unknown \subseteq Procs
  BY QueueSets DEF Shape
<1>4. QED
  BY <1>1, <1>2, <1>3 DEF Places, ProcessesInPlace, QueuesPartition, OnlyCurrentRuns

LEMMA PlainPlaces ==
  ASSUME Shape, Places,
         \/ NewTick \/ Exit \/ NoRequest \/ FinishCheck \/ Gate \/ AlgoNothing \/ AlgoExtend
         \/ Grant \/ RequestAnswered \/ ReceiveSync \/ ReceiveEnd \/ ClearCheck
  PROVE  Places'
<1>1. CASE NewTick \/ Exit \/ NoRequest \/ FinishCheck \/ Gate \/ AlgoNothing \/ AlgoExtend
           \/ Grant \/ ReceiveSync \/ ReceiveEnd
  <2>1. /\ UNCHANGED <<MMUvars, readyQueue, blockQueue, currentPCBs, currProcess, g_queue, child>>
        /\ pc' = pc \/ (pc \notin {"preempted", "wait"} /\ pc' \notin {"preempted", "wait"})
    BY <1>1 DEF NewTick, Exit, NoRequest, FinishCheck, Gate, AlgoNothing, AlgoExtend, QuantumOver,
                Grant, ReceiveSync, ReceiveEnd, Goto, genvars, ipcvars, queuevars
  <2>2. msgq \in [arrived: Seq(Procs), sync: Seq(Int), end: BOOLEAN]
    BY DEF Shape, RRTypeOK
  <2>3. msgq'.arrived = msgq.arrived
    BY <1>1, <2>2 DEF NewTick, Exit, NoRequest, FinishCheck, Gate, AlgoNothing, AlgoExtend,
                      Grant, ReceiveSync, ReceiveEnd, ipcvars
  <2>4. QED
    BY <2>1, <2>3, StillPlaces DEF MMUvars
<1>2. CASE RequestAnswered
  <2>1. pcb' = pcb
    BY <1>2, HitPCB DEF RequestAnswered, ReadPastTable, ReadNoTable, MMUvars
  <2>2. /\ UNCHANGED <<readyQueue, blockQueue, currentPCBs, currProcess, g_queue, child, msgq>>
        /\ pc = "requests" /\ pc' = "block"
    BY <1>2 DEF RequestAnswered, TakeRequest, Goto, genvars
  <2>3. QED
    BY <2>1, <2>2, StillPlaces
<1>3. CASE ClearCheck
  <2>1. pcb' = pcb
    BY <1>3, ClearPCB DEF ClearCheck, MMUvars
  <2>2. /\ UNCHANGED <<readyQueue, blockQueue, currentPCBs, currProcess, g_queue, child, msgq>>
        /\ pc = "clear" /\ pc' = "grant"
    BY <1>3 DEF ClearCheck, Goto, genvars, ipcvars, queuevars
  <2>3. QED
    BY <2>1, <2>2, StillPlaces
<1>4. QED
  BY <1>1, <1>2, <1>3

LEMMA GeneratorPlaces ==
  ASSUME Shape, Places, Generator PROVE Places'
<1>1. RRTypeOK
  BY DEF Shape
<1>2. UNCHANGED <<pcb, readyQueue, blockQueue, currentPCBs, currProcess, child, pc>>
  BY DEF Generator, MMUvars, schedvars, queuevars
<1>3. CASE GenSend
  <2> DEFINE p == Head(g_queue)
  <2>1. g_queue \in Seq(Procs) /\ g_queue # <<>> /\ msgq.arrived \in Seq(Procs)
    BY <1>1, <1>3 DEF RRTypeOK, GenSend, Arrived
  <2>2. /\ p \in Procs /\ ToSet(g_queue) = {p} \cup ToSet(Tail(g_queue))
        /\ p \notin ToSet(Tail(g_queue)) /\ IsInjective(Tail(g_queue))
    BY <2>1, TailFacts DEF Places
  <2>3. g_queue' = Tail(g_queue) /\ msgq'.arrived = Append(msgq.arrived, p)
    BY <1>1, <1>3 DEF GenSend, RRTypeOK
  <2>4. p \notin ToSet(msgq.arrived)
    BY <2>2 DEF Places
  <2>5. ToSet(msgq'.arrived) = ToSet(msgq.arrived) \cup {p} /\ IsInjective(msgq'.arrived)
    BY <2>1, <2>2, <2>3, <2>4, AppendFacts DEF Places
  <2>6. Unknown' = Unknown
    BY <2>2, <2>3, <2>5 DEF Unknown
  <2>7. Running' = Running
    BY <1>2 DEF Running
  <2>8. ToSet(g_queue') \cap ToSet(msgq'.arrived) = {}
    BY <2>2, <2>3, <2>5 DEF Places
  <2>9. QED
    BY <1>2, <2>2, <2>3, <2>5, <2>6, <2>7, <2>8
       DEF Places, ProcessesInPlace, QueuesPartition, OnlyCurrentRuns
<1>4. CASE GenPoll \/ GenSync \/ GenEnd \/ GenShutdown(pc = "exited")
  <2>1. g_queue' = g_queue /\ msgq'.arrived = msgq.arrived
    BY <1>1, <1>4 DEF GenPoll, GenSync, GenEnd, GenShutdown, RRTypeOK
  <2>2. QED
    BY <1>2, <2>1, StillPlaces
<1>5. QED
  BY <1>3, <1>4 DEF Generator, GenStep

\* A child that takes a step is not stopped, so it is the current process.
LEMMA ChildPlaces ==
  ASSUME Shape, Places, NEW p \in Procs, Child(p) PROVE Places'
<1>1. /\ UNCHANGED <<pcb, readyQueue, blockQueue, currentPCBs, currProcess, g_queue, msgq, pc>>
      /\ child[p].pc \notin {"none", "dead"} /\ ~child[p].stopped
      /\ \E c : child' = [child EXCEPT ![p] = c]
  <2>1. child \in [Procs -> ChildRec]
    BY DEF Shape, RRTypeOK
  <2>2. UNCHANGED <<pcb, readyQueue, blockQueue, currentPCBs, currProcess, g_queue, msgq, pc>>
    BY DEF Child, ChildBoot, ChildDown, ChildSend, ChildCount, ChildExit, MMUvars, genvars,
           ipcvars, schedvars, queuevars
  <2>3. child[p].pc \notin {"none", "dead"} /\ ~child[p].stopped
    BY DEF Child, ChildBoot, ChildDown, ChildSend, ChildCount, ChildExit, Runs
  <2>4. \E c : child' = [child EXCEPT ![p] = c]
    BY <2>1 DEF Child, ChildBoot, ChildDown, ChildSend, ChildCount, ChildExit
  <2>5. QED
    BY <2>2, <2>3, <2>4
<1>2. p \in Running
  BY <1>1 DEF Places, ProcessesInPlace, OnlyCurrentRuns
<1>3. \A q \in Procs \ {p} : child'[q] = child[q]
  BY <1>1 DEF Shape, RRTypeOK
<1>4. Running' = Running /\ Unknown' = Unknown
  BY <1>1 DEF Running, Unknown
<1>5. QED
  BY <1>1, <1>2, <1>3, <1>4 DEF Places, ProcessesInPlace, QueuesPartition, OnlyCurrentRuns

\* A fault takes the current process to the rear of the block queue.
LEMMA FaultsPlaces ==
  ASSUME Shape, Places, RequestFaults PROVE Places'
<1> DEFINE p == currProcess
<1>1. RRTypeOK /\ p \in Procs
  BY ReceivedType DEF Shape, RequestFaults, TakeRequest
<1>2. /\ pcb'[p].state = "B"
      /\ \A q \in Procs \ {p} : pcb'[q].state = pcb[q].state
  BY <1>1, FaultPCB DEF Shape, RequestFaults
<1>3. /\ UNCHANGED <<readyQueue, currentPCBs, g_queue, msgq>>
      /\ blockQueue' = Append(blockQueue, p)
      /\ child' = [child EXCEPT ![p].stopped = TRUE]
      /\ Running = {p} /\ Running' = {}
  BY <1>1, ProcsAreNumbers
     DEF RequestFaults, TakeRequest, RequestThere, Goto, Stopped, genvars, Running
<1>4. p \notin ToSet(blockQueue) /\ p \notin ToSet(readyQueue) /\ p \in ToSet(currentPCBs)
  BY <1>1, <1>3, PlacesParts
<1>5. ToSet(blockQueue') = ToSet(blockQueue) \cup {p} /\ IsInjective(blockQueue')
  <2>1. blockQueue \in Seq(Procs) /\ IsInjective(blockQueue)
    BY <1>1, PlacesParts DEF RRTypeOK
  <2>2. QED
    BY <1>1, <1>3, <1>4, <2>1, AppendFacts
<1>6. child'[p].stopped /\ \A q \in Procs \ {p} : child'[q] = child[q]
  BY <1>1, <1>3 DEF RRTypeOK, ChildRec
<1>7. Unknown' = Unknown /\ Unknown \subseteq Procs
  BY <1>1, <1>3, QueueSets DEF Unknown
<1>8. /\ \A q \in Procs :
          /\ q \in ToSet(currentPCBs)' => pcb'[q].state =
                IF q \in Running' THEN "R" ELSE IF q \in ToSet(blockQueue') THEN "B" ELSE "W"
          /\ q \in Running' => q \notin ToSet(readyQueue') \cup ToSet(blockQueue')
          /\ q \in ToSet(blockQueue') => q \notin ToSet(readyQueue')
          /\ q \notin Running' => child'[q].pc \in {"none", "dead"} \/ child'[q].stopped
          /\ pcb'[q].state = "B" => q \in ToSet(blockQueue')
  BY <1>1, <1>2, <1>3, <1>4, <1>5, <1>6, PlacesParts
<1>9. \A q \in Unknown' : q \notin ToSet(currentPCBs') /\ pcb'[q].state = "W"
  BY <1>1, <1>2, <1>3, <1>4, <1>7, PlacesParts
<1>10. ToSet(currentPCBs') = Running' \cup ToSet(readyQueue') \cup ToSet(blockQueue')
  BY <1>3, <1>5, PlacesParts
<1>11. QED
  BY <1>3, <1>5, <1>8, <1>9, <1>10
     DEF Places, ProcessesInPlace, QueuesPartition, OnlyCurrentRuns

\* checkBlockEnd takes the processes whose wait is over to the ready queue.
LEMMA CheckPlaces ==
  ASSUME Shape, Places, BlockCheck \/ PreemptedCheck \/ TailCheck PROVE Places'
<1>1. RRTypeOK
  BY DEF Shape
<1>2. /\ UNCHANGED <<child, currentPCBs, currProcess, g_queue, msgq>>
      /\ Running' = Running
  BY DEF BlockCheck, PreemptedCheck, TailCheck, Goto, genvars, ipcvars, Running
<1>3. CASE UNCHANGED <<MMUvars, readyQueue, blockQueue>>
  BY <1>2, <1>3 DEF MMUvars, Places, ProcessesInPlace, QueuesPartition, OnlyCurrentRuns, Unknown
<1>4. CASE CheckBlockEnd
  <2>1. /\ ToSet(readyQueue') = ToSet(readyQueue) \cup (ToSet(blockQueue) \cap Overdue)
        /\ ToSet(blockQueue') = ToSet(blockQueue) \ Overdue
        /\ IsInjective(blockQueue) => IsInjective(blockQueue')
        /\ IsInjective(readyQueue) /\ IsInjective(blockQueue)
             /\ ToSet(readyQueue) \cap ToSet(blockQueue) = {} => IsInjective(readyQueue')
        /\ \A q \in Procs : pcb'[q].state = IF q \in Overdue THEN "W" ELSE pcb[q].state
    BY <1>1, <1>4, CheckBlockEndEffect DEF Shape, RRTypeOK
  <2>2. Overdue \subseteq Procs /\ \A q \in Overdue : pcb[q].state = "B"
    BY DEF Overdue
  <2>3. Overdue \subseteq ToSet(blockQueue)
    BY <2>2, PlacesParts
  <2>4. ToSet(readyQueue) \cap ToSet(blockQueue) = {}
    BY <1>1, QueueSets, PlacesParts
  <2>5. IsInjective(readyQueue') /\ IsInjective(blockQueue')
    BY <2>1, <2>4, PlacesParts
  <2>6. Unknown' = Unknown /\ Unknown \subseteq Procs
    BY <1>1, <1>2, QueueSets DEF Unknown
  <2>7. \A q \in Procs :
          /\ q \in ToSet(currentPCBs)' => pcb'[q].state =
                IF q \in Running' THEN "R" ELSE IF q \in ToSet(blockQueue') THEN "B" ELSE "W"
          /\ q \in Running' => q \notin ToSet(readyQueue') \cup ToSet(blockQueue')
          /\ q \in ToSet(blockQueue') => q \notin ToSet(readyQueue')
          /\ q \notin Running' => child'[q].pc \in {"none", "dead"} \/ child'[q].stopped
          /\ pcb'[q].state = "B" => q \in ToSet(blockQueue')
    BY <1>2, <2>1, <2>2, <2>3, PlacesParts
  <2>8. \A q \in Unknown' : q \notin ToSet(currentPCBs') /\ pcb'[q].state = "W"
    BY <1>2, <2>1, <2>6, PlacesParts
  <2>9. ToSet(currentPCBs') = Running' \cup ToSet(readyQueue') \cup ToSet(blockQueue')
    BY <1>2, <2>1, <2>3, PlacesParts
  <2>10. QED
    BY <1>2, <2>5, <2>7, <2>8, <2>9 DEF Places, ProcessesInPlace, QueuesPartition, OnlyCurrentRuns
<1>5. QED
  BY <1>3, <1>4 DEF BlockCheck, PreemptedCheck, TailCheck

\* A process that is reaped leaves the list of PCBs; its child is dead.
LEMMA ReapPlaces ==
  ASSUME Shape, Places, Reap PROVE Places'
<1> DEFINE p == currProcess
<1>1. RRTypeOK /\ p \in Procs
  BY CurrentKnown DEF Shape, Reap
<1>2. /\ pcb'[p].state # "B"
      /\ \A q \in Procs \ {p} : pcb'[q].state = pcb[q].state
  <2>1. CASE Finish(p)
    BY <1>1, <2>1, FinishPCB DEF Shape
  <2>2. CASE ReadNoTable(p)
    BY <2>2 DEF ReadNoTable
  <2>3. QED
    BY <2>1, <2>2 DEF Reap
<1>3. /\ UNCHANGED <<readyQueue, blockQueue, child, g_queue, msgq>>
      /\ currentPCBs' = InOrder(currentPCBs, Procs \ {p})
      /\ child[p].pc = "dead"
      /\ Running = {p} /\ Running' = {}
  BY <1>1, ProcsAreNumbers DEF Reap, Goto, genvars, ipcvars, Without, Running
<1>4. p \notin ToSet(blockQueue) /\ p \notin ToSet(readyQueue) /\ p \in ToSet(currentPCBs)
  BY <1>1, <1>3, PlacesParts
<1>5. ToSet(currentPCBs') = ToSet(currentPCBs) \ {p} /\ IsInjective(currentPCBs')
  <2>1. currentPCBs \in Seq(Procs) /\ ToSet(currentPCBs) \subseteq Procs
    BY <1>1, QueueSets DEF RRTypeOK
  <2>2. QED
    BY <1>3, <2>1, InOrderFacts, PlacesParts
<1>6. Unknown' = Unknown /\ Unknown \subseteq Procs
  BY <1>1, <1>3, QueueSets DEF Unknown
<1>7. \A q \in Procs :
          /\ q \in ToSet(currentPCBs)' => pcb'[q].state =
                IF q \in Running' THEN "R" ELSE IF q \in ToSet(blockQueue') THEN "B" ELSE "W"
          /\ q \in Running' => q \notin ToSet(readyQueue') \cup ToSet(blockQueue')
          /\ q \in ToSet(blockQueue') => q \notin ToSet(readyQueue')
          /\ q \notin Running' => child'[q].pc \in {"none", "dead"} \/ child'[q].stopped
          /\ pcb'[q].state = "B" => q \in ToSet(blockQueue')
  BY <1>1, <1>2, <1>3, <1>4, <1>5, PlacesParts
<1>8. \A q \in Unknown' : q \notin ToSet(currentPCBs') /\ pcb'[q].state = "W"
  BY <1>1, <1>2, <1>3, <1>4, <1>5, <1>6, PlacesParts
<1>9. ToSet(currentPCBs') = Running' \cup ToSet(readyQueue') \cup ToSet(blockQueue')
  BY <1>3, <1>4, <1>5, PlacesParts
<1>10. QED
  BY <1>3, <1>5, <1>7, <1>8, <1>9, PlacesParts
     DEF Places, ProcessesInPlace, QueuesPartition, OnlyCurrentRuns

LEMMA ReceivePlaces ==
  ASSUME Shape, Places, ReceiveProcess PROVE Places'
<1> DEFINE p == Head(msgq.arrived)
<1>1. RRTypeOK
  BY DEF Shape
<1>2. /\ msgq.arrived \in Seq(Procs) /\ msgq.arrived # <<>>
      /\ readyQueue \in Seq(Procs) /\ currentPCBs \in Seq(Procs)
  BY <1>1 DEF ReceiveProcess, RRTypeOK
<1>3. /\ p \in Procs /\ ToSet(msgq.arrived) = {p} \cup ToSet(Tail(msgq.arrived))
      /\ p \notin ToSet(Tail(msgq.arrived)) /\ IsInjective(Tail(msgq.arrived))
  BY <1>2, TailFacts, PlacesParts
<1>4. /\ UNCHANGED <<pcb, child, blockQueue, currProcess, g_queue, pc>>
      /\ readyQueue' = Append(readyQueue, p) /\ currentPCBs' = Append(currentPCBs, p)
      /\ msgq'.arrived = Tail(msgq.arrived)
  BY <1>1 DEF ReceiveProcess, MMUvars, genvars, RRTypeOK
<1>5. p \in Unknown /\ p \notin ToSet(currentPCBs) /\ pcb[p].state = "W"
  BY <1>3, PlacesParts DEF Unknown
<1>6. p \notin Running \cup ToSet(readyQueue) \cup ToSet(blockQueue)
  BY <1>5, PlacesParts
<1>7. /\ ToSet(readyQueue') = ToSet(readyQueue) \cup {p} /\ IsInjective(readyQueue')
      /\ ToSet(currentPCBs') = ToSet(currentPCBs) \cup {p} /\ IsInjective(currentPCBs')
  BY <1>2, <1>3, <1>4, <1>5, <1>6, AppendFacts, PlacesParts
<1>8. Running' = Running
  BY <1>4 DEF Running
<1>9. Unknown' = Unknown \ {p} /\ Unknown \subseteq Procs
  <2>1. p \notin ToSet(g_queue)
    BY <1>3, PlacesParts
  <2>2. QED
    BY <1>1, <1>3, <1>4, <2>1, QueueSets DEF Unknown
<1>10. \A q \in Procs :
          /\ q \in ToSet(currentPCBs)' => pcb'[q].state =
                IF q \in Running' THEN "R" ELSE IF q \in ToSet(blockQueue') THEN "B" ELSE "W"
          /\ q \in Running' => q \notin ToSet(readyQueue') \cup ToSet(blockQueue')
          /\ q \in ToSet(blockQueue') => q \notin ToSet(readyQueue')
          /\ q \notin Running' => child'[q].pc \in {"none", "dead"} \/ child'[q].stopped
          /\ pcb'[q].state = "B" => q \in ToSet(blockQueue')
  BY <1>3, <1>4, <1>5, <1>6, <1>7, <1>8, PlacesParts
<1>11. \A q \in Unknown' : q \notin ToSet(currentPCBs') /\ pcb'[q].state = "W"
  BY <1>4, <1>7, <1>9, PlacesParts
<1>12. ToSet(currentPCBs') = Running' \cup ToSet(readyQueue') \cup ToSet(blockQueue')
  BY <1>4, <1>7, <1>8, PlacesParts
<1>13. ToSet(g_queue') \cap ToSet(msgq'.arrived) = {}
  BY <1>3, <1>4, PlacesParts
<1>14. QED
  BY <1>3, <1>4, <1>7, <1>10, <1>11, <1>12, <1>13, PlacesParts
     DEF Places, ProcessesInPlace, QueuesPartition, OnlyCurrentRuns

\* The first of the ready queue gets the CPU, which nobody has.
LEMMA SwitchPlaces ==
  ASSUME Shape, Places, readyQueue # <<>>, Running = {}, Switch PROVE Places'
<1> DEFINE p == Head(readyQueue)
<1>1. RRTypeOK
  BY DEF Shape
<1>2. /\ p \in Procs /\ ToSet(readyQueue) = {p} \cup ToSet(Tail(readyQueue))
      /\ p \notin ToSet(Tail(readyQueue)) /\ IsInjective(Tail(readyQueue))
  BY <1>1, TailFacts, PlacesParts DEF RRTypeOK
<1>3. /\ pcb'[p].state = "R"
      /\ \A q \in Procs \ {p} : pcb'[q].state = pcb[q].state
  BY <1>1, SwitchMMU, DispatchPCB DEF Shape
<1>4. /\ UNCHANGED <<blockQueue, currentPCBs, g_queue, msgq>>
      /\ readyQueue' = Tail(readyQueue)
      /\ Running' = {p}
  BY <1>2, ProcsAreNumbers DEF Switch, Goto, genvars, Running
<1>5. \A q \in Procs \ {p} : child'[q] = child[q]
  <2>1. PICK c : child' = [child EXCEPT ![p] = c]
    BY DEF Switch, RunProcess
  <2>2. QED
    BY <1>1, <2>1 DEF RRTypeOK
<1>6. p \in ToSet(currentPCBs) /\ p \notin ToSet(blockQueue)
  BY <1>2, PlacesParts
<1>7. Unknown' = Unknown /\ Unknown \subseteq Procs
  BY <1>1, <1>4, QueueSets DEF Unknown
<1>8. \A q \in Procs :
          /\ q \in ToSet(currentPCBs)' => pcb'[q].state =
                IF q \in Running' THEN "R" ELSE IF q \in ToSet(blockQueue') THEN "B" ELSE "W"
          /\ q \in Running' => q \notin ToSet(readyQueue') \cup ToSet(blockQueue')
          /\ q \in ToSet(blockQueue') => q \notin ToSet(readyQueue')
          /\ q \notin Running' => child'[q].pc \in {"none", "dead"} \/ child'[q].stopped
          /\ pcb'[q].state = "B" => q \in ToSet(blockQueue')
  BY <1>2, <1>3, <1>4, <1>5, <1>6, PlacesParts
<1>9. \A q \in Unknown' : q \notin ToSet(currentPCBs') /\ pcb'[q].state = "W"
  BY <1>3, <1>4, <1>6, <1>7, PlacesParts
<1>10. ToSet(currentPCBs') = Running' \cup ToSet(readyQueue') \cup ToSet(blockQueue')
  BY <1>2, <1>4, PlacesParts
<1>11. QED
  BY <1>2, <1>4, <1>8, <1>9, <1>10, PlacesParts
     DEF Places, ProcessesInPlace, QueuesPartition, OnlyCurrentRuns

\* The current process goes to the rear of the ready queue and is stopped.
LEMMA PreemptPlaces ==
  ASSUME Shape, Places, AlgoPreempt PROVE Places'
<1> DEFINE p == currProcess
<1>1. RRTypeOK /\ p \in Procs
  BY CurrentKnown DEF Shape, AlgoPreempt, QuantumOver
<1>2. /\ pcb'[p].state = "W"
      /\ \A q \in Procs \ {p} : pcb'[q].state = pcb[q].state
  BY <1>1, PreemptPCB DEF Shape, AlgoPreempt
<1>3. /\ UNCHANGED <<blockQueue, currentPCBs, g_queue, msgq>>
      /\ readyQueue' = Append(readyQueue, p)
      /\ child' = [child EXCEPT ![p].stopped = TRUE]
      /\ Running = {p} /\ Running' = {}
  BY <1>1, ProcsAreNumbers DEF AlgoPreempt, QuantumOver, Goto, Stopped, genvars, ipcvars, Running
<1>4. p \notin ToSet(blockQueue) /\ p \notin ToSet(readyQueue) /\ p \in ToSet(currentPCBs)
  BY <1>1, <1>3, PlacesParts
<1>5. ToSet(readyQueue') = ToSet(readyQueue) \cup {p} /\ IsInjective(readyQueue')
  <2>1. readyQueue \in Seq(Procs) /\ IsInjective(readyQueue)
    BY <1>1, PlacesParts DEF RRTypeOK
  <2>2. QED
    BY <1>1, <1>3, <1>4, <2>1, AppendFacts
<1>6. child'[p].stopped /\ \A q \in Procs \ {p} : child'[q] = child[q]
  BY <1>1, <1>3 DEF RRTypeOK, ChildRec
<1>7. Unknown' = Unknown /\ Unknown \subseteq Procs
  BY <1>1, <1>3, QueueSets DEF Unknown
<1>8. \A q \in Procs :
          /\ q \in ToSet(currentPCBs)' => pcb'[q].state =
                IF q \in Running' THEN "R" ELSE IF q \in ToSet(blockQueue') THEN "B" ELSE "W"
          /\ q \in Running' => q \notin ToSet(readyQueue') \cup ToSet(blockQueue')
          /\ q \in ToSet(blockQueue') => q \notin ToSet(readyQueue')
          /\ q \notin Running' => child'[q].pc \in {"none", "dead"} \/ child'[q].stopped
          /\ pcb'[q].state = "B" => q \in ToSet(blockQueue')
  BY <1>1, <1>2, <1>3, <1>4, <1>5, <1>6, PlacesParts
<1>9. \A q \in Unknown' : q \notin ToSet(currentPCBs') /\ pcb'[q].state = "W"
  BY <1>1, <1>2, <1>3, <1>4, <1>7, PlacesParts
<1>10. ToSet(currentPCBs') = Running' \cup ToSet(readyQueue') \cup ToSet(blockQueue')
  BY <1>3, <1>5, PlacesParts
<1>11. QED
  BY <1>3, <1>5, <1>8, <1>9, <1>10, PlacesParts
     DEF Places, ProcessesInPlace, QueuesPartition, OnlyCurrentRuns

LEMMA PlacesNext ==
  ASSUME Shape, Places, [RRNext]_rrvars PROVE Places'
<1>1. CASE ClockTick
  <2>1. UNCHANGED <<pcb, readyQueue, blockQueue, currentPCBs, currProcess, g_queue, child, msgq, pc>>
    BY <1>1 DEF ClockTick, Tick, genvars, ipcvars, schedvars, queuevars
  <2>2. QED
    BY <2>1, StillPlaces
<1>2. CASE Generator
  BY <1>2, GeneratorPlaces
<1>3. ASSUME NEW p \in Procs, Child(p) PROVE Places'
  BY <1>3, ChildPlaces
<1>4. CASE Scheduler
  <2>1. CASE AlgoDispatch
    BY <2>1, SwitchPlaces DEF AlgoDispatch, Running
  <2>2. CASE WaitOver
    BY <2>2, SwitchPlaces DEF WaitOver, Shape, Running
  <2>3. QED
    BY <1>4, <2>1, <2>2, PlainPlaces, FaultsPlaces, CheckPlaces, ReapPlaces, ReceivePlaces,
       PreemptPlaces DEF Scheduler
<1>5. CASE Terminated \/ UNCHANGED rrvars
  <2>1. UNCHANGED <<pcb, readyQueue, blockQueue, currentPCBs, currProcess, g_queue, child, msgq, pc>>
    BY <1>5 DEF Terminated, rrvars, MMUvars, genvars, ipcvars, schedvars, queuevars
  <2>2. QED
    BY <2>1, StillPlaces
<1>6. QED
  BY <1>1, <1>2, <1>3, <1>4, <1>5 DEF RRNext

LEMMA PlacesInit ==
  ASSUME RRInit PROVE Places
<1>1. /\ readyQueue = <<>> /\ blockQueue = <<>> /\ currentPCBs = <<>> /\ msgq.arrived = <<>>
      /\ Running = {}
      /\ \A p \in Procs : child[p].pc = "none" /\ pcb[p].state = "W"
      /\ g_queue = workload.order /\ workload \in Workloads
  BY DEF RRInit, GenInit, NoMessage, Running, NoChild, MMUInit, NewPCB
<1>2. g_queue \in Seq(Procs) /\ IsInjective(g_queue) /\ ToSet(g_queue) \subseteq Procs
  BY <1>1, WorkloadType DEF ToSet
<1>3. ToSet(<<>>) = {} /\ IsInjective(<<>>)
  BY DEF ToSet, IsInjective
<1>4. QED
  BY <1>1, <1>2, <1>3 DEF Places, ProcessesInPlace, QueuesPartition, OnlyCurrentRuns, Unknown

LEMMA PlacesHold == RRSpec => []Places
<1>1. RRInit => Places
  BY PlacesInit
<1>2. Shape /\ Places /\ [RRNext]_rrvars => Places'
  BY PlacesNext
<1>3. QED
  BY <1>1, <1>2, ShapeHolds, PTL DEF RRSpec

\* ProcessesInPlace: whatever order the events of a tick come in, a process that the
\* scheduler knows is in one queue or on the CPU, its PCB says where, and its child
\* can run only if it is the current one.
THEOREM EveryProcessInPlace == RRSpec => []ProcessesInPlace
<1>1. Places => ProcessesInPlace
  BY DEF Places
<1>2. QED
  BY <1>1, PlacesHold, PTL

-----------------------------------------------------------------------------
(* The CPU is shared as module CPUSharing says.                             *)

\* A child exists once its process was forked, and never has more work left than
\* its process's runtime; it ends when nothing is left.  A process that is waited
\* for or in the list of PCBs is not finished.
Carried ==
    /\ \A p \in Procs :
          /\ pcb[p].forked => child[p].pc # "none"
          /\ child[p].pc # "none" => pcb[p].forked
          /\ child[p].pc \in {"signal", "dead"} => child[p].remainingtime = 0
          /\ child[p].pc # "none" => child[p].remainingtime <= workload.runtime[p]
    /\ \A p \in Unknown \cup ToSet(currentPCBs) : ~Reaped(p)

\* Every process finds its file of requests: otherwise its child would end at once.
NoneMissing == \A w \in Workloads : w.missing = {}

\* The state of CPUSharing that a state of the simulation stands for.
Present == ToSet(currentPCBs) \cup {p \in Procs : Reaped(p)}

OnCPU == [c \in {1} |-> IF Running = {} THEN NoOne ELSE currProcess]

Used == [p \in Procs |-> IF child[p].pc = "none" THEN 0
                         ELSE workload.runtime[p] - child[p].remainingtime]

Done == {p \in Procs : Reaped(p)}

SharingStep == [Sharing!SharingNext]_(Sharing!sharingvars)

LEMMA SharedStutter ==
  ASSUME workload' = workload, Present' = Present, OnCPU' = OnCPU, Used' = Used, Done' = Done
  PROVE  SharingStep
BY DEF SharingStep, Sharing!sharingvars, Present, OnCPU, Used, Done

LEMMA StillShared ==
  ASSUME Shape, Carried,
         UNCHANGED <<workload, child, acct, currentPCBs, currProcess>>,
         Unknown' = Unknown, Running' = Running,
         \A p \in Procs : pcb'[p].forked = pcb[p].forked
  PROVE  Carried' /\ SharingStep
<1>1. Present' = Present /\ OnCPU' = OnCPU /\ Used' = Used /\ Done' = Done
  BY DEF Present, OnCPU, Used, Done, Reaped
<1>2. Carried'
  BY DEF Carried, Reaped
<1>3. QED
  BY <1>1, <1>2, SharedStutter

\* The steps that neither give nor take the CPU, nor use it.
LEMMA PlainShared ==
  ASSUME Shape, Places, Carried,
         \/ NewTick \/ Exit \/ NoRequest \/ FinishCheck \/ Gate \/ AlgoNothing \/ AlgoExtend
         \/ Grant \/ ReceiveSync \/ ReceiveEnd \/ RequestAnswered \/ ClearCheck
         \/ BlockCheck \/ PreemptedCheck \/ TailCheck
         \/ ClockTick \/ UNCHANGED rrvars
  PROVE  Carried' /\ SharingStep
<1>1. msgq \in [arrived: Seq(Procs), sync: Seq(Int), end: BOOLEAN]
  BY DEF Shape, RRTypeOK
<1>2. CASE NewTick \/ Exit \/ NoRequest \/ FinishCheck \/ Gate \/ AlgoNothing \/ AlgoExtend
           \/ Grant \/ ReceiveSync \/ ReceiveEnd
  <2>1. /\ UNCHANGED <<MMUvars, workload, child, acct, currentPCBs, currProcess, g_queue>>
        /\ pc' = pc \/ (pc \notin {"preempted", "wait"} /\ pc' \notin {"preempted", "wait"})
    BY <1>2 DEF NewTick, Exit, NoRequest, FinishCheck, Gate, AlgoNothing, AlgoExtend, QuantumOver,
                Grant, ReceiveSync, ReceiveEnd, Goto, genvars, ipcvars, queuevars, countvars
  <2>2. msgq'.arrived = msgq.arrived
    BY <1>1, <1>2 DEF NewTick, Exit, NoRequest, FinishCheck, Gate, AlgoNothing, AlgoExtend,
                      Grant, ReceiveSync, ReceiveEnd, ipcvars
  <2>3. Running' = Running /\ Unknown' = Unknown
    BY <2>1, <2>2 DEF Running, Unknown
  <2>4. QED
    BY <2>1, <2>3, StillShared DEF MMUvars
<1>3. CASE RequestAnswered
  <2>1. pcb' = pcb
    BY <1>3, HitPCB DEF RequestAnswered, ReadPastTable, ReadNoTable, MMUvars
  <2>2. /\ UNCHANGED <<workload, child, acct, currentPCBs, currProcess, g_queue, msgq>>
        /\ pc = "requests" /\ pc' = "block"
    BY <1>3 DEF RequestAnswered, TakeRequest, Goto, genvars
  <2>3. Running' = Running /\ Unknown' = Unknown
    BY <2>2 DEF Running, Unknown
  <2>4. QED
    BY <2>1, <2>2, <2>3, StillShared
<1>4. CASE ClearCheck
  <2>1. pcb' = pcb
    BY <1>4, ClearPCB DEF ClearCheck, MMUvars
  <2>2. /\ UNCHANGED <<workload, child, acct, currentPCBs, currProcess, g_queue, msgq>>
        /\ pc = "clear" /\ pc' = "grant"
    BY <1>4 DEF ClearCheck, Goto, genvars, ipcvars, queuevars
  <2>3. Running' = Running /\ Unknown' = Unknown
    BY <2>2 DEF Running, Unknown
  <2>4. QED
    BY <2>1, <2>2, <2>3, StillShared
<1>5. CASE BlockCheck \/ PreemptedCheck \/ TailCheck
  <2>1. \A p \in Procs : pcb'[p].forked = pcb[p].forked
    <3>1. CASE CheckBlockEnd
      BY <3>1, CheckBlockEndEffect DEF Shape, RRTypeOK
    <3>2. CASE UNCHANGED MMUvars
      BY <3>2 DEF MMUvars
    <3>3. QED
      BY <1>5, <3>1, <3>2 DEF BlockCheck, PreemptedCheck, TailCheck
  <2>2. /\ UNCHANGED <<workload, child, acct, currentPCBs, currProcess, g_queue, msgq>>
        /\ Running' = Running
    BY <1>5 DEF BlockCheck, PreemptedCheck, TailCheck, Goto, genvars, ipcvars, countvars, Running
  <2>3. Unknown' = Unknown
    BY <2>2 DEF Unknown
  <2>4. QED
    BY <2>1, <2>2, <2>3, StillShared
<1>6. CASE ClockTick \/ UNCHANGED rrvars
  <2>1. UNCHANGED <<pcb, workload, child, acct, currentPCBs, currProcess, g_queue, msgq, pc>>
    BY <1>6 DEF ClockTick, Tick, rrvars, MMUvars, genvars, ipcvars, schedvars, queuevars, countvars
  <2>2. Running' = Running /\ Unknown' = Unknown
    BY <2>1 DEF Running, Unknown
  <2>3. QED
    BY <2>1, <2>2, StillShared
<1>7. QED
  BY <1>2, <1>3, <1>4, <1>5, <1>6

LEMMA GeneratorShared ==
  ASSUME Shape, Places, Carried, Generator PROVE Carried' /\ SharingStep
<1>1. RRTypeOK
  BY DEF Shape
<1>2. UNCHANGED <<pcb, workload, child, acct, currentPCBs, currProcess, pc>>
  BY DEF Generator, MMUvars, schedvars, queuevars, countvars
<1>3. Unknown' = Unknown
  <2>1. CASE GenSend
    <3>1. g_queue \in Seq(Procs) /\ g_queue # <<>> /\ msgq.arrived \in Seq(Procs)
      BY <1>1, <2>1 DEF RRTypeOK, GenSend, Arrived
    <3>2. Head(g_queue) \in Procs /\ ToSet(g_queue) = {Head(g_queue)} \cup ToSet(Tail(g_queue))
      BY <3>1, TailFacts
    <3>3. g_queue' = Tail(g_queue) /\ msgq'.arrived = Append(msgq.arrived, Head(g_queue))
      BY <1>1, <2>1 DEF GenSend, RRTypeOK
    <3>4. ToSet(msgq'.arrived) = ToSet(msgq.arrived) \cup {Head(g_queue)}
      BY <3>1, <3>2, <3>3, AppendFacts
    <3>5. QED
      BY <3>2, <3>3, <3>4 DEF Unknown
  <2>2. CASE GenPoll \/ GenSync \/ GenEnd \/ GenShutdown(pc = "exited")
    BY <1>1, <2>2 DEF GenPoll, GenSync, GenEnd, GenShutdown, RRTypeOK, Unknown
  <2>3. QED
    BY <2>1, <2>2 DEF Generator, GenStep
<1>4. Running' = Running
  BY <1>2 DEF Running
<1>5. QED
  BY <1>2, <1>3, <1>4, StillShared

\* A child that counts a tick is the one that has the CPU: the time it uses is
\* time that was given to it.
LEMMA ChildShared ==
  ASSUME NoneMissing, Shape, Places, Carried, NEW p \in Procs, Child(p)
  PROVE  Carried' /\ SharingStep
<1>1. RRTypeOK
  BY DEF Shape
<1>2. /\ child \in [Procs -> ChildRec] /\ child[p] \in ChildRec
      /\ workload.runtime[p] \in Nat /\ p # NoOne
      /\ workload.missing = {}
  BY <1>1, TimesType, ProcsAreNumbers DEF RRTypeOK, NoneMissing
<1>3. UNCHANGED <<pcb, workload, acct, currentPCBs, currProcess, g_queue, msgq, pc>>
  BY DEF Child, ChildBoot, ChildDown, ChildSend, ChildCount, ChildExit, MMUvars, genvars,
         ipcvars, schedvars, queuevars, countvars
<1>4. Running' = Running /\ Unknown' = Unknown /\ Present' = Present /\ OnCPU' = OnCPU /\ Done' = Done
  BY <1>3 DEF Running, Unknown, Present, OnCPU, Done, Reaped
<1>5. ASSUME \A q \in Procs \ {p} : child'[q] = child[q],
             child[p].pc # "none", child'[p].pc # "none",
             child'[p].remainingtime <= child[p].remainingtime,
             child'[p].remainingtime \in Nat,
             child'[p].pc \in {"signal", "dead"} => child'[p].remainingtime = 0
      PROVE  Carried'
  BY <1>2, <1>3, <1>4, <1>5 DEF Carried, ChildRec, Reaped
<1>6. CASE ChildBoot(p) \/ ChildDown(p) \/ ChildSend(p) \/ ChildExit(p)
  <2>1. /\ \A q \in Procs \ {p} : child'[q] = child[q]
        /\ child'[p].remainingtime = child[p].remainingtime
        /\ child[p].pc # "none" /\ child'[p].pc # "none"
        /\ child'[p].pc \in {"signal", "dead"} => child[p].pc \in {"signal", "dead"}
    BY <1>2, <1>6 DEF ChildBoot, ChildDown, ChildSend, ChildExit, Runs, ChildRec
  <2>2. child'[p].pc \in {"signal", "dead"} => child'[p].remainingtime = 0
    BY <2>1 DEF Carried
  <2>3. Carried'
    BY <1>2, <1>5, <2>1, <2>2 DEF ChildRec
  <2>4. Used' = Used
    BY <1>3, <2>1 DEF Used
  <2>5. QED
    BY <1>3, <1>4, <2>3, <2>4, SharedStutter
<1>7. CASE ChildCount(p)
  <2> DEFINE left == child[p].remainingtime - 1
  <2>1. /\ \A q \in Procs \ {p} : child'[q] = child[q]
        /\ child'[p].remainingtime = left
        /\ child'[p].pc = IF left > 0 THEN "down" ELSE "signal"
        /\ child[p].pc = "count" /\ ~child[p].stopped
    BY <1>2, <1>7 DEF ChildCount, Runs, ChildRec, AfterTick
  <2>2. child[p].remainingtime \in Nat /\ child[p].remainingtime >= 1
    BY <1>2, <2>1 DEF Shape, ChildRec
  <2>3. Carried'
    BY <1>5, <2>1, <2>2
  <2>4. p \in Running
    BY <2>1, PlacesParts
  <2>5. currProcess = p /\ Running # {} /\ OnCPU[1] = p
    BY <2>4 DEF Running, OnCPU
  <2>6. child[p].remainingtime <= workload.runtime[p]
    BY <2>1 DEF Carried
  <2>7. /\ Used[p] = workload.runtime[p] - child[p].remainingtime
        /\ Used[p] < workload.runtime[p]
    BY <1>2, <2>1, <2>2, <2>6 DEF Used
  <2>8. Used' = [Used EXCEPT ![p] = @ + 1]
    <3>1. Used'[p] = Used[p] + 1
      BY <1>2, <1>3, <2>1, <2>2, <2>7 DEF Used
    <3>2. \A q \in Procs \ {p} : Used'[q] = Used[q]
      BY <1>3, <2>1 DEF Used
    <3>3. QED
      BY <3>1, <3>2 DEF Used
  <2>9. Sharing!Work(1)
    BY <1>2, <1>3, <1>4, <2>5, <2>7, <2>8 DEF Sharing!Work, Present, OnCPU, Used, Done
  <2>10. QED
    BY <2>3, <2>9 DEF SharingStep, Sharing!SharingNext
<1>8. QED
  BY <1>6, <1>7 DEF Child

\* A process that faults or whose quantum is over is stopped with what it has had.
LEMMA ReleaseShared ==
  ASSUME Shape, Places, Carried, RequestFaults \/ AlgoPreempt PROVE Carried' /\ SharingStep
<1> DEFINE p == currProcess
<1>1. RRTypeOK /\ p \in Procs /\ p # NoOne
  BY CurrentKnown, ReceivedType, ProcsAreNumbers
     DEF Shape, RequestFaults, TakeRequest, AlgoPreempt, QuantumOver
<1>2. \A q \in Procs : pcb'[q].forked = pcb[q].forked
  BY <1>1, FaultPCB, PreemptPCB DEF Shape, RequestFaults, AlgoPreempt
<1>3. /\ UNCHANGED <<workload, currentPCBs, g_queue, msgq>>
      /\ child' = [child EXCEPT ![p].stopped = TRUE]
      /\ acct' = [acct EXCEPT ![p].remaining_time = shmRT, ![p].last_stopped = clk]
      /\ Running = {p} /\ Running' = {}
  <2>1. CASE RequestFaults
    BY <1>1, <2>1 DEF RequestFaults, TakeRequest, Stopped, Saved, Goto, genvars, Running
  <2>2. CASE AlgoPreempt
    BY <1>1, <2>2 DEF AlgoPreempt, QuantumOver, Stopped, Saved, Goto, genvars, ipcvars, Running
  <2>3. QED
    BY <2>1, <2>2
<1>4. /\ \A q \in Procs : /\ child'[q].pc = child[q].pc
                          /\ child'[q].remainingtime = child[q].remainingtime
      /\ \A q \in Procs : acct'[q].finish_time = acct[q].finish_time
  <2>1. child \in [Procs -> ChildRec] /\ acct \in [Procs -> AcctRec]
    BY <1>1 DEF RRTypeOK
  <2>2. \A q \in Procs : /\ child'[q].pc = child[q].pc
                         /\ child'[q].remainingtime = child[q].remainingtime
    BY <1>1, <1>3, <2>1 DEF ChildRec
  <2>3. \A q \in Procs : acct'[q].finish_time = acct[q].finish_time
    BY <1>1, <1>3, <2>1 DEF AcctRec
  <2>4. QED
    BY <2>2, <2>3
<1>5. Unknown' = Unknown /\ Unknown \subseteq Procs /\ ToSet(currentPCBs) \subseteq Procs
  BY <1>1, <1>3, QueueSets DEF Unknown
<1>6. Carried'
  BY <1>2, <1>3, <1>4, <1>5 DEF Carried, Reaped
<1>7. Present' = Present /\ Used' = Used /\ Done' = Done
  <2>1. \A q \in Procs : Reaped(q)' <=> Reaped(q)
    BY <1>4 DEF Reaped
  <2>2. Present' = Present /\ Done' = Done
    BY <1>3, <2>1 DEF Present, Done
  <2>3. Used' = Used
    BY <1>3, <1>4 DEF Used
  <2>4. QED
    BY <2>2, <2>3
<1>8. OnCPU[1] = p /\ OnCPU' = [OnCPU EXCEPT ![1] = NoOne]
  BY <1>3 DEF OnCPU
<1>9. Sharing!Release(1)
  BY <1>1, <1>3, <1>7, <1>8 DEF Sharing!Release, Present, OnCPU, Used, Done
<1>10. QED
  BY <1>6, <1>9 DEF SharingStep, Sharing!SharingNext

\* The process that gets the CPU is one that waits; a new child starts with the
\* whole runtime before it.
LEMMA SwitchShared ==
  ASSUME Shape, Places, Carried, readyQueue # <<>>, Running = {}, Switch
  PROVE  Carried' /\ SharingStep
<1> DEFINE p == Head(readyQueue)
<1>1. RRTypeOK
  BY DEF Shape
<1>2. /\ p \in Procs /\ p # NoOne /\ p \in ToSet(readyQueue)
  BY <1>1, TailFacts, ProcsAreNumbers DEF RRTypeOK
<1>3. /\ pcb'[p].forked
      /\ \A q \in Procs \ {p} : pcb'[q].forked = pcb[q].forked
  BY <1>1, SwitchMMU, DispatchPCB DEF Shape
<1>4. /\ UNCHANGED <<workload, currentPCBs, g_queue, msgq>>
      /\ currProcess' = p /\ Running' = {p}
  BY <1>2 DEF Switch, Goto, genvars, Running
<1>5. /\ child \in [Procs -> ChildRec] /\ acct \in [Procs -> AcctRec]
      /\ acct[p].remaining_time \in Int
  BY <1>1, <1>2, TimesType DEF RRTypeOK
<1>6. \A q \in Procs \ {p} : child'[q] = child[q] /\ acct'[q] = acct[q]
  <2>1. PICK c, a : child' = [child EXCEPT ![p] = c] /\ acct' = [acct EXCEPT ![p] = a]
    BY DEF Switch, RunProcess
  <2>2. QED
    BY <1>5, <2>1
<1>7. acct'[p].finish_time = acct[p].finish_time
  <2> DEFINE a == acct[p]
             t == clk - workload.arrival[p]
             b == IF a.start_time # -1 THEN a
                  ELSE [a EXCEPT !.start_time = clk, !.waiting_time = t]
             w == b.waiting_time + clk - a.last_stopped
  <2>1. Charged(p) = b \/ Charged(p) = [b EXCEPT !.waiting_time = w]
    BY DEF Charged
  <2>2. acct'[p] = Charged(p)
    BY <1>2, <1>5 DEF Switch, RunProcess
  <2>3. a \in AcctRec
    BY <1>2, <1>5
  <2> HIDE DEF a, t
  <2>4. b.finish_time = a.finish_time
    BY <2>3 DEF AcctRec
  <2>5. DOMAIN b = {"remaining_time", "waiting_time", "start_time", "last_stopped", "finish_time"}
    BY <2>3 DEF AcctRec
  <2> HIDE DEF b, w
  <2>6. [b EXCEPT !.waiting_time = w].finish_time = b.finish_time
    BY <2>5
  <2>7. QED
    BY <2>1, <2>2, <2>4, <2>6 DEF a
<1>8. /\ child'[p].pc \notin {"none", "signal", "dead"} \/ child'[p].pc = child[p].pc
      /\ child'[p].pc # "none"
      /\ IF pcb[p].forked
         THEN child'[p].pc = child[p].pc /\ child'[p].remainingtime = child[p].remainingtime
         ELSE child'[p].pc = "boot" /\ child'[p].remainingtime = workload.runtime[p]
  <2>1. CASE pcb[p].forked
    <3>1. child' = [child EXCEPT ![p] = [@ EXCEPT !.stopped = FALSE]]
      BY <2>1 DEF Switch, RunProcess
    <3>2. child'[p].pc = child[p].pc /\ child'[p].remainingtime = child[p].remainingtime
      BY <1>2, <1>5, <3>1 DEF ChildRec
    <3>3. QED
      BY <1>2, <2>1, <3>2 DEF Carried
  <2>2. CASE ~pcb[p].forked
    <3> DEFINE t == acct[p].remaining_time
    <3>1. child' = [child EXCEPT ![p] = [NoChild EXCEPT !.pc = "boot", !.remainingtime = t]]
      BY <2>2 DEF Switch, RunProcess
    <3>2. t = workload.runtime[p]
      <4>1. acct[p] = NewAcct(p)
        BY <1>2, <2>2 DEF Shape
      <4>2. QED
        BY <4>1 DEF NewAcct
    <3> HIDE DEF t
    <3>3. child'[p].pc = "boot" /\ child'[p].remainingtime = t
      BY <1>2, <1>5, <3>1 DEF NoChild
    <3>4. QED
      BY <2>2, <3>2, <3>3
  <2>3. QED
    BY <2>1, <2>2
<1>9. Unknown' = Unknown /\ Unknown \subseteq Procs /\ ToSet(currentPCBs) \subseteq Procs
  BY <1>1, <1>4, QueueSets DEF Unknown
<1>10. workload.runtime[p] \in Nat
  BY <1>1, <1>2, TimesType
<1>11. Carried'
  BY <1>2, <1>3, <1>4, <1>6, <1>7, <1>8, <1>9, <1>10 DEF Carried, Reaped
<1>12. Used' = Used
  <2>1. Used'[p] = Used[p]
    BY <1>2, <1>4, <1>8, <1>10 DEF Used, Carried
  <2>2. \A q \in Procs \ {p} : Used'[q] = Used[q]
    BY <1>4, <1>6 DEF Used
  <2>3. QED
    BY <2>1, <2>2 DEF Used
<1>13. \A q \in Procs : Reaped(q)' <=> Reaped(q)
  BY <1>6, <1>7 DEF Reaped
<1>14. Present' = Present /\ Done' = Done
  BY <1>4, <1>13 DEF Present, Done
<1>15. p \in ToSet(currentPCBs) /\ ~Reaped(p)
  BY <1>2, PlacesParts DEF Carried
<1>16. OnCPU[1] = NoOne /\ OnCPU' = [OnCPU EXCEPT ![1] = p]
  BY <1>4 DEF OnCPU
<1>17. Sharing!Dispatch(1, p)
  BY <1>2, <1>4, <1>12, <1>14, <1>15, <1>16 DEF Sharing!Dispatch, Present, OnCPU, Used, Done
<1>18. QED
  BY <1>2, <1>11, <1>17 DEF SharingStep, Sharing!SharingNext

LEMMA ReceiveShared ==
  ASSUME Shape, Places, Carried, ReceiveProcess PROVE Carried' /\ SharingStep
<1> DEFINE p == Head(msgq.arrived)
<1>1. RRTypeOK
  BY DEF Shape
<1>2. /\ msgq.arrived \in Seq(Procs) /\ msgq.arrived # <<>> /\ currentPCBs \in Seq(Procs)
      /\ acct \in [Procs -> AcctRec]
  BY <1>1 DEF ReceiveProcess, RRTypeOK
<1>3. p \in Procs /\ ToSet(msgq.arrived) = {p} \cup ToSet(Tail(msgq.arrived))
  BY <1>2, TailFacts
<1>4. /\ UNCHANGED <<pcb, workload, child, currProcess, g_queue, pc>>
      /\ currentPCBs' = Append(currentPCBs, p) /\ msgq'.arrived = Tail(msgq.arrived)
      /\ acct' = [acct EXCEPT ![p] = NewAcct(p)]
  BY <1>1 DEF ReceiveProcess, MMUvars, genvars, RRTypeOK
<1>5. p \in Unknown /\ p \notin ToSet(currentPCBs)
  BY <1>3, PlacesParts DEF Unknown
<1>6. ToSet(currentPCBs') = ToSet(currentPCBs) \cup {p}
  BY <1>2, <1>3, <1>4, AppendFacts
<1>7. Running' = Running /\ Unknown' \subseteq Unknown
  BY <1>3, <1>4 DEF Running, Unknown
<1>8. /\ acct'[p].finish_time = -1 /\ acct[p].finish_time = -1
      /\ \A q \in Procs \ {p} : acct'[q] = acct[q]
  BY <1>2, <1>3, <1>4, <1>5 DEF NewAcct, Carried, Reaped
<1>9. \A q \in Procs : Reaped(q)' <=> Reaped(q)
  BY <1>8 DEF Reaped
<1>10. Unknown \subseteq Procs /\ ToSet(currentPCBs) \subseteq Procs
  BY <1>1, QueueSets
<1>11. Carried'
  BY <1>3, <1>4, <1>5, <1>6, <1>7, <1>9, <1>10 DEF Carried
<1>12. Present' = Present \cup {p} /\ p \notin Present
  BY <1>5, <1>6, <1>8, <1>9 DEF Present, Reaped
<1>13. OnCPU' = OnCPU /\ Used' = Used /\ Done' = Done
  BY <1>4, <1>7, <1>9 DEF OnCPU, Used, Done
<1>14. Sharing!Arrive(p)
  BY <1>4, <1>12, <1>13 DEF Sharing!Arrive, Present, OnCPU, Used, Done
<1>15. QED
  BY <1>3, <1>11, <1>14 DEF SharingStep, Sharing!SharingNext

\* A child ends when it has counted down its runtime, and only the end of the
\* current child lets waitpid return.
LEMMA ReapShared ==
  ASSUME Shape, Places, Carried, Reap PROVE Carried' /\ SharingStep
<1> DEFINE p == currProcess
<1>1. RRTypeOK /\ p \in Procs /\ p # NoOne
  BY CurrentKnown, ProcsAreNumbers DEF Shape, Reap
<1>2. clk \in Nat /\ clk # -1
  BY MMUAssumption DEF Shape, MMUTypeOK
<1>3. \A q \in Procs : pcb'[q].forked = pcb[q].forked
  <2>1. CASE Finish(p)
    BY <1>1, <2>1, FinishPCB DEF Shape
  <2>2. CASE ReadNoTable(p)
    BY <2>2 DEF ReadNoTable
  <2>3. QED
    BY <2>1, <2>2 DEF Reap
<1>4. /\ UNCHANGED <<workload, child, g_queue, msgq>>
      /\ currentPCBs' = InOrder(currentPCBs, Procs \ {p})
      /\ child[p].pc = "dead"
      /\ acct' = [acct EXCEPT ![p].finish_time = clk, ![p].remaining_time = shmRT]
      /\ Running = {p} /\ Running' = {}
  BY <1>1 DEF Reap, Goto, genvars, ipcvars, Without, Running
<1>5. /\ acct'[p].finish_time = clk
      /\ \A q \in Procs \ {p} : acct'[q] = acct[q]
  BY <1>1, <1>4 DEF RRTypeOK, AcctRec
<1>6. ToSet(currentPCBs') = ToSet(currentPCBs) \ {p} /\ p \in ToSet(currentPCBs)
  <2>1. currentPCBs \in Seq(Procs) /\ ToSet(currentPCBs) \subseteq Procs
    BY <1>1, QueueSets DEF RRTypeOK
  <2>2. ToSet(currentPCBs') = ToSet(currentPCBs) \cap (Procs \ {p})
    BY <1>4, <2>1, InOrderFacts
  <2>3. QED
    BY <1>4, <2>1, <2>2, PlacesParts
<1>7. Unknown' = Unknown /\ Unknown \subseteq Procs /\ p \notin Unknown
  <2>1. Unknown' = Unknown /\ Unknown \subseteq Procs
    BY <1>1, <1>4, QueueSets DEF Unknown
  <2>2. QED
    BY <1>6, <2>1, PlacesParts
<1>8. \A q \in Procs : Reaped(q)' <=> q = p \/ Reaped(q)
  BY <1>2, <1>5 DEF Reaped
<1>9. ToSet(currentPCBs) \subseteq Procs
  BY <1>1, QueueSets
<1>10. Carried'
  BY <1>3, <1>4, <1>6, <1>7, <1>8, <1>9 DEF Carried
<1>11. Present' = Present /\ Used' = Used /\ Done' = Done \cup {p}
  <2>1. Present' = Present /\ Done' = Done \cup {p}
    BY <1>1, <1>6, <1>8 DEF Present, Done
  <2>2. Used' = Used
    BY <1>4 DEF Used
  <2>3. QED
    BY <2>1, <2>2
<1>12. OnCPU[1] = p /\ OnCPU' = [OnCPU EXCEPT ![1] = NoOne]
  BY <1>4 DEF OnCPU
<1>13. Used[p] = workload.runtime[p]
  <2>1. workload.runtime[p] \in Nat /\ child[p].remainingtime = 0
    BY <1>1, <1>4, TimesType DEF Carried
  <2>2. QED
    BY <1>1, <1>4, <2>1 DEF Used
<1>14. Sharing!Finish(1)
  BY <1>1, <1>4, <1>11, <1>12, <1>13 DEF Sharing!Finish, Present, OnCPU, Used, Done
<1>15. QED
  BY <1>10, <1>14 DEF SharingStep, Sharing!SharingNext

LEMMA StepShared ==
  ASSUME NoneMissing, Shape, Places, Carried, [RRNext]_rrvars
  PROVE  Carried' /\ SharingStep
<1>1. CASE ClockTick \/ Terminated \/ UNCHANGED rrvars
  BY <1>1, PlainShared DEF Terminated
<1>2. CASE Generator
  BY <1>2, GeneratorShared
<1>3. ASSUME NEW p \in Procs, Child(p) PROVE Carried' /\ SharingStep
  BY <1>3, ChildShared
<1>4. CASE Scheduler
  <2>1. CASE AlgoDispatch
    BY <2>1, SwitchShared DEF AlgoDispatch, Running
  <2>2. CASE WaitOver
    BY <2>2, SwitchShared DEF WaitOver, Shape, Running
  <2>3. QED
    BY <1>4, <2>1, <2>2, PlainShared, ReleaseShared, ReceiveShared, ReapShared DEF Scheduler
<1>5. QED
  BY <1>1, <1>2, <1>3, <1>4 DEF RRNext

LEMMA SharedInit ==
  ASSUME RRInit PROVE Carried /\ Sharing!SharingInit
<1>1. /\ currentPCBs = <<>> /\ Running = {} /\ workload \in Workloads
      /\ \A p \in Procs : child[p].pc = "none" /\ ~pcb[p].forked /\ ~Reaped(p)
      /\ g_queue = workload.order /\ msgq.arrived = <<>>
  BY DEF RRInit, GenInit, NoMessage, Running, NoChild, MMUInit, NewPCB, NewAcct, Reaped
<1>2. ToSet(<<>>) = {} /\ ToSet(g_queue) \subseteq Procs
  BY <1>1, WorkloadType DEF ToSet
<1>3. Carried
  BY <1>1, <1>2 DEF Carried, Unknown
<1>4. workload.runtime \in [Procs -> Nat]
  BY <1>1, WorkloadType
<1>5. QED
  BY <1>1, <1>2, <1>3, <1>4 DEF Sharing!SharingInit

\* SharesTheCPU: fork, SIGSTOP, SIGCONT, the permits of the semaphore and waitpid
\* together give each process its runtime, alone on the CPU, and finish it then;
\* provided that every process finds its file of requests.
THEOREM ImplementsSharing ==
  ASSUME NoneMissing PROVE RRSpec => SharesTheCPU
<1>1. RRInit => Carried /\ Sharing!SharingInit
  BY SharedInit
<1>2. Shape /\ Places /\ Carried /\ [RRNext]_rrvars => Carried' /\ SharingStep
  BY StepShared
<1>3. SharingStep <=> [Sharing!SharingNext]_(Sharing!sharingvars)
  BY DEF SharingStep
<1>4. QED
  BY <1>1, <1>2, <1>3, ShapeHolds, PlacesHold, PTL DEF RRSpec, SharesTheCPU, Sharing!SharingSpec

-----------------------------------------------------------------------------
(* No event of a tick is overlooked.                                        *)

\* The processes are listed in the order they arrive.
Sorted(q) == \A i, j \in 1..Len(q) : i < j => workload.arrival[q[i]] <= workload.arrival[q[j]]

SortedFiles ==
    \A w \in Workloads : \A i, j \in 1..Len(w.order) :
        i < j => w.arrival[w.order[i]] <= w.arrival[w.order[j]]

NoneOverdue == \A p \in ToSet(blockQueue) : pcb[p].unblock_at > clk

AfterCheck == {"finish", "waitpid", "gate", "receive", "algo", "preempted", "wait", "clear",
               "grant", "tail"}

\* An iteration that began in this tick has looked at the block queue, or still
\* will: checked says which.
Watched ==
    /\ last_tick = now /\ now <= clk
    /\ pc \in AfterCheck /\ checked /\ clk = now => NoneOverdue
    /\ pc = "spin" /\ clk = now => NoneOverdue

\* A tick message of time t says that everything that arrived by t was sent, the
\* end message that everything was.
Announced ==
    /\ Sorted(g_queue)
    /\ \A t \in ToSet(msgq.sync), p \in ToSet(g_queue) : workload.arrival[p] > t
    /\ \A p \in Unknown : workload.arrival[p] > last_received_sync
    /\ msgq.end => g_queue = <<>>
    /\ ~receivingProcesses => Unknown = {}
    /\ pc = "receive" => wait_until >= now
    /\ pc = "algo" => \A p \in Unknown : workload.arrival[p] > now
    /\ undefined # "no" => pc \in {"block", "gate"}
    /\ undefined = "no" => \A p \in ToSet(workload.order) :
          p \in Unknown \cup ToSet(currentPCBs) \/ pcb[p].state = "F"

\* The PCB of another process is left alone.
LEMMA OtherPCBs ==
  ASSUME MMUTypeOK, NEW p \in Procs, Dispatch(p) \/ Preempt(p) \/ Finish(p),
         NEW q \in Procs, q # p
  PROVE  pcb'[q] = pcb[q]
<1>1. CASE Dispatch(p)
  <2> DEFINE t == FaultTable(Mem, p)
             i == FrameFor(t)
             n == LoadPage(t, p, 0, i, "r")
             m == IF pcb[p].forked THEN Mem ELSE InitializePCB(Mem, p)
  <2>1. \A a, j : Unmap(a, j).pcb = a.pcb
    BY DEF Unmap
  <2>2. n.pcb = t.pcb
    BY <2>1 DEF LoadPage, MapPage
  <2>3. Mem \in MemState /\ t \in MemState
    BY PCBKnown, FaultTableType
  <2>4. t.pcb \in [Procs -> PCBRec] /\ pcb \in [Procs -> PCBRec] /\ Mem.pcb = pcb
    BY <2>3, MemStateParts, PCBKnown DEF PCBType
  <2>5. t.pcb[q] = pcb[q]
    <3>1. t = Mem \/ t.pcb = [Unmap(Mem, FrameFor(Mem)).pcb EXCEPT ![p].frame_index = FrameFor(Mem)]
      BY DEF FaultTable, DefinePageTable
    <3> HIDE DEF t
    <3>2. t.pcb = pcb \/ t.pcb = [pcb EXCEPT ![p].frame_index = FrameFor(Mem)]
      BY <2>1, <2>4, <3>1
    <3>3. QED
      BY <2>4, <3>2
  <2>6. FaultPreload(t, p, 0).pcb[q] = t.pcb[q]
    <3>1. FaultPreload(t, p, 0) = t
          \/ \E y : FaultPreload(t, p, 0).pcb = [n.pcb EXCEPT ![p].unblock_at = y]
      BY DEF FaultPreload
    <3> HIDE DEF t, n
    <3>2. QED
      BY <2>2, <2>4, <3>1
  <2>7. m.pcb[q] = pcb[q] /\ m.pcb \in [Procs -> PCBRec]
    <3>1. m \in MemState
      BY PCBKnown, InitializePCBType
    <3>2. QED
      BY <2>4, <2>5, <2>6, <3>1, MemStateParts DEF InitializePCB, PCBType
  <2>8. pcb' = [m.pcb EXCEPT ![p].state = "R", ![p].forked = TRUE]
    BY <1>1 DEF Dispatch
  <2> HIDE DEF m
  <2>9. QED
    BY <2>7, <2>8
<1>2. CASE Preempt(p)
  BY <1>2, PCBKnown DEF Preempt
<1>3. CASE Finish(p)
  <2>1. pcb' = [pcb EXCEPT ![p].state = "F"]
    BY <1>3, PCBKnown DEF Finish, FreePageTable
  <2>2. QED
    BY <2>1, PCBKnown
<1>4. QED
  BY <1>1, <1>2, <1>3

LEMMA UnblockKnown ==
  ASSUME Shape, NEW p \in Procs PROVE pcb[p].unblock_at \in Int
BY PCBKnown DEF Shape, PCBRec

\* After checkBlockEnd no process in the block queue is overdue.
LEMMA CheckedNow ==
  ASSUME Shape, Places, CheckBlockEnd PROVE NoneOverdue' /\ clk' = clk
<1>1. RRTypeOK
  BY DEF Shape
<1>2. ToSet(blockQueue') = ToSet(blockQueue) \ Overdue
  BY <1>1, CheckBlockEndEffect DEF Shape, RRTypeOK
<1>3. clk' = clk
  BY DEF CheckBlockEnd, Wake, MMUvars
<1>4. ASSUME NEW p \in ToSet(blockQueue') PROVE pcb'[p].unblock_at > clk
  <2>1. p \in Procs /\ p \in ToSet(blockQueue) /\ p \notin Overdue /\ p \in ToSet(currentPCBs)
    BY <1>1, <1>2, <1>4, QueueSets, PlacesParts
  <2>2. pcb[p].state = "B"
    BY <2>1, PlacesParts
  <2>3. pcb[p].unblock_at > clk
    BY <2>1, <2>2, UnblockKnown, PCBKnown DEF Overdue, Shape
  <2>4. pcb'[p] = pcb[p]
    <3>1. CASE Wake
      <4>1. pcb' = EndFaults(Mem, Overdue).pcb
        BY <3>1 DEF Wake, Become
      <4>2. QED
        BY <2>1, <4>1, PCBKnown DEF EndFaults, Shape
    <3>2. CASE UNCHANGED MMUvars
      BY <3>2 DEF MMUvars
    <3>3. QED
      BY <3>1, <3>2 DEF CheckBlockEnd
  <2>5. QED
    BY <2>3, <2>4
<1>5. QED
  BY <1>3, <1>4 DEF NoneOverdue

LEMMA WatchedNext ==
  ASSUME Shape, Places, Watched, [RRNext]_rrvars PROVE Watched'
<1>1. RRTypeOK /\ clk \in Int /\ now \in Int
  BY PCBKnown DEF Shape, RRTypeOK
<1>2. CASE ClockTick
  <2>1. clk' = clk + 1 /\ UNCHANGED <<last_tick, now>>
    BY <1>2 DEF ClockTick, Tick, schedvars, timevars
  <2>2. QED
    BY <1>1, <2>1 DEF Watched
<1>3. CASE Generator \/ (\E p \in Procs : Child(p)) \/ Terminated \/ UNCHANGED rrvars
  <2>1. UNCHANGED <<pcb, clk, last_tick, now, pc, checked, blockQueue>>
    BY <1>3, ChildMMU DEF Generator, Child, ChildBoot, ChildDown, ChildSend, ChildCount, ChildExit,
       Terminated, rrvars, MMUvars, schedvars, queuevars, timevars, countvars
  <2>2. QED
    BY <2>1 DEF Watched, NoneOverdue
<1>4. CASE NewTick \/ Exit \/ NoRequest \/ RequestAnswered \/ RequestFaults
  <2>1. /\ pc' \notin AfterCheck \cup {"spin"} /\ last_tick' = now' /\ now' <= clk' /\ clk' = clk
    BY <1>1, <1>4 DEF NewTick, Exit, NoRequest, RequestAnswered, RequestFaults, TakeRequest, Goto,
       Hit, ReadPastTable, ReadNoTable, Fault, MMUvars, timevars, AfterCheck, Watched
  <2>2. QED
    BY <2>1 DEF Watched
<1>5. CASE FinishCheck \/ Gate \/ ReceiveProcess \/ ReceiveSync \/ ReceiveEnd \/ AlgoNothing
           \/ AlgoExtend \/ ClearCheck \/ Grant
  <2>1. /\ UNCHANGED <<clk, last_tick, now, checked, blockQueue>>
        /\ pc \in AfterCheck
    BY <1>5 DEF FinishCheck, Gate, ReceiveProcess, ReceiveSync, ReceiveEnd, AlgoNothing, AlgoExtend,
       ClearCheck, Grant, QuantumOver, MMUvars, Clear, queuevars, timevars, countvars, AfterCheck
  <2>2. pc' # "spin"
    BY <1>5 DEF FinishCheck, Gate, ReceiveProcess, ReceiveSync, ReceiveEnd, AlgoNothing, AlgoExtend,
       ClearCheck, Grant, Goto
  <2>3. pcb' = pcb
    BY <1>5, ClearPCB DEF FinishCheck, Gate, ReceiveProcess, ReceiveSync, ReceiveEnd, AlgoNothing,
       AlgoExtend, ClearCheck, Grant, MMUvars
  <2>4. QED
    BY <2>1, <2>2, <2>3 DEF Watched, NoneOverdue
<1>6. CASE Reap \/ AlgoDispatch \/ AlgoPreempt \/ WaitOver
  <2>1. /\ UNCHANGED <<clk, last_tick, now, checked, blockQueue>>
        /\ pc \in AfterCheck /\ pc' # "spin"
    BY <1>6 DEF Reap, AlgoDispatch, AlgoPreempt, QuantumOver, WaitOver, Switch, RunProcess, Goto,
       Dispatch, Preempt, Finish, ReadNoTable, MMUvars, timevars, AfterCheck
  <2>2. \A q \in ToSet(blockQueue) : pcb'[q] = pcb[q]
    <3>1. ToSet(blockQueue) \subseteq Procs
      BY <1>1, QueueSets
    <3>2. CASE Reap \/ AlgoPreempt
      <4>1. currProcess \in Procs /\ Running = {currProcess}
        BY <1>1, <3>2, CurrentKnown DEF Reap, AlgoPreempt, QuantumOver, Running, Shape
      <4>2. currProcess \notin ToSet(blockQueue)
        BY <4>1, PlacesParts
      <4>3. QED
        BY <3>1, <3>2, <4>1, <4>2, OtherPCBs DEF Reap, AlgoPreempt, ReadNoTable, Shape
    <3>3. CASE AlgoDispatch \/ WaitOver
      <4> DEFINE p == Head(readyQueue)
      <4>1. readyQueue # <<>> /\ readyQueue \in Seq(Procs) /\ Switch
        BY <1>1, <3>3 DEF AlgoDispatch, WaitOver, Shape, RRTypeOK
      <4>2. p \in Procs /\ p \in ToSet(readyQueue) /\ Dispatch(p)
        BY <1>1, <4>1, TailFacts, SwitchMMU
      <4>3. p \notin ToSet(blockQueue)
        BY <4>2, PlacesParts
      <4>4. QED
        BY <3>1, <4>2, <4>3, OtherPCBs DEF Shape
    <3>4. QED
      BY <1>6, <3>2, <3>3
  <2>3. QED
    BY <2>1, <2>2 DEF Watched, NoneOverdue
<1>7. CASE BlockCheck \/ PreemptedCheck \/ TailCheck
  <2>1. /\ UNCHANGED <<last_tick, now>>
        /\ CheckBlockEnd \/ UNCHANGED <<MMUvars, readyQueue, blockQueue>>
    BY <1>7 DEF BlockCheck, PreemptedCheck, TailCheck, timevars
  <2>2. clk' = clk
    BY <2>1, CheckedNow DEF MMUvars
  <2>3. CASE CheckBlockEnd
    BY <2>1, <2>2, <2>3, CheckedNow DEF Watched
  <2>4. CASE UNCHANGED <<MMUvars, readyQueue, blockQueue>> /\ ~CheckBlockEnd
    <3>1. \/ pc' = "finish" /\ ~checked'
          \/ pc = "preempted" /\ checked
          \/ pc = "tail" /\ ~TailDue
      BY <1>7, <2>4 DEF BlockCheck, PreemptedCheck, TailCheck, Goto
    <3>2. NoneOverdue' <=> NoneOverdue
      BY <2>4 DEF NoneOverdue, MMUvars
    <3>3. pc' \in {"finish", "wait", "spin"} /\ (pc' = "spin" => pc = "tail")
      BY <1>7 DEF BlockCheck, PreemptedCheck, TailCheck, Goto
    <3>4. QED
      BY <2>1, <2>2, <3>1, <3>2, <3>3 DEF Watched, AfterCheck, TailDue
  <2>5. QED
    BY <2>1, <2>3, <2>4
<1>8. QED
  BY <1>2, <1>3, <1>4, <1>5, <1>6, <1>7 DEF RRNext, Scheduler

LEMMA WatchedHolds == RRSpec => []Watched
<1>1. RRInit => Watched
  BY DEF RRInit, MMUInit, Watched, NoneOverdue, ToSet, AfterCheck
<1>2. Shape /\ Places /\ Watched /\ [RRNext]_rrvars => Watched'
  BY WatchedNext
<1>3. QED
  BY <1>1, <1>2, ShapeHolds, PlacesHold, PTL DEF RRSpec

\* Steps that send and receive nothing.
LEMMA StillAnnounced ==
  ASSUME Shape, Announced, undefined = "no",
         UNCHANGED <<workload, g_queue, msgq, last_received_sync, receivingProcesses, currentPCBs>>,
         pc' \notin {"receive", "algo"} \/ UNCHANGED <<pc, now, wait_until>>,
         undefined' = "no" \/ pc' \in {"block", "gate"},
         \A p \in Procs : pcb[p].state = "F" => pcb'[p].state = "F"
  PROVE  Announced'
<1>1. Unknown' = Unknown
  BY DEF Unknown
<1>2. ToSet(workload.order) \subseteq Procs
  BY WorkloadType DEF Shape, RRTypeOK, ToSet
<1>3. Sorted(g_queue)'
  BY DEF Announced, Sorted
<1>4. QED
  BY <1>1, <1>2, <1>3 DEF Announced

\* The arrivals of the processes still to come.
LEMMA ArrivalsKnown ==
  ASSUME RRTypeOK
  PROVE  /\ \A p \in Procs : workload.arrival[p] \in Nat
         /\ ToSet(g_queue) \subseteq Unknown /\ Unknown \subseteq Procs
         /\ \A i \in 1..Len(g_queue) : g_queue[i] \in Procs /\ g_queue[i] \in ToSet(g_queue)
         /\ msgq.sync \in Seq(Int) /\ msgq.arrived \in Seq(Procs) /\ g_queue \in Seq(Procs)
         /\ ToSet(msgq.sync) \subseteq Int
         /\ now \in Int /\ wait_until \in Int /\ last_received_sync \in Int /\ g_now \in Int
         /\ ToSet(workload.order) \subseteq Procs
<1>1. \A p \in Procs : workload.arrival[p] \in Nat
  BY TimesType
<1>2. Unknown \subseteq Procs /\ ToSet(g_queue) \subseteq Unknown
  BY QueueSets DEF Unknown
<1>3. msgq.sync \in Seq(Int) /\ msgq.arrived \in Seq(Procs) /\ g_queue \in Seq(Procs)
  BY DEF RRTypeOK
<1>4. ToSet(msgq.sync) \subseteq Int
  BY <1>3 DEF ToSet
<1>5. \A i \in 1..Len(g_queue) : g_queue[i] \in Procs /\ g_queue[i] \in ToSet(g_queue)
  BY <1>3 DEF ToSet
<1>6. workload.order \in Seq(Procs)
  BY WorkloadType DEF RRTypeOK
<1>7. ToSet(workload.order) \subseteq Procs
  BY <1>6 DEF ToSet
<1>8. now \in Int /\ wait_until \in Int /\ last_received_sync \in Int /\ g_now \in Int
  BY DEF RRTypeOK
<1>9. QED
  BY <1>1, <1>2, <1>3, <1>4, <1>5, <1>7, <1>8

LEMMA GeneratorAnnounced ==
  ASSUME Shape, Announced, undefined = "no", Generator PROVE Announced'
<1>1. RRTypeOK
  BY DEF Shape
<1>2. UNCHANGED <<pcb, undefined, workload, pc, now, wait_until, last_received_sync,
                  receivingProcesses, currentPCBs>>
  BY DEF Generator, MMUvars, schedvars, queuevars, timevars, countvars
<1>3. CASE GenSend
  <2> DEFINE p == Head(g_queue)
  <2>1. g_queue # <<>> /\ g_queue' = Tail(g_queue) /\ msgq'.arrived = Append(msgq.arrived, p)
        /\ msgq'.sync = msgq.sync /\ msgq'.end = msgq.end
    BY <1>1, <1>3 DEF GenSend, Arrived, RRTypeOK
  <2>2. p \in Procs /\ ToSet(g_queue) = {p} \cup ToSet(Tail(g_queue))
    BY <1>1, <2>1, TailFacts DEF RRTypeOK
  <2>3. ToSet(msgq'.arrived) = ToSet(msgq.arrived) \cup {p}
    BY <1>1, <2>1, <2>2, AppendFacts, ArrivalsKnown
  <2>4. Unknown' = Unknown
    BY <2>1, <2>2, <2>3 DEF Unknown
  <2>5. Sorted(g_queue)'
    <3>1. /\ Len(Tail(g_queue)) = Len(g_queue) - 1 /\ Len(g_queue) \in Nat
          /\ \A i \in 1..(Len(g_queue) - 1) : Tail(g_queue)[i] = g_queue[i + 1]
      BY <1>1, <2>1, ArrivalsKnown
    <3>2. \A i, j \in 1..Len(g_queue) : i < j => workload.arrival[g_queue[i]] <= workload.arrival[g_queue[j]]
      BY DEF Announced, Sorted
    <3>3. SUFFICES ASSUME NEW i \in 1..Len(Tail(g_queue)), NEW j \in 1..Len(Tail(g_queue)), i < j
                   PROVE  workload.arrival[Tail(g_queue)[i]] <= workload.arrival[Tail(g_queue)[j]]
      BY <1>2, <2>1 DEF Sorted
    <3>4. i + 1 \in 1..Len(g_queue) /\ j + 1 \in 1..Len(g_queue) /\ i + 1 < j + 1
      BY <3>1, <3>3
    <3>5. Tail(g_queue)[i] = g_queue[i + 1] /\ Tail(g_queue)[j] = g_queue[j + 1]
      BY <3>1, <3>3
    <3>6. QED
      BY <3>2, <3>4, <3>5
  <2>6. QED
    BY <1>1, <1>2, <2>1, <2>2, <2>4, <2>5, ArrivalsKnown DEF Announced
<1>4. CASE GenSync
  <2>1. /\ g_queue' = g_queue /\ msgq'.sync = Append(msgq.sync, g_now)
        /\ msgq'.arrived = msgq.arrived /\ msgq'.end = msgq.end
    BY <1>1, <1>4 DEF GenSync, RRTypeOK
  <2>2. ToSet(msgq'.sync) = ToSet(msgq.sync) \cup {g_now}
    BY <1>1, <2>1, AppendFacts, ArrivalsKnown
  <2>3. \A p \in ToSet(g_queue) : workload.arrival[p] > g_now
    <3>1. SUFFICES ASSUME NEW i \in 1..Len(g_queue) PROVE workload.arrival[g_queue[i]] > g_now
      BY <1>1, ArrivalsKnown DEF ToSet
    <3>2. Len(g_queue) \in Nat /\ 1 \in 1..Len(g_queue) /\ g_queue # <<>> /\ Head(g_queue) = g_queue[1]
      BY <1>1, ArrivalsKnown
    <3>3. ~(workload.arrival[g_queue[1]] <= g_now)
      BY <1>4, <3>2 DEF GenSync, Arrived
    <3>4. workload.arrival[g_queue[1]] <= workload.arrival[g_queue[i]]
      <4>1. CASE i = 1
        BY <1>1, <3>2, <4>1, ArrivalsKnown
      <4>2. CASE i # 1
        BY <3>2, <4>2 DEF Announced, Sorted
      <4>3. QED
        BY <4>1, <4>2
    <3>5. /\ workload.arrival[g_queue[1]] \in Nat /\ workload.arrival[g_queue[i]] \in Nat
          /\ g_now \in Int
      BY <1>1, <3>2, ArrivalsKnown
    <3>6. QED
      BY <3>3, <3>4, <3>5
  <2>4. Unknown' = Unknown /\ Sorted(g_queue)'
    BY <1>2, <2>1 DEF Unknown, Announced, Sorted
  <2>5. QED
    BY <1>1, <1>2, <2>1, <2>2, <2>3, <2>4, ArrivalsKnown DEF Announced
<1>5. CASE GenEnd
  <2>1. /\ g_queue' = g_queue /\ g_queue = <<>> /\ msgq'.sync = msgq.sync
        /\ msgq'.arrived = msgq.arrived
    BY <1>1, <1>5 DEF GenEnd, RRTypeOK
  <2>2. Unknown' = Unknown /\ Sorted(g_queue)'
    BY <1>2, <2>1 DEF Unknown, Announced, Sorted
  <2>3. QED
    BY <1>1, <1>2, <2>1, <2>2, ArrivalsKnown DEF Announced
<1>6. CASE GenPoll \/ GenShutdown(pc = "exited")
  <2>1. UNCHANGED <<g_queue, msgq>>
    BY <1>6 DEF GenPoll, GenShutdown
  <2>2. QED
    BY <1>2, <2>1, StillAnnounced
<1>7. QED
  BY <1>3, <1>4, <1>5, <1>6 DEF Generator, GenStep

LEMMA ReceiveAnnounced ==
  ASSUME Shape, Places, Watched, Announced, undefined = "no",
         Gate \/ ReceiveProcess \/ ReceiveSync \/ ReceiveEnd
  PROVE  Announced'
<1>1. RRTypeOK
  BY DEF Shape
<1>2. UNCHANGED <<MMUvars, workload, g_queue, now>>
  BY DEF Gate, ReceiveProcess, ReceiveSync, ReceiveEnd, genvars, timevars
<1>3. UNCHANGED <<pcb, clk, undefined>> /\ Sorted(g_queue)'
  BY <1>2 DEF MMUvars, Announced, Sorted
<1>4. CASE Gate
  <2>1. UNCHANGED <<msgq, last_received_sync, receivingProcesses, currentPCBs>>
    BY <1>4 DEF Gate, ipcvars, queuevars, countvars
  <2>2. Unknown' = Unknown
    BY <1>2, <2>1 DEF Unknown
  <2>3. \/ pc' = "receive" /\ wait_until' = clk
        \/ pc' = "algo" /\ ~ReceiveDue
        \/ pc' = "tail"
    BY <1>4 DEF Gate, Goto
  <2>4. pc' = "algo" => \A p \in Unknown : workload.arrival[p] > now
    BY <1>1, <2>3, ArrivalsKnown DEF ReceiveDue, Announced
  <2>5. pc' = "receive" => wait_until' >= now
    BY <1>1, <2>3, ArrivalsKnown, PCBKnown DEF Watched, Shape
  <2>6. QED
    BY <1>1, <1>2, <1>3, <2>1, <2>2, <2>3, <2>4, <2>5, ArrivalsKnown DEF Announced
<1>5. CASE ReceiveProcess
  <2> DEFINE p == Head(msgq.arrived)
  <2>1. /\ UNCHANGED <<last_received_sync, receivingProcesses, pc, wait_until>>
        /\ msgq'.sync = msgq.sync /\ msgq'.end = msgq.end /\ msgq'.arrived = Tail(msgq.arrived)
        /\ currentPCBs' = Append(currentPCBs, p) /\ msgq.arrived # <<>>
        /\ msgq.arrived \in Seq(Procs) /\ currentPCBs \in Seq(Procs)
    BY <1>1, <1>5 DEF ReceiveProcess, timevars, RRTypeOK
  <2>2. p \in Procs /\ ToSet(msgq.arrived) = {p} \cup ToSet(Tail(msgq.arrived))
    BY <2>1, TailFacts
  <2>3. ToSet(currentPCBs') = ToSet(currentPCBs) \cup {p}
    BY <2>1, <2>2, AppendFacts
  <2>4. Unknown = Unknown' \cup {p}
    BY <1>2, <2>1, <2>2 DEF Unknown
  <2>5. QED
    BY <1>1, <1>2, <1>3, <2>1, <2>3, <2>4, ArrivalsKnown DEF Announced
<1>6. CASE ReceiveSync
  <2> DEFINE t == Head(msgq.sync)
  <2>1. /\ UNCHANGED <<receivingProcesses, wait_until, currentPCBs>>
        /\ msgq.arrived = <<>> /\ msgq.sync # <<>> /\ msgq'.sync = Tail(msgq.sync)
        /\ msgq'.end = msgq.end /\ msgq'.arrived = msgq.arrived
        /\ pc = "receive"
    BY <1>1, <1>6 DEF ReceiveSync, timevars, queuevars, RRTypeOK
  <2>2. t \in Int /\ ToSet(msgq.sync) = {t} \cup ToSet(Tail(msgq.sync))
    BY <1>1, <2>1, TailFacts, ArrivalsKnown
  <2>3. Unknown' = Unknown /\ Unknown = ToSet(g_queue)
    BY <1>2, <2>1 DEF Unknown, ToSet
  <2>4. \A p \in Unknown : workload.arrival[p] > t
    BY <2>2, <2>3 DEF Announced
  <2>5. \/ last_received_sync' = t /\ pc' = "algo" /\ t >= wait_until
        \/ UNCHANGED <<last_received_sync, pc>>
    BY <1>6 DEF ReceiveSync, SyncReached, Goto
  <2>6. pc' = "algo" => \A p \in Unknown : workload.arrival[p] > now
    <3>1. wait_until >= now
      BY <2>1 DEF Announced
    <3>2. QED
      BY <1>1, <2>1, <2>2, <2>4, <2>5, <3>1, ArrivalsKnown
  <2>7. QED
    BY <1>1, <1>2, <1>3, <2>1, <2>2, <2>3, <2>4, <2>5, <2>6, ArrivalsKnown DEF Announced
<1>7. CASE ReceiveEnd
  <2>1. /\ UNCHANGED <<last_received_sync, currentPCBs, wait_until>> /\ pc' = "algo"
        /\ msgq.arrived = <<>> /\ msgq.sync = <<>> /\ msgq.end
        /\ msgq'.arrived = <<>> /\ msgq'.sync = <<>>
        /\ ~msgq'.end
    BY <1>1, <1>7 DEF ReceiveEnd, Goto, timevars, queuevars, RRTypeOK
  <2>2. g_queue = <<>>
    BY <2>1 DEF Announced
  <2>3. Unknown = {} /\ Unknown' = {}
    BY <1>2, <2>1, <2>2 DEF Unknown, ToSet
  <2>4. QED
    BY <1>1, <1>2, <1>3, <2>1, <2>2, <2>3, ArrivalsKnown DEF Announced
<1>8. QED
  BY <1>4, <1>5, <1>6, <1>7

\* The process that is reaped has finished, or the program read what is not there.
LEMMA ReapAnnounced ==
  ASSUME Shape, Places, Announced, undefined = "no", Reap PROVE Announced'
<1> DEFINE p == currProcess
<1>1. RRTypeOK /\ p \in Procs
  BY CurrentKnown DEF Shape, Reap
<1>2. /\ UNCHANGED <<workload, g_queue, msgq, last_received_sync, receivingProcesses>>
      /\ pc' = "gate" /\ currentPCBs' = InOrder(currentPCBs, Procs \ {p})
  BY DEF Reap, genvars, ipcvars, Goto, Without
<1>3. ToSet(currentPCBs') = ToSet(currentPCBs) \ {p}
  <2>1. currentPCBs \in Seq(Procs) /\ ToSet(currentPCBs) \subseteq Procs
    BY <1>1, QueueSets DEF RRTypeOK
  <2>2. QED
    BY <1>2, <2>1, InOrderFacts
<1>4. Unknown' = Unknown /\ Sorted(g_queue)'
  BY <1>2 DEF Unknown, Announced, Sorted
<1>5. \/ undefined' # "no"
      \/ /\ undefined' = "no" /\ pcb'[p].state = "F"
         /\ \A q \in Procs \ {p} : pcb'[q].state = pcb[q].state
  <2>1. CASE Finish(p)
    BY <1>1, <2>1, FinishPCB DEF Shape, Finish
  <2>2. CASE ReadNoTable(p)
    BY <2>2 DEF ReadNoTable
  <2>3. QED
    BY <2>1, <2>2 DEF Reap
<1>6. QED
  BY <1>1, <1>2, <1>3, <1>4, <1>5, ArrivalsKnown DEF Announced

\* A process that has finished is not revived by the memory manager.
LEMMA FinishedStays ==
  ASSUME MMUTypeOK, [MMUNext]_MMUvars, NEW q \in Procs, pcb[q].state = "F"
  PROVE  pcb'[q].state = "F"
<1>1. CASE Tick \/ Clear \/ UNCHANGED MMUvars
  BY <1>1, ClearPCB DEF Tick, MMUvars
<1>2. ASSUME NEW p \in Procs, Dispatch(p) PROVE pcb'[q].state = "F"
  BY <1>2, DispatchPCB
<1>3. ASSUME NEW p \in Procs, Preempt(p) \/ Finish(p) PROVE pcb'[q].state = "F"
  BY <1>3, PreemptPCB, FinishPCB
<1>4. ASSUME NEW p \in Procs, NEW v, NEW op, Hit(p, v, op) \/ ReadPastTable(p, v) \/ ReadNoTable(p)
      PROVE  pcb'[q].state = "F"
  BY <1>4, HitPCB DEF ReadPastTable, ReadNoTable
<1>5. ASSUME NEW p \in Procs, NEW v, NEW op, Fault(p, v, op) PROVE pcb'[q].state = "F"
  BY <1>5, FaultPCB
<1>6. CASE Wake
  <2>1. q \notin Overdue
    BY DEF Overdue
  <2>2. QED
    BY <1>6, <2>1, WakePCB
<1>7. QED
  BY <1>1, <1>2, <1>3, <1>4, <1>5, <1>6 DEF MMUNext

LEMMA AnnouncedNext ==
  ASSUME Shape, Places, Watched, Announced, [RRNext]_rrvars PROVE Announced'
<1>1. \A p \in Procs : pcb[p].state = "F" => pcb'[p].state = "F"
  BY StepMMU, FinishedStays DEF Shape
<1>2. CASE undefined = "no" /\ ClockTick
  <2>1. /\ UNCHANGED <<undefined, workload, g_queue, msgq, last_received_sync, receivingProcesses,
                       currentPCBs, pc, now, wait_until>>
    BY <1>2 DEF ClockTick, Tick, genvars, ipcvars, schedvars, queuevars, timevars, countvars
  <2>2. QED
    BY <1>1, <1>2, <2>1, StillAnnounced
<1>3. ASSUME undefined = "no", NEW p \in Procs, Child(p) PROVE Announced'
  <2>1. /\ UNCHANGED <<undefined, workload, g_queue, msgq, last_received_sync, receivingProcesses,
                       currentPCBs, pc, now, wait_until>>
    BY <1>3 DEF Child, ChildBoot, ChildDown, ChildSend, ChildCount, ChildExit, MMUvars, genvars,
                ipcvars, schedvars, queuevars, timevars, countvars
  <2>2. QED
    BY <1>1, <1>3, <2>1, StillAnnounced
<1>4. CASE undefined = "no" /\ Generator
  BY <1>4, GeneratorAnnounced
<1>5. CASE undefined = "no" /\ (Gate \/ ReceiveProcess \/ ReceiveSync \/ ReceiveEnd)
  BY <1>5, ReceiveAnnounced
<1>6. CASE undefined = "no" /\ Reap
  BY <1>6, ReapAnnounced
<1>7. CASE /\ undefined = "no"
           /\ \/ NewTick \/ Exit \/ NoRequest \/ RequestAnswered \/ RequestFaults \/ BlockCheck
              \/ FinishCheck \/ AlgoDispatch \/ AlgoNothing \/ AlgoExtend \/ AlgoPreempt
              \/ PreemptedCheck \/ WaitOver \/ ClearCheck \/ Grant \/ TailCheck
  <2>1. /\ UNCHANGED <<workload, g_queue, msgq, last_received_sync, receivingProcesses, currentPCBs>>
        /\ pc' \notin {"receive", "algo"}
    BY <1>7 DEF NewTick, Exit, NoRequest, RequestAnswered, RequestFaults, TakeRequest, BlockCheck,
       FinishCheck, AlgoDispatch, AlgoNothing, AlgoExtend, AlgoPreempt, QuantumOver,
       PreemptedCheck, WaitOver, Switch, ClearCheck, Grant, TailCheck, Goto, genvars, ipcvars,
       queuevars, countvars
  <2>2. undefined' = "no" \/ pc' = "block"
    <3>1. CASE NewTick \/ Exit \/ NoRequest \/ FinishCheck \/ AlgoNothing \/ AlgoExtend \/ Grant
      BY <1>7, <3>1 DEF NewTick, Exit, NoRequest, FinishCheck, AlgoNothing, AlgoExtend, Grant, MMUvars
    <3>2. CASE RequestAnswered \/ RequestFaults
      BY <3>2 DEF RequestAnswered, RequestFaults, TakeRequest, Goto
    <3>3. CASE BlockCheck \/ PreemptedCheck \/ TailCheck
      BY <1>7, <3>3 DEF BlockCheck, PreemptedCheck, TailCheck, CheckBlockEnd, Wake, MMUvars
    <3>4. CASE AlgoDispatch \/ WaitOver
      BY <1>7, <3>4 DEF AlgoDispatch, WaitOver, Switch, RunProcess, Dispatch
    <3>5. CASE AlgoPreempt \/ ClearCheck
      BY <1>7, <3>5 DEF AlgoPreempt, Preempt, ClearCheck, Clear, MMUvars
    <3>6. QED
      BY <1>7, <3>1, <3>2, <3>3, <3>4, <3>5
  <2>3. QED
    BY <1>1, <1>7, <2>1, <2>2, StillAnnounced
<1>8. CASE Terminated \/ UNCHANGED rrvars
  <2>1. /\ UNCHANGED <<pcb, undefined, workload, g_queue, msgq, last_received_sync,
                       receivingProcesses, currentPCBs, pc, now, wait_until>>
    BY <1>8 DEF Terminated, rrvars, MMUvars, genvars, ipcvars, schedvars, queuevars, timevars,
                countvars
  <2>2. Unknown' = Unknown /\ Sorted(g_queue)'
    BY <2>1 DEF Unknown, Announced, Sorted
  <2>3. QED
    BY <2>1, <2>2 DEF Announced
<1>9. QED
  BY <1>2, <1>3, <1>4, <1>5, <1>6, <1>7, <1>8 DEF RRNext, Scheduler

LEMMA AnnouncedInit ==
  ASSUME SortedFiles, RRInit PROVE Announced
<1>1. /\ g_queue = workload.order /\ workload \in Workloads
      /\ msgq.arrived = <<>> /\ msgq.sync = <<>> /\ ~msgq.end
      /\ pc = "spin" /\ undefined = "no" /\ receivingProcesses /\ last_received_sync = -1
  BY DEF RRInit, GenInit, NoMessage, MMUInit
<1>2. Shape /\ Unknown \subseteq Procs /\ \A p \in Procs : workload.arrival[p] \in Nat
  BY ShapeInit, QueueSets, TimesType DEF Shape
<1>3. Sorted(g_queue)
  BY <1>1 DEF SortedFiles, Sorted
<1>4. ToSet(<<>>) = {} /\ ToSet(workload.order) \subseteq Unknown
  BY <1>1 DEF ToSet, Unknown
<1>5. QED
  BY <1>1, <1>2, <1>3, <1>4 DEF Announced

\* NothingOverlooked: the three places that call checkBlockEnd leave no process
\* blocked whose wait is over, and the tick messages of the generator let RR_algo
\* decide only when it knows all that arrived, provided that the input file lists
\* the processes in the order they arrive.
THEOREM NothingIsOverlooked ==
  ASSUME SortedFiles PROVE RRSpec => []NothingOverlooked
<1>1. RRInit => Announced
  BY AnnouncedInit
<1>2. Shape /\ Places /\ Watched /\ Announced /\ [RRNext]_rrvars => Announced'
  BY AnnouncedNext
<1>3. Watched => NoOverdueBlocked
  BY DEF Watched, NoneOverdue, NoOverdueBlocked
<1>4. Shape /\ Announced => ArrivalsBeforeDecision
  <2>1. SUFFICES ASSUME Shape, Announced, pc = "algo", NEW p \in ToSet(workload.order),
                        workload.arrival[p] <= now
                 PROVE  p \in ToSet(currentPCBs) \/ pcb[p].state = "F"
    BY DEF ArrivalsBeforeDecision
  <2>2. p \in Procs /\ workload.arrival[p] \in Nat /\ now \in Int
    BY <2>1, ArrivalsKnown DEF Shape
  <2>3. p \notin Unknown
    BY <2>1, <2>2 DEF Announced
  <2>4. undefined = "no"
    BY <2>1 DEF Announced
  <2>5. QED
    BY <2>1, <2>3, <2>4 DEF Announced
<1>5. Watched /\ Shape /\ Announced => NothingOverlooked
  BY <1>3, <1>4 DEF NothingOverlooked
<1>6. QED
  BY <1>1, <1>2, <1>5, WatchedHolds, ShapeHolds, PlacesHold, PTL DEF RRSpec

-----------------------------------------------------------------------------
(* The pace of the loop.                                                    *)

\* The requests that the last tick of a process would send, if it had any, are
\* answered too late: see claim_last_tick.
QuietEnds ==
    \A w \in Workloads : \A p \in Procs : \A i \in 1..Len(w.requests[p]) :
        w.requests[p][i].tick # w.runtime[p] - 1

Idle == Running = {}

\* Between the start of an iteration and its decision the clock stands still, and up
\* to the grant if there is somebody to grant it to.  Only a process that takes over
\* from one that was preempted is not granted the tick in which it was chosen.
Paced ==
    /\ now = last_tick /\ -1 <= last_tick /\ last_tick <= clk
    /\ lastTime <= clk /\ (g_pc = "send" => lastTime <= g_now /\ g_now <= clk)
    /\ pc \in {"requests", "block", "finish", "waitpid", "gate", "receive", "algo", "preempted"}
          => clk = last_tick
    /\ context_switch_until <= last_tick + 1
    /\ pc \in {"preempted", "wait"} => context_switch_until = last_tick + 1
    /\ pc = "wait" => wait_until = last_tick + 1 /\ clk <= wait_until
    /\ pc \in {"receive", "algo"} => context_switch_until = -1
    /\ Idle /\ pc \in {"clear", "grant", "tail"} => clk = last_tick
    /\ currProcess # NoOne => last_tick >= 1
    /\ ~Idle /\ pc \in {"requests", "block", "finish", "waitpid", "gate"} =>
          context_switch_until <= last_tick
    /\ ~Idle /\ pc \in {"clear", "grant", "tail"} =>
          \/ clk = last_tick /\ context_switch_until = -1
          \/ clk = last_tick + 1 /\ context_switch_until = clk
    /\ ~Idle /\ pc = "spin" =>
          context_switch_until = -1 \/ (clk = last_tick + 1 /\ context_switch_until = clk)
    /\ pc = "exited" => Idle /\ readyQueue = <<>> /\ blockQueue = <<>> /\ ~receivingProcesses

\* The messages of this tick have not been received yet.
Expecting == \/ pc \in {"requests", "block", "finish", "waitpid", "gate", "receive"}
             \/ pc \in {"spin", "wait", "clear", "grant", "tail"} /\ clk # last_tick

\* Who waits for messages gets one: the generator's last tick message is in the queue
\* until the iteration of that tick takes it, or its end message is.
Told ==
    /\ \A t \in ToSet(msgq.sync) : t <= lastTime
    /\ lastTime = clk /\ Expecting => lastTime \in ToSet(msgq.sync)
    /\ msgq.end \/ g_pc \in {"waitpid", "exited"} => g_queue = <<>>
    /\ g_pc \in {"waitpid", "exited"} => msgq.end \/ ~receivingProcesses
    /\ ~receivingProcesses => g_queue = <<>> /\ msgq.arrived = <<>>
    /\ pc = "receive" => receivingProcesses /\ wait_until = clk
    /\ \A p \in ToSet(msgq.arrived) : workload.arrival[p] <= clk

\* A tick was granted, if there was somebody to grant it to, and the clock has not
\* gone on.
Granted == pc \in {"tail", "spin"} /\ clk = last_tick

\* What a child does with a tick, it has done when the next iteration starts: by then
\* it waits for a permit, or it is dead and its signal is pending.
Settled ==
    /\ sem = 1 => Granted /\ ~Idle /\ child[currProcess].pc \in {"boot", "down"}
    /\ processFinishedSignal =>
          /\ ~Idle /\ child[currProcess].pc = "dead"
          /\ pc \in {"tail", "spin", "requests", "block", "finish"}
    /\ ~Idle =>
          /\ ~child[currProcess].stopped
          /\ pc = "waitpid" <=> child[currProcess].pc = "dead" /\ ~processFinishedSignal
          /\ child[currProcess].pc \in {"send", "count", "signal"} => Granted
          /\ child[currProcess].pc = "boot" => sem = 1 \/ ~Granted
          /\ child[currProcess].pc = "dead" =>
                pc \in {"tail", "spin", "requests", "block", "finish", "waitpid"}
    /\ \A p \in Procs \ Running :
          child[p].pc \in {"none", "boot", "down"} \/ (child[p].pc = "dead" /\ Reaped(p))

\* Only the current process has a request outstanding, one, and only until the next
\* iteration looks for it; by then its child has not finished.
Answered ==
    \A p \in Procs :
        /\ child[p].pc # "none" =>
              child[p].running_time + child[p].remainingtime = workload.runtime[p]
        /\ req_msgq[p] # <<>> =>
              /\ p \in Running /\ Len(req_msgq[p]) = 1
              /\ sem = 0 /\ pc \in {"tail", "spin", "requests"}
              /\ child[p].pc = "down" \/ (child[p].pc = "count" /\ child[p].remainingtime > 1)

Timely == Paced /\ Told /\ Settled /\ Answered

LEMMA TimeTypes ==
  ASSUME Shape
  PROVE  /\ clk \in Nat /\ now \in Int /\ last_tick \in Int /\ lastTime \in Int /\ g_now \in Int
         /\ wait_until \in Int /\ context_switch_until \in Int /\ sem \in 0..1
         /\ currProcess \in Procs \cup {NoOne} /\ NoOne \notin Procs
         /\ Running \subseteq Procs
         /\ lastGrant.at \in Int /\ lastGrant.to \in Procs \cup {NoOne}
         /\ msgq \in [arrived: Seq(Procs), sync: Seq(Int), end: BOOLEAN]
         /\ g_queue \in Seq(Procs) /\ readyQueue \in Seq(Procs) /\ blockQueue \in Seq(Procs)
         /\ req_msgq \in [Procs -> Seq(Request)]
         /\ child \in [Procs -> ChildRec] /\ acct \in [Procs -> AcctRec]
         /\ workload \in Workloads
<1>1. RRTypeOK /\ MMUTypeOK
  BY DEF Shape
<1>2. clk \in Nat
  BY <1>1 DEF MMUTypeOK
<1>3. NoOne \notin Procs
  BY MMUAssumption DEF NoOne
<1>4. Running \subseteq Procs
  BY <1>1, QueueSets
<1>5. QED
  BY <1>1, <1>2, <1>3, <1>4 DEF RRTypeOK

LEMMA CurrentChild ==
  ASSUME Shape, Places, Carried, ~Idle
  PROVE  /\ currProcess \in Procs /\ Running = {currProcess} /\ currProcess # NoOne
         /\ pc \notin {"preempted", "wait"}
         /\ pcb[currProcess].forked /\ pcb[currProcess].state = "R"
         /\ child[currProcess].pc \in {"boot", "down", "send", "count", "signal", "dead"}
<1>1. /\ currProcess \in Procs /\ Running = {currProcess} /\ currProcess # NoOne
      /\ pc \notin {"preempted", "wait"} /\ child[currProcess] \in ChildRec
  BY TimeTypes DEF Idle, Running
<1>2. currProcess \in ToSet(currentPCBs)
  BY <1>1, PlacesParts
<1>3. pcb[currProcess].state = "R"
  BY <1>1, <1>2, PlacesParts
<1>4. pcb[currProcess].forked /\ child[currProcess].pc # "none"
  BY <1>1, <1>3 DEF Shape, Carried
<1>5. QED
  BY <1>1, <1>3, <1>4 DEF ChildRec

\* The clock advances when the scheduler waits for it, the child of the current
\* process has used its tick, and the generator has announced this one.
LEMMA WhenClockTicks ==
  ASSUME Prompt, Shape, Places, Carried, Timely, ClockTick
  PROVE  /\ clk' = clk + 1 /\ g_pc # "send"
         /\ UNCHANGED <<workload, genvars, child, ipcvars, schedvars, lastGrant, pcb, undefined>>
         /\ \/ pc = "spin" /\ Granted /\ ~Idle /\ sem = 0 /\ child[currProcess].pc \in {"down", "dead"}
            \/ pc = "spin" /\ Granted /\ Idle
            \/ pc = "wait" /\ clk < wait_until
            \/ pc = "exited"
<1>1. /\ clk' = clk + 1 /\ SchedulerWaits /\ GeneratorWaits(pc = "exited")
      /\ \A p \in Procs : ChildWaits(p)
      /\ UNCHANGED <<workload, genvars, child, ipcvars, schedvars, lastGrant, pcb, undefined>>
  BY DEF ClockTick, Tick
<1>2. g_pc # "send"
  BY <1>1 DEF GeneratorWaits
<1>3. pc # "waitpid"
  <2>1. ASSUME pc = "waitpid" PROVE FALSE
    <3>1. ~Idle
      BY <2>1, TimeTypes DEF Shape, Idle, Running
    <3>2. child[currProcess].pc = "dead"
      BY <2>1, <3>1 DEF Timely, Settled
    <3>3. QED
      BY <1>1, <2>1, <3>2 DEF SchedulerWaits
  <2>2. QED
    BY <2>1
<1>4. pc # "receive"
  <2>1. ASSUME pc = "receive" PROVE FALSE
    <3>1. msgq.sync = <<>> /\ msgq.end = FALSE /\ receivingProcesses
      BY <1>1, <2>1 DEF SchedulerWaits, NoMessage, Timely, Told
    <3>2. ToSet(<<>>) = {}
      BY DEF ToSet
    <3>3. g_pc = "poll" /\ clk = lastTime
      BY <1>1, <3>1 DEF GeneratorWaits, Timely, Told
    <3>4. QED
      BY <2>1, <3>1, <3>2, <3>3 DEF Timely, Told, Expecting
  <2>2. QED
    BY <2>1
<1>5. CASE pc = "spin" /\ ~Idle
  <2>1. /\ currProcess \in Procs
        /\ child[currProcess].pc \in {"boot", "down", "send", "count", "signal", "dead"}
    BY <1>5, CurrentChild
  <2>2. ~child[currProcess].stopped
    BY <1>5 DEF Timely, Settled
  <2>3. child[currProcess].pc \in {"down", "dead"} /\ (child[currProcess].pc = "down" => sem = 0)
    BY <1>1, <2>1, <2>2 DEF ChildWaits
  <2>4. sem = 0
    BY <2>3, TimeTypes DEF Timely, Settled
  <2>5. Granted
    BY <1>1, <1>5 DEF SchedulerWaits, Granted
  <2>6. QED
    BY <1>1, <1>2, <1>5, <2>3, <2>4, <2>5
<1>6. CASE ~(pc = "spin" /\ ~Idle)
  BY <1>1, <1>2, <1>3, <1>4, <1>6 DEF SchedulerWaits, Granted
<1>7. QED
  BY <1>5, <1>6

\* What the steps that stay within a call of the memory manager leave alone.
LEMMA ClkKept ==
  ASSUME Scheduler PROVE clk' = clk /\ UNCHANGED <<workload, g_pc, g_queue, g_now, lastTime>>
BY DEF Scheduler, NewTick, Exit, NoRequest, TakeRequest, RequestAnswered, RequestFaults, BlockCheck,
   FinishCheck, Reap, Gate, ReceiveProcess, ReceiveSync, ReceiveEnd, AlgoDispatch, AlgoNothing,
   AlgoExtend, AlgoPreempt, PreemptedCheck, WaitOver, ClearCheck, Grant, TailCheck, Switch, RunProcess,
   Dispatch, Preempt, Hit, Fault, ReadPastTable, ReadNoTable, Finish, CheckBlockEnd, Wake, Clear,
   genvars, MMUvars

LEMMA PacedStep ==
  ASSUME Prompt, Shape, Places, Carried, Timely, [RRNext]_rrvars PROVE Paced'
<1>1. /\ clk \in Nat /\ now \in Int /\ last_tick \in Int /\ lastTime \in Int /\ g_now \in Int
      /\ currProcess \in Procs \cup {NoOne} /\ NoOne \notin Procs
      /\ context_switch_until \in Int /\ wait_until \in Int
      /\ Paced
  BY TimeTypes DEF Timely
<1>2. CASE UNCHANGED rrvars \/ Terminated \/ \E p \in Procs : Child(p)
  <2>1. UNCHANGED <<clk, g_pc, g_now, lastTime, pc, now, last_tick, currProcess, readyQueue,
                    blockQueue, receivingProcesses, context_switch_until, wait_until>>
    BY <1>2, ChildMMU DEF rrvars, MMUvars, Terminated, Child, ChildBoot, ChildDown, ChildSend, ChildCount,
       ChildExit, genvars, schedvars, queuevars, timevars, countvars
  <2>2. QED
    BY <1>1, <2>1 DEF Paced, Idle, Running
<1>3. CASE ClockTick
  <2>1. /\ clk' = clk + 1 /\ g_pc # "send" /\ (pc = "spin" \/ (pc = "wait" /\ clk < wait_until) \/ pc = "exited")
        /\ pc = "spin" /\ ~Idle => clk = last_tick
        /\ UNCHANGED <<g_pc, g_now, lastTime, pc, now, last_tick, currProcess, readyQueue,
                    blockQueue, receivingProcesses, context_switch_until, wait_until>>
    BY <1>3, WhenClockTicks DEF genvars, schedvars, queuevars, timevars, countvars, Granted
  <2>2. QED
    BY <1>1, <2>1 DEF Paced, Idle, Running
<1>4. CASE Generator
  <2>1. UNCHANGED <<clk, pc, now, last_tick, currProcess, readyQueue,
                    blockQueue, receivingProcesses, context_switch_until, wait_until>>
    BY <1>4 DEF Generator, MMUvars, schedvars, queuevars, timevars, countvars
  <2>2. QED
    BY <1>1, <1>4, <2>1 DEF Generator, GenStep, GenPoll, GenSend, GenSync, GenEnd, GenShutdown,
       Paced, Idle, Running
<1>5. CASE Scheduler
  <2>1. UNCHANGED <<clk, g_pc, g_now, lastTime>>
    BY <1>5, ClkKept
  <2>2. CASE NewTick \/ Exit \/ FinishCheck \/ Gate \/ NoRequest
    BY <1>1, <2>1, <2>2 DEF NewTick, Exit, FinishCheck, Gate, NoRequest, Goto, Paced, Idle, Running,
       Busy, timevars, countvars, queuevars
  <2>3. CASE ReceiveProcess \/ ReceiveSync \/ ReceiveEnd
    BY <1>1, <2>1, <2>3 DEF ReceiveProcess, ReceiveSync, ReceiveEnd, Goto, Paced, Idle, Running,
       timevars, queuevars
  <2>4. CASE Reap \/ RequestAnswered \/ RequestFaults \/ BlockCheck
    BY <1>1, <2>1, <2>4 DEF Reap, RequestAnswered, RequestFaults, TakeRequest, BlockCheck, Goto,
       Paced, Idle, Running, SwitchUntil, timevars
  <2>5. CASE AlgoPreempt \/ AlgoNothing \/ AlgoExtend
    BY <1>1, <2>1, <2>5 DEF AlgoPreempt, AlgoNothing, AlgoExtend, QuantumOver, Goto, Paced, Idle,
       Running, SwitchUntil, timevars, queuevars, countvars
  <2>6. CASE AlgoDispatch \/ WaitOver
    <3>1. Head(readyQueue) \in Procs
      BY <2>6, TimeTypes DEF AlgoDispatch, WaitOver, Shape
    <3>2. /\ currProcess' \in Procs /\ pc' = "clear"
          /\ UNCHANGED <<now, last_tick, context_switch_until>>
      BY <2>6, <3>1 DEF AlgoDispatch, WaitOver, Switch, Goto
    <3>3. /\ last_tick >= 1
          /\ \/ clk = last_tick /\ context_switch_until = -1
             \/ clk = last_tick + 1 /\ context_switch_until = clk
      BY <1>1, <2>6 DEF AlgoDispatch, WaitOver, Shape, Paced
    <3>4. QED
      BY <1>1, <2>1, <3>2, <3>3 DEF Paced, Idle, Running
  <2>7. CASE PreemptedCheck \/ ClearCheck \/ Grant \/ TailCheck
    BY <1>1, <2>1, <2>7 DEF PreemptedCheck, ClearCheck, Grant, TailCheck, Goto, Paced, Idle,
       Running, timevars, queuevars, countvars
  <2>8. QED
    BY <1>5, <2>2, <2>3, <2>4, <2>5, <2>6, <2>7 DEF Scheduler
<1>6. QED
  BY <1>2, <1>3, <1>4, <1>5 DEF RRNext

LEMMA ToldStep ==
  ASSUME Prompt, Shape, Places, Carried, Timely, [RRNext]_rrvars PROVE Told'
<1>1. /\ clk \in Nat /\ now \in Int /\ last_tick \in Int /\ lastTime \in Int /\ g_now \in Int
      /\ Paced /\ Told
      /\ msgq \in [arrived: Seq(Procs), sync: Seq(Int), end: BOOLEAN] /\ g_queue \in Seq(Procs)
      /\ \A p \in Procs : workload.arrival[p] \in Nat
  BY TimeTypes, TimesType DEF Timely, Shape
<1>2. CASE UNCHANGED rrvars \/ Terminated \/ \E p \in Procs : Child(p)
  <2>1. UNCHANGED <<clk, workload, g_pc, g_queue, lastTime, msgq, pc, last_tick, receivingProcesses,
                    wait_until>>
    BY <1>2, ChildMMU DEF rrvars, MMUvars, Terminated, Child, ChildBoot, ChildDown, ChildSend, ChildCount,
       ChildExit, genvars, schedvars, timevars, countvars, ipcvars
  <2>2. QED
    BY <1>1, <2>1 DEF Told, Expecting
<1>3. CASE ClockTick
  <2>1. /\ clk' = clk + 1 /\ pc # "receive"
        /\ UNCHANGED <<workload, g_pc, g_queue, lastTime, msgq, pc, receivingProcesses>>
    BY <1>3, WhenClockTicks DEF genvars, ipcvars, schedvars, countvars
  <2>2. \A p \in ToSet(msgq.arrived) : workload.arrival[p] <= clk + 1
    BY <1>1, ArrivalsKnown DEF Told, Shape, Unknown
  <2>3. QED
    BY <1>1, <2>1, <2>2 DEF Told, Paced
<1>4. CASE Generator
  <2>1. UNCHANGED <<clk, workload, pc, last_tick, receivingProcesses, wait_until>>
    BY <1>4 DEF Generator, MMUvars, schedvars, timevars, countvars
  <2>2. CASE GenPoll \/ GenShutdown(pc = "exited")
    BY <1>1, <2>1, <2>2 DEF GenPoll, GenShutdown, Told, Expecting
  <2>3. CASE GenSend
    <3> DEFINE p == Head(g_queue)
               a == Append(msgq.arrived, p)
    <3>1. /\ g_queue # <<>> /\ workload.arrival[p] <= g_now /\ g_pc = "send"
          /\ msgq' = [msgq EXCEPT !.arrived = a]
          /\ UNCHANGED <<g_pc, g_now, lastTime>>
      BY <2>3 DEF GenSend, Arrived
    <3>2. p \in Procs /\ ToSet(a) = ToSet(msgq.arrived) \cup {p}
      BY <1>1, <3>1, TailFacts, AppendFacts
    <3> HIDE DEF p, a
    <3>3. msgq'.arrived = a /\ msgq'.sync = msgq.sync /\ msgq'.end = msgq.end
      BY <1>1, <3>1
    <3>4. workload.arrival[p] <= clk
      BY <1>1, <3>1, <3>2 DEF Paced
    <3>5. \A q \in ToSet(msgq'.arrived) : workload'.arrival[q] <= clk'
      BY <1>1, <2>1, <3>2, <3>3, <3>4 DEF Told
    <3>6. QED
      BY <1>1, <2>1, <3>1, <3>3, <3>5 DEF Told, Expecting
  <2>4. CASE GenSync
    <3> DEFINE s == Append(msgq.sync, g_now)
    <3>1. /\ g_pc = "send" /\ msgq' = [msgq EXCEPT !.sync = s] /\ lastTime' = g_now
          /\ g_pc' = "poll" /\ g_queue' = g_queue
      BY <2>4 DEF GenSync
    <3>2. ToSet(s) = ToSet(msgq.sync) \cup {g_now} /\ ToSet(msgq.sync) \subseteq Int
      <4>1. msgq.sync \in Seq(Int)
        BY <1>1
      <4>2. ToSet(msgq.sync) \subseteq Int
        BY <4>1 DEF ToSet
      <4>3. QED
        BY <1>1, <4>1, <4>2, AppendFacts
    <3> HIDE DEF s
    <3>3. msgq'.arrived = msgq.arrived /\ msgq'.sync = s /\ msgq'.end = msgq.end
      BY <1>1, <3>1
    <3>4. \A t \in ToSet(s) : t <= g_now
      BY <1>1, <3>1, <3>2 DEF Told, Paced
    <3>5. QED
      BY <1>1, <2>1, <3>1, <3>2, <3>3, <3>4 DEF Told, Expecting
  <2>5. CASE GenEnd
    <3>1. msgq'.arrived = msgq.arrived /\ msgq'.sync = msgq.sync /\ msgq'.end = TRUE
      BY <1>1, <2>5 DEF GenEnd
    <3>2. QED
      BY <1>1, <2>1, <2>5, <3>1 DEF GenEnd, Told, Expecting
  <2>6. QED
    BY <1>4, <2>2, <2>3, <2>4, <2>5 DEF Generator, GenStep
<1>5. CASE Scheduler
  <2>1. UNCHANGED <<clk, workload, g_pc, g_queue, lastTime>>
    BY <1>5, ClkKept
  <2>2. CASE ReceiveProcess
    <3> DEFINE a == Tail(msgq.arrived)
    <3>1. msgq.arrived # <<>> /\ msgq' = [msgq EXCEPT !.arrived = a]
          /\ UNCHANGED <<pc, last_tick, receivingProcesses, wait_until>>
      BY <2>2 DEF ReceiveProcess, timevars
    <3>2. ToSet(a) \subseteq ToSet(msgq.arrived)
      BY <1>1, <3>1, TailFacts
    <3> HIDE DEF a
    <3>3. msgq'.arrived = a /\ msgq'.sync = msgq.sync /\ msgq'.end = msgq.end
      BY <1>1, <3>1
    <3>4. receivingProcesses
      BY <1>1, <2>2 DEF Told, ReceiveProcess
    <3>5. QED
      BY <1>1, <2>1, <3>1, <3>2, <3>3, <3>4 DEF Told, Expecting
  <2>3. CASE ReceiveSync
    <3> DEFINE s == Tail(msgq.sync)
               t == Head(msgq.sync)
    <3>1. /\ pc = "receive" /\ msgq.sync # <<>> /\ msgq' = [msgq EXCEPT !.sync = s]
          /\ UNCHANGED <<last_tick, receivingProcesses, wait_until>>
          /\ (pc' = "algo" \/ (pc' = pc /\ t < clk))
      <4>1. t \in Int
        BY <1>1, <2>3 DEF ReceiveSync
      <4>2. wait_until = clk
        BY <1>1, <2>3 DEF ReceiveSync, Told
      <4>3. QED
        BY <1>1, <2>3, <4>1, <4>2 DEF ReceiveSync, timevars, SyncReached, Goto
    <3>2. ToSet(msgq.sync) = ToSet(s) \cup {t}
      BY <1>1, <3>1, TailFacts
    <3> HIDE DEF s, t
    <3>3. msgq'.arrived = msgq.arrived /\ msgq'.sync = s /\ msgq'.end = msgq.end
      BY <1>1, <3>1
    <3>4. lastTime = clk /\ pc' = pc => lastTime \in ToSet(s)
      BY <1>1, <3>1, <3>2 DEF Told, Expecting, Paced
    <3>5. pc' = "algo" => clk = last_tick
      BY <1>1, <3>1 DEF Paced
    <3>6. QED
      BY <1>1, <2>1, <3>1, <3>2, <3>3, <3>4, <3>5 DEF Told, Expecting
  <2>4. CASE ReceiveEnd
    <3>1. /\ msgq.end = TRUE /\ msgq.arrived = <<>> /\ pc' = "algo" /\ receivingProcesses' = FALSE
          /\ msgq'.arrived = msgq.arrived /\ msgq'.sync = msgq.sync /\ msgq'.end = FALSE
      BY <1>1, <2>4 DEF ReceiveEnd, Goto
    <3>2. QED
      BY <1>1, <2>1, <3>1 DEF Told, Expecting
  <2>5. CASE ~ReceiveProcess /\ ~ReceiveSync /\ ~ReceiveEnd
    <3>1. UNCHANGED <<msgq, receivingProcesses>>
      BY <1>5, <2>5 DEF Scheduler, NewTick, Exit, NoRequest, TakeRequest, RequestAnswered, RequestFaults,
         BlockCheck, FinishCheck, Reap, Gate, AlgoDispatch, AlgoNothing, AlgoExtend, AlgoPreempt,
         PreemptedCheck, WaitOver, ClearCheck, Grant, TailCheck, Switch, ipcvars, countvars
    <3>2. Expecting' => Expecting
      BY <1>1, <1>5, <2>1, <2>5 DEF Scheduler, NewTick, Exit, NoRequest, TakeRequest, RequestAnswered,
         RequestFaults, BlockCheck, FinishCheck, Reap, Gate, AlgoDispatch, AlgoNothing, AlgoExtend,
         AlgoPreempt, QuantumOver, PreemptedCheck, WaitOver, ClearCheck, Grant, TailCheck, Switch, Goto,
         timevars, Expecting, Paced
    <3>3. pc' = "receive" => pc = "gate" /\ receivingProcesses /\ wait_until' = clk
      BY <1>5, <2>5, <2>1 DEF Scheduler, NewTick, Exit, NoRequest, TakeRequest, RequestAnswered, RequestFaults,
         BlockCheck, FinishCheck, Reap, Gate, AlgoDispatch, AlgoNothing, AlgoExtend, AlgoPreempt,
         QuantumOver, PreemptedCheck, WaitOver, ClearCheck, Grant, TailCheck, Switch, Goto, ReceiveDue
    <3>4. QED
      BY <1>1, <2>1, <3>1, <3>2, <3>3 DEF Told
  <2>6. QED
    BY <2>2, <2>3, <2>4, <2>5
<1>6. QED
  BY <1>2, <1>3, <1>4, <1>5 DEF RRNext

\* A child takes a step only as the current one, before the next tick.
LEMMA ChildIsCurrent ==
  ASSUME NoneMissing, Shape, Places, Carried, NEW p \in Procs, Child(p)
  PROVE  /\ ~Idle /\ p = currProcess /\ Running = {p}
         /\ child[p] \in ChildRec /\ ~child[p].stopped
         /\ \A q \in Procs \ {p} : child'[q] = child[q]
         /\ child'[p].stopped = child[p].stopped
         /\ UNCHANGED <<clk, pc, last_tick, currProcess, pcb, acct, workload, undefined>>
         /\ Running' = Running
         /\ ChildBoot(p) =>
               /\ child[p].pc = "boot" /\ child'[p].pc = "down"
               /\ child'[p].remainingtime = child[p].remainingtime
               /\ child'[p].running_time = child[p].running_time
               /\ UNCHANGED <<sem, processFinishedSignal, req_msgq, shmRT>>
         /\ ChildDown(p) =>
               /\ child[p].pc = "down" /\ child'[p].pc = "send" /\ sem = 1 /\ sem' = 0
               /\ child'[p].remainingtime = child[p].remainingtime
               /\ child'[p].running_time = child[p].running_time
               /\ UNCHANGED <<processFinishedSignal, req_msgq, shmRT>>
         /\ ChildSend(p) =>
               /\ child[p].pc = "send" /\ child'[p].pc = "count"
               /\ child'[p].remainingtime = child[p].remainingtime
               /\ child'[p].running_time = child[p].running_time
               /\ UNCHANGED <<sem, processFinishedSignal, shmRT>>
         /\ ChildCount(p) =>
               /\ child[p].pc = "count" /\ child'[p].pc \in {"down", "signal"}
               /\ child'[p].pc = "signal" => child[p].remainingtime = 1
               /\ child'[p].remainingtime = child[p].remainingtime - 1
               /\ child'[p].running_time = child[p].running_time + 1
               /\ shmRT' = child'[p].remainingtime
               /\ UNCHANGED <<sem, processFinishedSignal, req_msgq>>
         /\ ChildExit(p) =>
               /\ child[p].pc = "signal" /\ child'[p].pc = "dead" /\ processFinishedSignal' = TRUE
               /\ child'[p].remainingtime = child[p].remainingtime
               /\ child'[p].running_time = child[p].running_time
               /\ UNCHANGED <<sem, req_msgq, shmRT>>
<1>1. /\ child \in [Procs -> ChildRec] /\ child[p] \in ChildRec /\ workload \in Workloads
      /\ sem \in 0..1
      /\ child[p].pc \in {"boot", "down", "send", "count"} => child[p].remainingtime >= 1
  BY TimeTypes DEF Shape
<1>2. child[p].pc \notin {"none", "dead"} /\ ~child[p].stopped
  BY DEF Child, ChildBoot, ChildDown, ChildSend, ChildCount, ChildExit, Runs
<1>3. p \in Running
  BY <1>2, PlacesParts
<1>4. ~Idle /\ p = currProcess /\ Running = {p}
  BY <1>3, CurrentChild DEF Idle
<1>5. UNCHANGED <<clk, pc, last_tick, currProcess, pcb, acct, workload, undefined>>
  BY ChildMMU DEF MMUvars, Child, ChildBoot, ChildDown, ChildSend, ChildCount, ChildExit,
     schedvars, queuevars, timevars, countvars
<1>6. Running' = Running
  BY <1>5 DEF Running
<1>7. \A q \in Procs \ {p} : child'[q] = child[q]
  BY <1>1 DEF Child, ChildBoot, ChildDown, ChildSend, ChildCount, ChildExit
<1>8. child'[p].stopped = child[p].stopped
  BY <1>1 DEF Child, ChildBoot, ChildDown, ChildSend, ChildCount, ChildExit, ChildRec
<1>9. ASSUME ChildBoot(p)
      PROVE  /\ child[p].pc = "boot" /\ child'[p].pc = "down"
             /\ child'[p].remainingtime = child[p].remainingtime
             /\ child'[p].running_time = child[p].running_time
             /\ UNCHANGED <<sem, processFinishedSignal, req_msgq, shmRT>>
  BY <1>1, <1>9 DEF ChildBoot, Runs, ChildRec, NoneMissing, ipcvars
<1>10. ASSUME ChildDown(p)
       PROVE  /\ child[p].pc = "down" /\ child'[p].pc = "send" /\ sem = 1 /\ sem' = 0
              /\ child'[p].remainingtime = child[p].remainingtime
              /\ child'[p].running_time = child[p].running_time
              /\ UNCHANGED <<processFinishedSignal, req_msgq, shmRT>>
  BY <1>1, <1>10 DEF ChildDown, Runs, ChildRec
<1>11. ASSUME ChildSend(p)
       PROVE  /\ child[p].pc = "send" /\ child'[p].pc = "count"
              /\ child'[p].remainingtime = child[p].remainingtime
              /\ child'[p].running_time = child[p].running_time
              /\ UNCHANGED <<sem, processFinishedSignal, shmRT>>
  BY <1>1, <1>11 DEF ChildSend, Runs, ChildRec
<1>12. ASSUME ChildCount(p)
       PROVE  /\ child[p].pc = "count" /\ child'[p].pc \in {"down", "signal"}
              /\ child'[p].pc = "signal" => child[p].remainingtime = 1
              /\ child'[p].remainingtime = child[p].remainingtime - 1
              /\ child'[p].running_time = child[p].running_time + 1
              /\ shmRT' = child'[p].remainingtime
              /\ UNCHANGED <<sem, processFinishedSignal, req_msgq>>
  BY <1>1, <1>12 DEF ChildCount, Runs, ChildRec, AfterTick
<1>13. ASSUME ChildExit(p)
       PROVE  /\ child[p].pc = "signal" /\ child'[p].pc = "dead" /\ processFinishedSignal' = TRUE
              /\ child'[p].remainingtime = child[p].remainingtime
              /\ child'[p].running_time = child[p].running_time
              /\ UNCHANGED <<sem, req_msgq, shmRT>>
  BY <1>1, <1>13 DEF ChildExit, Runs, ChildRec
<1>14. QED
  BY <1>1, <1>2, <1>4, <1>5, <1>6, <1>7, <1>8, <1>9, <1>10, <1>11, <1>12, <1>13

LEMMA ChildSettled ==
  ASSUME NoneMissing, Shape, Places, Carried, Timely, NEW p \in Procs, Child(p) PROVE Settled'
<1>1. sem \in 0..1 /\ Settled /\ Running \subseteq Procs
  BY TimeTypes DEF Timely
<1>2. /\ ~Idle /\ p = currProcess /\ Running = {p} /\ ~child[p].stopped
      /\ child'[p].stopped = child[p].stopped
      /\ \A q \in Procs \ {p} : child'[q] = child[q]
      /\ UNCHANGED <<clk, pc, last_tick, currProcess, acct>>
      /\ Running' = Running
  BY ChildIsCurrent
<1>3. /\ Idle' <=> Idle
      /\ Granted' <=> Granted
      /\ \A q \in Procs \ Running' :
            child'[q].pc \in {"none", "boot", "down"} \/ (child'[q].pc = "dead" /\ Reaped(q)')
  BY <1>1, <1>2 DEF Idle, Granted, Settled, Reaped
<1>4. Granted => pc \in {"tail", "spin"}
  BY DEF Granted
<1>5. CASE ChildBoot(p)
  <2>1. child[p].pc = "boot" /\ child'[p].pc = "down" /\ UNCHANGED <<sem, processFinishedSignal>>
    BY <1>5, ChildIsCurrent
  <2>2. QED
    BY <1>1, <1>2, <1>3, <2>1 DEF Settled
<1>6. CASE ChildDown(p)
  <2>1. /\ child[p].pc = "down" /\ child'[p].pc = "send" /\ sem = 1 /\ sem' = 0
        /\ UNCHANGED processFinishedSignal
    BY <1>6, ChildIsCurrent
  <2>2. QED
    BY <1>1, <1>2, <1>3, <2>1 DEF Settled
<1>7. CASE ChildSend(p) \/ ChildCount(p)
  <2>1. /\ child[p].pc \in {"send", "count"} /\ child'[p].pc \in {"count", "down", "signal"}
        /\ UNCHANGED <<sem, processFinishedSignal>>
    BY <1>7, ChildIsCurrent
  <2>2. QED
    BY <1>1, <1>2, <1>3, <2>1 DEF Settled
<1>8. CASE ChildExit(p)
  <2>1. /\ child[p].pc = "signal" /\ child'[p].pc = "dead" /\ processFinishedSignal' = TRUE
        /\ UNCHANGED sem
    BY <1>8, ChildIsCurrent
  <2>2. QED
    BY <1>1, <1>2, <1>3, <1>4, <2>1 DEF Settled
<1>9. QED
  BY <1>5, <1>6, <1>7, <1>8 DEF Child

LEMMA ChildAnswered ==
  ASSUME NoneMissing, QuietEnds, Shape, Places, Carried, Timely, NEW p \in Procs, Child(p)
  PROVE  Answered'
<1>1. /\ sem \in 0..1 /\ Settled /\ Answered /\ workload \in Workloads
      /\ req_msgq \in [Procs -> Seq(Request)] /\ child[p] \in ChildRec
      /\ child[p].remainingtime \in Nat /\ child[p].running_time \in Nat /\ child[p].req_index \in Nat
      /\ workload.runtime[p] \in Nat
  BY TimeTypes, TimesType DEF Timely, ChildRec, Shape
<1>2. /\ ~Idle /\ p = currProcess /\ Running = {p}
      /\ \A q \in Procs \ {p} : child'[q] = child[q]
      /\ UNCHANGED <<clk, pc, last_tick, workload>>
      /\ Running' = Running
  BY ChildIsCurrent
<1>3. Granted => pc \in {"tail", "spin"}
  BY DEF Granted
<1>4. CASE ~ChildSend(p)
  <2>1. req_msgq' = req_msgq /\ (sem = 0 => sem' = 0)
    BY <1>1, <1>4, ChildIsCurrent DEF Child
  <2>2. \A q \in Procs \ {p} : req_msgq[q] = <<>>
    BY <1>1, <1>2 DEF Answered
  <2>3. child'[p].running_time + child'[p].remainingtime
          = child[p].running_time + child[p].remainingtime
    <3>1. CASE ChildCount(p)
      <4>1. /\ child'[p].remainingtime = child[p].remainingtime - 1
            /\ child'[p].running_time = child[p].running_time + 1
        BY <3>1, ChildIsCurrent
      <4>2. \A m, n \in Int : (m + 1) + (n - 1) = m + n
        OBVIOUS
      <4>3. child[p].running_time \in Int /\ child[p].remainingtime \in Int
        BY <1>1
      <4>4. QED
        BY <4>1, <4>2, <4>3
    <3>2. CASE ChildBoot(p) \/ ChildDown(p) \/ ChildExit(p)
      <4>1. /\ child'[p].remainingtime = child[p].remainingtime
            /\ child'[p].running_time = child[p].running_time
        BY <3>2, ChildIsCurrent
      <4>2. QED
        BY <4>1
    <3>3. QED
      BY <1>4, <3>1, <3>2 DEF Child
  <2>4. ASSUME req_msgq[p] # <<>> PROVE child'[p].pc = "down"
    <3>1. sem = 0 /\ (child[p].pc = "down" \/ (child[p].pc = "count" /\ child[p].remainingtime > 1))
      BY <1>1, <2>4 DEF Answered
    <3>2. ~ChildBoot(p) /\ ~ChildDown(p) /\ ~ChildExit(p)
      <4>1. ChildBoot(p) => child[p].pc = "boot"
        BY ChildIsCurrent
      <4>2. ChildDown(p) => sem = 1
        BY ChildIsCurrent
      <4>3. ChildExit(p) => child[p].pc = "signal"
        BY ChildIsCurrent
      <4>4. QED
        BY <3>1, <4>1, <4>2, <4>3
    <3>3. ChildCount(p)
      BY <1>4, <3>2 DEF Child
    <3>4. child[p].pc = "count" /\ (child'[p].pc = "down" \/ child[p].remainingtime = 1)
      BY <3>3, ChildIsCurrent
    <3>5. QED
      BY <1>1, <3>1, <3>4
  <2>5. child[p].pc # "none"
    BY <1>2, CurrentChild
  <2>6. QED
    BY <1>1, <1>2, <2>1, <2>2, <2>3, <2>4, <2>5 DEF Answered
<1>5. CASE ChildSend(p)
  <2>1. child[p].pc = "send" /\ child'[p].pc = "count" /\ UNCHANGED sem
        /\ child'[p].remainingtime = child[p].remainingtime
        /\ child'[p].running_time = child[p].running_time
    BY <1>5, ChildIsCurrent
  <2>2. sem = 0 /\ pc \in {"tail", "spin"}
    BY <1>1, <1>2, <1>3, <2>1 DEF Settled
  <2>3. \A q \in Procs : req_msgq[q] = <<>>
    BY <1>1, <1>2, <2>1 DEF Answered
  <2>4. CASE ~Due(p)
    <3>1. req_msgq' = req_msgq
      BY <1>5, <2>4 DEF ChildSend
    <3>2. QED
      BY <1>1, <1>2, <2>1, <2>3, <3>1 DEF Answered
  <2>5. CASE Due(p)
    <3> DEFINE r == NextRequest(p)
    <3>1. req_msgq' = [req_msgq EXCEPT ![p] = Append(@, r)]
      BY <1>5, <2>5 DEF ChildSend
    <3>2. req_msgq'[p] = Append(<<>>, r) /\ \A q \in Procs \ {p} : req_msgq'[q] = <<>>
      BY <1>1, <2>3, <3>1
    <3>3. Len(req_msgq'[p]) = 1
      BY <3>2
    <3>4. r.tick = child[p].running_time /\ r.tick # workload.runtime[p] - 1
      <4>1. workload.requests[p] \in Seq(Request)
        BY <1>1, WorkloadType
      <4>2. child[p].req_index + 1 \in 1..Len(workload.requests[p])
        BY <1>1, <2>5, <4>1 DEF Due
      <4>3. QED
        BY <1>1, <2>5, <4>2 DEF Due, NextRequest, QuietEnds
    <3>5. child[p].running_time + child[p].remainingtime = workload.runtime[p]
      BY <1>1, <2>1 DEF Answered
    <3>6. child[p].remainingtime > 1
      <4>1. child[p].remainingtime >= 1
        BY <2>1 DEF Shape
      <4>2. QED
        BY <1>1, <3>4, <3>5, <4>1
    <3>7. QED
      BY <1>1, <1>2, <2>1, <2>2, <3>2, <3>3, <3>5, <3>6 DEF Answered
  <2>6. QED
    BY <2>4, <2>5
<1>6. QED
  BY <1>4, <1>5

-----------------------------------------------------------------------------
(* What the steps of the scheduler do to processes.                         *)

\* Each process of the input file is on its way or was received, and no process was
\* forked before.
Listed ==
    /\ ToSet(workload.order) = Unknown \cup Present
    /\ \A p \in Procs : pcb[p].forked => p \in Present

\* The steps that neither give nor take the CPU.
Quiet == \/ NewTick \/ Exit \/ NoRequest \/ RequestAnswered \/ BlockCheck \/ FinishCheck \/ Gate
         \/ ReceiveProcess \/ ReceiveSync \/ ReceiveEnd \/ AlgoNothing \/ AlgoExtend
         \/ PreemptedCheck \/ ClearCheck \/ Grant \/ TailCheck

LEMMA SchedulerCases ==
  Scheduler <=> Quiet \/ RequestFaults \/ AlgoPreempt \/ Reap \/ AlgoDispatch \/ WaitOver
BY DEF Scheduler, Quiet

LEMMA QuietEffect ==
  ASSUME Shape, Places, Carried, Listed, Quiet
  PROVE  /\ UNCHANGED <<child, currProcess, shmRT, acct>> /\ Running' = Running
         /\ \A p \in Procs : /\ pcb'[p].forked = pcb[p].forked
                             /\ pcb'[p].state = "F" <=> pcb[p].state = "F"
<1>1. RRTypeOK /\ MMUTypeOK /\ pcb \in [Procs -> PCBRec]
  BY PCBKnown DEF Shape
<1>2. UNCHANGED <<child, currProcess, shmRT>>
  BY DEF Quiet, NewTick, Exit, NoRequest, RequestAnswered, TakeRequest, BlockCheck, FinishCheck, Gate,
     ReceiveProcess, ReceiveSync, ReceiveEnd, AlgoNothing, AlgoExtend, PreemptedCheck, ClearCheck,
     Grant, TailCheck, ipcvars, queuevars
<1>3. Running' = Running
  BY <1>2 DEF Quiet, NewTick, Exit, NoRequest, RequestAnswered, TakeRequest, BlockCheck, FinishCheck, Gate,
     ReceiveProcess, ReceiveSync, ReceiveEnd, AlgoNothing, AlgoExtend, QuantumOver, PreemptedCheck,
     ClearCheck, Grant, TailCheck, Goto, Running
<1>4. acct' = acct
  <2>1. CASE ReceiveProcess
    <3> DEFINE p == Head(msgq.arrived)
    <3>1. msgq.arrived \in Seq(Procs) /\ msgq.arrived # <<>> /\ acct \in [Procs -> AcctRec]
      BY <1>1, <2>1 DEF ReceiveProcess, RRTypeOK
    <3>2. p \in Procs /\ p \in Unknown
      BY <3>1, TailFacts DEF Unknown
    <3>3. p \notin Present
      BY <3>2, PlacesParts DEF Present, Carried
    <3>4. acct[p] = NewAcct(p)
      BY <3>2, <3>3 DEF Listed, Shape
    <3>5. acct' = [acct EXCEPT ![p] = NewAcct(p)]
      BY <2>1 DEF ReceiveProcess
    <3> HIDE DEF p
    <3>6. acct' = [acct EXCEPT ![p] = acct[p]]
      BY <3>4, <3>5
    <3>7. QED
      BY <3>1, <3>2, <3>6
  <2>2. CASE ~ReceiveProcess
    BY <2>2 DEF Quiet, NewTick, Exit, NoRequest, RequestAnswered, TakeRequest, BlockCheck, FinishCheck,
       Gate, ReceiveSync, ReceiveEnd, AlgoNothing, AlgoExtend, PreemptedCheck, ClearCheck,
       Grant, TailCheck, countvars
  <2>3. QED
    BY <2>1, <2>2
<1>5. \A p \in Procs : /\ pcb'[p].forked = pcb[p].forked
                       /\ pcb'[p].state = "F" <=> pcb[p].state = "F"
  <2>1. CASE BlockCheck \/ PreemptedCheck \/ TailCheck
    <3>1. CASE CheckBlockEnd
      <4>1. Wake \/ (Overdue = {} /\ UNCHANGED MMUvars)
        BY <3>1 DEF CheckBlockEnd
      <4>2. \A p \in Overdue : pcb[p].state = "B"
        BY DEF Overdue
      <4>3. QED
        BY <1>1, <4>1, <4>2, WakePCB
    <3>2. CASE UNCHANGED MMUvars
      BY <3>2 DEF MMUvars
    <3>3. QED
      BY <2>1, <3>1, <3>2 DEF BlockCheck, PreemptedCheck, TailCheck
  <2>2. CASE RequestAnswered \/ ClearCheck
    <3>1. pcb' = pcb
      BY <2>2, HitPCB, ClearPCB DEF RequestAnswered, ReadPastTable, ReadNoTable, ClearCheck, MMUvars
    <3>2. QED
      BY <3>1
  <2>3. CASE ~(BlockCheck \/ PreemptedCheck \/ TailCheck \/ RequestAnswered \/ ClearCheck)
    BY <2>3 DEF Quiet, NewTick, Exit, NoRequest, FinishCheck, Gate, ReceiveProcess, ReceiveSync,
       ReceiveEnd, AlgoNothing, AlgoExtend, Grant, MMUvars
  <2>4. QED
    BY <2>1, <2>2, <2>3
<1>6. QED
  BY <1>2, <1>3, <1>4, <1>5

\* A process that faults or whose quantum is over is stopped with what it has had.
LEMMA LeaveEffect ==
  ASSUME Shape, Places, Carried, RequestFaults \/ AlgoPreempt
  PROVE  /\ currProcess \in Procs /\ Running = {currProcess} /\ Running' = {} /\ ~Idle /\ Idle'
         /\ UNCHANGED <<workload, clk, last_tick, now, currentPCBs, shmRT, sem, processFinishedSignal,
                        lastGrant, perf, last_print>>
         /\ \A q \in Procs : /\ child'[q].pc = child[q].pc
                             /\ child'[q].remainingtime = child[q].remainingtime
                             /\ child'[q].running_time = child[q].running_time
                             /\ pcb'[q].forked = pcb[q].forked
                             /\ pcb'[q].state = "F" <=> pcb[q].state = "F"
                             /\ acct'[q].start_time = acct[q].start_time
                             /\ acct'[q].waiting_time = acct[q].waiting_time
                             /\ acct'[q].finish_time = acct[q].finish_time
         /\ acct'[currProcess].remaining_time = shmRT /\ acct'[currProcess].last_stopped = clk
         /\ \A q \in Procs \ {currProcess} : acct'[q] = acct[q]
         /\ context_switch_until' = clk + 1 /\ quantums_passed' = quantums_passed + 1
<1> DEFINE p == currProcess
<1>1. RRTypeOK /\ MMUTypeOK /\ p \in Procs /\ p # NoOne
  BY CurrentKnown, ReceivedType, ProcsAreNumbers
     DEF Shape, RequestFaults, TakeRequest, AlgoPreempt, QuantumOver
<1>2. \A q \in Procs : /\ pcb'[q].forked = pcb[q].forked
                       /\ pcb'[q].state = "F" <=> pcb[q].state = "F"
  BY <1>1, FaultPCB, PreemptPCB DEF RequestFaults, AlgoPreempt
<1>3. /\ UNCHANGED <<workload, clk, last_tick, now, currentPCBs, shmRT, sem, processFinishedSignal,
                     lastGrant, perf, last_print>>
      /\ child' = [child EXCEPT ![p].stopped = TRUE]
      /\ acct' = [acct EXCEPT ![p].remaining_time = shmRT, ![p].last_stopped = clk]
      /\ Running = {p} /\ Running' = {}
      /\ context_switch_until' = clk + 1 /\ quantums_passed' = quantums_passed + 1
  <2>1. CASE RequestFaults
    BY <1>1, <2>1 DEF RequestFaults, TakeRequest, Stopped, Saved, Goto, genvars, Running, Fault, SwitchUntil
  <2>2. CASE AlgoPreempt
    BY <1>1, <2>2 DEF AlgoPreempt, QuantumOver, Stopped, Saved, Goto, genvars, ipcvars, Running, Preempt,
       SwitchUntil
  <2>3. QED
    BY <2>1, <2>2
<1>4. child \in [Procs -> ChildRec] /\ acct \in [Procs -> AcctRec]
  BY <1>1 DEF RRTypeOK
<1>5. \A q \in Procs : /\ child'[q].pc = child[q].pc
                       /\ child'[q].remainingtime = child[q].remainingtime
                       /\ child'[q].running_time = child[q].running_time
  BY <1>1, <1>3, <1>4 DEF ChildRec
<1>6. /\ \A q \in Procs : /\ acct'[q].start_time = acct[q].start_time
                          /\ acct'[q].waiting_time = acct[q].waiting_time
                          /\ acct'[q].finish_time = acct[q].finish_time
      /\ acct'[p].remaining_time = shmRT /\ acct'[p].last_stopped = clk
      /\ \A q \in Procs \ {p} : acct'[q] = acct[q]
  BY <1>1, <1>3, <1>4 DEF AcctRec
<1>7. QED
  BY <1>1, <1>2, <1>3, <1>5, <1>6 DEF Idle

LEMMA ReapEffect ==
  ASSUME Shape, Places, Carried, Reap
  PROVE  /\ currProcess \in Procs /\ Running = {currProcess} /\ Running' = {} /\ ~Idle /\ Idle'
         /\ UNCHANGED <<workload, clk, last_tick, now, child, shmRT, sem, processFinishedSignal,
                        lastGrant, req_msgq, last_print>>
         /\ child[currProcess].pc = "dead"
         /\ \A q \in Procs : pcb'[q].forked = pcb[q].forked
         /\ \A q \in Procs \ {currProcess} : acct'[q] = acct[q] /\ pcb'[q].state = pcb[q].state
         /\ acct'[currProcess].finish_time = clk /\ acct'[currProcess].remaining_time = shmRT
         /\ acct'[currProcess].start_time = acct[currProcess].start_time
         /\ acct'[currProcess].waiting_time = acct[currProcess].waiting_time
         /\ clk # -1
         /\ \/ pcb'[currProcess].state = "F"
            \/ pcb'[currProcess].state = "R" /\ undefined' # "no"
         /\ context_switch_until' = clk + 1 /\ quantums_passed' = quantums_passed + 1
<1> DEFINE p == currProcess
<1>1. RRTypeOK /\ MMUTypeOK /\ p \in Procs /\ p # NoOne
  BY CurrentKnown, ProcsAreNumbers DEF Shape, Reap
<1>2. clk \in Nat /\ clk # -1
  BY MMUAssumption DEF Shape, MMUTypeOK
<1>3. /\ \A q \in Procs : pcb'[q].forked = pcb[q].forked
      /\ \A q \in Procs \ {p} : pcb'[q].state = pcb[q].state
      /\ \/ pcb'[p].state = "F"
         \/ pcb'[p].state = "R" /\ undefined' # "no"
      /\ clk' = clk
  <2>1. CASE Finish(p)
    BY <1>1, <2>1, FinishPCB DEF Finish
  <2>2. CASE ReadNoTable(p)
    BY <2>2 DEF ReadNoTable
  <2>3. QED
    BY <2>1, <2>2 DEF Reap
<1>4. /\ UNCHANGED <<workload, last_tick, now, child, shmRT, sem, processFinishedSignal, lastGrant,
                     req_msgq, last_print>>
      /\ child[p].pc = "dead"
      /\ acct' = [acct EXCEPT ![p].finish_time = clk, ![p].remaining_time = shmRT]
      /\ Running = {p} /\ Running' = {}
      /\ context_switch_until' = clk + 1 /\ quantums_passed' = quantums_passed + 1
  BY <1>1 DEF Reap, Goto, genvars, ipcvars, Running, SwitchUntil
<1>5. acct \in [Procs -> AcctRec]
  BY <1>1 DEF RRTypeOK
<1>6. /\ acct'[p].finish_time = clk /\ acct'[p].remaining_time = shmRT
      /\ acct'[p].start_time = acct[p].start_time /\ acct'[p].waiting_time = acct[p].waiting_time
      /\ \A q \in Procs \ {p} : acct'[q] = acct[q]
  BY <1>1, <1>4, <1>5 DEF AcctRec
<1>7. QED
  BY <1>1, <1>2, <1>3, <1>4, <1>6 DEF Idle

\* The process that gets the CPU is one that waits, and it is charged for that.
LEMMA SwitchEffect ==
  ASSUME Shape, Places, Carried, NEW p, p = Head(readyQueue), AlgoDispatch \/ WaitOver
  PROVE  /\ p \in Procs /\ Running = {} /\ currProcess' = p /\ Running' = {p} /\ Idle /\ ~Idle'
         /\ p \in ToSet(currentPCBs) /\ ~Reaped(p) /\ p \in ToSet(readyQueue)
         /\ readyQueue' = Tail(readyQueue)
         /\ UNCHANGED <<workload, clk, last_tick, now, currentPCBs, sem, processFinishedSignal,
                        lastGrant, req_msgq, perf, quantums_passed, last_print, context_switch_until>>
         /\ pc' = "clear" /\ next_preemtion_time' = clk + quantum
         /\ pcb'[p].forked /\ pcb'[p].state = "R" /\ pcb[p].state = "W"
         /\ \A q \in Procs \ {p} : /\ child'[q] = child[q] /\ acct'[q] = acct[q]
                                   /\ pcb'[q].forked = pcb[q].forked
                                   /\ pcb'[q].state = pcb[q].state
         /\ shmRT' = acct[p].remaining_time
         /\ acct'[p] = Charged(p)
         /\ ~child'[p].stopped
         /\ IF pcb[p].forked
            THEN /\ child'[p].pc = child[p].pc /\ child'[p].remainingtime = child[p].remainingtime
                 /\ child'[p].running_time = child[p].running_time
            ELSE /\ child'[p].pc = "boot" /\ child'[p].remainingtime = workload.runtime[p]
                 /\ child'[p].running_time = 0
                 /\ acct[p] = NewAcct(p)
<1>1. RRTypeOK /\ MMUTypeOK /\ readyQueue \in Seq(Procs) /\ readyQueue # <<>> /\ Running = {} /\ Switch
  BY DEF Shape, AlgoDispatch, WaitOver, Running, RRTypeOK
<1>2. p \in Procs /\ p \in ToSet(readyQueue) /\ p # NoOne
  BY <1>1, TailFacts, ProcsAreNumbers
<1>3. p \in ToSet(currentPCBs) /\ ~Reaped(p)
  BY <1>2, PlacesParts DEF Carried
<1>4. Dispatch(p) /\ RunProcess(p)
  BY <1>1 DEF Switch, RunProcess
<1>5. /\ pcb'[p].forked /\ pcb'[p].state = "R" /\ pcb[p].state = "W"
      /\ \A q \in Procs \ {p} : pcb'[q].forked = pcb[q].forked /\ pcb'[q].state = pcb[q].state
  BY <1>1, <1>2, <1>4, DispatchPCB
<1>6. /\ UNCHANGED <<workload, clk, last_tick, now, currentPCBs, sem, processFinishedSignal,
                     lastGrant, req_msgq, perf, quantums_passed, last_print, context_switch_until>>
      /\ currProcess' = p /\ pc' = "clear" /\ readyQueue' = Tail(readyQueue)
      /\ next_preemtion_time' = clk + quantum
  BY <1>1, <1>4 DEF Switch, Goto, Dispatch
<1>7. Running' = {p}
  BY <1>2, <1>6 DEF Running
<1>8. child \in [Procs -> ChildRec] /\ acct \in [Procs -> AcctRec]
  BY <1>1 DEF RRTypeOK
<1>9. \A q \in Procs \ {p} : child'[q] = child[q] /\ acct'[q] = acct[q]
  <2>1. PICK c, a : child' = [child EXCEPT ![p] = c] /\ acct' = [acct EXCEPT ![p] = a]
    BY <1>4 DEF RunProcess
  <2>2. QED
    BY <1>8, <2>1
<1>10. shmRT' = acct[p].remaining_time /\ acct'[p] = Charged(p)
  BY <1>2, <1>4, <1>8 DEF RunProcess
<1>11. /\ ~child'[p].stopped
       /\ IF pcb[p].forked
          THEN /\ child'[p].pc = child[p].pc /\ child'[p].remainingtime = child[p].remainingtime
               /\ child'[p].running_time = child[p].running_time
          ELSE /\ child'[p].pc = "boot" /\ child'[p].remainingtime = workload.runtime[p]
               /\ child'[p].running_time = 0
               /\ acct[p] = NewAcct(p)
  <2>1. CASE pcb[p].forked
    <3>1. child' = [child EXCEPT ![p] = [@ EXCEPT !.stopped = FALSE]]
      BY <1>4, <2>1 DEF RunProcess
    <3>2. QED
      BY <1>2, <1>8, <2>1, <3>1 DEF ChildRec
  <2>2. CASE ~pcb[p].forked
    <3> DEFINE t == acct[p].remaining_time
    <3>1. child' = [child EXCEPT ![p] = [NoChild EXCEPT !.pc = "boot", !.remainingtime = t]]
      BY <1>4, <2>2 DEF RunProcess
    <3>2. acct[p] = NewAcct(p)
      BY <1>2, <2>2 DEF Shape
    <3>3. t = workload.runtime[p]
      BY <3>2 DEF NewAcct
    <3> HIDE DEF t
    <3>4. child'[p].pc = "boot" /\ child'[p].remainingtime = t /\ child'[p].running_time = 0
          /\ ~child'[p].stopped
      BY <1>2, <1>8, <3>1 DEF NoChild
    <3>5. QED
      BY <2>2, <3>2, <3>3, <3>4
  <2>3. QED
    BY <2>1, <2>2
<1>12. QED
  BY <1>1, <1>2, <1>3, <1>5, <1>6, <1>7, <1>9, <1>10, <1>11 DEF Idle

LEMMA QuietSettled ==
  ASSUME Shape, Places, Carried, Listed, Timely, Quiet PROVE Settled'
<1>1. /\ clk \in Nat /\ now \in Int /\ last_tick \in Int /\ sem \in 0..1
      /\ currProcess \in Procs \cup {NoOne} /\ context_switch_until \in Int
      /\ Paced /\ Settled
  BY TimeTypes DEF Timely
<1>2. /\ UNCHANGED <<child, currProcess, acct, clk>> /\ Running' = Running
  BY QuietEffect, ClkKept, SchedulerCases
<1>3. /\ Idle' <=> Idle
      /\ \A p \in Procs \ Running' :
             child'[p].pc \in {"none", "boot", "down"} \/ (child'[p].pc = "dead" /\ Reaped(p)')
  BY <1>1, <1>2 DEF Settled, Idle, Reaped
<1>4. CASE NewTick \/ Exit
  BY <1>1, <1>2, <1>3, <1>4
     DEF NewTick, Exit, Goto, Settled, Idle, Running, Granted, ipcvars, timevars, Busy
<1>5. CASE NoRequest \/ RequestAnswered \/ BlockCheck
  <2>1. /\ pc \in {"requests", "block"} /\ pc' \in {"block", "finish"}
        /\ UNCHANGED <<sem, processFinishedSignal>>
    BY <1>5 DEF NoRequest, RequestAnswered, TakeRequest, BlockCheck, Goto, ipcvars
  <2>2. ~Granted /\ ~Granted'
    BY <2>1 DEF Granted
  <2>3. QED
    BY <1>1, <1>2, <1>3, <2>1, <2>2 DEF Settled
<1>6. CASE FinishCheck
  <2>1. ~Granted /\ ~Granted'
    BY <1>6 DEF FinishCheck, Goto, Granted
  <2>2. CASE currProcess # NoOne
    <3>1. ~Idle
      BY <1>1, <1>6, <2>2 DEF FinishCheck, Idle, Running
    <3>2. QED
      BY <1>1, <1>2, <1>3, <1>6, <2>1, <3>1, <2>2 DEF FinishCheck, Goto, Settled
  <2>3. CASE currProcess = NoOne
    <3>1. Idle
      BY <2>3 DEF Idle, Running
    <3>2. QED
      BY <1>1, <1>2, <1>3, <1>6, <2>1, <2>3, <3>1 DEF FinishCheck, Goto, Settled
  <2>4. QED
    BY <2>2, <2>3
<1>7. CASE Gate
  <2>1. pc = "gate" /\ UNCHANGED <<sem, processFinishedSignal>> /\ pc' \in {"receive", "algo", "tail"}
        /\ (~Idle => pc' # "tail")
    BY <1>1, <1>7 DEF Gate, Goto, ipcvars, Paced
  <2>2. ~Granted /\ (~Idle => ~Granted')
    BY <2>1 DEF Granted
  <2>3. QED
    BY <1>1, <1>2, <1>3, <2>1, <2>2 DEF Settled
<1>8. CASE ReceiveProcess \/ ReceiveSync \/ ReceiveEnd \/ AlgoNothing \/ AlgoExtend \/ ClearCheck
  <2>1. /\ pc \in {"receive", "algo", "clear"} /\ pc' \in {"receive", "algo", "clear", "grant"}
        /\ UNCHANGED <<sem, processFinishedSignal>>
    BY <1>8 DEF ReceiveProcess, ReceiveSync, ReceiveEnd, AlgoNothing, AlgoExtend, QuantumOver, ClearCheck,
       Goto, ipcvars
  <2>2. ~Granted /\ ~Granted'
    BY <2>1 DEF Granted
  <2>3. QED
    BY <1>1, <1>2, <1>3, <2>1, <2>2 DEF Settled
<1>9. CASE PreemptedCheck
  <2>1. /\ pc = "preempted" /\ pc' = "wait" /\ UNCHANGED <<sem, processFinishedSignal>>
    BY <1>9 DEF PreemptedCheck, Goto, ipcvars
  <2>2. Idle
    BY <2>1 DEF Idle, Running
  <2>3. QED
    BY <1>1, <1>2, <1>3, <2>1, <2>2 DEF Settled
<1>10. CASE Grant
  <2>1. pc = "grant" /\ pc' = "tail" /\ UNCHANGED <<processFinishedSignal, last_tick>>
    BY <1>10 DEF Grant, Goto, timevars
  <2>2. ~Granted
    BY <2>1 DEF Granted
  <2>3. CASE currProcess # NoOne /\ now >= context_switch_until
    <3>1. ~Idle /\ currProcess \in Procs
      BY <1>1, <2>1, <2>3 DEF Idle, Running
    <3>2. sem' = 1 /\ clk = last_tick
      BY <1>1, <1>10, <2>1, <2>3, <3>1 DEF Grant, Paced
    <3>3. Granted'
      BY <1>2, <2>1, <3>2 DEF Granted
    <3>4. child[currProcess].pc \in {"boot", "down"}
      BY <1>1, <2>1, <2>2, <3>1, CurrentChild DEF Settled
    <3>5. QED
      BY <1>1, <1>2, <1>3, <2>1, <3>1, <3>2, <3>3, <3>4 DEF Settled
  <2>4. CASE ~(currProcess # NoOne /\ now >= context_switch_until)
    <3>1. sem' = sem
      BY <1>10, <2>4 DEF Grant
    <3>2. ~Idle => ~Granted'
      BY <1>1, <1>2, <2>1, <2>4 DEF Paced, Granted, Idle, Running
    <3>3. QED
      BY <1>1, <1>2, <1>3, <2>1, <2>2, <3>1, <3>2 DEF Settled
  <2>5. QED
    BY <2>3, <2>4
<1>11. CASE TailCheck
  <2>1. pc = "tail" /\ pc' = "spin" /\ UNCHANGED <<sem, processFinishedSignal, last_tick>>
    BY <1>11 DEF TailCheck, Goto, ipcvars, timevars
  <2>2. Granted' <=> Granted
    BY <1>2, <2>1 DEF Granted
  <2>3. QED
    BY <1>1, <1>2, <1>3, <2>1, <2>2 DEF Settled
<1>12. QED
  BY <1>4, <1>5, <1>6, <1>7, <1>8, <1>9, <1>10, <1>11 DEF Quiet

LEMMA LeaveSettled ==
  ASSUME Shape, Places, Carried, Timely, RequestFaults \/ AlgoPreempt PROVE Settled'
<1>1. Settled /\ Answered /\ sem \in 0..1
  BY TimeTypes DEF Timely
<1>2. /\ currProcess \in Procs /\ Running = {currProcess} /\ Running' = {} /\ ~Idle /\ Idle'
      /\ UNCHANGED <<sem, processFinishedSignal>>
      /\ \A q \in Procs : child'[q].pc = child[q].pc /\ acct'[q].finish_time = acct[q].finish_time
  BY LeaveEffect
<1>3. ~Granted /\ pc \in {"requests", "algo"} /\ pc' # "exited"
  BY DEF RequestFaults, TakeRequest, AlgoPreempt, QuantumOver, Granted, Goto
<1>4. child[currProcess].pc \in {"boot", "down"}
  <2>1. CASE RequestFaults
    <3>1. req_msgq[currProcess] # <<>>
      BY <2>1 DEF RequestFaults, TakeRequest, RequestThere
    <3>2. QED
      BY <1>1, <1>2, <1>3, <3>1 DEF Answered, Settled
  <2>2. CASE AlgoPreempt
    <3>1. pc = "algo"
      BY <2>2 DEF AlgoPreempt, QuantumOver
    <3>2. QED
      BY <1>1, <1>2, <1>3, <3>1, CurrentChild DEF Settled
  <2>3. QED
    BY <2>1, <2>2
<1>5. sem = 0 /\ ~processFinishedSignal
  BY <1>1, <1>2, <1>3, <1>4 DEF Settled
<1>6. QED
  BY <1>1, <1>2, <1>4, <1>5 DEF Settled, Reaped

LEMMA ReapSettled ==
  ASSUME Shape, Places, Carried, Timely, Reap PROVE Settled'
<1>1. Settled /\ sem \in 0..1
  BY TimeTypes DEF Timely
<1>2. /\ currProcess \in Procs /\ Running = {currProcess} /\ Running' = {} /\ ~Idle /\ Idle'
      /\ UNCHANGED <<sem, processFinishedSignal, child>> /\ child[currProcess].pc = "dead"
      /\ acct'[currProcess].finish_time = clk /\ clk # -1
      /\ \A q \in Procs \ {currProcess} : acct'[q] = acct[q]
  BY ReapEffect
<1>3. ~Granted /\ pc = "waitpid" /\ pc' = "gate"
  BY DEF Reap, Granted, Goto
<1>4. sem = 0 /\ ~processFinishedSignal
  BY <1>1, <1>2, <1>3 DEF Settled
<1>5. QED
  BY <1>1, <1>2, <1>3, <1>4 DEF Settled, Reaped

LEMMA SwitchSettled ==
  ASSUME Shape, Places, Carried, Timely, AlgoDispatch \/ WaitOver PROVE Settled'
<1> DEFINE p == Head(readyQueue)
<1>1. Settled /\ sem \in 0..1
  BY TimeTypes DEF Timely
<1>2. /\ p \in Procs /\ Running = {} /\ currProcess' = p /\ Running' = {p} /\ Idle /\ ~Idle'
      /\ UNCHANGED <<sem, processFinishedSignal>> /\ pc' = "clear" /\ ~Reaped(p)
      /\ \A q \in Procs \ {p} : child'[q] = child[q] /\ acct'[q] = acct[q]
      /\ ~child'[p].stopped
      /\ child'[p].pc = "boot" \/ (pcb[p].forked /\ child'[p].pc = child[p].pc)
  BY SwitchEffect
<1> HIDE DEF p
<1>3. child'[p].pc \in {"boot", "down"}
  BY <1>1, <1>2 DEF Settled, Carried
<1>4. sem = 0 /\ ~processFinishedSignal /\ ~Granted'
  BY <1>1, <1>2 DEF Settled, Granted
<1>5. QED
  BY <1>1, <1>2, <1>3, <1>4 DEF Settled, Reaped

LEMMA SettledStep ==
  ASSUME Prompt, NoneMissing, Shape, Places, Carried, Listed, Timely, [RRNext]_rrvars PROVE Settled'
<1>1. Settled
  BY DEF Timely
<1>2. CASE UNCHANGED rrvars \/ Terminated \/ Generator
  <2>1. UNCHANGED <<clk, pc, last_tick, currProcess, child, sem, processFinishedSignal, acct>>
    BY <1>2 DEF rrvars, Terminated, Generator, MMUvars, ipcvars, schedvars, queuevars, timevars, countvars
  <2>2. QED
    BY <1>1, <2>1 DEF Settled, Idle, Running, Granted, Reaped
<1>3. CASE ClockTick
  <2>1. /\ clk' = clk + 1 /\ clk \in Nat /\ last_tick \in Int /\ last_tick <= clk
        /\ UNCHANGED <<pc, last_tick, currProcess, child, sem, processFinishedSignal, acct>>
        /\ ~Idle => Granted /\ sem = 0 /\ child[currProcess].pc \in {"down", "dead"}
    BY <1>3, WhenClockTicks, CurrentChild, TimeTypes
       DEF ipcvars, schedvars, queuevars, timevars, countvars, Timely, Paced, Settled
  <2>2. QED
    BY <1>1, <2>1 DEF Settled, Idle, Running, Granted, Reaped
<1>4. CASE \E p \in Procs : Child(p)
  BY <1>4, ChildSettled
<1>5. CASE Scheduler
  BY <1>5, SchedulerCases, QuietSettled, LeaveSettled, ReapSettled, SwitchSettled
<1>6. QED
  BY <1>2, <1>3, <1>4, <1>5 DEF RRNext

LEMMA OneRequest ==
  ASSUME NEW q \in Seq(Request), Len(q) = 1 PROVE Tail(q) = <<>>
<1>1. Tail(q) \in Seq(Request) /\ Len(Tail(q)) = 0
  OBVIOUS
<1>2. QED
  BY <1>1, EmptySeq

LEMMA SchedulerAnswered ==
  ASSUME Shape, Places, Carried, Listed, Timely, Scheduler PROVE Answered'
<1>1. /\ Settled /\ Answered /\ sem \in 0..1 /\ Running \subseteq Procs
      /\ child \in [Procs -> ChildRec] /\ req_msgq \in [Procs -> Seq(Request)]
  BY TimeTypes DEF Timely
<1>2. workload' = workload
  BY ClkKept
<1>3. CASE Quiet
  <2>1. child' = child /\ Running' = Running
    BY <1>3, QuietEffect
  <2>2. CASE RequestAnswered
    <3> DEFINE c == currProcess
               t == Tail(req_msgq[c])
    <3>1. pc = "requests" /\ c # NoOne /\ req_msgq[c] # <<>> /\ req_msgq' = [req_msgq EXCEPT ![c] = t]
      BY <2>2 DEF RequestAnswered, TakeRequest, RequestThere
    <3>2. c \in Procs
      BY <3>1, TimeTypes
    <3>3. t = <<>>
      <4>1. Len(req_msgq[c]) = 1 /\ req_msgq[c] \in Seq(Request)
        BY <1>1, <3>1, <3>2 DEF Answered
      <4>2. QED
        BY <4>1, OneRequest DEF t
    <3> HIDE DEF t, c
    <3>4. \A q \in Procs : req_msgq'[q] = <<>>
      <4>1. \A q \in Procs \ {c} : req_msgq[q] = <<>>
        <5>1. Running = {c}
          BY <3>1 DEF Running, c
        <5>2. QED
          BY <1>1, <5>1 DEF Answered
      <4>2. QED
        BY <1>1, <3>1, <3>2, <3>3, <4>1
    <3>5. QED
      BY <1>1, <1>2, <2>1, <3>4 DEF Answered
  <2>3. CASE NoRequest
    <3>1. req_msgq' = req_msgq /\ pc = "requests"
      BY <2>3 DEF NoRequest, ipcvars
    <3>2. \A q \in Procs : req_msgq[q] = <<>>
      <4>1. currProcess # NoOne => req_msgq[currProcess] = <<>>
        BY <2>3 DEF NoRequest, RequestThere
      <4>2. QED
        BY <1>1, <3>1, <4>1 DEF Answered, Running
    <3>3. QED
      BY <1>1, <1>2, <2>1, <3>1, <3>2 DEF Answered
  <2>4. CASE NewTick \/ TailCheck \/ Exit
    <3>1. UNCHANGED <<req_msgq, sem>> /\ pc \in {"tail", "spin"} /\ pc' \in {"spin", "requests", "exited"}
          /\ (pc' = "exited" => Running = {})
      BY <2>4 DEF NewTick, TailCheck, Exit, Goto, ipcvars, Busy, Running
    <3>2. QED
      BY <1>1, <1>2, <2>1, <3>1 DEF Answered
  <2>5. CASE ~(RequestAnswered \/ NoRequest \/ NewTick \/ TailCheck \/ Exit)
    <3>1. req_msgq' = req_msgq /\ pc \notin {"tail", "spin", "requests"}
      BY <1>3, <2>5 DEF Quiet, BlockCheck, FinishCheck, Gate, ReceiveProcess, ReceiveSync, ReceiveEnd,
         AlgoNothing, AlgoExtend, QuantumOver, PreemptedCheck, ClearCheck, Grant, ipcvars
    <3>2. QED
      BY <1>1, <1>2, <2>1, <3>1 DEF Answered
  <2>6. QED
    BY <2>2, <2>3, <2>4, <2>5
<1>4. CASE RequestFaults \/ AlgoPreempt
  <2>1. /\ currProcess \in Procs /\ Running = {currProcess}
        /\ \A q \in Procs : /\ child'[q].pc = child[q].pc
                            /\ child'[q].remainingtime = child[q].remainingtime
                            /\ child'[q].running_time = child[q].running_time
    BY <1>4, LeaveEffect
  <2>2. \A q \in Procs : req_msgq'[q] = <<>>
    <3>1. CASE RequestFaults
      <4> DEFINE c == currProcess
                 t == Tail(req_msgq[c])
      <4>1. req_msgq[c] # <<>> /\ req_msgq' = [req_msgq EXCEPT ![c] = t]
        BY <3>1 DEF RequestFaults, TakeRequest, RequestThere
      <4>2. t = <<>>
        <5>1. Len(req_msgq[c]) = 1 /\ req_msgq[c] \in Seq(Request)
          BY <1>1, <2>1, <4>1 DEF Answered
        <5>2. QED
          BY <5>1, OneRequest DEF t
      <4> HIDE DEF t, c
      <4>3. \A q \in Procs \ {c} : req_msgq[q] = <<>>
        BY <1>1, <2>1 DEF Answered, c
      <4>4. QED
        BY <1>1, <4>1, <4>2, <4>3
    <3>2. CASE AlgoPreempt
      <4>1. pc = "algo" /\ req_msgq' = req_msgq
        BY <3>2 DEF AlgoPreempt, QuantumOver, ipcvars
      <4>2. QED
        BY <1>1, <4>1 DEF Answered
    <3>3. QED
      BY <1>4, <3>1, <3>2
  <2>3. QED
    BY <1>1, <1>2, <2>1, <2>2 DEF Answered
<1>5. CASE Reap
  <2>1. UNCHANGED <<child, req_msgq>> /\ pc = "waitpid"
    BY <1>5, ReapEffect DEF Reap
  <2>2. QED
    BY <1>1, <1>2, <2>1 DEF Answered
<1>6. CASE AlgoDispatch \/ WaitOver
  <2> DEFINE p == Head(readyQueue)
  <2>1. /\ p \in Procs /\ Running = {} /\ req_msgq' = req_msgq
        /\ \A q \in Procs \ {p} : child'[q] = child[q]
        /\ IF pcb[p].forked
           THEN /\ child'[p].pc = child[p].pc /\ child'[p].remainingtime = child[p].remainingtime
                /\ child'[p].running_time = child[p].running_time
           ELSE /\ child'[p].pc = "boot" /\ child'[p].remainingtime = workload.runtime[p]
                /\ child'[p].running_time = 0
    BY <1>6, SwitchEffect
  <2> HIDE DEF p
  <2>2. child'[p].running_time + child'[p].remainingtime = workload.runtime[p]
    <3>1. workload.runtime[p] \in Nat
      BY <2>1, TimesType DEF Shape
    <3>2. CASE pcb[p].forked
      BY <1>1, <2>1, <3>2 DEF Answered, Carried
    <3>3. CASE ~pcb[p].forked
      BY <2>1, <3>1, <3>3
    <3>4. QED
      BY <3>2, <3>3
  <2>3. \A q \in Procs : req_msgq[q] = <<>>
    BY <1>1, <2>1 DEF Answered
  <2>4. QED
    BY <1>1, <1>2, <2>1, <2>2, <2>3 DEF Answered
<1>7. QED
  BY <1>3, <1>4, <1>5, <1>6, SchedulerCases

LEMMA AnsweredStep ==
  ASSUME Prompt, NoneMissing, QuietEnds, Shape, Places, Carried, Listed, Timely, [RRNext]_rrvars
  PROVE  Answered'
<1>1. Answered
  BY DEF Timely
<1>2. CASE UNCHANGED rrvars \/ Terminated \/ Generator \/ ClockTick
  <2>1. UNCHANGED <<workload, pc, currProcess, child, sem, req_msgq>>
    BY <1>2 DEF rrvars, Terminated, Generator, ClockTick, ipcvars, schedvars, queuevars
  <2>2. QED
    BY <1>1, <2>1 DEF Answered, Running
<1>3. CASE \E p \in Procs : Child(p)
  BY <1>3, ChildAnswered
<1>4. CASE Scheduler
  BY <1>4, SchedulerAnswered
<1>5. QED
  BY <1>2, <1>3, <1>4 DEF RRNext

\* Nobody gets lost between the input file and the report.
LEMMA ListedStep ==
  ASSUME NoneMissing, Shape, Places, Carried, Listed, [RRNext]_rrvars PROVE Listed'
<1>1. /\ RRTypeOK /\ g_queue \in Seq(Procs) /\ currentPCBs \in Seq(Procs)
      /\ msgq \in [arrived: Seq(Procs), sync: Seq(Int), end: BOOLEAN]
      /\ Unknown \subseteq Procs /\ ToSet(currentPCBs) \subseteq Procs
  BY QueueSets DEF Shape, RRTypeOK
<1>2. CASE UNCHANGED rrvars \/ Terminated \/ ClockTick
  <2>1. UNCHANGED <<workload, pcb, g_queue, msgq, currentPCBs, acct>>
    BY <1>2 DEF rrvars, MMUvars, Terminated, ClockTick, Tick, ipcvars, genvars, schedvars, queuevars, countvars
  <2>2. QED
    BY <2>1 DEF Listed, Unknown, Present, Reaped
<1>3. CASE \E p \in Procs : Child(p)
  <2>1. UNCHANGED <<workload, pcb, g_queue, msgq, currentPCBs, acct>>
    BY <1>3, ChildMMU DEF MMUvars, Child, ChildBoot, ChildDown, ChildSend, ChildCount, ChildExit, ipcvars,
       genvars, schedvars, queuevars, countvars
  <2>2. QED
    BY <2>1 DEF Listed, Unknown, Present, Reaped
<1>4. CASE Generator
  <2>1. UNCHANGED <<workload, pcb, currentPCBs, acct>>
    BY <1>4 DEF Generator, MMUvars, schedvars, queuevars, countvars
  <2>2. Unknown' = Unknown
    <3>1. CASE GenSend
      <4> DEFINE a == Append(msgq.arrived, Head(g_queue))
      <4>1. g_queue # <<>> /\ g_queue' = Tail(g_queue) /\ msgq' = [msgq EXCEPT !.arrived = a]
        BY <3>1 DEF GenSend, Arrived
      <4>2. ToSet(g_queue) = {Head(g_queue)} \cup ToSet(Tail(g_queue))
            /\ ToSet(a) = ToSet(msgq.arrived) \cup {Head(g_queue)}
        BY <1>1, <4>1, TailFacts, AppendFacts
      <4> HIDE DEF a
      <4>3. msgq'.arrived = a
        BY <1>1, <4>1
      <4>4. QED
        BY <4>1, <4>2, <4>3 DEF Unknown
    <3>2. CASE ~GenSend
      <4>1. g_queue' = g_queue /\ msgq'.arrived = msgq.arrived
        BY <1>1, <1>4, <3>2 DEF Generator, GenStep, GenPoll, GenSync, GenEnd, GenShutdown
      <4>2. QED
        BY <4>1 DEF Unknown
    <3>3. QED
      BY <3>1, <3>2
  <2>3. QED
    BY <2>1, <2>2 DEF Listed, Present, Reaped
<1>5. CASE Quiet
  <2>1. /\ acct' = acct /\ \A p \in Procs : pcb'[p].forked = pcb[p].forked
        /\ g_queue' = g_queue /\ workload' = workload
    BY <1>5, QuietEffect, ClkKept, SchedulerCases
  <2>2. Unknown' \cup ToSet(currentPCBs') = Unknown \cup ToSet(currentPCBs)
        /\ ToSet(currentPCBs) \subseteq ToSet(currentPCBs')
    <3>1. CASE ReceiveProcess
      <4> DEFINE p == Head(msgq.arrived)
                 a == Tail(msgq.arrived)
      <4>1. /\ msgq.arrived # <<>> /\ msgq.arrived \in Seq(Procs)
            /\ currentPCBs' = Append(currentPCBs, p) /\ msgq' = [msgq EXCEPT !.arrived = a]
        BY <1>1, <3>1 DEF ReceiveProcess
      <4>2. p \in Procs /\ ToSet(msgq.arrived) = {p} \cup ToSet(a)
        BY <4>1, TailFacts
      <4>3. ToSet(currentPCBs') = ToSet(currentPCBs) \cup {p}
        BY <1>1, <4>1, <4>2, AppendFacts
      <4> HIDE DEF p, a
      <4>4. msgq'.arrived = a
        BY <1>1, <4>1
      <4>5. QED
        BY <2>1, <4>2, <4>3, <4>4 DEF Unknown
    <3>2. CASE ~ReceiveProcess
      <4>1. currentPCBs' = currentPCBs /\ msgq'.arrived = msgq.arrived
        BY <1>1, <1>5, <3>2 DEF Quiet, NewTick, Exit, NoRequest, RequestAnswered, TakeRequest, BlockCheck,
           FinishCheck, Gate, ReceiveSync, ReceiveEnd, AlgoNothing, AlgoExtend, PreemptedCheck, ClearCheck,
           Grant, TailCheck, ipcvars, queuevars
      <4>2. QED
        BY <2>1, <4>1 DEF Unknown
    <3>3. QED
      BY <3>1, <3>2
  <2>3. QED
    BY <2>1, <2>2 DEF Listed, Present, Reaped
<1>6. CASE RequestFaults \/ AlgoPreempt
  <2>1. /\ UNCHANGED <<workload, currentPCBs>> /\ g_queue' = g_queue
        /\ \A q \in Procs : /\ pcb'[q].forked = pcb[q].forked
                            /\ acct'[q].finish_time = acct[q].finish_time
    BY <1>6, LeaveEffect, ClkKept, SchedulerCases
  <2>2. msgq' = msgq
    BY <1>6 DEF RequestFaults, TakeRequest, AlgoPreempt, ipcvars
  <2>3. QED
    BY <2>1, <2>2 DEF Listed, Unknown, Present, Reaped
<1>7. CASE Reap
  <2> DEFINE c == currProcess
  <2>1. /\ c \in Procs /\ workload' = workload /\ g_queue' = g_queue
        /\ \A q \in Procs : pcb'[q].forked = pcb[q].forked
        /\ acct'[c].finish_time = clk /\ clk # -1
        /\ \A q \in Procs \ {c} : acct'[q] = acct[q]
        /\ Running = {c}
    BY <1>7, ReapEffect, ClkKept, SchedulerCases
  <2>2. msgq' = msgq /\ currentPCBs' = InOrder(currentPCBs, Procs \ {c})
    BY <1>7 DEF Reap, Without, ipcvars
  <2> HIDE DEF c
  <2>3. ToSet(currentPCBs') = ToSet(currentPCBs) \cap (Procs \ {c})
    BY <1>1, <2>2, InOrderFacts
  <2>4. c \in ToSet(currentPCBs)
    BY <2>1, PlacesParts
  <2>5. \A q \in Procs : Reaped(q)' <=> q = c \/ Reaped(q)
    BY <2>1 DEF Reaped
  <2>6. Present' = Present
    BY <1>1, <2>1, <2>3, <2>4, <2>5 DEF Present
  <2>7. QED
    BY <2>1, <2>2, <2>6 DEF Listed, Unknown
<1>8. CASE AlgoDispatch \/ WaitOver
  <2> DEFINE p == Head(readyQueue)
  <2>1. /\ p \in Procs /\ UNCHANGED <<workload, currentPCBs>> /\ g_queue' = g_queue
        /\ p \in ToSet(currentPCBs) /\ ~Reaped(p)
        /\ \A q \in Procs \ {p} : acct'[q] = acct[q] /\ pcb'[q].forked = pcb[q].forked
    BY <1>8, SwitchEffect, ClkKept, SchedulerCases
  <2>2. msgq' = msgq
    BY <1>8 DEF AlgoDispatch, WaitOver, Switch
  <2>3. Carried'
    BY StepShared
  <2> HIDE DEF p
  <2>4. acct'[p].finish_time = -1 /\ acct[p].finish_time = -1
    BY <2>1, <2>3 DEF Carried, Reaped
  <2>5. Present' = Present
    BY <2>1, <2>4 DEF Present, Reaped
  <2>6. QED
    BY <2>1, <2>2, <2>5 DEF Listed, Unknown, Present
<1>9. QED
  BY <1>2, <1>3, <1>4, <1>5, <1>6, <1>7, <1>8, SchedulerCases DEF RRNext

LEMMA TimelyInit ==
  ASSUME RRInit PROVE Listed /\ Timely
<1>1. /\ clk = 0 /\ pc = "spin" /\ now = -1 /\ last_tick = -1 /\ wait_until = -1 /\ lastTime = -1
      /\ g_pc = "poll" /\ msgq = NoMessage /\ g_queue = workload.order
      /\ currProcess = NoOne /\ context_switch_until = -1 /\ receivingProcesses
      /\ currentPCBs = <<>> /\ sem = 0 /\ processFinishedSignal = FALSE
      /\ \A p \in Procs : child[p].pc = "none" /\ req_msgq[p] = <<>> /\ acct[p] = NewAcct(p)
  BY DEF RRInit, MMUInit, GenInit, NoChild
<1>2. \A p \in Procs : ~pcb[p].forked
  BY DEF RRInit, MMUInit, NewPCB
<1>3. Running = {} /\ ToSet(<<>>) = {}
  BY <1>1 DEF Running, ToSet
<1>4. msgq.arrived = <<>> /\ msgq.sync = <<>> /\ msgq.end = FALSE
  BY <1>1 DEF NoMessage
<1>5. \A p \in Procs : ~Reaped(p)
  <2>1. ASSUME NEW p \in Procs PROVE acct[p].finish_time = -1
    <3>1. acct[p] = NewAcct(p)
      BY <1>1
    <3>2. NewAcct(p).finish_time = -1
      BY DEF NewAcct
    <3>3. QED
      BY <3>1, <3>2
  <2>2. QED
    BY <2>1 DEF Reaped
<1>6. Listed
  BY <1>1, <1>2, <1>3, <1>4, <1>5 DEF Listed, Unknown, Present
<1>7. Paced /\ Told
  BY <1>1, <1>3, <1>4 DEF Paced, Told, Idle
<1>8. Settled /\ Answered
  BY <1>1, <1>3 DEF Settled, Answered, Idle
<1>9. QED
  BY <1>6, <1>7, <1>8 DEF Timely

LEMMA CarriedHolds ==
  ASSUME NoneMissing PROVE RRSpec => []Carried
<1>1. RRInit => Carried
  BY SharedInit
<1>2. Shape /\ Places /\ Carried /\ [RRNext]_rrvars => Carried'
  BY StepShared
<1>3. QED
  BY <1>1, <1>2, ShapeHolds, PlacesHold, PTL DEF RRSpec

LEMMA TimelyHolds ==
  ASSUME Prompt, NoneMissing, QuietEnds PROVE RRSpec => [](Listed /\ Timely)
<1>1. RRInit => Listed /\ Timely
  BY TimelyInit
<1>2. Shape /\ Places /\ Carried /\ Listed /\ Timely /\ [RRNext]_rrvars => (Listed /\ Timely)'
  BY ListedStep, PacedStep, ToldStep, SettledStep, AnsweredStep DEF Timely
<1>3. QED
  BY <1>1, <1>2, ShapeHolds, PlacesHold, CarriedHolds, PTL DEF RRSpec

\* Who sent a request is running, and the step that finishes a process is not one of
\* those between its tick and the answer.
LEMMA FinishHasNoRequest ==
  ASSUME Shape, Places, Carried, Listed, Timely, [RRNext]_rrvars,
         NEW p \in Procs, pcb'[p].state = "F"
  PROVE  req_msgq[p] = <<>>
<1>1. SUFFICES ASSUME req_msgq[p] # <<>> PROVE FALSE
  OBVIOUS
<1>2. p \in Running /\ pc \in {"tail", "spin", "requests"}
  BY <1>1 DEF Timely, Answered
<1>3. ~Idle /\ pcb[p].state = "R" /\ Running = {p} /\ p = currProcess
  BY <1>2, CurrentChild DEF Idle
<1>4. pcb'[p].state = "F" => pcb[p].state = "F"
  <2>1. CASE UNCHANGED rrvars \/ Terminated \/ ClockTick \/ Generator \/ \E q \in Procs : Child(q)
    BY <2>1, ChildMMU DEF rrvars, Terminated, ClockTick, Tick, Generator, MMUvars
  <2>2. CASE Quiet
    BY <2>2, QuietEffect
  <2>3. CASE RequestFaults \/ AlgoPreempt
    BY <2>3, LeaveEffect
  <2>4. CASE Reap \/ AlgoDispatch \/ WaitOver
    BY <1>2, <2>4 DEF Reap, AlgoDispatch, WaitOver
  <2>5. QED
    BY <2>1, <2>2, <2>3, <2>4, SchedulerCases DEF RRNext
<1>5. QED
  BY <1>3, <1>4

LEMMA GrantHasNoRequest ==
  ASSUME Shape, Timely, [RRNext]_rrvars, lastGrant' # lastGrant
  PROVE  /\ Grant /\ currProcess \in Procs /\ req_msgq[currProcess] = <<>>
         /\ lastGrant' = [to |-> currProcess, at |-> clk] /\ now >= context_switch_until
<1>1. Grant
  BY DEF RRNext, rrvars, Terminated, ClockTick, Generator, Child, ChildBoot, ChildDown, ChildSend,
     ChildCount, ChildExit, Scheduler, NewTick, Exit, NoRequest, TakeRequest, RequestAnswered,
     RequestFaults, BlockCheck, FinishCheck, Reap, Gate, ReceiveProcess, ReceiveSync, ReceiveEnd,
     AlgoDispatch, AlgoNothing, AlgoExtend, AlgoPreempt, PreemptedCheck, WaitOver, ClearCheck,
     TailCheck, Switch
<1>2. /\ pc = "grant" /\ currProcess # NoOne /\ now >= context_switch_until
      /\ lastGrant' = [to |-> currProcess, at |-> clk]
  BY <1>1 DEF Grant
<1>3. currProcess \in Procs
  BY <1>2, TimeTypes
<1>4. QED
  BY <1>1, <1>2, <1>3 DEF Timely, Answered

\* While the processes keep pace with the clock, a process that has sent a request
\* gets no tick before its request was answered, and is not finished before that: the
\* scheduler looks for the request of the current process in every iteration, before
\* it looks for the end of that process and before it grants the next tick.  This
\* needs a workload without requests in the last tick of a process.
THEOREM RequestsComeFirst ==
  ASSUME Prompt, NoneMissing, QuietEnds PROVE RRSpec => RequestsAnswered
<1>1. Shape /\ Places /\ Carried /\ Listed /\ Timely /\ [RRNext]_rrvars =>
        [/\ lastGrant' # lastGrant => req_msgq[currProcess] = <<>>
         /\ \A p \in Procs : pcb'[p].state = "F" => req_msgq[p] = <<>>]_rrvars
  BY FinishHasNoRequest, GrantHasNoRequest
<1>2. QED
  BY <1>1, ShapeHolds, PlacesHold, CarriedHolds, TimelyHolds, PTL DEF RRSpec, RequestsAnswered

-----------------------------------------------------------------------------
(* The quantums.                                                            *)

\* The check for the clearing of R bits has been made for the quantums passed.
Cleared == k > 0 /\ quantums_passed > 0 /\ quantums_passed % k = 0 => last_print = quantums_passed

\* While somebody has the CPU, that check is behind it when the counter advances
\* again, and its quantum is not over when the tick is granted.
Kept ==
    /\ last_print <= quantums_passed
    /\ ~Idle /\ pc # "clear" => Cleared
    /\ ~Idle /\ pc \in {"clear", "grant"} => clk < next_preemtion_time

\* The last grant is one tick old when its process leaves the CPU, and the next
\* process comes to the CPU one more tick later.
Spaced ==
    lastGrant.to # NoOne =>
       /\ Granted \/ lastGrant.at < clk
       /\ lastGrant.at <= clk
       /\ ~Idle /\ currProcess # lastGrant.to => lastGrant.at + 2 <= clk
       /\ Idle => \/ context_switch_until # -1 /\ lastGrant.at + 2 <= context_switch_until
                  \/ context_switch_until = -1 /\ lastGrant.at + 2 <= clk

LEMMA KeptStep ==
  ASSUME Prompt, NoneMissing, Shape, Places, Carried, Listed, Timely, Kept, [RRNext]_rrvars PROVE Kept'
<1>1. /\ clk \in Nat /\ next_preemtion_time \in Int /\ quantums_passed \in Nat /\ last_print \in Int
      /\ k \in Nat /\ quantum \in Nat \ {0} /\ Paced
  BY TimeTypes, RRAssumption DEF Timely, Shape, RRTypeOK
<1>2. CASE UNCHANGED rrvars \/ Terminated \/ Generator \/ \E p \in Procs : Child(p)
  <2>1. UNCHANGED <<clk, pc, currProcess, last_print, quantums_passed, next_preemtion_time>>
    BY <1>2, ChildMMU DEF rrvars, MMUvars, Terminated, Child, ChildBoot, ChildDown, ChildSend, ChildCount,
       ChildExit, Generator, schedvars, queuevars, timevars, countvars
  <2>2. QED
    BY <1>1, <2>1 DEF Kept, Cleared, Idle, Running
<1>3. CASE ClockTick
  <2>1. pc \notin {"clear", "grant"} /\ UNCHANGED <<pc, currProcess, last_print, quantums_passed>>
    BY <1>3, WhenClockTicks DEF schedvars, queuevars, countvars
  <2>2. QED
    BY <1>1, <2>1 DEF Kept, Cleared, Idle, Running
<1>4. CASE Quiet
  <2>1. clk' = clk /\ (Idle' <=> Idle)
    BY <1>4, ClkKept, SchedulerCases, QuietEffect DEF Idle
  <2>2. CASE ClearCheck
    <3>1. /\ pc = "clear" /\ pc' = "grant" /\ UNCHANGED <<next_preemtion_time, quantums_passed>>
          /\ last_print' = IF ClearDue THEN quantums_passed ELSE last_print
      BY <2>2 DEF ClearCheck, Goto, timevars
    <3>2. last_print' <= quantums_passed /\ Cleared'
      BY <1>1, <3>1 DEF Kept, Cleared, ClearDue
    <3>3. QED
      BY <1>1, <2>1, <3>1, <3>2 DEF Kept
  <2>3. CASE AlgoExtend
    <3>1. /\ pc' = "clear" /\ next_preemtion_time' = clk + quantum
          /\ quantums_passed' = quantums_passed + 1 /\ last_print' = last_print
      BY <2>3 DEF AlgoExtend, Goto
    <3>2. QED
      BY <1>1, <2>1, <3>1 DEF Kept
  <2>4. CASE AlgoNothing
    <3>1. /\ pc = "algo" /\ pc' = "clear" /\ UNCHANGED <<next_preemtion_time, quantums_passed, last_print>>
          /\ (now = 0 \/ currProcess = NoOne \/ ~Expired)
      BY <2>4 DEF AlgoNothing, Goto, timevars, countvars
    <3>2. ~Idle => clk < next_preemtion_time
      BY <1>1, <3>1 DEF Paced, Idle, Running, Expired
    <3>3. QED
      BY <1>1, <2>1, <3>1, <3>2 DEF Kept
  <2>5. CASE ~(ClearCheck \/ AlgoExtend \/ AlgoNothing)
    <3>1. /\ UNCHANGED <<quantums_passed, last_print, next_preemtion_time>>
          /\ pc # "clear" /\ pc' \notin {"clear", "grant"}
      BY <1>4, <2>5 DEF Quiet, NewTick, Exit, NoRequest, RequestAnswered, TakeRequest, BlockCheck, FinishCheck,
         Gate, ReceiveProcess, ReceiveSync, ReceiveEnd, PreemptedCheck, Grant, TailCheck, Goto,
         countvars, timevars
    <3>2. QED
      BY <1>1, <2>1, <3>1 DEF Kept, Cleared
  <2>6. QED
    BY <2>2, <2>3, <2>4, <2>5
<1>5. CASE RequestFaults \/ AlgoPreempt \/ Reap
  <2>1. Idle' /\ quantums_passed' = quantums_passed + 1 /\ last_print' = last_print
    BY <1>5, LeaveEffect, ReapEffect
  <2>2. QED
    BY <1>1, <2>1 DEF Kept
<1>6. CASE AlgoDispatch \/ WaitOver
  <2>1. UNCHANGED <<clk, quantums_passed, last_print>> /\ pc' = "clear" /\ next_preemtion_time' = clk + quantum
    BY <1>6, SwitchEffect
  <2>2. QED
    BY <1>1, <2>1 DEF Kept
<1>7. QED
  BY <1>2, <1>3, <1>4, <1>5, <1>6, SchedulerCases DEF RRNext

LEMMA SpacedStep ==
  ASSUME Prompt, NoneMissing, Shape, Places, Carried, Listed, Timely, Spaced, [RRNext]_rrvars PROVE Spaced'
<1>1. /\ clk \in Nat /\ now \in Int /\ last_tick \in Int /\ context_switch_until \in Int
      /\ lastGrant.at \in Int /\ Paced
  BY TimeTypes DEF Timely
<1>2. CASE UNCHANGED rrvars \/ Terminated \/ Generator \/ \E p \in Procs : Child(p)
  <2>1. UNCHANGED <<clk, pc, currProcess, last_tick, lastGrant, context_switch_until>>
    BY <1>2, ChildMMU DEF rrvars, MMUvars, Terminated, Child, ChildBoot, ChildDown, ChildSend, ChildCount,
       ChildExit, Generator, schedvars, queuevars, timevars, countvars
  <2>2. QED
    BY <1>1, <2>1 DEF Spaced, Granted, Idle, Running
<1>3. CASE ClockTick
  <2>1. clk' = clk + 1 /\ UNCHANGED <<pc, currProcess, last_tick, lastGrant, context_switch_until>>
    BY <1>3, WhenClockTicks DEF schedvars, queuevars, timevars
  <2>2. QED
    BY <1>1, <2>1 DEF Spaced, Idle, Running
<1>4. CASE Quiet
  <2>1. clk' = clk /\ (Idle' <=> Idle) /\ currProcess' = currProcess
    BY <1>4, ClkKept, SchedulerCases, QuietEffect DEF Idle
  <2>2. CASE Grant
    <3>1. pc = "grant" /\ pc' = "tail" /\ UNCHANGED <<last_tick, context_switch_until>>
      BY <2>2 DEF Grant, Goto, timevars
    <3>2. CASE lastGrant' = lastGrant
      BY <1>1, <2>1, <3>1, <3>2 DEF Spaced, Granted
    <3>3. CASE lastGrant' # lastGrant
      <4>1. /\ lastGrant' = [to |-> currProcess, at |-> clk] /\ now >= context_switch_until
            /\ currProcess # NoOne
        BY <2>2, <3>3 DEF Grant
      <4>2. ~Idle
        BY <3>1, <4>1 DEF Idle, Running
      <4>3. clk = last_tick
        BY <1>1, <3>1, <4>1, <4>2 DEF Paced
      <4>4. lastGrant'.to = currProcess /\ lastGrant'.at = clk
        BY <4>1
      <4>5. QED
        BY <1>1, <2>1, <3>1, <4>2, <4>3, <4>4 DEF Spaced, Granted
    <3>4. QED
      BY <3>2, <3>3
  <2>3. CASE Gate
    <3>1. /\ pc = "gate" /\ UNCHANGED <<last_tick, lastGrant>>
          /\ \/ context_switch_until' = context_switch_until
             \/ context_switch_until' = -1 /\ context_switch_until <= now
      <4>1. \A x, y \in Int : x >= y => y <= x
        OBVIOUS
      <4>2. QED
        BY <1>1, <2>3, <4>1 DEF Gate
    <3>2. now = clk
      BY <1>1, <3>1 DEF Paced
    <3>3. QED
      BY <1>1, <2>1, <3>1, <3>2 DEF Spaced, Granted
  <2>4. CASE NewTick \/ Exit
    <3>1. /\ pc = "spin" /\ UNCHANGED <<context_switch_until, lastGrant>>
          /\ (clk # last_tick \/ Idle)
      BY <2>4 DEF NewTick, Exit, Busy, Idle, Running, timevars
    <3>2. context_switch_until <= last_tick + 1 /\ last_tick <= clk
      BY <1>1 DEF Paced
    <3>3. QED
      BY <1>1, <2>1, <3>1, <3>2 DEF Spaced, Granted
  <2>5. CASE ~(Grant \/ Gate \/ NewTick \/ Exit)
    <3>1. UNCHANGED <<last_tick, context_switch_until, lastGrant>> /\ (Granted => Granted')
      BY <1>4, <2>1, <2>5 DEF Quiet, NoRequest, RequestAnswered, TakeRequest, BlockCheck, FinishCheck,
         ReceiveProcess, ReceiveSync, ReceiveEnd, AlgoNothing, AlgoExtend, QuantumOver, PreemptedCheck,
         ClearCheck, TailCheck, Goto, timevars, Granted
    <3>2. QED
      BY <1>1, <2>1, <3>1 DEF Spaced
  <2>6. QED
    BY <2>2, <2>3, <2>4, <2>5
<1>5. CASE RequestFaults \/ AlgoPreempt \/ Reap
  <2>1. Idle' /\ UNCHANGED <<clk, last_tick, lastGrant>> /\ context_switch_until' = clk + 1
    BY <1>5, LeaveEffect, ReapEffect
  <2>2. ~Granted
    BY <1>5 DEF RequestFaults, TakeRequest, AlgoPreempt, QuantumOver, Reap, Granted
  <2>3. QED
    BY <1>1, <2>1, <2>2 DEF Spaced
<1>6. CASE AlgoDispatch \/ WaitOver
  <2>1. Idle /\ ~Idle' /\ UNCHANGED <<clk, last_tick, lastGrant>>
    BY <1>6, SwitchEffect
  <2>2. /\ pc \in {"algo", "wait"}
        /\ pc = "wait" => clk >= wait_until /\ wait_until = context_switch_until
        /\ pc = "algo" => context_switch_until = -1
    BY <1>1, <1>6 DEF AlgoDispatch, WaitOver, Paced
  <2>3. lastGrant.to # NoOne => lastGrant.at + 2 <= clk
    BY <1>1, <2>1, <2>2 DEF Spaced
  <2>4. QED
    BY <1>1, <2>1, <2>3 DEF Spaced
<1>7. QED
  BY <1>2, <1>3, <1>4, <1>5, <1>6, SchedulerCases DEF RRNext

LEMMA QuantumsInit ==
  ASSUME RRInit PROVE Kept /\ Spaced
<1>1. /\ last_print = -1 /\ quantums_passed = 0 /\ currProcess = NoOne
      /\ lastGrant = [to |-> NoOne, at |-> -1]
  BY DEF RRInit
<1>2. Idle
  BY <1>1 DEF Idle, Running
<1>3. lastGrant.to = NoOne
  BY <1>1
<1>4. QED
  BY <1>1, <1>2, <1>3 DEF Kept, Spaced

LEMMA QuantumsHold ==
  ASSUME Prompt, NoneMissing, QuietEnds PROVE RRSpec => [](Kept /\ Spaced)
<1>1. RRInit => Kept /\ Spaced
  BY QuantumsInit
<1>2. Shape /\ Places /\ Carried /\ Listed /\ Timely /\ Kept /\ Spaced /\ [RRNext]_rrvars
        => (Kept /\ Spaced)'
  BY KeptStep, SpacedStep
<1>3. QED
  BY <1>1, <1>2, ShapeHolds, PlacesHold, CarriedHolds, TimelyHolds, PTL DEF RRSpec

LEMMA GrantKept ==
  ASSUME Shape, Places, Carried, Timely, Kept, Spaced, [RRNext]_rrvars, lastGrant' # lastGrant
  PROVE  /\ lastGrant'.to # lastGrant.to /\ lastGrant.to # NoOne => lastGrant'.at >= lastGrant.at + 2
         /\ lastGrant'.at < next_preemtion_time
         /\ child[currProcess].pc # "dead" /\ child[currProcess].remainingtime > 0
<1>1. /\ pc = "grant" /\ currProcess \in Procs /\ lastGrant' = [to |-> currProcess, at |-> clk]
  BY GrantHasNoRequest DEF Grant
<1>2. ~Idle
  BY <1>1, TimeTypes DEF Idle, Running
<1>3. lastGrant'.to = currProcess /\ lastGrant'.at = clk
  BY <1>1
<1>4. clk < next_preemtion_time
  BY <1>1, <1>2 DEF Kept
<1>5. child[currProcess].pc \in {"boot", "down"}
  BY <1>1, <1>2, CurrentChild DEF Timely, Settled, Granted
<1>6. child[currProcess].remainingtime >= 1 /\ child[currProcess].remainingtime \in Nat
  BY <1>1, <1>5, TimeTypes DEF Shape, ChildRec
<1>7. clk \in Int /\ lastGrant.at \in Int
  BY TimeTypes
<1>8. lastGrant.to # currProcess /\ lastGrant.to # NoOne => clk >= lastGrant.at + 2
  BY <1>2, <1>7 DEF Spaced
<1>9. QED
  BY <1>3, <1>4, <1>5, <1>6, <1>8

LEMMA CountedCleared ==
  ASSUME Shape, Places, Carried, Listed, Kept, [RRNext]_rrvars, quantums_passed' # quantums_passed
  PROVE  Cleared
<1>1. RequestFaults \/ AlgoPreempt \/ Reap \/ AlgoExtend
  <2>1. Scheduler
    BY DEF RRNext, rrvars, Terminated, ClockTick, Generator, Child, ChildBoot, ChildDown, ChildSend,
       ChildCount, ChildExit, schedvars, countvars
  <2>2. CASE Quiet
    BY <2>2 DEF Quiet, NewTick, Exit, NoRequest, RequestAnswered, BlockCheck, FinishCheck,
       Gate, ReceiveProcess, ReceiveSync, ReceiveEnd, AlgoNothing, PreemptedCheck, ClearCheck, Grant,
       TailCheck, countvars
  <2>3. CASE AlgoDispatch \/ WaitOver
    BY <2>3, SwitchEffect
  <2>4. QED
    BY <2>1, <2>2, <2>3, SchedulerCases
<1>2. ~Idle
  <2>1. CASE AlgoExtend
    BY <2>1 DEF AlgoExtend, QuantumOver, Idle, Running
  <2>2. CASE RequestFaults \/ AlgoPreempt \/ Reap
    BY <2>2, LeaveEffect, ReapEffect
  <2>3. QED
    BY <1>1, <2>1, <2>2
<1>3. pc # "clear"
  BY <1>1 DEF RequestFaults, TakeRequest, AlgoPreempt, AlgoExtend, QuantumOver, Reap
<1>4. QED
  BY <1>2, <1>3 DEF Kept

\* While the processes keep pace with the clock, no process is granted a tick beyond
\* its quantum or after its end, a tick is left unused between the ticks of two
\* processes, and the R bits have been cleared for every k-th quantum before the
\* counter advances again: although the main loop may skip RR_algo, the clearing and
\* the grant, and a switch may end in the tick after the one in which it began.
THEOREM QuantumsAreKept ==
  ASSUME Prompt, NoneMissing, QuietEnds PROVE RRSpec => QuantumsKept
<1>1. Shape /\ Places /\ Carried /\ Listed /\ Timely /\ Kept /\ Spaced /\ [RRNext]_rrvars =>
        /\ [lastGrant'.to # lastGrant.to /\ lastGrant.to # NoOne =>
              lastGrant'.at >= lastGrant.at + 2]_rrvars
        /\ [lastGrant' # lastGrant =>
              /\ lastGrant'.at < next_preemtion_time
              /\ child[currProcess].pc # "dead"
              /\ child[currProcess].remainingtime > 0]_rrvars
        /\ [k > 0 /\ quantums_passed' # quantums_passed /\ quantums_passed > 0
              /\ quantums_passed % k = 0 => last_print = quantums_passed]_rrvars
  BY GrantKept, CountedCleared DEF Cleared
<1>2. QED
  BY <1>1, ShapeHolds, PlacesHold, CarriedHolds, TimelyHolds, QuantumsHold, PTL
     DEF RRSpec, QuantumsKept, ContextSwitchCosts, GrantWithinQuantum, NoClearMissed

-----------------------------------------------------------------------------
(* Time adds up.                                                            *)

\* What a process has left is in shared memory while it runs, in its PCB when it was
\* stopped; it is zero when it was reaped.  Only a page table that is missing can keep
\* the PCB of a reaped process from its last state.
Recorded ==
    \A p \in Procs :
      /\ p \in Running => shmRT = child[p].remainingtime
      /\ p \notin Running /\ pcb[p].forked /\ ~Reaped(p) =>
            acct[p].remaining_time = child[p].remainingtime
      /\ Reaped(p) => acct[p].remaining_time = 0
      /\ pcb[p].state = "F" => Reaped(p)
      /\ Reaped(p) => pcb[p].state = "F" \/ undefined # "no"

\* The current process has used the tick that is passing.
Ran == /\ Granted /\ ~Idle /\ sem = 0
       /\ child[currProcess].pc \in {"down", "signal", "dead"}

Moment == IF Ran THEN clk + 1 ELSE clk

\* What the child of p has done, once there is one.
Ticks(p) == workload.runtime[p] - child[p].remainingtime

\* From its arrival on every tick of a process was used or is charged as waiting: up to
\* this moment for the current one, up to its stop for one that is ready or blocked
\* again, up to its end for one that finished.
Charge(p) ==
    /\ pcb[p].forked => acct[p].start_time # -1
    /\ p \in Running => Moment - workload.arrival[p] = Ticks(p) + acct[p].waiting_time
    /\ p \notin Running /\ pcb[p].forked /\ ~Reaped(p) =>
          /\ acct[p].last_stopped >= 0
          /\ acct[p].last_stopped - workload.arrival[p] = Ticks(p) + acct[p].waiting_time
    /\ Reaped(p) =>
          acct[p].finish_time - workload.arrival[p] = workload.runtime[p] + acct[p].waiting_time

Charges == \A p \in Procs : Charge(p)

LEMMA RecordedStep ==
  ASSUME NoneMissing, Shape, Places, Carried, Listed, Timely, Recorded, [RRNext]_rrvars PROVE Recorded'
<1>1. CASE UNCHANGED rrvars \/ Terminated \/ ClockTick \/ Generator
  <2>1. UNCHANGED <<child, pcb, acct, shmRT, currProcess, pc, undefined>>
    BY <1>1 DEF rrvars, MMUvars, Terminated, ClockTick, Tick, Generator, ipcvars, schedvars, queuevars,
       countvars
  <2>2. Running' = Running
    BY <2>1 DEF Running
  <2>3. QED
    BY <2>1, <2>2 DEF Recorded, Reaped
<1>2. ASSUME NEW p \in Procs, Child(p) PROVE Recorded'
  <2>1. /\ Running = {p} /\ Running' = Running /\ UNCHANGED <<pcb, acct, undefined>>
        /\ \A q \in Procs \ {p} : child'[q] = child[q]
    BY <1>2, ChildIsCurrent
  <2>2. \/ shmRT' = child'[p].remainingtime
        \/ shmRT' = shmRT /\ child'[p].remainingtime = child[p].remainingtime
    <3>1. CASE ChildBoot(p) \/ ChildDown(p)
      BY <1>2, <3>1, ChildIsCurrent
    <3>2. CASE ChildSend(p) \/ ChildExit(p)
      BY <1>2, <3>2, ChildIsCurrent
    <3>3. CASE ChildCount(p)
      BY <1>2, <3>3, ChildIsCurrent
    <3>4. QED
      BY <1>2, <3>1, <3>2, <3>3 DEF Child
  <2>3. QED
    BY <2>1, <2>2 DEF Recorded, Reaped
<1>3. ASSUME Scheduler, undefined = "no" PROVE Recorded'
  <2>1. CASE Quiet
    <3>1. /\ UNCHANGED <<child, shmRT, acct>> /\ Running' = Running
          /\ \A p \in Procs : /\ pcb'[p].forked = pcb[p].forked
                              /\ pcb'[p].state = "F" <=> pcb[p].state = "F"
      BY <2>1, QuietEffect
    <3>2. QED
      BY <1>3, <3>1 DEF Recorded, Reaped
  <2>2. CASE RequestFaults \/ AlgoPreempt
    <3>1. PICK c \in Procs : c = currProcess
      BY <2>2, LeaveEffect
    <3>2. /\ Running = {c} /\ Running' = {} /\ shmRT' = shmRT
          /\ \A q \in Procs : /\ child'[q].remainingtime = child[q].remainingtime
                              /\ pcb'[q].forked = pcb[q].forked
                              /\ pcb'[q].state = "F" <=> pcb[q].state = "F"
                              /\ acct'[q].finish_time = acct[q].finish_time
          /\ acct'[c].remaining_time = shmRT
          /\ \A q \in Procs \ {c} : acct'[q] = acct[q]
      BY <2>2, <3>1, LeaveEffect
    <3>3. pcb[c].state = "R"
      BY <3>1, <3>2, CurrentChild DEF Idle
    <3>4. ~Reaped(c)
      BY <1>3, <3>3 DEF Recorded
    <3>5. QED
      BY <1>3, <3>2, <3>3, <3>4 DEF Recorded, Reaped
  <2>3. CASE Reap
    <3>1. PICK c \in Procs : c = currProcess
      BY <2>3, ReapEffect
    <3>2. /\ Running = {c} /\ Running' = {} /\ child' = child /\ child[c].pc = "dead"
          /\ \A q \in Procs : pcb'[q].forked = pcb[q].forked
          /\ \A q \in Procs \ {c} : acct'[q] = acct[q] /\ pcb'[q].state = pcb[q].state
          /\ acct'[c].finish_time = clk /\ acct'[c].remaining_time = shmRT /\ clk # -1
          /\ pcb'[c].state = "F" \/ undefined' # "no"
      BY <2>3, <3>1, ReapEffect
    <3>3. shmRT = 0
      BY <3>2 DEF Recorded, Carried
    <3>4. QED
      BY <1>3, <3>2, <3>3 DEF Recorded, Reaped
  <2>4. CASE AlgoDispatch \/ WaitOver
    <3>1. PICK p \in Procs : p = Head(readyQueue)
      BY <2>4, SwitchEffect
    <3>2. /\ Running = {} /\ Running' = {p} /\ ~Reaped(p)
          /\ pcb'[p].state = "R"
          /\ \A q \in Procs \ {p} : /\ child'[q] = child[q] /\ acct'[q] = acct[q]
                                    /\ pcb'[q].forked = pcb[q].forked /\ pcb'[q].state = pcb[q].state
          /\ shmRT' = acct[p].remaining_time
          /\ IF pcb[p].forked
             THEN child'[p].remainingtime = child[p].remainingtime
             ELSE child'[p].remainingtime = workload.runtime[p] /\ acct[p] = NewAcct(p)
      BY <2>4, <3>1, SwitchEffect
    <3>3. acct'[p].finish_time = acct[p].finish_time
      <4>1. p \in ToSet(currentPCBs)' /\ Carried'
        BY <2>4, <3>1, SwitchEffect, StepShared
      <4>2. acct'[p].finish_time = -1
        BY <4>1 DEF Carried, Reaped
      <4>3. QED
        BY <3>2, <4>2 DEF Reaped
    <3>4. shmRT' = child'[p].remainingtime
      BY <3>2 DEF Recorded, NewAcct
    <3>5. QED
      BY <1>3, <3>2, <3>3, <3>4 DEF Recorded, Reaped
  <2>5. QED
    BY <1>3, <2>1, <2>2, <2>3, <2>4, SchedulerCases
<1>4. QED
  BY <1>1, <1>2, <1>3 DEF RRNext

LEMMA KeepsCharge ==
  ASSUME NEW p \in Procs, Charge(p), workload' = workload, acct'[p] = acct[p],
         pcb'[p].forked = pcb[p].forked,
         child'[p].remainingtime = child[p].remainingtime,
         p \in Running' <=> p \in Running,
         p \in Running => Moment' = Moment
  PROVE  Charge(p)'
BY DEF Charge, Ticks, Reaped

\* A child counts a tick when the one granted passes; all its other steps change none
\* of the sums.
LEMMA ChildMoment ==
  ASSUME NoneMissing, Shape, Places, Carried, Timely, NEW p \in Procs, Child(p)
  PROVE  /\ UNCHANGED <<workload, pcb, acct, currentPCBs, perf>> /\ Running = {p} /\ Running' = {p}
         /\ \A q \in Procs \ {p} : child'[q] = child[q]
         /\ child[p].pc # "none" /\ child'[p].pc # "none"
         /\ \/ /\ Moment' = Moment /\ child'[p].remainingtime = child[p].remainingtime
            \/ /\ Moment' = Moment + 1
               /\ child'[p].remainingtime = child[p].remainingtime - 1
               /\ child[p].remainingtime >= 1
<1>1. /\ sem \in 0..1 /\ clk \in Nat /\ Settled
      /\ child[p].pc \in {"boot", "down", "send", "count"} => child[p].remainingtime >= 1
  BY TimeTypes DEF Timely, Shape
<1>2. /\ ~Idle /\ p = currProcess /\ Running = {p} /\ Running' = Running
      /\ \A q \in Procs \ {p} : child'[q] = child[q]
      /\ UNCHANGED <<clk, pc, last_tick, currProcess, pcb, acct, workload>>
  BY ChildIsCurrent
<1>3. UNCHANGED <<currentPCBs, perf>>
  BY DEF Child, ChildBoot, ChildDown, ChildSend, ChildCount, ChildExit, schedvars, queuevars, countvars
<1>4. (Idle' <=> Idle) /\ (Granted' <=> Granted) /\ currProcess' = p
  BY <1>2 DEF Idle, Granted
<1>5. CASE ChildBoot(p)
  <2>1. /\ child[p].pc = "boot" /\ child'[p].pc = "down" /\ UNCHANGED sem
        /\ child'[p].remainingtime = child[p].remainingtime
    BY <1>5, ChildIsCurrent
  <2>2. ~Ran /\ ~Ran'
    BY <1>1, <1>2, <1>4, <2>1 DEF Ran, Settled
  <2>3. QED
    BY <1>2, <1>3, <2>1, <2>2 DEF Moment
<1>6. CASE ChildDown(p)
  <2>1. /\ child[p].pc = "down" /\ child'[p].pc = "send" /\ sem = 1
        /\ child'[p].remainingtime = child[p].remainingtime
    BY <1>6, ChildIsCurrent
  <2>2. ~Ran /\ ~Ran'
    BY <1>2, <1>4, <2>1 DEF Ran
  <2>3. QED
    BY <1>2, <1>3, <2>1, <2>2 DEF Moment
<1>7. CASE ChildSend(p)
  <2>1. /\ child[p].pc = "send" /\ child'[p].pc = "count"
        /\ child'[p].remainingtime = child[p].remainingtime
    BY <1>7, ChildIsCurrent
  <2>2. ~Ran /\ ~Ran'
    BY <1>2, <1>4, <2>1 DEF Ran
  <2>3. QED
    BY <1>2, <1>3, <2>1, <2>2 DEF Moment
<1>8. CASE ChildCount(p)
  <2>1. /\ child[p].pc = "count" /\ child'[p].pc \in {"down", "signal"} /\ UNCHANGED sem
        /\ child'[p].remainingtime = child[p].remainingtime - 1
    BY <1>8, ChildIsCurrent
  <2>2. Granted /\ sem = 0
    BY <1>1, <1>2, <2>1 DEF Settled
  <2>3. ~Ran /\ Ran'
    BY <1>2, <1>4, <2>1, <2>2 DEF Ran
  <2>4. Moment' = Moment + 1
    BY <1>1, <1>2, <2>3 DEF Moment
  <2>5. child'[p].pc # "none"
    BY <2>1
  <2>6. QED
    BY <1>1, <1>2, <1>3, <2>1, <2>4, <2>5
<1>9. CASE ChildExit(p)
  <2>1. /\ child[p].pc = "signal" /\ child'[p].pc = "dead" /\ UNCHANGED sem
        /\ child'[p].remainingtime = child[p].remainingtime
    BY <1>9, ChildIsCurrent
  <2>2. Ran' <=> Ran
    BY <1>2, <1>4, <2>1 DEF Ran
  <2>3. Moment' = Moment
    BY <1>2, <2>2 DEF Moment
  <2>4. QED
    BY <1>2, <1>3, <2>1, <2>3
<1>10. QED
  BY <1>5, <1>6, <1>7, <1>8, <1>9 DEF Child

\* The scheduler decides when the tick granted has passed; all it does while that tick
\* passes is to look once more at the block queue.
LEMMA SchedulerMoment ==
  ASSUME Shape, Places, Carried, Listed, Timely, Scheduler
  PROVE  /\ Moment' = Moment /\ clk' = clk /\ workload' = workload
         /\ Moment = clk \/ TailCheck
<1>1. /\ clk \in Nat /\ now \in Int /\ last_tick \in Int /\ context_switch_until \in Int
      /\ Paced /\ clk' = clk /\ workload' = workload
  BY TimeTypes, ClkKept DEF Timely
<1>2. CASE TailCheck
  <2>1. /\ pc = "tail" /\ pc' = "spin" /\ UNCHANGED <<currProcess, last_tick, sem, child>>
    BY <1>2 DEF TailCheck, Goto, timevars, ipcvars
  <2>2. Running' = Running
    BY <2>1 DEF Running
  <2>3. Ran' <=> Ran
    BY <1>1, <2>1, <2>2 DEF Ran, Granted, Idle
  <2>4. QED
    BY <1>1, <1>2, <2>3 DEF Moment
<1>3. CASE ~TailCheck
  <2>1. ~Ran
    BY <1>3 DEF Scheduler, NewTick, Exit, NoRequest, TakeRequest, RequestAnswered, RequestFaults,
       BlockCheck, FinishCheck, Reap, Gate, ReceiveProcess, ReceiveSync, ReceiveEnd, AlgoDispatch,
       AlgoNothing, AlgoExtend, AlgoPreempt, QuantumOver, PreemptedCheck, WaitOver, ClearCheck, Grant,
       Ran, Granted, Idle, Running, Busy
  <2>2. ~Ran'
    <3>1. CASE Grant
      <4>1. /\ pc = "grant" /\ pc' = "tail" /\ UNCHANGED <<currProcess, last_tick>>
            /\ (currProcess # NoOne /\ now >= context_switch_until => sem' = 1)
        BY <3>1 DEF Grant, Goto, queuevars, timevars
      <4>2. Running' = Running /\ (~Idle => currProcess # NoOne)
        BY <4>1 DEF Running, Idle
      <4>3. ~Idle /\ clk = last_tick => now >= context_switch_until
        BY <1>1, <4>1, <4>2 DEF Paced
      <4>4. QED
        BY <1>1, <4>1, <4>2, <4>3 DEF Ran, Granted, Idle
    <3>2. CASE Gate
      <4>1. /\ pc = "gate" /\ currProcess' = currProcess
            /\ pc' = "tail" => ~(now >= context_switch_until)
            /\ pc' \in {"tail", "receive", "algo"}
        BY <3>2 DEF Gate, Goto, queuevars
      <4>2. Running' = Running
        BY <4>1 DEF Running
      <4>3. pc' = "tail" => Idle
        BY <1>1, <4>1 DEF Paced
      <4>4. QED
        BY <4>1, <4>2, <4>3 DEF Ran, Granted, Idle
    <3>3. CASE ~Grant /\ ~Gate
      <4>1. pc' \notin {"tail", "spin"}
        BY <1>3, <3>3 DEF Scheduler, NewTick, Exit, NoRequest, TakeRequest, RequestAnswered, RequestFaults,
           BlockCheck, FinishCheck, Reap, ReceiveProcess, ReceiveSync, ReceiveEnd, AlgoDispatch,
           AlgoNothing, AlgoExtend, AlgoPreempt, PreemptedCheck, WaitOver, Switch, ClearCheck, Goto
      <4>2. QED
        BY <4>1 DEF Ran, Granted
    <3>4. QED
      BY <3>1, <3>2, <3>3
  <2>3. QED
    BY <1>1, <2>1, <2>2 DEF Moment
<1>4. QED
  BY <1>2, <1>3

LEMMA ClockMoment ==
  ASSUME Prompt, Shape, Places, Carried, Timely, ClockTick
  PROVE  /\ Moment' = clk + 1 /\ Moment \in {clk, clk + 1} /\ (~Idle => Moment = clk + 1)
         /\ UNCHANGED <<workload, pcb, acct, child, Running, currentPCBs, perf>>
<1>1. /\ clk \in Nat /\ last_tick \in Int /\ Paced
  BY TimeTypes DEF Timely
<1>2. /\ clk' = clk + 1
      /\ UNCHANGED <<workload, pcb, acct, child, currProcess, currentPCBs, perf, pc, last_tick>>
  BY WhenClockTicks DEF schedvars, queuevars, timevars, countvars
<1>3. Running' = Running
  BY <1>2 DEF Running
<1>4. ~Ran'
  BY <1>1, <1>2 DEF Ran, Granted, Paced
<1>5. ~Idle => Ran
  <2>1. pc \in {"wait", "exited"} => Idle
    BY <1>1 DEF Idle, Running, Paced
  <2>2. QED
    BY <2>1, WhenClockTicks DEF Ran
<1>6. QED
  BY <1>1, <1>2, <1>3, <1>4, <1>5 DEF Moment

LEMMA ChargeTypes ==
  ASSUME Shape, NEW p \in Procs
  PROVE  /\ workload.arrival[p] \in Nat /\ workload.runtime[p] \in Nat
         /\ child[p].remainingtime \in Nat /\ Ticks(p) \in Int /\ clk \in Nat
         /\ acct[p] \in AcctRec /\ acct[p].start_time \in Int /\ acct[p].finish_time \in Int
         /\ acct[p].waiting_time \in Int /\ acct[p].last_stopped \in Int
<1>1. RRTypeOK /\ child[p] \in ChildRec /\ clk \in Nat
  BY TimeTypes DEF Shape
<1>2. child[p].remainingtime \in Nat
  BY <1>1 DEF ChildRec
<1>3. workload.arrival[p] \in Nat /\ workload.runtime[p] \in Nat /\ acct[p] \in AcctRec
  BY <1>1, TimesType
<1>4. /\ acct[p].start_time \in Int /\ acct[p].finish_time \in Int /\ acct[p].waiting_time \in Int
      /\ acct[p].last_stopped \in Int
  BY <1>3 DEF AcctRec
<1>5. QED
  BY <1>1, <1>2, <1>3, <1>4 DEF Ticks

LEMMA LeaveCharges ==
  ASSUME Shape, Places, Carried, Listed, Timely, Recorded, Charges, Scheduler, undefined = "no",
         RequestFaults \/ AlgoPreempt
  PROVE  Charges'
<1>1. PICK c \in Procs : c = currProcess
  BY LeaveEffect
<1>2. /\ Running = {c} /\ Running' = {}
      /\ \A q \in Procs : /\ child'[q].remainingtime = child[q].remainingtime
                          /\ pcb'[q].forked = pcb[q].forked
                          /\ acct'[q].start_time = acct[q].start_time
                          /\ acct'[q].waiting_time = acct[q].waiting_time
                          /\ acct'[q].finish_time = acct[q].finish_time
      /\ acct'[c].last_stopped = clk
      /\ \A q \in Procs \ {c} : acct'[q] = acct[q]
  BY <1>1, LeaveEffect
<1>3. Moment = clk /\ Moment' = clk /\ workload' = workload
  BY SchedulerMoment DEF TailCheck, RequestFaults, TakeRequest, AlgoPreempt, QuantumOver
<1>4. ~Reaped(c)
  <2>1. pcb[c].state = "R"
    BY <1>1, <1>2, CurrentChild DEF Idle
  <2>2. QED
    BY <2>1 DEF Recorded
<1>5. Charge(c)'
  <2>1. Charge(c) /\ clk - workload.arrival[c] = Ticks(c) + acct[c].waiting_time
    BY <1>2, <1>3 DEF Charges, Charge
  <2>2. Ticks(c)' = Ticks(c) /\ clk >= 0
    BY <1>2, <1>3, ChargeTypes DEF Ticks
  <2>3. QED
    BY <1>2, <1>3, <1>4, <2>1, <2>2 DEF Charge, Reaped
<1>6. ASSUME NEW q \in Procs, q # c PROVE Charge(q)'
  BY <1>2, <1>3, <1>6, KeepsCharge DEF Charges
<1>7. QED
  BY <1>5, <1>6 DEF Charges

LEMMA ReapCharges ==
  ASSUME Shape, Places, Carried, Listed, Timely, Charges, Scheduler, Reap PROVE Charges'
<1>1. PICK c \in Procs : c = currProcess
  BY ReapEffect
<1>2. /\ Running = {c} /\ Running' = {} /\ child' = child /\ child[c].pc = "dead"
      /\ \A q \in Procs : pcb'[q].forked = pcb[q].forked
      /\ \A q \in Procs \ {c} : acct'[q] = acct[q]
      /\ acct'[c].finish_time = clk /\ acct'[c].start_time = acct[c].start_time
      /\ acct'[c].waiting_time = acct[c].waiting_time /\ clk # -1
  BY <1>1, ReapEffect
<1>3. Moment = clk /\ Moment' = clk /\ workload' = workload
  BY SchedulerMoment DEF TailCheck, Reap
<1>4. Charge(c)'
  <2>1. Charge(c) /\ clk - workload.arrival[c] = Ticks(c) + acct[c].waiting_time
    BY <1>2, <1>3 DEF Charges, Charge
  <2>2. Ticks(c) = workload.runtime[c]
    BY <1>2, ChargeTypes DEF Carried, Ticks
  <2>3. QED
    BY <1>2, <1>3, <2>1, <2>2 DEF Charge, Reaped
<1>5. ASSUME NEW q \in Procs, q # c PROVE Charge(q)'
  BY <1>2, <1>3, <1>5, KeepsCharge DEF Charges
<1>6. QED
  BY <1>4, <1>5 DEF Charges

LEMMA SwitchCharges ==
  ASSUME Shape, Places, Carried, Listed, Timely, Charges, Scheduler, AlgoDispatch \/ WaitOver
  PROVE  Charges'
<1>1. PICK p \in Procs : p = Head(readyQueue)
  BY SwitchEffect
<1> DEFINE a == Charged(p)
<1>2. /\ Running = {} /\ Running' = {p} /\ ~Reaped(p) /\ p \in ToSet(currentPCBs)
      /\ \A q \in Procs \ {p} : /\ child'[q] = child[q] /\ acct'[q] = acct[q]
                                /\ pcb'[q].forked = pcb[q].forked
      /\ acct'[p] = a /\ pcb'[p].forked
      /\ IF pcb[p].forked
         THEN child'[p].remainingtime = child[p].remainingtime
         ELSE child'[p].remainingtime = workload.runtime[p] /\ acct[p] = NewAcct(p)
  BY <1>1, SwitchEffect
<1>3. Moment = clk /\ Moment' = clk /\ workload' = workload
  BY SchedulerMoment DEF TailCheck, AlgoDispatch, WaitOver
<1>4. /\ workload.arrival[p] \in Nat /\ workload.runtime[p] \in Nat /\ clk \in Nat
      /\ child[p].remainingtime \in Nat
      /\ acct[p] \in AcctRec /\ acct[p].waiting_time \in Int /\ acct[p].last_stopped \in Int
      /\ acct[p].start_time \in Int
  BY ChargeTypes
<1> DEFINE m == child'[p].remainingtime
<1>5. /\ a.start_time # -1 /\ a.finish_time = acct[p].finish_time
      /\ clk - workload.arrival[p] = (workload.runtime[p] - m) + a.waiting_time
  <2>1. CASE pcb[p].forked
    <3>1. /\ acct[p].start_time # -1 /\ acct[p].last_stopped >= 0
          /\ acct[p].last_stopped - workload.arrival[p] = Ticks(p) + acct[p].waiting_time
      BY <1>2, <2>1 DEF Charges, Charge
    <3> DEFINE w == acct[p].waiting_time + clk - acct[p].last_stopped
    <3>2. w \in Int
      BY <1>4
    <3>3. a = [acct[p] EXCEPT !.waiting_time = w]
      BY <1>4, <2>1, <3>1 DEF Charged
    <3>4. clk - workload.arrival[p] = Ticks(p) + w
      BY <1>4, <3>1 DEF Ticks
    <3> HIDE DEF w, a
    <3>5. a.start_time # -1 /\ a.waiting_time = w /\ a.finish_time = acct[p].finish_time
      BY <1>4, <3>1, <3>2, <3>3 DEF AcctRec
    <3>6. QED
      BY <1>2, <2>1, <3>4, <3>5 DEF Ticks
  <2>2. CASE ~pcb[p].forked
    <3>1. acct[p].start_time = -1
      BY <1>2, <2>2 DEF NewAcct
    <3> DEFINE w == clk - workload.arrival[p]
    <3>2. w \in Int
      BY <1>4
    <3>3. a = [acct[p] EXCEPT !.start_time = clk, !.waiting_time = w]
      BY <2>2, <3>1 DEF Charged
    <3> HIDE DEF w, a
    <3>4. a.start_time = clk /\ a.waiting_time = w /\ a.finish_time = acct[p].finish_time
      BY <1>4, <3>2, <3>3 DEF AcctRec
    <3>5. m = workload.runtime[p]
      BY <1>2, <2>2
    <3> HIDE DEF m
    <3>6. QED
      BY <1>4, <3>4, <3>5 DEF w
  <2>3. QED
    BY <2>1, <2>2
<1> HIDE DEF a
<1>6. ~Reaped(p)'
  BY <1>2, <1>5 DEF Reaped
<1>7. Charge(p)'
  BY <1>2, <1>3, <1>5, <1>6 DEF Charge, Ticks
<1>8. ASSUME NEW q \in Procs, q # p PROVE Charge(q)'
  BY <1>2, <1>3, <1>8, KeepsCharge DEF Charges
<1>9. QED
  BY <1>7, <1>8 DEF Charges

LEMMA ChargesStep ==
  ASSUME Prompt, NoneMissing, Shape, Places, Carried, Listed, Timely, Recorded, Charges,
         [RRNext]_rrvars
  PROVE  Charges'
<1>1. CASE UNCHANGED rrvars \/ Terminated \/ Generator
  <2>1. UNCHANGED <<clk, workload, pcb, acct, child, currProcess, sem, pc, last_tick>>
    BY <1>1 DEF rrvars, MMUvars, Terminated, Generator, ipcvars, schedvars, queuevars, timevars, countvars
  <2>2. Running' = Running
    BY <2>1 DEF Running
  <2>3. Moment' = Moment
    BY <2>1, <2>2 DEF Moment, Ran, Granted, Idle
  <2>4. QED
    BY <2>1, <2>2, <2>3 DEF Charges, Charge, Ticks, Reaped
<1>2. CASE ClockTick
  <2>1. ASSUME NEW p \in Procs PROVE Charge(p)'
    <3>1. p \in Running => ~Idle
      BY DEF Idle
    <3>2. QED
      BY <1>2, <3>1, ClockMoment, KeepsCharge DEF Charges
  <2>2. QED
    BY <2>1 DEF Charges
<1>3. ASSUME NEW p \in Procs, Child(p) PROVE Charges'
  <2>1. /\ UNCHANGED <<workload, pcb, acct>> /\ Running = {p} /\ Running' = {p}
        /\ \A q \in Procs \ {p} : child'[q] = child[q]
    BY <1>3, ChildMoment
  <2>2. ASSUME NEW q \in Procs, q # p PROVE Charge(q)'
    BY <2>1, <2>2, KeepsCharge DEF Charges
  <2>3. Charge(p)'
    <3>1. CASE Moment' = Moment /\ child'[p].remainingtime = child[p].remainingtime
      BY <2>1, <3>1, KeepsCharge DEF Charges
    <3>2. CASE Moment' = Moment + 1 /\ child'[p].remainingtime = child[p].remainingtime - 1
      <4>1. Moment \in Int /\ Ticks(p) \in Int
        BY ChargeTypes, TimeTypes DEF Moment
      <4>2. Ticks(p)' = Ticks(p) + 1
        BY <2>1, <3>2, ChargeTypes DEF Ticks
      <4>3. Charge(p) /\ Moment - workload.arrival[p] = Ticks(p) + acct[p].waiting_time
        BY <2>1 DEF Charges, Charge
      <4>4. Moment' - workload'.arrival[p] = Ticks(p)' + acct'[p].waiting_time
        BY <2>1, <3>2, <4>1, <4>2, <4>3, ChargeTypes
      <4>5. QED
        BY <2>1, <4>3, <4>4 DEF Charge, Reaped
    <3>3. QED
      BY <1>3, <3>1, <3>2, ChildMoment
  <2>4. QED
    BY <2>2, <2>3 DEF Charges
<1>4. ASSUME Scheduler, undefined = "no" PROVE Charges'
  <2>1. CASE Quiet
    <3>1. /\ UNCHANGED <<child, acct>> /\ Running' = Running
          /\ \A p \in Procs : pcb'[p].forked = pcb[p].forked
      BY <2>1, QuietEffect
    <3>2. workload' = workload /\ Moment' = Moment
      BY <1>4, SchedulerMoment
    <3>3. QED
      BY <3>1, <3>2, KeepsCharge DEF Charges
  <2>2. QED
    BY <1>4, <2>1, LeaveCharges, ReapCharges, SwitchCharges, SchedulerCases
<1>5. QED
  BY <1>1, <1>2, <1>3, <1>4 DEF RRNext

\* The ticks used, each counted for its process, and those of the finished ones.
Work == {w \in Procs \X (Nat \ {0}) : w[2] <= Used[w[1]]}

Booked == {w \in Work : Reaped(w[1])}

\* The report counts what was done so far, and the CPU had time for it.
Budget ==
    /\ IsFiniteSet(Work) /\ IsFiniteSet(Done)
    /\ perf.num_procs = Cardinality(Done) /\ perf.total_runtime = Cardinality(Booked)
    /\ perf.first_arrival = -1 => currentPCBs = <<>> /\ \A p \in Procs : ~pcb[p].forked
    /\ perf.first_arrival # -1 => Cardinality(Work) <= Moment - perf.first_arrival
    /\ perf.num_procs > 0 => perf.total_runtime <= perf.finish_time - perf.first_arrival

PerfRec == [num_procs: Nat, first_arrival: Int, total_runtime: Int, finish_time: Int, waiting: Int]

LEMMA BudgetTypes ==
  ASSUME Shape, Carried
  PROVE  /\ perf \in PerfRec /\ perf.num_procs \in Nat /\ perf.first_arrival \in Int
         /\ perf.total_runtime \in Int /\ perf.finish_time \in Int
         /\ clk \in Nat /\ Moment \in Nat /\ Moment >= clk
         /\ \A p \in Procs : Used[p] \in Nat /\ workload.runtime[p] \in Nat
<1>1. perf \in PerfRec /\ clk \in Nat
  BY TimeTypes DEF Shape, RRTypeOK, PerfRec
<1>2. Moment \in Nat /\ Moment >= clk
  BY <1>1 DEF Moment
<1>3. ASSUME NEW p \in Procs PROVE Used[p] \in Nat /\ workload.runtime[p] \in Nat
  BY ChargeTypes DEF Used, Carried
<1>4. QED
  BY <1>1, <1>2, <1>3 DEF PerfRec

LEMMA NothingForked ==
  ASSUME Shape, Carried, \A p \in Procs : ~pcb[p].forked
  PROVE  Work = {} /\ Done = {}
<1>1. \A p \in Procs : child[p].pc = "none"
  BY DEF Carried
<1>2. ASSUME NEW p \in Procs PROVE ~Reaped(p)
  <2>1. acct[p] = NewAcct(p)
    BY DEF Shape
  <2>2. NewAcct(p).finish_time = -1
    BY DEF NewAcct
  <2>3. QED
    BY <2>1, <2>2 DEF Reaped
<1>3. \A p \in Procs : Used[p] = 0
  BY <1>1 DEF Used
<1>4. QED
  BY <1>2, <1>3 DEF Work, Done

\* A step that uses no tick and reports none.
LEMMA KeepsBudget ==
  ASSUME Budget, perf' = perf, Used' = Used, \A p \in Procs : Reaped(p)' <=> Reaped(p),
         perf.first_arrival = -1 => currentPCBs' = <<>> /\ \A p \in Procs : ~pcb'[p].forked,
         Moment \in Nat, Moment' \in Nat, Moment' >= Moment, perf.first_arrival \in Int
  PROVE  Budget'
<1>1. Work' = Work /\ Done' = Done
  BY DEF Work, Done
<1>2. Booked' = Booked
  BY <1>1 DEF Booked, Work
<1>3. Cardinality(Work) \in Nat
  BY FS_CardinalityType DEF Budget
<1> DEFINE n == Cardinality(Work)
<1> HIDE DEF n
<1>4. perf.first_arrival # -1 => n <= Moment' - perf.first_arrival
  BY <1>3 DEF Budget, n
<1>5. QED
  BY <1>1, <1>2, <1>4 DEF Budget, n

LEMMA ChildBudget ==
  ASSUME NoneMissing, Shape, Places, Carried, Timely, Recorded, Budget, undefined = "no",
         NEW p \in Procs, Child(p)
  PROVE  Budget'
<1>1. /\ UNCHANGED <<workload, pcb, acct, currentPCBs, perf>> /\ Running = {p}
      /\ \A q \in Procs \ {p} : child'[q] = child[q]
      /\ child[p].pc # "none" /\ child'[p].pc # "none"
  BY ChildMoment
<1>2. /\ pcb[p].forked /\ ~Reaped(p)
      /\ \A q \in Procs : Reaped(q)' <=> Reaped(q)
  <2>1. p = currProcess /\ pcb[p].state = "R" /\ pcb[p].forked
    BY <1>1, CurrentChild DEF Idle
  <2>2. QED
    BY <1>1, <2>1 DEF Recorded, Reaped
<1>3. Used[p] = workload.runtime[p] - child[p].remainingtime
  BY <1>1 DEF Used
<1>4. Used'[p] = workload.runtime[p] - child'[p].remainingtime
  BY <1>1 DEF Used
<1>5. \A q \in Procs \ {p} : Used'[q] = Used[q]
  BY <1>1 DEF Used
<1>6. CASE Moment' = Moment /\ child'[p].remainingtime = child[p].remainingtime
  <2>1. Used' = Used
    BY <1>3, <1>4, <1>5, <1>6 DEF Used
  <2>2. QED
    BY <1>1, <1>2, <1>6, <2>1, BudgetTypes, KeepsBudget DEF Budget
<1>7. CASE Moment' = Moment + 1 /\ child'[p].remainingtime = child[p].remainingtime - 1
  <2> DEFINE w == <<p, Used[p] + 1>>
             n == Cardinality(Work)
  <2>1. Used[p] \in Nat /\ Used'[p] = Used[p] + 1
    BY <1>3, <1>4, <1>7, BudgetTypes, ChargeTypes
  <2>2. Work' = Work \cup {w} /\ w \notin Work
    <3>1. ASSUME NEW q \in Procs, NEW i \in Nat \ {0}
          PROVE  i <= Used'[q] <=> i <= Used[q] \/ (q = p /\ i = Used[p] + 1)
      BY <1>5, <2>1, BudgetTypes
    <3>2. w \in Procs \X (Nat \ {0}) /\ w = <<p, Used[p] + 1>>
      BY <2>1
    <3> HIDE DEF w
    <3>3. ASSUME NEW q \in Procs, NEW i \in Nat \ {0}
          PROVE  <<q, i>> \in Work' <=> <<q, i>> \in Work \/ <<q, i>> = w
      <4>1. /\ <<q, i>> \in Work <=> i <= Used[q]
            /\ <<q, i>> \in Work' <=> i <= Used'[q]
        BY DEF Work
      <4>2. <<q, i>> = w <=> q = p /\ i = Used[p] + 1
        BY <3>2
      <4>3. QED
        BY <3>1, <4>1, <4>2
    <3>4. Work \subseteq Procs \X (Nat \ {0}) /\ Work' \subseteq Procs \X (Nat \ {0})
      BY DEF Work
    <3>5. Work' = Work \cup {w}
      BY <3>2, <3>3, <3>4
    <3>6. w \notin Work
      <4>1. w[1] = p /\ w[2] = Used[p] + 1
        BY <3>2
      <4>2. ~(w[2] <= Used[w[1]])
        BY <2>1, <4>1
      <4>3. QED
        BY <4>2 DEF Work
    <3>7. QED
      BY <3>5, <3>6
  <2>3. Done' = Done /\ Booked' = Booked
    <3>1. \A x \in Work : x[1] \in Procs
      BY DEF Work
    <3>2. w[1] = p /\ ~Reaped(p)'
      BY <1>2
    <3> HIDE DEF w
    <3>3. Booked' = Booked
      BY <1>2, <2>2, <3>1, <3>2 DEF Booked
    <3>4. QED
      BY <1>2, <3>3 DEF Done
  <2>4. IsFiniteSet(Work) /\ n \in Nat
    BY FS_CardinalityType DEF Budget
  <2> HIDE DEF w
  <2>5. IsFiniteSet(Work') /\ Cardinality(Work') = n + 1
    BY <2>2, <2>4, FS_AddElement
  <2>6. perf.first_arrival # -1 /\ n <= Moment - perf.first_arrival
    BY <1>2 DEF Budget
  <2> HIDE DEF n
  <2>7. n + 1 <= Moment' - perf.first_arrival
    BY <1>7, <2>4, <2>6, BudgetTypes
  <2>8. QED
    BY <1>1, <2>3, <2>5, <2>6, <2>7 DEF Budget
<1>8. QED
  BY <1>6, <1>7, ChildMoment

LEMMA ReapBudget ==
  ASSUME Shape, Places, Carried, Listed, Timely, Recorded, Budget, undefined = "no", Scheduler, Reap
  PROVE  Budget'
<1>1. PICK c \in Procs : c = currProcess
  BY ReapEffect
<1>2. /\ Running = {c} /\ child' = child /\ child[c].pc = "dead"
      /\ \A q \in Procs \ {c} : acct'[q] = acct[q]
      /\ acct'[c].finish_time = clk /\ clk # -1
  BY <1>1, ReapEffect
<1>3. /\ perf'.num_procs = perf.num_procs + 1 /\ perf'.finish_time = clk
      /\ perf'.total_runtime = perf.total_runtime + workload.runtime[c]
      /\ perf'.first_arrival = perf.first_arrival
  BY <1>1, BudgetTypes DEF Reap, PerfRec
<1>4. Moment = clk /\ Moment' = clk /\ workload' = workload /\ clk \in Nat
  BY SchedulerMoment, TimeTypes DEF TailCheck, Reap
<1>5. ~Reaped(c) /\ (\A p \in Procs : Reaped(p)' <=> p = c \/ Reaped(p)) /\ pcb[c].forked
  <2>1. pcb[c].state = "R" /\ pcb[c].forked
    BY <1>1, <1>2, CurrentChild DEF Idle
  <2>2. QED
    BY <1>2, <2>1 DEF Recorded, Reaped
<1>6. Work' = Work
  BY <1>2, <1>4 DEF Work, Used
<1> DEFINE m == workload.runtime[c]
           own == {c} \X (1..m)
           n == Cardinality(Work)
           b == Cardinality(Booked)
<1>7. m \in Nat /\ Used[c] = m
  BY <1>2, BudgetTypes DEF Carried, Used
<1>8. Booked' = Booked \cup own /\ Booked \cap own = {} /\ own \subseteq Work
  <2>1. ASSUME NEW p \in Procs, NEW i \in Nat \ {0}
        PROVE  /\ <<p, i>> \in own <=> p = c /\ i <= m
               /\ <<p, i>> \in Work <=> i <= Used[p]
               /\ <<p, i>> \in Booked <=> i <= Used[p] /\ Reaped(p)
               /\ <<p, i>> \in Booked' <=> i <= Used[p] /\ Reaped(p)'
    BY <1>6, <1>7 DEF Work, Booked
  <2>2. own \subseteq Procs \X (Nat \ {0})
    BY <1>7
  <2>3. Booked \subseteq Procs \X (Nat \ {0}) /\ Booked' \subseteq Procs \X (Nat \ {0})
    BY <1>6 DEF Booked, Work
  <2> HIDE DEF own
  <2>4. QED
    BY <1>5, <1>7, <2>1, <2>2, <2>3
<1>9. IsFiniteSet(own) /\ Cardinality(own) = m
  <2>1. IsFiniteSet(1..m) /\ Cardinality(1..m) = m
    <3>1. m \in Int /\ 1 \in Int /\ (1 > m => m = 0) /\ (~(1 > m) => m - 1 + 1 = m)
      BY <1>7
    <3> HIDE DEF m
    <3>2. QED
      BY <3>1, FS_Interval
  <2>2. IsFiniteSet({c}) /\ Cardinality({c}) = 1
    BY FS_Singleton
  <2>3. IsFiniteSet(own) /\ Cardinality(own) = 1 * Cardinality(1..m)
    BY <2>1, <2>2, FS_Product
  <2>4. QED
    BY <1>7, <2>1, <2>3
<1> HIDE DEF own
<1>10. /\ IsFiniteSet(Work) /\ n \in Nat
       /\ IsFiniteSet(Booked) /\ b \in Nat
  <2>1. Booked \in SUBSET Work
    BY DEF Booked
  <2>2. IsFiniteSet(Work)
    BY DEF Budget
  <2>3. IsFiniteSet(Booked)
    BY <2>1, <2>2, FS_Subset
  <2>4. QED
    BY <2>2, <2>3, FS_CardinalityType
<1>11. Cardinality(Booked') = b + m
  <2>1. Cardinality({}) = 0
    BY FS_EmptySet
  <2>2. Cardinality(Booked \cup own) = b + m - Cardinality(Booked \cap own)
    BY <1>9, <1>10, FS_Union
  <2>3. Cardinality(Booked') = b + m - 0
    BY <1>8, <2>1, <2>2
  <2> HIDE DEF b, m
  <2>4. QED
    BY <1>7, <1>10, <2>3
<1>12. Cardinality(Booked') <= n
  <2>1. Booked' \in SUBSET Work
    BY <1>6 DEF Booked
  <2>2. QED
    BY <1>10, <2>1, FS_Subset
<1>13. IsFiniteSet(Done') /\ Cardinality(Done') = Cardinality(Done) + 1
  <2>1. Done' = Done \cup {c} /\ c \notin Done
    BY <1>5 DEF Done
  <2>2. QED
    BY <2>1, FS_AddElement DEF Budget
<1>14. perf.first_arrival # -1 /\ n <= clk - perf.first_arrival
  BY <1>4, <1>5 DEF Budget
<1>15. perf'.total_runtime = b + m
  BY <1>3 DEF Budget
<1> HIDE DEF n, b, m
<1>16. perf'.total_runtime <= perf'.finish_time - perf'.first_arrival
  BY <1>3, <1>4, <1>7, <1>10, <1>11, <1>12, <1>14, <1>15, BudgetTypes
<1>17. Cardinality(Work') <= Moment' - perf'.first_arrival /\ IsFiniteSet(Work')
  BY <1>3, <1>4, <1>6, <1>10, <1>14 DEF n
<1>18. perf'.num_procs = Cardinality(Done') /\ perf'.total_runtime = Cardinality(Booked')
  BY <1>3, <1>11, <1>13, <1>15 DEF Budget
<1>19. QED
  BY <1>3, <1>13, <1>14, <1>16, <1>17, <1>18 DEF Budget

LEMMA ReceiveBudget ==
  ASSUME Shape, Places, Carried, Listed, Timely, Budget, Scheduler, ReceiveProcess PROVE Budget'
<1>1. msgq.arrived \in Seq(Procs) /\ msgq.arrived # <<>>
  BY TimeTypes DEF ReceiveProcess
<1>2. PICK p \in Procs : p = Head(msgq.arrived) /\ p \in ToSet(msgq.arrived)
  BY <1>1, TailFacts
<1>3. /\ UNCHANGED <<child, acct>> /\ perf' = [perf EXCEPT !.first_arrival = FirstArrival(p)]
  BY <1>2, QuietEffect DEF Quiet, ReceiveProcess
<1>4. Moment = clk /\ Moment' = clk /\ workload' = workload /\ clk \in Nat
  BY SchedulerMoment, TimeTypes DEF TailCheck, ReceiveProcess
<1>5. /\ perf'.first_arrival = FirstArrival(p) /\ perf'.num_procs = perf.num_procs
      /\ perf'.total_runtime = perf.total_runtime /\ perf'.finish_time = perf.finish_time
  BY <1>3, BudgetTypes DEF PerfRec
<1>6. \A q \in Procs : Reaped(q)' <=> Reaped(q)
  BY <1>3 DEF Reaped
<1>7. Work' = Work /\ Done' = Done /\ Booked' = Booked
  <2>1. Work' = Work
    BY <1>3, <1>4 DEF Work, Used
  <2>2. \A x \in Work : x[1] \in Procs
    BY DEF Work
  <2>3. QED
    BY <1>6, <2>1, <2>2 DEF Booked, Done
<1>8. workload.arrival[p] \in Nat /\ workload.arrival[p] <= clk
  BY <1>2, ChargeTypes DEF Timely, Told
<1>9. /\ perf'.first_arrival # -1
      /\ Cardinality(Work) <= clk - perf'.first_arrival
  <2>1. CASE perf.first_arrival = -1
    <3>1. Work = {}
      BY <2>1, NothingForked DEF Budget
    <3>2. Cardinality(Work) = 0
      BY <3>1, FS_EmptySet
    <3>3. QED
      BY <1>4, <1>5, <1>8, <2>1, <3>2 DEF FirstArrival
  <2>2. CASE perf.first_arrival # -1
    BY <1>4, <1>5, <2>2 DEF FirstArrival, Budget
  <2>3. QED
    BY <2>1, <2>2
<1>10. perf.num_procs > 0 => perf'.first_arrival = perf.first_arrival
  <2>1. ASSUME perf.first_arrival = -1 PROVE perf.num_procs = 0
    <3>1. Done = {}
      BY <2>1, NothingForked DEF Budget
    <3>2. QED
      BY <3>1, FS_EmptySet DEF Budget
  <2>2. QED
    BY <1>5, <2>1 DEF FirstArrival
<1>11. QED
  BY <1>4, <1>5, <1>7, <1>9, <1>10 DEF Budget

LEMMA SwitchBudget ==
  ASSUME NoneMissing, Shape, Places, Carried, Listed, Timely, Budget, undefined = "no",
         Scheduler, AlgoDispatch \/ WaitOver
  PROVE  Budget'
<1>1. PICK p \in Procs : p = Head(readyQueue)
  BY SwitchEffect
<1>2. /\ ~Reaped(p) /\ p \in ToSet(currentPCBs) /\ UNCHANGED <<currentPCBs, perf>>
      /\ \A q \in Procs \ {p} : child'[q] = child[q] /\ acct'[q] = acct[q]
      /\ IF pcb[p].forked
         THEN child'[p].pc = child[p].pc /\ child'[p].remainingtime = child[p].remainingtime
         ELSE child'[p].pc = "boot" /\ child'[p].remainingtime = workload.runtime[p]
  BY <1>1, SwitchEffect
<1>3. Moment = clk /\ Moment' = clk /\ workload' = workload /\ clk \in Nat
  BY SchedulerMoment, TimeTypes DEF TailCheck, AlgoDispatch, WaitOver
<1>4. \A q \in Procs : Reaped(q)' <=> Reaped(q)
  <2>1. Carried'
    BY StepShared DEF RRNext
  <2>2. acct'[p].finish_time = -1
    BY <1>2, <2>1 DEF Carried, Reaped
  <2>3. QED
    BY <1>2, <2>2 DEF Reaped
<1>5. Used' = Used
  <2>1. Used'[p] = Used[p]
    BY <1>2, <1>3, BudgetTypes DEF Used, Carried
  <2>2. \A q \in Procs \ {p} : Used'[q] = Used[q]
    BY <1>2, <1>3 DEF Used
  <2>3. QED
    BY <2>1, <2>2 DEF Used
<1>6. perf.first_arrival # -1
  <2>1. ToSet(<<>>) = {}
    BY DEF ToSet
  <2>2. QED
    BY <1>2, <2>1 DEF Budget
<1>7. QED
  BY <1>2, <1>3, <1>4, <1>5, <1>6, BudgetTypes, KeepsBudget

LEMMA BudgetStep ==
  ASSUME Prompt, NoneMissing, Shape, Places, Carried, Listed, Timely, Recorded, Budget,
         [RRNext]_rrvars
  PROVE  Budget'
<1>1. ASSUME UNCHANGED <<workload, perf, currentPCBs>>,
             perf.first_arrival = -1 => currentPCBs' = <<>>,
             \A p \in Procs : /\ child'[p].pc = child[p].pc
                              /\ child'[p].remainingtime = child[p].remainingtime
                              /\ acct'[p].finish_time = acct[p].finish_time
                              /\ pcb'[p].forked = pcb[p].forked,
             Moment' \in Nat, Moment' >= Moment
      PROVE  Budget'
  <2>1. Used' = Used /\ \A p \in Procs : Reaped(p)' <=> Reaped(p)
    BY <1>1 DEF Used, Reaped
  <2>2. QED
    BY <1>1, <2>1, BudgetTypes, KeepsBudget DEF Budget
<1>2. CASE UNCHANGED rrvars \/ Terminated \/ Generator
  <2>1. UNCHANGED <<clk, workload, pcb, acct, child, currProcess, currentPCBs, perf, sem, pc, last_tick>>
    BY <1>2 DEF rrvars, MMUvars, Terminated, Generator, ipcvars, schedvars, queuevars, timevars, countvars
  <2>2. Running' = Running
    BY <2>1 DEF Running
  <2>3. Moment' = Moment
    BY <2>1, <2>2 DEF Moment, Ran, Granted, Idle
  <2>4. QED
    BY <1>1, <2>1, <2>3, BudgetTypes DEF Budget
<1>3. CASE ClockTick
  <2>1. /\ Moment' = clk + 1 /\ Moment \in {clk, clk + 1} /\ clk \in Nat
        /\ UNCHANGED <<workload, pcb, acct, child, currentPCBs, perf>>
    BY <1>3, ClockMoment, TimeTypes
  <2>2. QED
    BY <1>1, <2>1 DEF Budget
<1>4. ASSUME undefined = "no", NEW p \in Procs, Child(p) PROVE Budget'
  BY <1>4, ChildBudget
<1>5. ASSUME undefined = "no", Scheduler PROVE Budget'
  <2>1. Moment' = Moment /\ workload' = workload /\ Moment \in Nat
    BY <1>5, SchedulerMoment, BudgetTypes
  <2>2. CASE Quiet /\ ~ReceiveProcess
    <3>1. /\ UNCHANGED <<child, acct>>
          /\ \A p \in Procs : pcb'[p].forked = pcb[p].forked
      BY <2>2, QuietEffect
    <3>2. UNCHANGED <<currentPCBs, perf>>
      BY <2>2 DEF Quiet, NewTick, Exit, NoRequest, RequestAnswered, TakeRequest, BlockCheck, FinishCheck,
         Gate, ReceiveSync, ReceiveEnd, AlgoNothing, AlgoExtend, PreemptedCheck, ClearCheck,
         Grant, TailCheck, queuevars, countvars
    <3>3. QED
      BY <1>1, <2>1, <3>1, <3>2 DEF Budget
  <2>3. CASE RequestFaults \/ AlgoPreempt
    <3>1. /\ UNCHANGED <<currentPCBs, perf>>
          /\ \A q \in Procs : /\ child'[q].pc = child[q].pc
                              /\ child'[q].remainingtime = child[q].remainingtime
                              /\ pcb'[q].forked = pcb[q].forked
                              /\ acct'[q].finish_time = acct[q].finish_time
      BY <2>3, LeaveEffect
    <3>2. QED
      BY <1>1, <2>1, <3>1 DEF Budget
  <2>4. QED
    BY <1>5, <2>2, <2>3, ReceiveBudget, ReapBudget, SwitchBudget, SchedulerCases
<1>6. QED
  BY <1>2, <1>3, <1>4, <1>5 DEF RRNext

LEMMA AccountsInit ==
  ASSUME RRInit PROVE Recorded /\ Charges /\ Budget
<1>1. /\ clk = 0 /\ currProcess = NoOne /\ currentPCBs = <<>>
      /\ perf.num_procs = 0 /\ perf.first_arrival = -1 /\ perf.total_runtime = 0
      /\ \A p \in Procs : acct[p] = NewAcct(p) /\ child[p].pc = "none"
  BY DEF RRInit, MMUInit, NoChild
<1>2. \A p \in Procs : ~pcb[p].forked /\ pcb[p].state = "W"
  BY DEF RRInit, MMUInit, NewPCB
<1>3. Running = {}
  BY <1>1 DEF Running
<1>4. ASSUME NEW p \in Procs PROVE ~Reaped(p)
  <2>1. NewAcct(p).finish_time = -1
    BY DEF NewAcct
  <2>2. QED
    BY <1>1, <2>1 DEF Reaped
<1>5. Recorded /\ Charges
  BY <1>2, <1>3, <1>4 DEF Recorded, Charges, Charge
<1>6. Done = {} /\ Work = {} /\ Booked = {}
  BY <1>1, <1>4 DEF Done, Work, Used, Booked
<1>7. Budget
  BY <1>1, <1>2, <1>6, FS_EmptySet DEF Budget
<1>8. QED
  BY <1>5, <1>7

LEMMA AccountsHold ==
  ASSUME Prompt, NoneMissing, QuietEnds PROVE RRSpec => [](Recorded /\ Charges /\ Budget)
<1>1. RRInit => Recorded /\ Charges /\ Budget
  BY AccountsInit
<1>2. Shape /\ Places /\ Carried /\ Listed /\ Timely /\ Recorded /\ Charges /\ Budget /\ [RRNext]_rrvars
        => (Recorded /\ Charges /\ Budget)'
  BY RecordedStep, ChargesStep, BudgetStep
<1>3. QED
  BY <1>1, <1>2, ShapeHolds, PlacesHold, CarriedHolds, TimelyHolds, PTL DEF RRSpec

\* A list without repetition is as long as it has elements.
LEMMA LengthIsCardinality ==
  ASSUME NEW T, NEW q \in Seq(T), IsInjective(q), IsFiniteSet(ToSet(q))
  PROVE  Cardinality(ToSet(q)) = Len(q)
<1>1. Len(q) \in Nat /\ DOMAIN q = 1..Len(q) /\ q \in [1..Len(q) -> ToSet(q)]
  BY DEF ToSet
<1>2. q \in Injection(1..Len(q), ToSet(q)) /\ q \in Surjection(1..Len(q), ToSet(q))
  BY <1>1 DEF Injection, Surjection, ToSet
<1>3. Cardinality(1..Len(q)) = Cardinality(ToSet(q))
  BY <1>2, FS_Injection
<1> DEFINE n == Len(q)
<1>4. n \in Int /\ 1 \in Int /\ (1 > n => n = 0) /\ (~(1 > n) => n - 1 + 1 = n)
  BY <1>1
<1> HIDE DEF n
<1>5. Cardinality(1..n) = n
  BY <1>4, FS_Interval
<1>6. QED
  BY <1>3, <1>5 DEF n

LEMMA AllReported ==
  ASSUME Shape, Places, Listed, Timely, Budget, pc = "exited"
  PROVE  perf.num_procs = Len(workload.order)
<1>1. Idle /\ readyQueue = <<>> /\ blockQueue = <<>> /\ g_queue = <<>> /\ msgq.arrived = <<>>
  BY DEF Timely, Paced, Told
<1>2. ToSet(<<>>) = {}
  BY DEF ToSet
<1>3. Unknown = {} /\ ToSet(currentPCBs) = {}
  BY <1>1, <1>2, PlacesParts DEF Unknown, Idle
<1>4. ToSet(workload.order) = Done
  BY <1>3 DEF Listed, Present, Done
<1>5. workload.order \in Seq(Procs) /\ IsInjective(workload.order)
  BY WorkloadType, TimeTypes
<1>6. QED
  BY <1>4, <1>5, LengthIsCardinality DEF Budget

\* While the processes keep pace with the clock, whoever finishes has been charged for
\* every tick between its arrival and its end that it did not run, over faults, expired
\* quantums, resumes and the ticks that a switch costs; every tick granted is used by
\* the process it was granted to, before the next one starts; and the report counts
\* each process once, and no more CPU time than passed.
THEOREM TimeAddsUp ==
  ASSUME Prompt, NoneMissing, QuietEnds PROVE RRSpec => []Accounting
<1>1. Shape /\ Places /\ Carried /\ Listed /\ Timely /\ Recorded /\ Charges /\ Budget => Accounting
  <2> SUFFICES ASSUME Shape, Places, Carried, Listed, Timely, Recorded, Charges, Budget
               PROVE  Accounting
    OBVIOUS
  <2>1. AccountingAtFinish
    BY DEF Recorded, Charges, Charge, AccountingAtFinish
  <2>2. RemainingTimeAgrees
    <3> SUFFICES ASSUME pc = "spin", clk # last_tick, currProcess # NoOne
                 PROVE  shmRT = child[currProcess].remainingtime /\ sem = 0
      BY DEF RemainingTimeAgrees
    <3>1. Running = {currProcess} /\ currProcess \in Procs
      BY TimeTypes DEF Running
    <3>2. QED
      BY <3>1, TimeTypes DEF Recorded, Timely, Settled, Granted
  <2>3. PerfConsistent
    <3> SUFFICES ASSUME undefined = "no"
                 PROVE  /\ perf.num_procs = Cardinality({p \in Procs : pcb[p].state = "F"})
                        /\ perf.num_procs > 0 => perf.total_runtime <= perf.finish_time - perf.first_arrival
                        /\ pc = "exited" => perf.num_procs = Len(workload.order)
      BY DEF PerfConsistent
    <3>1. Done = {p \in Procs : pcb[p].state = "F"}
      BY DEF Done, Recorded
    <3>2. QED
      BY <3>1, AllReported DEF Budget
  <2>4. QED
    BY <2>1, <2>2, <2>3 DEF Accounting
<1>2. QED
  BY <1>1, ShapeHolds, PlacesHold, CarriedHolds, TimelyHolds, AccountsHold, PTL

=============================================================================
