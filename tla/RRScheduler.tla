----------------------------- MODULE RRScheduler -----------------------------
(***************************************************************************)
(* The round-robin run of the simulator: the clock (clk.c), the generator  *)
(* that sends arriving processes (process_generator.c), the scheduler      *)
(* (rr_scheduler) with its memory manager (module MMU), and one child      *)
(* process per PCB (RR_process.c).                                         *)
(*                                                                         *)
(* The four kinds of process run concurrently.  They share the clock, a    *)
(* message queue of arrivals, a message queue of memory requests, the      *)
(* semaphore that grants one tick of CPU, the remaining time of the        *)
(* running child, and the signals SIGSTOP, SIGCONT and SIGUSR1.  The pc of *)
(* the scheduler names the statement of its main loop that runs next; the  *)
(* code between two points at which it waits or shares state is one step.  *)
(***************************************************************************)
EXTENDS MMU, QueueLoops, SequencesExt

CONSTANTS
    quantum,    \* argv[1] of the scheduler
    k,          \* argv[2]: R bits are cleared every k quantums
    Workloads,  \* the input files considered, one is chosen initially
    Prompt      \* TRUE: no tick passes while a process has something to do

Request == [tick: Nat, page: 0..NUM_PAGES, op: Op]

\* The id of a process is the type of its request messages, and msgsnd takes no
\* type below 1.
ASSUME RRAssumption ==
    /\ 0 \notin Procs
    /\ quantum \in Nat \ {0}
    /\ k \in Nat
    /\ Prompt \in BOOLEAN
    /\ \A w \in Workloads :
          /\ w.order \in Seq(Procs) /\ IsInjective(w.order)
          /\ w.arrival \in [Procs -> Nat]
          /\ w.runtime \in [Procs -> Nat \ {0}]
          /\ w.requests \in [Procs -> Seq(Request)]
          /\ w.missing \subseteq Procs

VARIABLES
    workload,              \* the input files: never changes
    \* the generator
    g_pc, g_queue, g_now, lastTime,
    \* the children
    child,
    \* what they share
    msgq, req_msgq, sem, shmRT, processFinishedSignal,
    \* the scheduler
    pc, now, last_tick, wait_until, readyQueue, blockQueue, currentPCBs,
    currProcess, next_preemtion_time, context_switch_until, quantums_passed,
    last_print, checked, receivingProcesses, last_received_sync, acct, perf,
    \* history: the last tick of CPU granted, and to whom
    lastGrant

INSTANCE Generator

genvars == <<g_pc, g_queue, g_now, lastTime>>
ipcvars == <<msgq, req_msgq, sem, shmRT, processFinishedSignal>>
queuevars == <<readyQueue, blockQueue, currentPCBs, currProcess>>
timevars == <<next_preemtion_time, context_switch_until, wait_until, now, last_tick>>
countvars == <<quantums_passed, last_print, checked, receivingProcesses,
               last_received_sync, acct, perf>>
schedvars == <<pc, queuevars, timevars, countvars>>
rrvars == <<MMUvars, workload, genvars, child, ipcvars, schedvars, lastGrant>>

\* Mutant: a process that wakes is not put in the ready queue.
ToNowhere(q, S) == q

\* checkBlockEnd moves the processes S from one queue to the other, in order.
ToQueue(q, S) == q \o InOrder(blockQueue, S)

\* Mutant: a process that wakes is not taken out of the block queue.
WithoutNone(q, S) == q

Without(q, S) == InOrder(q, Procs \ S)

-----------------------------------------------------------------------------
(* The generator.                                                          *)

Generator ==
    /\ GenStep(pc = "exited")
    /\ UNCHANGED <<MMUvars, workload, child, req_msgq, sem, shmRT, processFinishedSignal,
                   schedvars, lastGrant>>

-----------------------------------------------------------------------------
(* A child.  A stopped child takes no step; a child that is stopped while  *)
(* it waits in down() leaves the semaphore alone until it is continued.    *)

NoChild == [pc |-> "none", stopped |-> FALSE, remainingtime |-> 0, running_time |-> 0,
            req_index |-> 0]

Runs(p, at) == child[p].pc = at /\ ~child[p].stopped

\* Without a requests file the child exits, and sends no SIGUSR1.
ChildBoot(p) ==
    /\ Runs(p, "boot")
    /\ child' = [child EXCEPT ![p].pc = IF p \in workload.missing THEN "dead" ELSE "down"]
    /\ UNCHANGED <<MMUvars, workload, genvars, ipcvars, schedvars, lastGrant>>

ChildDown(p) ==
    /\ Runs(p, "down") /\ sem > 0
    /\ sem' = sem - 1
    /\ child' = [child EXCEPT ![p].pc = "send"]
    /\ UNCHANGED <<MMUvars, workload, genvars, msgq, req_msgq, shmRT, processFinishedSignal,
                   schedvars, lastGrant>>

\* Only the request that req_index names is looked at, and only for equality.
NextRequest(p) == workload.requests[p][child[p].req_index + 1]

Due(p) == /\ child[p].req_index < Len(workload.requests[p])
          /\ NextRequest(p).tick = child[p].running_time

ChildSend(p) ==
    /\ Runs(p, "send")
    /\ IF Due(p)
       THEN /\ req_msgq' = [req_msgq EXCEPT
                  ![p] = Append(@, NextRequest(p))]
            /\ child' = [child EXCEPT ![p].pc = "count", ![p].req_index = @ + 1]
       ELSE /\ child' = [child EXCEPT ![p].pc = "count"]
            /\ UNCHANGED req_msgq
    /\ UNCHANGED <<MMUvars, workload, genvars, msgq, sem, shmRT, processFinishedSignal,
                   schedvars, lastGrant>>

\* Mutants: the child goes on for a tick too many; it exits without SIGUSR1.
AfterTickLate(left) == IF left >= 0 THEN "down" ELSE "signal"

AfterTickSilent(left) == IF left > 0 THEN "down" ELSE "dead"

AfterTick(left) == IF left > 0 THEN "down" ELSE "signal"

ChildCount(p) ==
    /\ Runs(p, "count")
    /\ LET left == child[p].remainingtime - 1
       IN  /\ shmRT' = left
           /\ child' = [child EXCEPT ![p].remainingtime = left,
                                     ![p].running_time = @ + 1,
                                     ![p].pc = AfterTick(left)]
    /\ UNCHANGED <<MMUvars, workload, genvars, msgq, req_msgq, sem, processFinishedSignal,
                   schedvars, lastGrant>>

\* kill(getppid(), SIGUSR1) runs onProcessFinished in the scheduler.
ChildExit(p) ==
    /\ Runs(p, "signal")
    /\ processFinishedSignal' = TRUE
    /\ child' = [child EXCEPT ![p].pc = "dead"]
    /\ UNCHANGED <<MMUvars, workload, genvars, msgq, req_msgq, sem, shmRT, schedvars, lastGrant>>

Child(p) == ChildBoot(p) \/ ChildDown(p) \/ ChildSend(p) \/ ChildCount(p) \/ ChildExit(p)

-----------------------------------------------------------------------------
(* The scheduler: one iteration of its main loop per tick.                 *)

Goto(l) == pc' = l

Busy == readyQueue # <<>> \/ blockQueue # <<>> \/ receivingProcesses \/ currProcess # NoOne

\* while (...) { now = getClk(); if (now == last_tick) continue; last_tick = now; ...
NewTick ==
    /\ pc = "spin" /\ Busy /\ clk # last_tick
    /\ now' = clk /\ last_tick' = clk
    /\ Goto("requests")
    /\ UNCHANGED <<MMUvars, workload, genvars, child, ipcvars, queuevars, countvars, lastGrant,
                   next_preemtion_time, context_switch_until, wait_until>>

Exit ==
    /\ pc = "spin" /\ ~Busy
    /\ Goto("exited")
    /\ UNCHANGED <<MMUvars, workload, genvars, child, ipcvars, queuevars, timevars, countvars,
                   lastGrant>>

\* handleRequests: at most one request, of the current process.  It is queued
\* and checked at once, so the queue of requests is empty between two calls.
\* Mutant: requests are not looked at in the tick the quantum ends.
RequestUnlessExpiry ==
    currProcess # NoOne /\ req_msgq[currProcess] # <<>> /\ next_preemtion_time # now

RequestThere == currProcess # NoOne /\ req_msgq[currProcess] # <<>>

NoRequest ==
    /\ pc = "requests" /\ ~RequestThere
    /\ Goto("block")
    /\ UNCHANGED <<MMUvars, workload, genvars, child, ipcvars, queuevars, timevars, countvars,
                   lastGrant>>

Received == Head(req_msgq[currProcess])

TakeRequest ==
    /\ pc = "requests" /\ RequestThere
    /\ req_msgq' = [req_msgq EXCEPT ![currProcess] = Tail(@)]
    /\ Goto("block")
    /\ UNCHANGED <<workload, genvars, msgq, sem, shmRT, processFinishedSignal, now, last_tick,
                   wait_until, readyQueue, currentPCBs, last_print, checked,
                   receivingProcesses, last_received_sync, perf, lastGrant>>

\* The page is there, or its number is beyond the limit: the process goes on.
RequestAnswered ==
    /\ TakeRequest
    /\ \/ Hit(currProcess, Received.page, Received.op)
       \/ ReadPastTable(currProcess, Received.page)
       \/ ReadNoTable(currProcess)
       \/ /\ pcb[currProcess].frame_index # NoFrame
          /\ Received.page > Limit[currProcess]
          /\ UNCHANGED MMUvars
    /\ UNCHANGED <<child, blockQueue, currProcess, next_preemtion_time, context_switch_until,
                   quantums_passed, acct>>

\* Mutant: no SIGSTOP.
NotStopped(p) == child

\* How a process leaves the CPU with work left: SIGSTOP, and its PCB is updated.
Stopped(p) == [child EXCEPT ![p].stopped = TRUE]

Saved(p) == [acct EXCEPT ![p].remaining_time = shmRT, ![p].last_stopped = clk]

\* The tick that a change of process costs.
SwitchUntil == clk + 1

\* A fault stops the process and gives the CPU up for the rest of this tick.
RequestFaults ==
    /\ TakeRequest
    /\ Fault(currProcess, Received.page, Received.op)
    /\ acct' = Saved(currProcess)
    /\ blockQueue' = Append(blockQueue, currProcess)
    /\ child' = Stopped(currProcess)
    /\ currProcess' = NoOne
    /\ next_preemtion_time' = -1
    /\ context_switch_until' = SwitchUntil
    /\ quantums_passed' = quantums_passed + 1

\* Mutant: the frame of a process that wakes stays reserved.
CheckBlockEndReserved ==
    /\ readyQueue' = ToQueue(readyQueue, Overdue)
    /\ blockQueue' = Without(blockQueue, Overdue)
    /\ Become(EndFaultsReserved(Mem, Overdue))
    /\ UNCHANGED <<clk, undefined>>

CheckBlockEnd ==
    /\ readyQueue' = ToQueue(readyQueue, Overdue)
    /\ blockQueue' = Without(blockQueue, Overdue)
    /\ IF Overdue = {} THEN UNCHANGED MMUvars ELSE Wake

\* Processes that wake in the tick the quantum ends go behind the one preempted:
\* then the check is left to RR_algo or to the end of the iteration.
BlockCheck ==
    /\ pc = "block"
    /\ IF next_preemtion_time # now \/ currProcess = NoOne
       THEN CheckBlockEnd /\ checked' = TRUE
       ELSE UNCHANGED <<MMUvars, readyQueue, blockQueue>> /\ checked' = FALSE
    /\ Goto("finish")
    /\ UNCHANGED <<workload, genvars, child, ipcvars, currentPCBs, currProcess, timevars,
                   quantums_passed, last_print, receivingProcesses, last_received_sync, acct,
                   perf, lastGrant>>

FinishCheck ==
    /\ pc = "finish"
    /\ IF currProcess # NoOne /\ processFinishedSignal
       THEN processFinishedSignal' = FALSE /\ Goto("waitpid")
       ELSE UNCHANGED processFinishedSignal /\ Goto("gate")
    /\ UNCHANGED <<MMUvars, workload, genvars, child, msgq, req_msgq, sem, shmRT, queuevars,
                   timevars, countvars, lastGrant>>

\* waitpid(currProcess->pid) returns once that child is dead, whoever signalled.
Reap ==
    /\ pc = "waitpid" /\ child[currProcess].pc = "dead"
    /\ Finish(currProcess) \/ ReadNoTable(currProcess)
    /\ acct' = [acct EXCEPT ![currProcess].finish_time = clk,
                            ![currProcess].remaining_time = shmRT]
    /\ perf' = [perf EXCEPT !.num_procs = @ + 1,
                            !.waiting = @ + acct[currProcess].waiting_time,
                            !.total_runtime = @ + workload.runtime[currProcess],
                            !.finish_time = clk]
    /\ currentPCBs' = Without(currentPCBs, {currProcess})
    /\ currProcess' = NoOne
    /\ next_preemtion_time' = -1
    /\ context_switch_until' = SwitchUntil
    /\ quantums_passed' = quantums_passed + 1
    /\ Goto("gate")
    /\ UNCHANGED <<workload, genvars, child, ipcvars, readyQueue, blockQueue, now, last_tick,
                   wait_until, last_print, checked, receivingProcesses, last_received_sync,
                   lastGrant>>

ReceiveDue == receivingProcesses /\ now > last_received_sync

Gate ==
    /\ pc = "gate"
    /\ IF now >= context_switch_until
       THEN /\ context_switch_until' = -1
            /\ IF ReceiveDue
               THEN Goto("receive") /\ wait_until' = clk
               ELSE Goto("algo") /\ UNCHANGED wait_until
       ELSE Goto("tail") /\ UNCHANGED <<context_switch_until, wait_until>>
    /\ UNCHANGED <<MMUvars, workload, genvars, child, ipcvars, queuevars, next_preemtion_time,
                   now, last_tick, countvars, lastGrant>>

NewAcct(p) == [remaining_time |-> workload.runtime[p], waiting_time |-> 0, start_time |-> -1,
               last_stopped |-> -1, finish_time |-> -1]

\* receiveProcesses: its variable now is the clock when it was called, kept here
\* in wait_until.  It returns at a sync message of that tick or a later one.
FirstArrival(p) == IF perf.first_arrival = -1 THEN workload.arrival[p] ELSE perf.first_arrival

ReceiveProcess ==
    /\ pc = "receive" /\ msgq.arrived # <<>>
    /\ LET p == Head(msgq.arrived)
       IN  /\ acct' = [acct EXCEPT ![p] = NewAcct(p)]
           /\ readyQueue' = Append(readyQueue, p)
           /\ currentPCBs' = Append(currentPCBs, p)
           /\ perf' = [perf EXCEPT !.first_arrival = FirstArrival(p)]
    /\ msgq' = [msgq EXCEPT !.arrived = Tail(@)]
    /\ UNCHANGED <<MMUvars, workload, genvars, child, req_msgq, sem, shmRT, lastGrant,
                   processFinishedSignal, pc, timevars, blockQueue, currProcess,
                   quantums_passed, last_print, checked, receivingProcesses,
                   last_received_sync>>

\* Mutant: the sync message of the tick before is accepted.
SyncNearlyReached(t) == t >= wait_until - 1

SyncReached(t) == t >= wait_until

ReceiveSync ==
    /\ pc = "receive" /\ msgq.arrived = <<>> /\ msgq.sync # <<>>
    /\ IF SyncReached(Head(msgq.sync))
       THEN last_received_sync' = Head(msgq.sync) /\ Goto("algo")
       ELSE UNCHANGED <<last_received_sync, pc>>
    /\ msgq' = [msgq EXCEPT !.sync = Tail(@)]
    /\ UNCHANGED <<MMUvars, workload, genvars, child, req_msgq, sem, shmRT, lastGrant,
                   processFinishedSignal, timevars, queuevars, quantums_passed, last_print,
                   checked, receivingProcesses, acct, perf>>

ReceiveEnd ==
    /\ pc = "receive" /\ msgq.arrived = <<>> /\ msgq.sync = <<>> /\ msgq.end
    /\ msgq' = [msgq EXCEPT !.end = FALSE]
    /\ receivingProcesses' = FALSE
    /\ Goto("algo")
    /\ UNCHANGED <<MMUvars, workload, genvars, child, req_msgq, sem, shmRT, lastGrant,
                   processFinishedSignal, timevars, queuevars, quantums_passed, last_print,
                   checked, last_received_sync, acct, perf>>

\* runProcess, with the fork of the child on the first call.
\* Mutant: only the time until the first dispatch is charged.
ChargedOnce(p) ==
    LET a == acct[p]
    IN  IF a.start_time # -1 THEN a
        ELSE [a EXCEPT !.start_time = clk, !.waiting_time = clk - workload.arrival[p]]

\* A process waits from its arrival to its start and from each stop to the
\* next resume, whether it was ready or blocked in between.
Charged(p) ==
    LET a == acct[p]
        b == IF a.start_time # -1 THEN a
             ELSE [a EXCEPT !.start_time = clk, !.waiting_time = clk - workload.arrival[p]]
    IN  IF pcb[p].forked /\ a.last_stopped >= 0
        THEN [b EXCEPT !.waiting_time = @ + clk - a.last_stopped] ELSE b

RunProcess(p) ==
    /\ Dispatch(p)
    /\ shmRT' = acct[p].remaining_time
    /\ acct' = [acct EXCEPT ![p] = Charged(p)]
    /\ child' = [child EXCEPT ![p] =
          IF pcb[p].forked THEN [@ EXCEPT !.stopped = FALSE]
          ELSE [NoChild EXCEPT !.pc = "boot", !.remainingtime = acct[p].remaining_time]]

\* dequeue and runProcess: the two ways RR_algo gives the CPU away.
Switch ==
    /\ RunProcess(Head(readyQueue))
    /\ currProcess' = Head(readyQueue)
    /\ readyQueue' = Tail(readyQueue)
    /\ next_preemtion_time' = clk + quantum
    /\ Goto("clear")
    /\ UNCHANGED <<workload, genvars, msgq, req_msgq, sem, processFinishedSignal, blockQueue,
                   currentPCBs, context_switch_until, wait_until, now, last_tick,
                   quantums_passed, last_print, checked, receivingProcesses,
                   last_received_sync, perf, lastGrant>>

AlgoDispatch ==
    /\ pc = "algo" /\ now > 0 /\ currProcess = NoOne /\ readyQueue # <<>>
    /\ Switch

Expired == clk >= next_preemtion_time

AlgoNothing ==
    /\ pc = "algo"
    /\ \/ now = 0
       \/ currProcess = NoOne /\ readyQueue = <<>>
       \/ currProcess # NoOne /\ ~Expired
    /\ Goto("clear")
    /\ UNCHANGED <<MMUvars, workload, genvars, child, ipcvars, queuevars, timevars, countvars,
                   lastGrant>>

QuantumOver == pc = "algo" /\ now > 0 /\ currProcess # NoOne /\ Expired

NoOneWaits == readyQueue # <<>> => workload.arrival[Head(readyQueue)] = clk

\* Nobody else waits, or the first in line has only just arrived.
AlgoExtend ==
    /\ QuantumOver /\ NoOneWaits
    /\ next_preemtion_time' = clk + quantum
    /\ quantums_passed' = quantums_passed + 1
    /\ Goto("clear")
    /\ UNCHANGED <<MMUvars, workload, genvars, child, ipcvars, queuevars, context_switch_until,
                   wait_until, now, last_tick, last_print, checked, receivingProcesses,
                   last_received_sync, acct, perf, lastGrant>>

AlgoPreempt ==
    /\ QuantumOver /\ ~NoOneWaits
    /\ Preempt(currProcess)
    /\ child' = Stopped(currProcess)
    /\ acct' = Saved(currProcess)
    /\ readyQueue' = Append(readyQueue, currProcess)
    /\ quantums_passed' = quantums_passed + 1
    /\ context_switch_until' = SwitchUntil
    /\ Goto("preempted")
    /\ UNCHANGED <<workload, genvars, ipcvars, blockQueue, currentPCBs, currProcess,
                   next_preemtion_time, wait_until, now, last_tick, last_print, checked,
                   receivingProcesses, last_received_sync, perf, lastGrant>>

PreemptedCheck ==
    /\ pc = "preempted"
    /\ IF checked THEN UNCHANGED <<MMUvars, readyQueue, blockQueue>> ELSE CheckBlockEnd
    /\ checked' = TRUE
    /\ wait_until' = clk + 1
    /\ Goto("wait")
    /\ UNCHANGED <<workload, genvars, child, ipcvars, currentPCBs, currProcess, now, last_tick,
                   next_preemtion_time, context_switch_until, quantums_passed, last_print,
                   receivingProcesses, last_received_sync, acct, perf, lastGrant>>

\* wait_N_secs(1, 1) spins until the next tick.
WaitOver == pc = "wait" /\ clk >= wait_until /\ Switch

\* Mutant: the first k quantums do not count.
ClearDueLater ==
    /\ k > 0 /\ quantums_passed > k /\ quantums_passed % k = 0
    /\ quantums_passed > last_print

ClearDue ==
    /\ k > 0 /\ quantums_passed > 0 /\ quantums_passed % k = 0
    /\ quantums_passed > last_print

ClearCheck ==
    /\ pc = "clear"
    /\ IF ClearDue
       THEN Clear /\ last_print' = quantums_passed
       ELSE UNCHANGED <<MMUvars, last_print>>
    /\ Goto("grant")
    /\ UNCHANGED <<workload, genvars, child, ipcvars, queuevars, timevars, quantums_passed,
                   checked, receivingProcesses, last_received_sync, acct, perf, lastGrant>>

\* semctl(SETVAL, 0) takes back what was left of the last grant, then up().
Grant ==
    /\ pc = "grant"
    /\ IF currProcess # NoOne /\ now >= context_switch_until
       THEN sem' = 1 /\ lastGrant' = [to |-> currProcess, at |-> clk]
       ELSE UNCHANGED <<sem, lastGrant>>
    /\ Goto("tail")
    /\ UNCHANGED <<MMUvars, workload, genvars, child, msgq, req_msgq, shmRT,
                   processFinishedSignal, queuevars, timevars, countvars>>

\* Mutant: the check that was skipped is not made up for.
TailNever == FALSE

TailDue == ~checked /\ clk = now

TailCheck ==
    /\ pc = "tail"
    /\ IF TailDue
       THEN CheckBlockEnd
       ELSE UNCHANGED <<MMUvars, readyQueue, blockQueue>>
    /\ Goto("spin")
    /\ UNCHANGED <<workload, genvars, child, ipcvars, currentPCBs, currProcess, timevars,
                   countvars, lastGrant>>

Scheduler ==
    \/ NewTick \/ Exit \/ NoRequest \/ RequestAnswered \/ RequestFaults \/ BlockCheck
    \/ FinishCheck \/ Reap \/ Gate \/ ReceiveProcess \/ ReceiveSync \/ ReceiveEnd
    \/ AlgoDispatch \/ AlgoNothing \/ AlgoExtend \/ AlgoPreempt \/ PreemptedCheck \/ WaitOver
    \/ ClearCheck \/ Grant \/ TailCheck

-----------------------------------------------------------------------------
(* The timing assumption.  A tick lasts a second and the work between two  *)
(* waits takes microseconds: under Prompt the clock advances only when all *)
(* processes wait, for it or for each other.  Without it they may lag.     *)

SchedulerWaits ==
    \/ pc = "spin" /\ Busy /\ clk = last_tick
    \/ pc = "receive" /\ msgq = NoMessage
    \/ pc = "waitpid" /\ child[currProcess].pc # "dead"
    \/ pc = "wait" /\ clk < wait_until
    \/ pc = "exited"

ChildWaits(p) ==
    \/ child[p].pc \in {"none", "dead"}
    \/ child[p].stopped
    \/ child[p].pc = "down" /\ sem = 0

ClockTick ==
    /\ g_pc # "exited"
    /\ Prompt => SchedulerWaits /\ GeneratorWaits(pc = "exited") /\ \A p \in Procs : ChildWaits(p)
    /\ Tick
    /\ UNCHANGED <<workload, genvars, child, ipcvars, schedvars, lastGrant>>

\* The simulation is over, or has read outside an array; nothing else stops it.
Terminated == (g_pc = "exited" \/ undefined # "no") /\ UNCHANGED rrvars

RRInit ==
    /\ MMUInit
    /\ workload \in Workloads
    /\ GenInit
    /\ child = [p \in Procs |-> NoChild]
    /\ req_msgq = [p \in Procs |-> <<>>]
    /\ sem = 0 /\ shmRT = 0 /\ processFinishedSignal = FALSE
    /\ pc = "spin" /\ now = -1 /\ last_tick = -1 /\ wait_until = -1
    /\ readyQueue = <<>> /\ blockQueue = <<>> /\ currentPCBs = <<>> /\ currProcess = NoOne
    /\ next_preemtion_time = -1 /\ context_switch_until = -1
    /\ quantums_passed = 0 /\ last_print = -1 /\ checked = FALSE
    /\ receivingProcesses = TRUE /\ last_received_sync = -1
    /\ acct = [p \in Procs |-> NewAcct(p)]
    /\ perf = [num_procs |-> 0, first_arrival |-> -1, total_runtime |-> 0, finish_time |-> -1,
               waiting |-> 0]
    /\ lastGrant = [to |-> NoOne, at |-> -1]

RRNext ==
    \/ /\ undefined = "no"
       /\ \/ ClockTick
          \/ Generator
          \/ \E p \in Procs : Child(p)
          \/ Scheduler
    \/ Terminated

\* Every process of the simulation keeps being scheduled by the kernel, and the
\* clock keeps ticking.
Fairness ==
    /\ WF_rrvars(ClockTick /\ undefined = "no")
    /\ WF_rrvars(Generator /\ undefined = "no")
    /\ \A p \in Procs : WF_rrvars(Child(p) /\ undefined = "no")
    /\ WF_rrvars(Scheduler /\ undefined = "no")

RRSpec == RRInit /\ [][RRNext]_rrvars

RRFairSpec == RRSpec /\ Fairness

-----------------------------------------------------------------------------
(* Properties.                                                             *)

ChildRec == [pc: {"none", "boot", "down", "send", "count", "signal", "dead"},
             stopped: BOOLEAN, remainingtime: Nat, running_time: Nat, req_index: Nat]

AcctRec == [remaining_time: Int, waiting_time: Int, start_time: Int, last_stopped: Int,
            finish_time: Int]

RRTypeOK ==
    /\ workload \in Workloads
    /\ g_pc \in {"poll", "send", "waitpid", "exited"}
    /\ g_queue \in Seq(Procs) /\ g_now \in Int /\ lastTime \in Int
    /\ child \in [Procs -> ChildRec]
    /\ msgq \in [arrived: Seq(Procs), sync: Seq(Int), end: BOOLEAN]
    /\ req_msgq \in [Procs -> Seq(Request)]
    /\ sem \in 0..1 /\ shmRT \in Int /\ processFinishedSignal \in BOOLEAN
    /\ pc \in {"spin", "requests", "block", "finish", "waitpid", "gate", "receive", "algo",
               "preempted", "wait", "clear", "grant", "tail", "exited"}
    /\ now \in Int /\ last_tick \in Int /\ wait_until \in Int
    /\ readyQueue \in Seq(Procs) /\ blockQueue \in Seq(Procs) /\ currentPCBs \in Seq(Procs)
    /\ currProcess \in Procs \cup {NoOne}
    /\ next_preemtion_time \in Int /\ context_switch_until \in Int
    /\ quantums_passed \in Nat /\ last_print \in Int /\ checked \in BOOLEAN
    /\ receivingProcesses \in BOOLEAN /\ last_received_sync \in Int
    /\ acct \in [Procs -> AcctRec]
    /\ perf \in [num_procs: Nat, first_arrival: Int, total_runtime: Int, finish_time: Int,
                 waiting: Int]
    /\ lastGrant \in [to: Procs \cup {NoOne}, at: Int]

\* handleFinishedProcesses has recorded the end of the process.
Reaped(p) == acct[p].finish_time # -1

\* While RR_algo waits out the penalty, the process it preempted is still
\* currProcess although it is already back in the ready queue.
Running == IF currProcess = NoOne \/ pc \in {"preempted", "wait"} THEN {} ELSE {currProcess}

\* Every process the scheduler has received and not reaped is in exactly one
\* place, once: running, ready or blocked, and its PCB's state says which.  A
\* process in no queue is never dispatched again; one in two is run twice.
QueuesPartition ==
    /\ IsInjective(readyQueue) /\ IsInjective(blockQueue) /\ IsInjective(currentPCBs)
    /\ \A p \in Procs :
          /\ p \in ToSet(currentPCBs) => pcb[p].state =
                IF p \in Running THEN "R" ELSE IF p \in ToSet(blockQueue) THEN "B" ELSE "W"
          /\ p \in Running => p \notin ToSet(readyQueue) \cup ToSet(blockQueue)
          /\ p \in ToSet(blockQueue) => p \notin ToSet(readyQueue)
    /\ ToSet(currentPCBs) = Running \cup ToSet(readyQueue) \cup ToSet(blockQueue)

\* Only the current process can execute or take a permit of the semaphore: all
\* others that were forked are stopped or dead.
OnlyCurrentRuns ==
    \A p \in Procs : p \notin Running => child[p].pc \in {"none", "dead"} \/ child[p].stopped

\* Each process is where the queues, its PCB and its child's signals say it is.
ProcessesInPlace == QueuesPartition /\ OnlyCurrentRuns

\* A process that finishes has been charged for every tick since it arrived:
\* either it ran or it waited (ready, blocked, or during a context switch).
AccountingAtFinish ==
    \A p \in Procs : pcb[p].state = "F" =>
        /\ acct[p].finish_time - workload.arrival[p] =
              workload.runtime[p] + acct[p].waiting_time
        /\ acct[p].remaining_time = 0

\* At the start of a tick the remaining time in shared memory is that of the
\* current child, and every tick granted so far was used: no unit of work is
\* lost when a grant is taken back, or counted for the process that runs next.
RemainingTimeAgrees ==
    pc = "spin" /\ clk # last_tick /\ currProcess # NoOne =>
        /\ shmRT = child[currProcess].remainingtime
        /\ lastGrant.to = currProcess /\ lastGrant.at = last_tick => sem = 0

\* A tick of CPU is left unused between the ticks of two different processes.
ContextSwitchCosts ==
    [][lastGrant'.to # lastGrant.to /\ lastGrant.to # NoOne =>
            lastGrant'.at >= lastGrant.at + 2]_rrvars

\* When the scheduler has done its work for a tick, no process whose fault has
\* been served is left in the block queue, whichever of the three places that
\* call checkBlockEnd was reached.
NoOverdueBlocked ==
    pc = "spin" /\ clk = last_tick =>
        \A p \in ToSet(blockQueue) : pcb[p].unblock_at > clk

\* RR_algo never decides before it knows every process that arrived by then.
ArrivalsBeforeDecision ==
    pc = "algo" =>
        \A p \in ToSet(workload.order) : workload.arrival[p] <= now =>
            p \in ToSet(currentPCBs) \/ pcb[p].state = "F"

\* No event of a tick is missed: neither the end of a wait, whose check can be put
\* off, nor an arrival, whose message comes from another process.
NothingOverlooked == NoOverdueBlocked /\ ArrivalsBeforeDecision

\* No process is granted a tick beyond the end of its quantum, and none is
\* granted a tick after its child has exited.
GrantWithinQuantum ==
    [][lastGrant' # lastGrant =>
         /\ lastGrant'.at < next_preemtion_time
         /\ child[currProcess].pc # "dead"
         /\ child[currProcess].remainingtime > 0]_rrvars

\* The R bits are cleared after every k-th quantum, although the counter is
\* advanced in three places and the check runs only when no switch is pending.
NoClearMissed ==
    [][k > 0 /\ quantums_passed' # quantums_passed /\ quantums_passed > 0
         /\ quantums_passed % k = 0 => last_print = quantums_passed]_rrvars

\* Every quantum has the length, the switch and the clearing of R bits that
\* RR_algo and the main loop intend for it.
QuantumsKept == ContextSwitchCosts /\ GrantWithinQuantum /\ NoClearMissed

\* A process gets no further tick before the request it sent in its last one has
\* been answered, and it is not reaped with one outstanding.
RequestsAnswered ==
    [][/\ lastGrant' # lastGrant => req_msgq[currProcess] = <<>>
       /\ \A p \in Procs : pcb'[p].state = "F" => req_msgq[p] = <<>>]_rrvars

\* The report counts each process once, and the CPU cannot have been busy for
\* longer than the simulation ran.
PerfConsistent ==
    undefined = "no" =>
        /\ perf.num_procs = Cardinality({p \in Procs : pcb[p].state = "F"})
        /\ perf.num_procs > 0 => perf.total_runtime <= perf.finish_time - perf.first_arrival
        /\ pc = "exited" => perf.num_procs = Len(workload.order)

\* Time adds up in the PCBs, in the shared remaining time and in the report.
Accounting == AccountingAtFinish /\ RemainingTimeAgrees /\ PerfConsistent

\* The scheduler shares its one CPU as module CPUSharing says: through fork,
\* SIGSTOP, SIGCONT and permits a process gets its runtime, alone, and is finished
\* when it has had it.
Sharing == INSTANCE CPUSharing WITH
    CPUs    <- {1},
    Nobody  <- NoOne,
    runtime <- workload.runtime,
    present <- ToSet(currentPCBs) \cup {p \in Procs : Reaped(p)},
    running <- [c \in {1} |-> IF Running = {} THEN NoOne ELSE currProcess],
    used    <- [p \in Procs |-> IF child[p].pc = "none" THEN 0
                                ELSE workload.runtime[p] - child[p].remainingtime],
    done    <- {p \in Procs : Reaped(p)}

SharesTheCPU == Sharing!SharingSpec

\* The simulation runs until all processes have completed, then terminates.
Terminates == <>(g_pc = "exited")

\* A process that blocks on a fault gets the CPU again.
BlockedResumes == \A p \in Procs : (p \in ToSet(blockQueue)) ~> (p \in Running)

=============================================================================
