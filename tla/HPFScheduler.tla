---------------------------- MODULE HPFScheduler -----------------------------
(***************************************************************************)
(* The highest-priority-first run of the simulator: clock, generator (of   *)
(* module Generator), the scheduler of src/scheduler with algorithm 2, and *)
(* one child per process.  The branches of scheduler.c for algorithms 1    *)
(* and 3 are left out: the generator starts rr_scheduler.out for 1, and 3  *)
(* is the dual-CPU dispatcher.                                             *)
(*                                                                         *)
(* The scheduler starts the program process.out with four arguments, its   *)
(* own name included.  Which program that is decides what a child does:    *)
(* process.c asks for four and RR_process.c, from which the Makefile       *)
(* builds process.out, for five.                                           *)
(***************************************************************************)
EXTENDS SchPCB, FiniteSets

CONSTANTS
    Procs,      \* the processes
    Workloads,  \* the input files considered, one is chosen initially
    ArgsNeeded, \* the argc that the program of the children checks for
    MaxClk      \* bound on the clock

NoOne == -1

ASSUME HPFAssumption ==
    /\ NoOne \notin Procs
    /\ ArgsNeeded \in Nat
    /\ MaxClk \in Nat
    /\ \A w \in Workloads :
          /\ w.order \in Seq(Procs) /\ IsInjective(w.order)
          /\ w.arrival \in [Procs -> Nat]
          /\ w.runtime \in [Procs -> Nat \ {0}]
          /\ w.priority \in [Procs -> Nat]

VARIABLES
    clk, workload,
    g_pc, g_queue, g_now, lastTime, msgq,       \* the generator
    child,                                      \* the children
    sem, shmRT, processFinishedSignal,          \* shared with the children
    pc, now, last_tick, wait_until, readyQueue, \* the scheduler
    currProcess, context_switch_until, receivingProcesses, pcb, perf,
    lastGrant   \* history: the last tick of CPU granted, and to whom

INSTANCE Generator

genvars == <<g_pc, g_queue, g_now, lastTime>>
childvars == <<child, shmRT, processFinishedSignal>>
queuevars == <<readyQueue, currProcess, pcb>>
loopvars == <<now, last_tick, wait_until, context_switch_until>>
schedvars == <<pc, queuevars, loopvars, receivingProcesses, perf>>
hpfvars == <<clk, workload, genvars, msgq, childvars, sem, schedvars, lastGrant>>

Generator ==
    /\ GenStep(pc = "exited")
    /\ UNCHANGED <<clk, workload, childvars, sem, schedvars, lastGrant>>

-----------------------------------------------------------------------------
(* A child: process.c.  A stopped child takes no step.                     *)

NoChild == [pc |-> "none", stopped |-> FALSE, remainingtime |-> 0]

ArgsGiven == 4

Runs(p, at) == child[p].pc = at /\ ~child[p].stopped

\* With too few arguments the child sends SIGUSR1 at once.
ChildBoot(p) ==
    /\ Runs(p, "boot")
    /\ child' = [child EXCEPT ![p].pc = IF ArgsGiven < ArgsNeeded THEN "signal" ELSE "down"]
    /\ UNCHANGED <<sem, shmRT, processFinishedSignal>>

ChildDown(p) ==
    /\ Runs(p, "down") /\ sem > 0
    /\ sem' = sem - 1
    /\ child' = [child EXCEPT ![p].pc = "count"]
    /\ UNCHANGED <<shmRT, processFinishedSignal>>

\* Mutants: the child goes on for a tick too many; it exits without SIGUSR1.
AfterTickLate(left) == IF left >= 0 THEN "down" ELSE "signal"

AfterTickSilent(left) == IF left > 0 THEN "down" ELSE "dead"

AfterTick(left) == IF left > 0 THEN "down" ELSE "signal"

ChildCount(p) ==
    /\ Runs(p, "count")
    /\ LET left == child[p].remainingtime - 1
       IN  /\ shmRT' = left
           /\ child' = [child EXCEPT ![p].remainingtime = left, ![p].pc = AfterTick(left)]
    /\ UNCHANGED <<sem, processFinishedSignal>>

ChildExit(p) ==
    /\ Runs(p, "signal")
    /\ processFinishedSignal' = TRUE
    /\ child' = [child EXCEPT ![p].pc = "dead"]
    /\ UNCHANGED <<sem, shmRT>>

Child(p) ==
    /\ ChildBoot(p) \/ ChildDown(p) \/ ChildCount(p) \/ ChildExit(p)
    /\ UNCHANGED <<clk, workload, genvars, msgq, schedvars, lastGrant>>

-----------------------------------------------------------------------------
(* The scheduler: one iteration of its main loop per tick.                 *)

Goto(l) == pc' = l

Busy == readyQueue # <<>> \/ receivingProcesses \/ currProcess # NoOne

NewTick ==
    /\ pc = "spin" /\ Busy /\ clk # last_tick
    /\ now' = clk /\ last_tick' = clk
    /\ Goto("finish")
    /\ UNCHANGED <<wait_until, context_switch_until, queuevars, childvars, sem, msgq,
                   receivingProcesses, perf, lastGrant>>

Exit ==
    /\ pc = "spin" /\ ~Busy
    /\ Goto("exited")
    /\ UNCHANGED <<loopvars, queuevars, childvars, sem, msgq, receivingProcesses, perf,
                   lastGrant>>

FinishCheck ==
    /\ pc = "finish"
    /\ IF currProcess # NoOne /\ processFinishedSignal
       THEN processFinishedSignal' = FALSE /\ Goto("waitpid")
       ELSE UNCHANGED processFinishedSignal /\ Goto("gate")
    /\ UNCHANGED <<loopvars, queuevars, child, shmRT, sem, msgq, receivingProcesses, perf,
                   lastGrant>>

\* The tick that a change of process costs.
SwitchUntil == clk + 1

\* The remaining time is set to 0 and then to what the children left in memory.
Reap ==
    /\ pc = "waitpid" /\ child[currProcess].pc = "dead"
    /\ pcb' = [pcb EXCEPT ![currProcess] =
                 [@ EXCEPT !.finish_time = clk, !.state = "F", !.remaining_time = shmRT]]
    /\ perf' = [perf EXCEPT !.num_procs = @ + 1,
                            !.waiting = @ + pcb[currProcess].waiting_time,
                            !.total_runtime = @ + workload.runtime[currProcess],
                            !.finish_time = clk]
    /\ currProcess' = NoOne
    /\ context_switch_until' = SwitchUntil
    /\ Goto("gate")
    /\ UNCHANGED <<now, last_tick, wait_until, readyQueue, childvars, sem, msgq,
                   receivingProcesses, lastGrant>>

\* In the tick after a process finished nothing is received or dispatched.
Gate ==
    /\ pc = "gate"
    /\ IF now >= context_switch_until
       THEN context_switch_until' = -1 /\ Goto(IF receivingProcesses THEN "receive" ELSE "algo")
       ELSE UNCHANGED context_switch_until /\ Goto("spin")
    /\ UNCHANGED <<now, last_tick, wait_until, queuevars, childvars, sem, msgq,
                   receivingProcesses, perf, lastGrant>>

NewPCB(p) == [state |-> "W", forked |-> FALSE, start_time |-> -1, finish_time |-> -1,
              last_stopped |-> -1, waiting_time |-> 0, remaining_time |-> workload.runtime[p]]

FirstArrival(p) == IF perf.first_arrival = -1 THEN workload.arrival[p] ELSE perf.first_arrival

Enqueued(q, p) == EnqueuePriority(q, p, workload.priority, workload.arrival)

ReceiveProcess ==
    /\ pc = "receive" /\ msgq.arrived # <<>>
    /\ LET p == Head(msgq.arrived)
       IN  /\ pcb' = [pcb EXCEPT ![p] = NewPCB(p)]
           /\ readyQueue' = Enqueued(readyQueue, p)
           /\ perf' = [perf EXCEPT !.first_arrival = FirstArrival(p)]
    /\ msgq' = [msgq EXCEPT !.arrived = Tail(@)]
    /\ UNCHANGED <<pc, loopvars, currProcess, childvars, sem, receivingProcesses, lastGrant>>

\* Mutant: the tick message of the tick before is accepted.
SyncNearlyReached(t) == t >= now - 1

SyncReached(t) == t >= now

ReceiveSync ==
    /\ pc = "receive" /\ msgq.arrived = <<>> /\ msgq.sync # <<>>
    /\ IF SyncReached(Head(msgq.sync)) THEN Goto("algo") ELSE UNCHANGED pc
    /\ msgq' = [msgq EXCEPT !.sync = Tail(@)]
    /\ UNCHANGED <<loopvars, queuevars, childvars, sem, receivingProcesses, perf, lastGrant>>

ReceiveEnd ==
    /\ pc = "receive" /\ msgq.arrived = <<>> /\ msgq.sync = <<>> /\ msgq.end
    /\ msgq' = [msgq EXCEPT !.end = FALSE]
    /\ receivingProcesses' = FALSE
    /\ Goto("algo")
    /\ UNCHANGED <<loopvars, queuevars, childvars, sem, perf, lastGrant>>

-----------------------------------------------------------------------------
(* HPF_algo.                                                               *)

\* Mutant: nothing interrupts a process.
PreemptsNever == FALSE

Preempts == workload.priority[Head(readyQueue)] < workload.priority[currProcess]

\* Mutant: no SIGSTOP.
NotStopped(p) == child

Stopped(p) == [child EXCEPT ![p].stopped = TRUE]

Requeued(p) == Enqueued(readyQueue, p)

Saved(p) == [pcb EXCEPT ![p] = [@ EXCEPT !.last_stopped = clk, !.state = "W",
                                         !.remaining_time = shmRT]]

\* The tick of the switch is spent in wait_N_secs(1, 1).
AlgoPreempt ==
    /\ pc = "algo" /\ now > 0 /\ currProcess # NoOne /\ readyQueue # <<>> /\ Preempts
    /\ pcb' = Saved(currProcess)
    /\ child' = Stopped(currProcess)
    /\ readyQueue' = Requeued(currProcess)
    /\ currProcess' = NoOne
    /\ wait_until' = SwitchUntil
    /\ Goto("wait")
    /\ UNCHANGED <<now, last_tick, context_switch_until, shmRT, processFinishedSignal, sem, msgq,
                   receivingProcesses, perf, lastGrant>>

WaitOver ==
    /\ pc = "wait" /\ clk >= wait_until
    /\ Goto("grant")
    /\ UNCHANGED <<loopvars, queuevars, childvars, sem, msgq, receivingProcesses, perf,
                   lastGrant>>

\* Mutant: only the time until the first dispatch is charged.
ChargedOnce(p) ==
    IF pcb[p].start_time # -1 THEN pcb[p]
    ELSE [pcb[p] EXCEPT !.start_time = clk, !.waiting_time = clk - workload.arrival[p]]

\* A process waits from its arrival to its start and from each stop to the next
\* resume.
Charged(p) ==
    LET a == pcb[p]
        b == IF a.start_time # -1 THEN a
             ELSE [a EXCEPT !.start_time = clk, !.waiting_time = clk - workload.arrival[p]]
    IN  IF a.forked /\ a.last_stopped >= 0
        THEN [b EXCEPT !.waiting_time = @ + clk - a.last_stopped] ELSE b

\* runProcess.
AlgoDispatch ==
    /\ pc = "algo" /\ now > 0 /\ currProcess = NoOne /\ readyQueue # <<>>
    /\ LET p == Head(readyQueue)
       IN  /\ currProcess' = p
           /\ shmRT' = pcb[p].remaining_time
           /\ pcb' = [pcb EXCEPT ![p] = [Charged(p) EXCEPT !.state = "R", !.forked = TRUE]]
           /\ child' = [child EXCEPT ![p] =
                 IF pcb[p].forked THEN [@ EXCEPT !.stopped = FALSE]
                 ELSE [NoChild EXCEPT !.pc = "boot", !.remainingtime = pcb[p].remaining_time]]
    /\ readyQueue' = Tail(readyQueue)
    /\ Goto("grant")
    /\ UNCHANGED <<loopvars, processFinishedSignal, sem, msgq, receivingProcesses, perf,
                   lastGrant>>

AlgoNothing ==
    /\ pc = "algo"
    /\ \/ now = 0
       \/ readyQueue = <<>>
       \/ currProcess # NoOne /\ readyQueue # <<>> /\ ~Preempts
    /\ Goto("grant")
    /\ UNCHANGED <<loopvars, queuevars, childvars, sem, msgq, receivingProcesses, perf,
                   lastGrant>>

\* semctl(SETVAL, 0) takes back what was left of the last grant, then up().
Grant ==
    /\ pc = "grant"
    /\ IF currProcess # NoOne
       THEN sem' = 1 /\ lastGrant' = [to |-> currProcess, at |-> clk]
       ELSE UNCHANGED <<sem, lastGrant>>
    /\ Goto("spin")
    /\ UNCHANGED <<loopvars, queuevars, childvars, msgq, receivingProcesses, perf>>

Scheduler ==
    /\ \/ NewTick \/ Exit \/ FinishCheck \/ Reap \/ Gate
       \/ ReceiveProcess \/ ReceiveSync \/ ReceiveEnd
       \/ AlgoPreempt \/ WaitOver \/ AlgoDispatch \/ AlgoNothing \/ Grant
    /\ UNCHANGED <<clk, workload, genvars>>

-----------------------------------------------------------------------------
(* The clock.  A tick lasts a second and the work between two waits takes  *)
(* microseconds: the clock advances only when all processes wait, for it   *)
(* or for each other.                                                      *)

SchedulerWaits ==
    \/ pc = "spin" /\ Busy /\ clk = last_tick
    \/ pc = "receive" /\ msgq = NoMessage
    \/ pc = "waitpid" /\ child[currProcess].pc # "dead"
    \/ pc = "wait" /\ clk < wait_until
    \/ pc = "exited"

ChildWaits(p) ==
    \/ child[p].pc \in {"none", "dead"}
    \/ child[p].stopped
    \/ child[p].pc = "down" /\ sem = 0

ClockTick ==
    /\ g_pc # "exited" /\ clk < MaxClk
    /\ SchedulerWaits /\ GeneratorWaits(pc = "exited") /\ \A p \in Procs : ChildWaits(p)
    /\ clk' = clk + 1
    /\ UNCHANGED <<workload, genvars, msgq, childvars, sem, schedvars, lastGrant>>

Terminated == g_pc = "exited" /\ UNCHANGED hpfvars

HPFInit ==
    /\ clk = 0
    /\ workload \in Workloads
    /\ GenInit
    /\ child = [p \in Procs |-> NoChild]
    /\ sem = 0 /\ shmRT = 0 /\ processFinishedSignal = FALSE
    /\ pc = "spin" /\ now = -1 /\ last_tick = -1 /\ wait_until = -1
    /\ readyQueue = <<>> /\ currProcess = NoOne /\ context_switch_until = -1
    /\ receivingProcesses = TRUE
    /\ pcb = [p \in Procs |-> NewPCB(p)]
    /\ perf = [num_procs |-> 0, first_arrival |-> -1, total_runtime |-> 0, finish_time |-> -1,
               waiting |-> 0]
    /\ lastGrant = [to |-> NoOne, at |-> -1]

HPFNext == ClockTick \/ Generator \/ Scheduler \/ Terminated \/ \E p \in Procs : Child(p)

\* Every process of the simulation keeps being scheduled by the kernel, and the
\* clock keeps ticking.
Fairness ==
    /\ WF_hpfvars(ClockTick)
    /\ WF_hpfvars(Generator)
    /\ \A p \in Procs : WF_hpfvars(Child(p))
    /\ WF_hpfvars(Scheduler)

HPFSpec == HPFInit /\ [][HPFNext]_hpfvars

HPFFairSpec == HPFSpec /\ Fairness

-----------------------------------------------------------------------------
(* Properties.                                                             *)

PCBRec == [state: {"W", "R", "F"}, forked: BOOLEAN, start_time: Int, finish_time: Int,
           last_stopped: Int, waiting_time: Int, remaining_time: Nat]

HPFTypeOK ==
    /\ clk \in 0..MaxClk /\ workload \in Workloads
    /\ g_pc \in {"poll", "send", "waitpid", "exited"}
    /\ g_queue \in Seq(Procs) /\ g_now \in Int /\ lastTime \in Int
    /\ msgq \in [arrived: Seq(Procs), sync: Seq(Int), end: BOOLEAN]
    /\ child \in [Procs -> [pc: {"none", "boot", "down", "count", "signal", "dead"},
                            stopped: BOOLEAN, remainingtime: Nat]]
    /\ sem \in 0..1 /\ shmRT \in Nat /\ processFinishedSignal \in BOOLEAN
    /\ pc \in {"spin", "finish", "waitpid", "gate", "receive", "algo", "wait", "grant",
               "exited"}
    /\ now \in Int /\ last_tick \in Int /\ wait_until \in Int
    /\ readyQueue \in Seq(Procs) /\ currProcess \in Procs \cup {NoOne}
    /\ context_switch_until \in Int /\ receivingProcesses \in BOOLEAN
    /\ pcb \in [Procs -> PCBRec]
    /\ perf \in [num_procs: Nat, first_arrival: Int, total_runtime: Nat, finish_time: Int,
                 waiting: Int]
    /\ lastGrant \in [to: Procs \cup {NoOne}, at: Int]

Reaped(p) == pcb[p].state = "F"

Received(p) == \A i \in DOMAIN g_queue : g_queue[i] # p

\* Every process that arrived and did not finish is in exactly one place, once:
\* on its way in the message queue, in the ready queue, or running.
QueuesPartition ==
    LET places == readyQueue \o msgq.arrived
                  \o (IF currProcess = NoOne THEN <<>> ELSE <<currProcess>>)
    IN  /\ IsInjective(places)
        /\ ToSet(places) =
             {p \in ToSet(workload.order) : Received(p) /\ pcb[p].state # "F"}

\* Only the current process can take the permit of the tick: all others that
\* were started are stopped or dead.
OnlyCurrentRuns ==
    \A p \in Procs : p # currProcess => child[p].pc \in {"none", "dead"} \/ child[p].stopped

\* The ready queue is in order of priority and, within a priority, of arrival,
\* also where enqueue_priority compares with the front by priority alone and
\* after a preempted process, older than those in the queue, comes back.
PriorityOrder ==
    \A i, j \in DOMAIN readyQueue : i < j =>
        Precedes(readyQueue[i], readyQueue[j], workload.priority, workload.arrival)

\* Each process is where the queues and its child's signals say it is, and the
\* ready queue is in order.
ProcessesInPlace == QueuesPartition /\ OnlyCurrentRuns /\ PriorityOrder

\* Whenever a tick is granted, no process that has arrived by then and still has
\* work to do has a better priority, whether the scheduler has read its message
\* or not.
GrantToHighest ==
    [][lastGrant' # lastGrant =>
        \A p \in ToSet(workload.order) :
            workload.arrival[p] <= clk /\ pcb[p].state # "F" =>
                workload.priority[lastGrant'.to] <= workload.priority[p]]_hpfvars

\* A process that finishes has run for its whole runtime and has been charged
\* for every other tick since it arrived.
AccountingAtFinish ==
    \A p \in Procs : pcb[p].state = "F" =>
        /\ pcb[p].finish_time - workload.arrival[p] =
              workload.runtime[p] + pcb[p].waiting_time
        /\ pcb[p].remaining_time = 0

\* A tick of CPU is left unused between the ticks of two different processes.
ContextSwitchCosts ==
    [][lastGrant'.to # lastGrant.to /\ lastGrant.to # NoOne =>
            lastGrant'.at >= lastGrant.at + 2]_hpfvars

\* Every tick goes to the right process, and a switch costs one.
TicksGranted == GrantToHighest /\ ContextSwitchCosts

\* The report counts each process once, and the CPU cannot have been busy for
\* longer than the simulation ran.
PerfConsistent ==
    /\ perf.num_procs = Cardinality({p \in Procs : pcb[p].state = "F"})
    /\ perf.num_procs > 0 => perf.total_runtime <= perf.finish_time - perf.first_arrival
    /\ pc = "exited" => perf.num_procs = Len(workload.order)

\* Time adds up in the PCBs and in the report.
Accounting == AccountingAtFinish /\ PerfConsistent

\* The scheduler shares its one CPU as module CPUSharing says: through fork,
\* SIGSTOP, SIGCONT and permits a process gets its runtime, alone, and is finished
\* when it has had it.
Sharing == INSTANCE CPUSharing WITH
    CPUs    <- {1},
    Nobody  <- NoOne,
    runtime <- workload.runtime,
    present <- {p \in Procs : p \in ToSet(readyQueue) \/ p = currProcess \/ Reaped(p)},
    running <- [c \in {1} |-> currProcess],
    used    <- [p \in Procs |-> IF child[p].pc = "none" THEN 0
                                ELSE workload.runtime[p] - child[p].remainingtime],
    done    <- {p \in Procs : Reaped(p)}

SharesTheCPU == Sharing!SharingSpec

\* Every simulation ends, with all of its processes done: no process starves
\* although nothing ages.
Terminates == <>(g_pc = "exited" /\ \A p \in ToSet(workload.order) : pcb[p].state = "F")

-----------------------------------------------------------------------------
(* What the README says of this algorithm and the code does not do.        *)

\* "Decrements remaining time each tick via shared memory [...] and signals the
\* scheduler upon completion" (README.md:75): a process that the scheduler
\* records as finished has no time remaining.
FinishedIsComplete == \A p \in Procs : pcb[p].state = "F" => pcb[p].remaining_time = 0

=============================================================================
