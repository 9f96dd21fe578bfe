------------------------------- MODULE DualCPU -------------------------------
(***************************************************************************)
(* The dual-CPU run of the simulator (algorithm 3): clock, generator (of   *)
(* module Generator), the scheduler of src/scheduler as a dispatcher, two  *)
(* sub-schedulers, and one child per process.                              *)
(*                                                                         *)
(* The dispatcher routes each process to a sub-scheduler by message and,   *)
(* every N ticks, compares the loads that the sub-schedulers publish in    *)
(* shared memory: when they differ by more than M it takes a process from  *)
(* one (SIGURG, answered by message), sends it to the other, and stalls    *)
(* both for three ticks (SIGUSR2).  A semaphore, the gate, keeps the       *)
(* sub-schedulers from starting a tick before the dispatcher is done with  *)
(* it.                                                                     *)
(*                                                                         *)
(* The handlers of a sub-scheduler run between any two of its steps, but   *)
(* not in the middle of an operation on its ready queue: LinkedQueue       *)
(* models what happens there.  Nor do they run between the end of a stall  *)
(* and the tick granted after it: the dispatcher sends its signals before  *)
(* it opens the gate, and the frame left over from a stall does neither.   *)
(* The children run process.c.                                             *)
(***************************************************************************)
EXTENDS QueueLoops, SequencesExt, Integers, FiniteSets

CONSTANTS
    Procs,     \* the processes
    Ghost,     \* the process that an answer of all zeros describes
    Workloads, \* the input files and parameters considered, one is chosen initially
    MaxClk     \* bound on the clock

NoOne == -1

CPUs == {1, 2}

AllProcs == Procs \cup {Ghost}

ASSUME DualAssumption ==
    /\ NoOne \notin AllProcs /\ Ghost \notin Procs
    /\ MaxClk \in Nat
    /\ \A w \in Workloads :
          /\ w.order \in Seq(Procs) /\ IsInjective(w.order)
          /\ w.arrival \in [Procs -> Nat]
          /\ w.runtime \in [Procs -> Nat \ {0}]
          /\ w.N \in Nat \ {0} /\ w.M \in Nat /\ w.prompt \in BOOLEAN

VARIABLES
    clk, workload,
    g_pc, g_queue, g_now, lastTime, msgq, \* the generator
    child,                                \* the children
    sem, shmRT, processFinished,          \* of each CPU: shared with its children
    load,        \* shared: number ready and remaining time of each CPU
    gate,        \* threshold_sem
    submsg,      \* the queue from the dispatcher to each sub-scheduler
    resp,        \* the queue from the sub-schedulers to the dispatcher
    urg, usr2,   \* the sub-schedulers that SIGURG and SIGUSR2 are pending for
    pc, now, readyQueue, receivingProcesses, term_sent, subs_terminated,
    wait_sub, stalled, wait_until,        \* the dispatcher
    projected,   \* its copy of the load
    sub, pcb,                             \* the sub-schedulers
    perf,        \* the report of each sub-scheduler
    movedAt      \* history: when a process was last moved

INSTANCE Generator

genvars == <<g_pc, g_queue, g_now, lastTime>>
childvars == <<child, sem, shmRT, processFinished>>
msgvars == <<submsg, resp, urg, usr2>>
inputvars == <<readyQueue, receivingProcesses>>
endvars == <<term_sent, subs_terminated, wait_sub>>
stallvars == <<stalled, wait_until, movedAt>>
mainvars == <<pc, now, inputvars, endvars, stallvars, projected>>
subvars == <<sub, pcb, perf>>
dualvars == <<clk, workload, genvars, msgq, childvars, load, gate, msgvars, mainvars, subvars>>

Generator ==
    /\ GenStep(pc = "exited")
    /\ UNCHANGED <<clk, workload, childvars, load, gate, msgvars, mainvars, subvars>>

\* The types of the messages to a sub-scheduler and from it.
MTYPE_NEW_PROCESS == 1
MTYPE_TERMINATE == 5
MTYPE_ACK == 6
MTYPE_STEAL_RESPONSE == 11
MTYPE_STEAL_EMPTY == 12

Msg(t, p) == [mtype |-> t, proc |-> p]

Runtime(p) == IF p = Ghost THEN 0 ELSE workload.runtime[p]

Arrival(p) == IF p = Ghost THEN 0 ELSE workload.arrival[p]

\* The parameters: the loads are compared every N ticks, and a process is moved
\* when they differ by more than M.
N == workload.N
M == workload.M

\* A timing assumption: no tick falls into the middle of a sub-scheduler's
\* publishing of its load.
Prompt == workload.prompt

Other(c) == 3 - c

NoLoad == [c \in CPUs |-> [count |-> 0, rt |-> 0]]

-----------------------------------------------------------------------------
(* A child: process.c.  A stopped child takes no step.                     *)

NoChild == [pc |-> "none", cpu |-> 1, stopped |-> FALSE, remainingtime |-> 0]

Runs(p, at) == child[p].pc = at /\ ~child[p].stopped

\* Mutants: the child goes on for a tick too many; it exits without SIGUSR1.
AfterTickLate(left) == IF left >= 0 THEN "down" ELSE "signal"

AfterTickSilent(left) == IF left > 0 THEN "down" ELSE "dead"

AfterTick(left) == IF left > 0 THEN "down" ELSE "signal"

\* down() and the work of a tick.
ChildTick(p) ==
    /\ Runs(p, "down") /\ sem[child[p].cpu] > 0
    /\ sem' = [sem EXCEPT ![child[p].cpu] = @ - 1]
    /\ LET left == child[p].remainingtime - 1
       IN  /\ shmRT' = [shmRT EXCEPT ![child[p].cpu] = left]
           /\ child' = [child EXCEPT ![p].remainingtime = left, ![p].pc = AfterTick(left)]
    /\ UNCHANGED processFinished

ChildExit(p) ==
    /\ Runs(p, "signal")
    /\ processFinished' = [processFinished EXCEPT ![child[p].cpu] = TRUE]
    /\ child' = [child EXCEPT ![p].pc = "dead"]
    /\ UNCHANGED <<sem, shmRT>>

Child(p) ==
    /\ ChildTick(p) \/ ChildExit(p)
    /\ UNCHANGED <<clk, workload, genvars, msgq, load, gate, msgvars, mainvars, subvars>>

-----------------------------------------------------------------------------
(* The dispatcher: one iteration of its main loop per tick.                *)

Goto(l) == pc' = l

Busy == readyQueue # <<>> \/ receivingProcesses \/ wait_sub # 0 \/ subs_terminated < 2

AckMsg == Msg(MTYPE_ACK, Ghost)

Acks == {i \in DOMAIN resp : resp[i] = AckMsg}

\* msgrcv for this type alone.
CountAcks ==
    /\ subs_terminated' = subs_terminated + Cardinality(Acks)
    /\ resp' = InOrder(resp, ToSet(resp) \ {AckMsg})

\* While it spins for the next tick.
SpinAcks ==
    /\ pc = "spin" /\ Busy /\ clk = now /\ Acks # {}
    /\ CountAcks
    /\ UNCHANGED <<pc, now, inputvars, term_sent, wait_sub, stallvars, projected, msgq, load,
                   gate, submsg, urg, usr2, subvars>>

NewTick ==
    /\ pc = "spin" /\ Busy /\ clk # now
    /\ CountAcks
    /\ now' = clk
    /\ gate' = 0
    /\ Goto(IF receivingProcesses THEN "receive" ELSE "algo")
    /\ UNCHANGED <<inputvars, term_sent, wait_sub, stallvars, projected, msgq, load, submsg,
                   urg, usr2, subvars>>

ReceiveProcess ==
    /\ pc = "receive" /\ msgq.arrived # <<>>
    /\ readyQueue' = Append(readyQueue, Head(msgq.arrived))
    /\ msgq' = [msgq EXCEPT !.arrived = Tail(@)]
    /\ UNCHANGED <<pc, now, receivingProcesses, endvars, stallvars, projected, load, gate,
                   msgvars, subvars>>

ReceiveSync ==
    /\ pc = "receive" /\ msgq.arrived = <<>> /\ msgq.sync # <<>>
    /\ IF Head(msgq.sync) >= now THEN Goto("algo") ELSE UNCHANGED pc
    /\ msgq' = [msgq EXCEPT !.sync = Tail(@)]
    /\ UNCHANGED <<now, inputvars, endvars, stallvars, projected, load, gate, msgvars,
                   subvars>>

ReceiveEnd ==
    /\ pc = "receive" /\ msgq.arrived = <<>> /\ msgq.sync = <<>> /\ msgq.end
    /\ msgq' = [msgq EXCEPT !.end = FALSE]
    /\ receivingProcesses' = FALSE
    /\ Goto("algo")
    /\ UNCHANGED <<now, readyQueue, endvars, stallvars, projected, load, gate, msgvars,
                   subvars>>

\* FCFS_algo: the processes received are routed by a copy of the loads.
Algo ==
    /\ pc = "algo"
    /\ Goto(IF now = 0 THEN "after" ELSE IF readyQueue = <<>> THEN "threshold" ELSE "route")
    /\ projected' = IF now > 0 /\ readyQueue # <<>> THEN load ELSE NoLoad
    /\ UNCHANGED <<now, inputvars, endvars, stallvars, msgq, load, gate, msgvars, subvars>>

LighterReady == IF projected[1].count <= projected[2].count THEN 1 ELSE 2

Added(l, c, p) == [l EXCEPT ![c] = [count |-> @.count + 1, rt |-> @.rt + Runtime(p)]]

Sent(c, m) == [submsg EXCEPT ![c] = Append(@, m)]

Route ==
    /\ pc = "route" /\ readyQueue # <<>>
    /\ LET p == Head(readyQueue)
       IN  /\ submsg' = Sent(LighterReady, Msg(MTYPE_NEW_PROCESS, p))
           /\ projected' = Added(projected, LighterReady, p)
    /\ readyQueue' = Tail(readyQueue)
    /\ UNCHANGED <<pc, now, receivingProcesses, endvars, stallvars, msgq, load, gate, resp,
                   urg, usr2, subvars>>

\* Mutant: the sub-schedulers are left to publish the change.
NotPublished(l) == load

Published(l) == l

PublishRoutes ==
    /\ pc = "route" /\ readyQueue = <<>>
    /\ load' = Published(projected)
    /\ projected' = NoLoad
    /\ Goto("threshold")
    /\ UNCHANGED <<now, inputvars, endvars, stallvars, msgq, gate, msgvars,
                   subvars>>

\* check_threshold.
Diff == IF load[1].rt > load[2].rt THEN load[1].rt - load[2].rt ELSE load[2].rt - load[1].rt

Busier(l) == IF l[1].rt > l[2].rt THEN 1 ELSE 2

CheckDue == clk % N = 0 \/ stalled

Check ==
    /\ pc = "threshold" /\ CheckDue /\ Diff > M
    /\ stalled' = TRUE
    /\ projected' = load
    /\ urg' = urg \cup {Busier(load)}
    /\ Goto("steal")
    /\ UNCHANGED <<now, inputvars, endvars, wait_until, movedAt, msgq, load, gate, submsg,
                   resp, usr2, subvars>>

NoCheck ==
    /\ pc = "threshold" /\ (~CheckDue \/ Diff <= M)
    /\ stalled' = (stalled /\ ~CheckDue)
    /\ Goto("open")
    /\ UNCHANGED <<now, inputvars, endvars, wait_until, projected, movedAt, msgq, load, gate,
                   msgvars, subvars>>

NothingStolen ==
    /\ pc = "steal" /\ resp # <<>> /\ Head(resp).mtype = MTYPE_STEAL_EMPTY
    /\ resp' = Tail(resp)
    /\ projected' = NoLoad
    /\ Goto("open")
    /\ UNCHANGED <<now, inputvars, endvars, stallvars, msgq, load, gate, submsg,
                   urg, usr2, subvars>>

NotBelow0(n) == IF n < 0 THEN 0 ELSE n

Removed(l, c, p) ==
    [l EXCEPT ![c] = [count |-> NotBelow0(@.count - 1), rt |-> NotBelow0(@.rt - Runtime(p))]]

\* Any other message is taken for the process asked for.
Stolen ==
    /\ pc = "steal" /\ resp # <<>> /\ Head(resp).mtype # MTYPE_STEAL_EMPTY
    /\ LET p == Head(resp).proc
           b == Busier(projected)
       IN  /\ submsg' = Sent(Other(b), Msg(MTYPE_NEW_PROCESS, p))
           /\ projected' = Added(Removed(projected, b, p), Other(b), p)
    /\ resp' = Tail(resp)
    /\ Goto("moved")
    /\ UNCHANGED <<now, inputvars, endvars, stallvars, msgq, load, gate, urg, usr2, subvars>>

\* Mutant: wait_N_secs(4, N).
PenaltyLonger == 4

\* The ticks both CPUs lose by a move.
Penalty == 3

PublishMove ==
    /\ pc = "moved"
    /\ load' = projected /\ projected' = NoLoad
    /\ usr2' = CPUs
    /\ wait_until' = clk + Penalty
    /\ movedAt' = clk
    /\ Goto("wait")
    /\ UNCHANGED <<now, inputvars, endvars, stalled, msgq, gate, submsg, resp, urg,
                   subvars>>

WaitOver ==
    /\ pc = "wait" /\ clk >= wait_until
    /\ Goto("open")
    /\ UNCHANGED <<now, inputvars, endvars, stallvars, projected, msgq, load, gate, msgvars,
                   subvars>>

\* semctl(SETVAL, 2): who sleeps in down() takes a permit at once.
OpenGate ==
    LET asleep == {c \in CPUs : sub[c].pc = "gate"}
    IN  /\ sub' = [c \in CPUs |-> IF c \in asleep THEN [sub[c] EXCEPT !.pc = "frame"] ELSE sub[c]]
        /\ gate' = 2 - Cardinality(asleep)

Open ==
    /\ pc = "open"
    /\ OpenGate
    /\ Goto("after")
    /\ UNCHANGED <<now, inputvars, endvars, stallvars, projected, msgq, load, msgvars, pcb, perf>>

\* The sub-schedulers are told of the end when there is nothing left to route.
After ==
    /\ pc = "after"
    /\ wait_sub' = load[1].rt + load[2].rt
    /\ IF ~receivingProcesses /\ ~term_sent
       THEN /\ submsg' = [c \in CPUs |-> Append(submsg[c], Msg(MTYPE_TERMINATE, Ghost))]
            /\ term_sent' = TRUE
       ELSE UNCHANGED <<submsg, term_sent>>
    /\ Goto("spin")
    /\ UNCHANGED <<now, inputvars, subs_terminated, stallvars, projected, msgq, load, gate,
                   resp, urg, usr2, subvars>>

Leave ==
    /\ pc = "spin" /\ ~Busy
    /\ OpenGate
    /\ Goto("waitpid")
    /\ UNCHANGED <<now, inputvars, endvars, stallvars, projected, msgq, load, msgvars, pcb, perf>>

Exit ==
    /\ pc = "waitpid" /\ \A c \in CPUs : sub[c].pc = "exited"
    /\ Goto("exited")
    /\ UNCHANGED <<now, inputvars, endvars, stallvars, projected, msgq, load, gate, msgvars,
                   subvars>>

Dispatcher ==
    /\ \/ SpinAcks \/ NewTick \/ ReceiveProcess \/ ReceiveSync \/ ReceiveEnd
       \/ Algo \/ Route \/ PublishRoutes \/ Check \/ NoCheck \/ NothingStolen \/ Stolen
       \/ PublishMove \/ WaitOver \/ Open \/ After \/ Leave \/ Exit
    /\ UNCHANGED <<clk, workload, genvars, childvars>>

-----------------------------------------------------------------------------
(* A sub-scheduler: one frame of its main loop per tick.  Between the      *)
(* frames it spins: it takes its messages and publishes its load.          *)

NewPCB(p) == [state |-> "W", forked |-> FALSE, start_time |-> -1, finish_time |-> -1,
              last_stopped |-> -1, waiting_time |-> 0, remaining_time |-> Runtime(p)]

\* The messages that a loop on msgrcv(IPC_NOWAIT) takes: all, or those up to the
\* end message.
EndAt(c) ==
    LET ends == {i \in DOMAIN submsg[c] : submsg[c][i].mtype = MTYPE_TERMINATE}
    IN  IF ends = {} THEN 0 ELSE Min(ends)

Taken(c) == IF EndAt(c) = 0 THEN Len(submsg[c]) ELSE EndAt(c)

\* Each of them but the end message brings a process.
NewProcs(c) ==
    [i \in 1..(IF EndAt(c) = 0 THEN Taken(c) ELSE Taken(c) - 1) |-> submsg[c][i].proc]

\* The sub-scheduler and the PCBs after such a loop.
Drained(c) == [sub[c] EXCEPT !.ready = @ \o NewProcs(c), !.receiving = @ /\ EndAt(c) = 0]

DrainedPCB(c) == [p \in AllProcs |-> IF p \in ToSet(NewProcs(c)) THEN NewPCB(p) ELSE pcb[p]]

DrainMessages(c) == submsg' = [submsg EXCEPT ![c] = SubSeq(@, Taken(c) + 1, Len(@))]

NoteFirstArrival(c) ==
    perf' = IF perf[c].first_arrival = -1 /\ NewProcs(c) # <<>>
            THEN [perf EXCEPT ![c].first_arrival = Arrival(Head(NewProcs(c)))] ELSE perf

Remaining(q, pcbs) == Total(q, [p \in AllProcs |-> pcbs[p].remaining_time])

RunningRT(c) == IF sub[c].curr = NoOne THEN 0 ELSE NotBelow0(shmRT[c])

\* What update_load_shm computes.
LoadOf(c, q, pcbs) == [count |-> Len(q), rt |-> Remaining(q, pcbs) + RunningRT(c)]

SubBusy(c) ==
    \/ sub[c].ready # <<>> \/ sub[c].receiving \/ sub[c].curr # NoOne \/ sub[c].remaining # 0

SubGoto(c, l) == sub' = [sub EXCEPT ![c].pc = l]

NothingNew(c) == submsg[c] = <<>> /\ load[c] = LoadOf(c, sub[c].ready, pcb)

\* update_load_shm computes the load first and takes the semaphore to write it.
\* With Prompt, an iteration that changes nothing is a stuttering step.
Spin(c) ==
    /\ sub[c].pc = "loop" /\ SubBusy(c) /\ clk = sub[c].last_tick
    /\ Prompt => ~NothingNew(c)
    /\ DrainMessages(c) /\ NoteFirstArrival(c)
    /\ pcb' = DrainedPCB(c)
    /\ sub' = [sub EXCEPT ![c] =
                 [Drained(c) EXCEPT !.pc = "spin",
                                    !.pub = LoadOf(c, Drained(c).ready, DrainedPCB(c))]]
    /\ UNCHANGED <<childvars, load, gate, resp, urg, usr2>>

Publish(c, from, to) ==
    /\ sub[c].pc = from
    /\ load' = [load EXCEPT ![c] = sub[c].pub]
    /\ sub' = [sub EXCEPT ![c].pc = to, ![c].pub = NoLoad[c]]
    /\ UNCHANGED <<childvars, gate, submsg, resp, urg, usr2, pcb, perf>>

SubNewTick(c) ==
    /\ sub[c].pc = "loop" /\ SubBusy(c) /\ clk # sub[c].last_tick
    /\ DrainMessages(c) /\ NoteFirstArrival(c)
    /\ pcb' = DrainedPCB(c)
    /\ sub' = [sub EXCEPT ![c] = [Drained(c) EXCEPT
                 !.pc = IF processFinished[c] THEN "finish" ELSE "down", !.now = clk]]
    /\ UNCHANGED <<childvars, load, gate, resp, urg, usr2>>

\* finishLogic, which waits for the child.
SubFinish(c) ==
    /\ sub[c].pc = "finish" /\ child[sub[c].curr].pc = "dead"
    /\ LET p == sub[c].curr
           t == sub[c].now
       IN  /\ pcb' = [pcb EXCEPT ![p] = [@ EXCEPT !.finish_time = t, !.remaining_time = 0,
                                                  !.state = "F"]]
           /\ perf' = [perf EXCEPT ![c].num_procs = @ + 1,
                                  ![c].waiting = @ + pcb[p].waiting_time,
                                  ![c].total_runtime = @ + Runtime(p),
                                  ![c].finish_time = t]
           /\ sub' = [sub EXCEPT ![c] = [@ EXCEPT !.curr = NoOne, !.pc = "down",
                                                  !.csu = t + 1]]
    /\ processFinished' = [processFinished EXCEPT ![c] = FALSE]
    /\ UNCHANGED <<child, sem, shmRT, load, gate, submsg, resp, urg, usr2>>

\* Mutant: the gate is not waited for.
PassesAlways(c) == TRUE

\* In tick 0 no permit is taken.
PassesFreely(c) == sub[c].now = 0

\* Without a permit the sub-scheduler sleeps.
DownGate(c) ==
    /\ sub[c].pc = "down"
    /\ IF PassesFreely(c) THEN SubGoto(c, "frame") /\ UNCHANGED gate
       ELSE IF gate > 0 THEN SubGoto(c, "frame") /\ gate' = gate - 1
       ELSE SubGoto(c, "gate") /\ UNCHANGED gate
    /\ UNCHANGED <<childvars, load, submsg, resp, urg, usr2, pcb, perf>>

StallOver(c) == sub[c].stalled /\ sub[c].now >= sub[c].stall_end

\* Mutant: the time of the stall is not charged.
NotCharged(c, p) == pcb[p]

Charged(c, p) ==
    IF pcb[p].last_stopped < 0 THEN pcb[p]
    ELSE [pcb[p] EXCEPT !.waiting_time = @ + sub[c].now - pcb[p].last_stopped]

\* After the gate: the messages sent in this tick, and the end of a stall.
Frame(c) ==
    /\ sub[c].pc = "frame"
    /\ DrainMessages(c) /\ NoteFirstArrival(c)
    /\ sub' = [sub EXCEPT ![c] = [Drained(c) EXCEPT
                 !.pc = "dispatch", !.last_tick = sub[c].now,
                 !.stalled = sub[c].stalled /\ ~StallOver(c)]]
    /\ IF StallOver(c) /\ sub[c].curr # NoOne
       THEN /\ pcb' = [DrainedPCB(c) EXCEPT ![sub[c].curr] =
                         [Charged(c, sub[c].curr) EXCEPT !.state = "R"]]
            /\ child' = [child EXCEPT ![sub[c].curr].stopped = FALSE]
       ELSE pcb' = DrainedPCB(c) /\ UNCHANGED child
    /\ UNCHANGED <<sem, shmRT, processFinished, load, gate, resp, urg, usr2>>

\* Mutant: the tick of the context switch is not waited for.
SwitchesAtOnce(c) ==
    sub[c].curr = NoOne /\ sub[c].ready # <<>> /\ ~sub[c].stalled /\ sub[c].now > 0

CanDispatch(c) ==
    /\ sub[c].curr = NoOne /\ sub[c].ready # <<>> /\ ~sub[c].stalled
    /\ sub[c].now >= sub[c].csu /\ sub[c].now > 0

\* Mutant: the process stays in the queue.
LeftInQueue(q) == q

Rest(q) == Tail(q)

\* runProcess, which the sub-scheduler calls once for a process: the child starts.
RunProcess(c, p) ==
    LET left == pcb[p].remaining_time
    IN  /\ shmRT' = [shmRT EXCEPT ![c] = left]
        /\ pcb' = [pcb EXCEPT ![p] =
             [@ EXCEPT !.state = "R", !.forked = TRUE, !.start_time = sub[c].now,
                       !.waiting_time = sub[c].now - Arrival(p)]]
        /\ child' = [child EXCEPT ![p] = [pc |-> AfterTick(left), cpu |-> c,
                                          stopped |-> FALSE, remainingtime |-> left]]

\* FCFS_algo, and the tick granted.
SubDispatch(c) ==
    /\ sub[c].pc = "dispatch" /\ CanDispatch(c)
    /\ sub' = [sub EXCEPT ![c] = [@ EXCEPT !.pc = "compute", !.curr = Head(sub[c].ready),
                                           !.csu = -1, !.ready = Rest(sub[c].ready)]]
    /\ load' = [load EXCEPT ![c] = [count |-> Len(sub[c].ready) - 1,
                                    rt |-> Remaining(sub[c].ready, pcb)]]
    /\ RunProcess(c, Head(sub[c].ready))
    /\ sem' = [sem EXCEPT ![c] = 1]
    /\ UNCHANGED <<processFinished, gate, submsg, resp, urg, usr2, perf>>

NoDispatch(c) ==
    /\ sub[c].pc = "dispatch" /\ ~CanDispatch(c)
    /\ sem' = IF sub[c].curr # NoOne /\ ~sub[c].stalled THEN [sem EXCEPT ![c] = 1] ELSE sem
    /\ SubGoto(c, "compute")
    /\ UNCHANGED <<child, shmRT, processFinished, load, gate, submsg, resp, urg, usr2, pcb, perf>>

Compute(c, from, to) ==
    /\ sub[c].pc = from
    /\ sub' = [sub EXCEPT ![c].pc = to, ![c].pub = LoadOf(c, sub[c].ready, pcb)]
    /\ UNCHANGED <<childvars, load, gate, submsg, resp, urg, usr2, pcb, perf>>

ReadOther(c) ==
    /\ sub[c].pc = "read"
    /\ sub' = [sub EXCEPT ![c].pc = "loop", ![c].remaining = load[Other(c)].rt]
    /\ UNCHANGED <<childvars, load, gate, submsg, resp, urg, usr2, pcb, perf>>

SubLeave(c) ==
    /\ sub[c].pc = "loop" /\ ~SubBusy(c)
    /\ SubGoto(c, "left")
    /\ UNCHANGED <<childvars, load, gate, submsg, resp, urg, usr2, pcb, perf>>

SubAck(c) ==
    /\ sub[c].pc = "ack"
    /\ resp' = Append(resp, Msg(MTYPE_ACK, Ghost))
    /\ SubGoto(c, "closing")
    /\ UNCHANGED <<childvars, load, gate, submsg, urg, usr2, pcb, perf>>

SubExit(c) ==
    /\ sub[c].pc = "closing"
    /\ SubGoto(c, "exited")
    /\ UNCHANGED <<childvars, load, gate, submsg, resp, urg, usr2, pcb, perf>>

-----------------------------------------------------------------------------
(* The handlers of a sub-scheduler.  A signal to one that has exited has   *)
(* no effect.                                                              *)

\* steal_handler: the rear of the ready queue goes to the dispatcher.
\* Mutant: the process is also kept.
AllOf(q) == q

AllButLast(q) == Front(q)

OnSIGURG(c) ==
    /\ c \in urg /\ sub[c].pc # "exited"
    /\ urg' = urg \ {c}
    /\ DrainMessages(c)
    /\ pcb' = DrainedPCB(c)
    /\ LET q == Drained(c).ready
       IN  IF q = <<>>
           THEN /\ sub' = [sub EXCEPT ![c] = Drained(c)]
                /\ resp' = Append(resp, Msg(MTYPE_STEAL_EMPTY, Ghost))
           ELSE /\ sub' = [sub EXCEPT ![c] = [Drained(c) EXCEPT !.ready = AllButLast(q)]]
                /\ resp' = Append(resp, Msg(MTYPE_STEAL_RESPONSE, Last(q)))
    /\ UNCHANGED <<childvars, load, gate, usr2, perf>>

\* stall_sig stops the running process, if the CPU was not stalled already.
StallEnd == clk + 3

OnSIGUSR2(c) ==
    /\ c \in usr2 /\ sub[c].pc # "exited"
    /\ usr2' = usr2 \ {c}
    /\ DrainMessages(c) /\ NoteFirstArrival(c)
    /\ sub' = [sub EXCEPT ![c] = [Drained(c) EXCEPT !.stalled = TRUE, !.stall_end = StallEnd]]
    /\ IF ~sub[c].stalled /\ sub[c].curr # NoOne
       THEN /\ pcb' = [DrainedPCB(c) EXCEPT ![sub[c].curr] =
                         [@ EXCEPT !.last_stopped = clk, !.state = "W",
                                   !.remaining_time = shmRT[c]]]
            /\ child' = [child EXCEPT ![sub[c].curr].stopped = TRUE]
       ELSE pcb' = DrainedPCB(c) /\ UNCHANGED child
    /\ UNCHANGED <<sem, shmRT, processFinished, load, gate, resp, urg>>

Handler(c) ==
    /\ OnSIGURG(c) \/ OnSIGUSR2(c)
    /\ UNCHANGED <<clk, workload, genvars, msgq, mainvars>>

SubScheduler(c) ==
    /\ \/ Spin(c) \/ Publish(c, "spin", "loop") \/ SubNewTick(c) \/ SubFinish(c)
       \/ DownGate(c) \/ Frame(c) \/ SubDispatch(c) \/ NoDispatch(c)
       \/ Compute(c, "compute", "write") \/ Publish(c, "write", "read") \/ ReadOther(c)
       \/ SubLeave(c) \/ Compute(c, "left", "last") \/ Publish(c, "last", "ack")
       \/ SubAck(c) \/ SubExit(c)
    /\ UNCHANGED <<clk, workload, genvars, msgq, mainvars>>

-----------------------------------------------------------------------------
(* The clock.  A tick lasts a second and the work between two waits takes  *)
(* microseconds: the clock advances only when all processes wait, for it   *)
(* or for each other.  A sub-scheduler that spins is anywhere in its loop, *)
(* or with Prompt between two iterations.                                  *)

DispatcherWaits ==
    \/ pc = "spin" /\ Busy /\ clk = now /\ Acks = {}
    \/ pc = "receive" /\ msgq = NoMessage
    \/ pc = "steal" /\ resp = <<>>
    \/ pc = "wait" /\ clk < wait_until
    \/ pc = "waitpid" /\ \E c \in CPUs : sub[c].pc # "exited"
    \/ pc = "exited"

Spinning(c) ==
    /\ sub[c].last_tick = clk
    /\ \/ sub[c].pc = "loop" /\ SubBusy(c) /\ NothingNew(c)
       \/ sub[c].pc = "spin" /\ ~Prompt

SubWaits(c) ==
    \/ sub[c].pc = "exited"
    \/ (sub[c].pc = "gate" \/ Spinning(c)) /\ c \notin urg \cup usr2

ChildWaits(p) ==
    \/ child[p].pc \in {"none", "dead"}
    \/ child[p].stopped
    \/ child[p].pc = "down" /\ sem[child[p].cpu] = 0

ClockTick ==
    /\ g_pc # "exited" /\ clk < MaxClk
    /\ GeneratorWaits(pc = "exited") /\ DispatcherWaits
    /\ \A c \in CPUs : SubWaits(c)
    /\ \A p \in AllProcs : ChildWaits(p)
    /\ clk' = clk + 1
    /\ UNCHANGED <<workload, genvars, msgq, childvars, load, gate, msgvars, mainvars, subvars>>

Terminated == g_pc = "exited" /\ UNCHANGED dualvars

IdleSub == [pc |-> "loop", now |-> -1, last_tick |-> -1, ready |-> <<>>, curr |-> NoOne,
            receiving |-> TRUE, csu |-> -1, stalled |-> FALSE, stall_end |-> -1,
            remaining |-> 0, pub |-> NoLoad[1]]

DualInit ==
    /\ clk = 0
    /\ workload \in Workloads
    /\ GenInit
    /\ child = [p \in AllProcs |-> NoChild]
    /\ sem = [c \in CPUs |-> 0] /\ shmRT = [c \in CPUs |-> 0]
    /\ processFinished = [c \in CPUs |-> FALSE]
    /\ load = NoLoad
    /\ gate = 0
    /\ submsg = [c \in CPUs |-> <<>>] /\ resp = <<>> /\ urg = {} /\ usr2 = {}
    /\ pc = "spin" /\ now = -1
    /\ readyQueue = <<>> /\ receivingProcesses = TRUE
    /\ term_sent = FALSE /\ subs_terminated = 0 /\ wait_sub = 0
    /\ stalled = FALSE /\ wait_until = -1 /\ movedAt = -1
    /\ projected = NoLoad
    /\ sub = [c \in CPUs |-> IdleSub]
    /\ pcb = [p \in AllProcs |-> NewPCB(p)]
    /\ perf = [c \in CPUs |-> [num_procs |-> 0, first_arrival |-> -1, total_runtime |-> 0,
                               finish_time |-> -1, waiting |-> 0]]

DualNext ==
    \/ ClockTick \/ Generator \/ Dispatcher \/ Terminated
    \/ \E c \in CPUs : SubScheduler(c) \/ Handler(c)
    \/ \E p \in AllProcs : Child(p)

\* Every process of the simulation keeps being scheduled by the kernel, and the
\* clock keeps ticking.
Fairness ==
    /\ WF_dualvars(ClockTick) /\ WF_dualvars(Generator) /\ WF_dualvars(Dispatcher)
    /\ \A c \in CPUs : WF_dualvars(SubScheduler(c)) /\ WF_dualvars(Handler(c))
    /\ \A p \in AllProcs : WF_dualvars(Child(p))

DualSpec == DualInit /\ [][DualNext]_dualvars

DualFairSpec == DualSpec /\ Fairness

-----------------------------------------------------------------------------
(* Properties.                                                             *)

LoadRec == [count: Nat, rt: Nat]

SubRec == [pc: {"loop", "spin", "finish", "down", "gate", "frame", "dispatch", "compute", "write",
                "read", "left", "last", "ack", "closing", "exited"},
           now: Int, last_tick: Int, ready: Seq(AllProcs), curr: AllProcs \cup {NoOne},
           receiving: BOOLEAN, csu: Int, stalled: BOOLEAN, stall_end: Int, remaining: Nat,
           pub: LoadRec]

DualTypeOK ==
    /\ clk \in 0..MaxClk /\ workload \in Workloads
    /\ child \in [AllProcs -> [pc: {"none", "down", "signal", "dead"}, cpu: CPUs,
                               stopped: BOOLEAN, remainingtime: Nat]]
    /\ sem \in [CPUs -> 0..1] /\ shmRT \in [CPUs -> Nat] /\ processFinished \in [CPUs -> BOOLEAN]
    /\ load \in [CPUs -> LoadRec] /\ projected \in [CPUs -> LoadRec]
    /\ gate \in 0..2
    /\ submsg \in [CPUs -> Seq([mtype: {1, 5}, proc: AllProcs])]
    /\ resp \in Seq([mtype: {6, 11, 12}, proc: AllProcs])
    /\ urg \subseteq CPUs /\ usr2 \subseteq CPUs
    /\ pc \in {"spin", "receive", "algo", "route", "threshold", "steal", "moved", "wait", "open",
               "after", "waitpid", "exited"}
    /\ now \in Int /\ wait_until \in Int /\ movedAt \in Int /\ wait_sub \in Nat
    /\ readyQueue \in Seq(Procs) /\ subs_terminated \in 0..2
    /\ {receivingProcesses, term_sent, stalled} \subseteq BOOLEAN
    /\ sub \in [CPUs -> SubRec]
    /\ perf \in [CPUs -> [num_procs: Nat, first_arrival: Int, total_runtime: Nat,
                          finish_time: Int, waiting: Int]]

Finished(p) == pcb[p].state = "F"

\* Where a process can be: in a message to the dispatcher, its queue, an answer to a
\* request to steal; and of each CPU, a message to the sub-scheduler, its ready queue,
\* or the CPU itself.
Locations == ({"arrived", "received", "answer"} \X {0}) \cup ({"sent", "ready", "running"} \X CPUs)

\* The processes that the messages of q carry.
Carried(q) == [i \in DOMAIN q |-> q[i].proc]

At(l) ==
    CASE l[1] = "arrived"  -> msgq.arrived
      [] l[1] = "received" -> readyQueue
      [] l[1] = "answer"   -> Carried(resp)
      [] l[1] = "sent"     -> Carried(submsg[l[2]])
      [] l[1] = "ready"    -> sub[l[2]].ready
      [] l[1] = "running"  -> IF sub[l[2]].curr = NoOne THEN <<>> ELSE <<sub[l[2]].curr>>

Slots == UNION {{l} \X DOMAIN At(l) : l \in Locations}

\* A process that was sent and did not finish is in exactly one place, once; any
\* other process is nowhere.
OnePlace ==
    \A p \in Procs :
        LET at == {s \in Slots : At(s[1])[s[2]] = p}
        IN  IF p \in ToSet(workload.order) \ ToSet(g_queue) /\ ~Finished(p)
            THEN \E s \in Slots : at = {s}
            ELSE at = {}

\* No sub-scheduler is given the process that an acknowledgement describes, which the
\* dispatcher may take for the answer to its request.
OnlyProcesses == \A c \in CPUs : Ghost \notin ToSet(sub[c].ready) \cup {sub[c].curr}

\* A process that finishes has run for its whole runtime and has been charged for
\* every other tick since it arrived, stalls and moves included.
AccountingAtFinish ==
    \A p \in Procs : Finished(p) =>
        /\ pcb[p].waiting_time >= 0
        /\ pcb[p].finish_time - workload.arrival[p] = workload.runtime[p] + pcb[p].waiting_time

\* The sum of f over the processes that have finished.
OfFinished(f) == Total(workload.order, [p \in Procs |-> IF Finished(p) THEN f[p] ELSE 0])

\* The two reports together count every process that finished, once.
ReportsAddUp ==
    /\ perf[1].num_procs + perf[2].num_procs = OfFinished([p \in Procs |-> 1])
    /\ perf[1].waiting + perf[2].waiting = OfFinished([p \in Procs |-> pcb[p].waiting_time])
    /\ perf[1].total_runtime + perf[2].total_runtime = OfFinished(workload.runtime)
    /\ \A p \in Procs : Finished(p) =>
          p \in ToSet(workload.order) /\ \E c \in CPUs : pcb[p].finish_time <= perf[c].finish_time

\* The accounting is right: a process is charged for the ticks it did not run, the
\* two reports add up, and every process that runs was sent.  The first and the last
\* rest on MovesInTime and can fail for an input that breaks it.
Accounting == AccountingAtFinish /\ ReportsAddUp /\ OnlyProcesses

\* The sub-schedulers that have left their main loop.
Ending == {"left", "last", "ack", "closing", "exited"}

\* Both sub-schedulers are in their main loops.
BothRun == \A c \in CPUs : sub[c].pc \notin Ending

\* No process is moved after a sub-scheduler has left its main loop.
MovesInTime == pc = "moved" => BothRun

\* A step that starts a tick of a sub-scheduler does so after the dispatcher's own.
StartsOpened ==
    \A c \in CPUs :
        sub[c].last_tick # sub'[c].last_tick /\ sub'[c].last_tick > 0 =>
            \/ now > sub'[c].last_tick
            \/ now = sub'[c].last_tick /\ pc \in {"after", "spin", "waitpid"}

\* As long as both sub-schedulers are in their main loops, neither starts a tick
\* before the dispatcher has routed what arrived in it and compared the loads.  When
\* one has left, the permit that it does not take lets the other start too early.
GateHolds == [][BothRun => StartsOpened]_dualvars

\* A step that ends the stall of a sub-scheduler does so three ticks after the move.
EndsOnTime == \A c \in CPUs : sub[c].stalled /\ ~sub'[c].stalled => clk = movedAt + 3

\* As long as both are in their main loops, a move costs both CPUs the same three
\* ticks, counted by three timers: that of the dispatcher and those that the handlers
\* of SIGUSR2 set.
StallLasts == [][BothRun => EndsOnTime]_dualvars

\* What is left to do on a CPU: its messages, its queue and its running process.
LeftToDo(c) ==
    Remaining(sub[c].ready, pcb) + RunningRT(c)
    + Total(Carried(submsg[c]), [p \in AllProcs |-> Runtime(p)])

LoadsTrue == \A c \in CPUs : load[c].rt = LeftToDo(c)

\* "Publish projected load so global SHM stays consistent immediately, even before
\* sub-schedulers drain their message queues": when the dispatcher compares the
\* loads, the table says what is left to do on each CPU.
LoadsAgree == pc = "threshold" => LoadsTrue

\* The same as long as both sub-schedulers are in their main loops, but for the two
\* cases in which one writes while the dispatcher routes: the frame left over from a
\* stall, and a load computed in one tick and written in the next.
LoadsAgreeUndisturbed ==
    pc = "threshold" /\ BothRun /\ Prompt /\ (movedAt < 0 \/ clk > movedAt + 3) => LoadsTrue

\* The two sub-schedulers share two CPUs as module CPUSharing says.  A process is
\* with the schedulers from the moment the dispatcher receives it, and its time is
\* what its child counts.  An acknowledgement that was taken for a process is none.
Sharing == INSTANCE CPUSharing WITH
    Nobody  <- NoOne,
    runtime <- workload.runtime,
    present <- (ToSet(workload.order) \ ToSet(g_queue)) \ ToSet(msgq.arrived),
    running <- [c \in CPUs |-> IF sub[c].curr = Ghost THEN NoOne ELSE sub[c].curr],
    used    <- [p \in Procs |-> IF child[p].pc = "none" THEN 0
                                ELSE workload.runtime[p] - child[p].remainingtime],
    done    <- {p \in Procs : Finished(p)}

SharesTheCPUs == Sharing!SharingSpec

\* The simulation runs until all processes have completed, then it ends: the two
\* sub-schedulers, the dispatcher, the generator.
Terminates == <>(g_pc = "exited" /\ \A p \in ToSet(workload.order) : Finished(p))

=============================================================================
