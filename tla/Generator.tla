------------------------------ MODULE Generator ------------------------------
(***************************************************************************)
(* The main loop of process_generator.c, which every simulation shares: in *)
(* each tick it sends the processes that have arrived and then a tick      *)
(* message; after the last process it sends an end message, waits for the  *)
(* scheduler to exit and stops the clock.                                  *)
(*                                                                         *)
(* The schedulers receive with msgrcv(-5), which takes the lowest message  *)
(* type present: msgq keeps the arrivals (type 1), the tick messages (2)   *)
(* and the end (5) apart, each in the order sent.                          *)
(***************************************************************************)
EXTENDS Integers, Sequences

VARIABLES
    clk,       \* the shared clock
    workload,  \* the input files: order and arrival are read here
    g_pc,      \* the statement of the main loop that runs next
    g_queue,   \* the processes not sent yet, in the order of the input file
    g_now,     \* currentTime
    lastTime,
    msgq       \* the queue to the scheduler

NoMessage == [arrived |-> <<>>, sync |-> <<>>, end |-> FALSE]

GenInit ==
    /\ g_pc = "poll" /\ g_queue = workload.order /\ g_now = -1 /\ lastTime = -1
    /\ msgq = NoMessage

GenPoll ==
    /\ g_pc = "poll" /\ g_queue # <<>> /\ clk # lastTime
    /\ g_now' = clk
    /\ g_pc' = "send"
    /\ UNCHANGED <<g_queue, lastTime, msgq>>

\* Only the head of the queue is looked at: a process behind one that arrives
\* later is sent with it.
Arrived == g_queue # <<>> /\ workload.arrival[Head(g_queue)] <= g_now

GenSend ==
    /\ g_pc = "send" /\ Arrived
    /\ msgq' = [msgq EXCEPT !.arrived = Append(@, Head(g_queue))]
    /\ g_queue' = Tail(g_queue)
    /\ UNCHANGED <<g_pc, g_now, lastTime>>

GenSync ==
    /\ g_pc = "send" /\ ~Arrived
    /\ msgq' = [msgq EXCEPT !.sync = Append(@, g_now)]
    /\ lastTime' = g_now
    /\ g_pc' = "poll"
    /\ UNCHANGED <<g_queue, g_now>>

GenEnd ==
    /\ g_pc = "poll" /\ g_queue = <<>>
    /\ msgq' = [msgq EXCEPT !.end = TRUE]
    /\ g_pc' = "waitpid"
    /\ UNCHANGED <<g_queue, g_now, lastTime>>

\* waitpid(scheduler_pid) has returned: the clock is killed.
GenShutdown(exited) ==
    /\ g_pc = "waitpid" /\ exited
    /\ g_pc' = "exited"
    /\ UNCHANGED <<g_queue, g_now, lastTime, msgq>>

GenStep(exited) == GenPoll \/ GenSend \/ GenSync \/ GenEnd \/ GenShutdown(exited)

GeneratorWaits(exited) ==
    \/ g_pc = "poll" /\ g_queue # <<>> /\ clk = lastTime
    \/ g_pc = "waitpid" /\ ~exited

=============================================================================
