# A verification of the CPU scheduler simulator in TLA+

The program simulates a scheduler with real Unix processes: a clock, a
generator that announces processes as they arrive, a scheduler, and one child
process per simulated process. Three algorithms exist (round robin with a
paged memory, preemptive priority, FCFS on two CPUs). This directory holds
TLA+ models of the parts where concurrency and bookkeeping are hardest to test,
their model checking with TLC, and proofs with TLAPS.

| file | what it is |
| --- | --- |
| `MMU.tla` | the memory manager, as operators on memory states and as a specification of its own |
| `MMU_proofs.tla` | theorems about `MMU` for every value of its constants |
| `Generator.tla` | the process generator's loop, shared by the three simulations |
| `RRScheduler.tla` | clock, generator, round-robin scheduler, memory and children together |
| `HPFScheduler.tla` | clock, generator, priority scheduler and children together |
| `DualCPU.tla` | clock, generator, FCFS dispatcher, two sub-schedulers and children together |
| `CPUSharing.tla` | abstract: what every scheduler promises about the CPUs, implemented by the three above |
| `CPUSharing_proofs.tla` | theorems about that promise, for any number of CPUs and processes |
| `RRScheduler_proofs.tla` | theorems about `RRScheduler`, for any inputs, memory and quantum |
| `HPFScheduler_proofs.tla` | theorems about `HPFScheduler`, for any inputs and priorities |
| `DualCPU_proofs.tla` | theorems about `DualCPU`, for any inputs, *N* and *M* |
| `DualAccounts_proofs.tla` | more of them: waiting times, reports and the load table |
| `QueueLoops.tla` | what the schedulers compute in a loop over a queue |
| `SequenceFacts.tla` | lemmas about queues, sums over them and least elements that these proofs share |
| `PCBQueue.tla` | abstract: the PCB queue as a sequence |
| `LinkedQueue.tla` | the PCB queue as nodes and pointers, which implements it |
| `LinkedQueue_proofs.tla` | that it does, for any processes and nodes, if no handler interrupts it |
| `SchPCB.tla` | the ordered insertion into the priority queue, on sequences |
| `MC_MMU.tla`, `MC_RR.tla`, `MC_HPF.tla`, `MC_Dual.tla`, `MC_Queue.tla`, `*.cfg` | finite instances for TLC |
| `PROJECT.json` | components, runs, the map from definitions to source lines, hazards, findings |

## 1. Inventory

**Clock** (`clk.c`, `headers.h`). State: one shared integer, incremented every
second. Everybody reads it with `getClk()`, several times per loop, and may see
it change between two reads.

**Process generator** (`process_generator/`). State: the sorted list read from
the input file, the last tick handled. In each tick it sends the processes that
have arrived (message type 1) and then a tick message (type 2); after the last
one, a message of type 5; then it waits for the scheduler and kills the clock.
Correct when the scheduler knows every process that arrived by tick *t* before
it decides in *t*.

**Round-robin child** (`process/RR_process.c`). State: remaining and running
time, position in its requests file. Per permit of the semaphore it sends the
request of this tick, if there is one, and counts; at zero it signals SIGUSR1
to the scheduler and exits. Correct when it executes exactly the ticks granted
and sends every request.

**Round-robin scheduler** (`rr_scheduler/`). State: ready queue, block queue,
the list of live PCBs, current process, end of its quantum, end of the context
switch, count of quantums, what has been received, performance counters. One
iteration per tick: take a memory request, wake served processes, reap a
finished one, receive arrivals, decide (dispatch, preempt, extend), clear the R
bits, grant one tick. Correct when each live process is in one place, only the
current one executes, no wake-up or arrival is missed, and the accounting adds
up.

**Memory manager** (`MMU/`). State: 32 frames; a page table per process,
itself in a frame; in the PCB the frame of the table, the end of the fault, the
page and frame awaited. Operations: `check`, `fault_handler` with `swap`,
`put_page_in_frame` and `define_page_table`, `clear_recent`, `freePageTable`,
`freeReserved`. Correct when tables and frames describe the same mapping,
eviction follows NRU, a served fault leaves its page in memory.

**PCB queue, request queue** (`data_structures/`). Linked lists with a count.
Correct when an insertion keeps the order of priority and, within one, of arrival.

**HPF scheduler** (`scheduler/`, algorithm 2) **and its child**
(`process/process.c`, or what the Makefile builds). State: the priority queue, the
current process, the end of the context switch, counters. One iteration per tick:
reap, receive, preempt or dispatch, grant. Correct when every tick goes to the
best priority that has arrived, a preempted process comes back to its place, and
the accounting adds up.

**Dual-CPU FCFS dispatcher** (`scheduler/`, algorithm 3). State: the processes
received, a private copy of the loads, whether it stalled the CPUs, how many
sub-schedulers have acknowledged their end. One iteration per tick: close the gate,
receive, route each process to the CPU with fewer ready processes and publish the
loads that follow, every *N* ticks compare the remaining times and, if they differ
by more than *M*, ask the busier one for a process with SIGURG, wait for its answer,
send it to the other, stall both with SIGUSR2; open the gate for both.

**Sub-scheduler** (`sub-sched/`). State: ready queue, current process, end of a
stall, what it has received, its copy of the other's load. It takes its messages
and publishes its load all the time; once per tick it reaps, passes the gate,
dispatches, grants a tick. Two handlers interrupt it: one gives the rear of its queue
away, one stops its process. Correct when a process that is routed, stolen or moved is
in one place, none runs twice or is lost, no sub-scheduler starts a tick before the
dispatcher is done with it, the load table is true when it is compared, a stall
takes three ticks on both CPUs, and all three schedulers end when the work is done.

**Test generator, test drivers, logs, reports.** No state of the simulation,
except the counters of the report.

The interactions: message queues (arrivals, memory requests, dispatcher to
sub-scheduler and back), semaphores (tick permits, load table, threshold gate),
shared integers (clock, remaining time, load), signals (SIGSTOP, SIGCONT,
SIGUSR1, SIGURG, SIGUSR2, SIGINT), `waitpid`. Nothing survives a crash; there is
no retry. What is hard is the order of events within one tick and across the
processes. `PROJECT.json` lists these hazards at their lines.

## 2. The models

### MMU

`RAM`, `PT` and `pcb` are the array of frames, the page tables and the fields of
the PCBs that the memory manager touches; `PT[p]` is the table allocated for
`p`, and it is reached as in the code, through the frame that the PCB names
(`TableOf`). Each handler is an operator from the memory state before the call
to the one after it, written from the function of the same name:

| operator | code |
| --- | --- |
| `Resident`, `Touch` | `check`, its answer and its side effect |
| `FrameFor` (with `FreeFrames`, `Evictable`, `NRUClass`) | the scan in `fault_handler` |
| `Unmap`, `MapPage`, `LoadPage` | `swap` and `put_page_in_frame` |
| `FaultTable`, `FaultPreload`, `FaultDemand` | `fault_handler` with type 0, 2 and 1 |
| `DefinePageTable`, `InitializePCB` | `define_page_table`, `initialize_PCB` |
| `ClearRecent`, `FreePageTable`, `EndFaults` | `clear_recent`, `freePageTable`, `checkBlockEnd` |

The actions of `MMUSpec` call them in any order that one CPU allows: dispatch
and preempt a process, access a page it has or has not, exit, wake the served,
clear, tick. Two reads outside an array (`ReadPastTable`, `ReadNoTable`) end a
behaviour, because the source says nothing about what follows. Frames, tables
and PCBs stay in memory when the program frees them; nothing reads them then.
A request carries the page number that `parse_hexa_address` yields: pages and
operations are all that the memory manager distinguishes.

### RRScheduler

It extends `MMU` and shares its variables: a step of the scheduler that calls
a handler takes the action of `MMU` as a conjunct. The generator, each child,
the clock and the scheduler interleave. `pc` names the statement of the main
loop that runs next; a step reaches to the next point where the scheduler waits
or reads what others write. One iteration is

    spin -> requests -> block -> finish [-> waitpid] -> gate [-> receive] -> algo
         -> [preempted -> wait ->] clear -> grant -> tail -> spin

with `gate` going to `tail` while a context switch is pending. The variables
have the names of the program's; `child[p]` is the state of a child,
`child[p].stopped` the effect of SIGSTOP and SIGCONT, `msgq` the arrivals' queue by
message type (`msgrcv(-5)` takes the lowest type there is), `req_msgq[p]` the
requests of type `p`, `sem` the permit, `shmRT` the shared remaining time.
`lastGrant` records the last permit, for the properties. The input files are
the constant `Workloads`, of which an initial state takes one.

Two points where an action stands for more than one statement: the request that
`handleRequests` receives is queued and handled at once, so the request queue
has no variable; and the pieces of `checkBlockEnd` for all served processes are
one step, since no other process reads the queues, the PCBs or the frames.

`Prompt` is the timing assumption: TRUE lets the clock tick only when every
process waits. A tick is a second and the work of a tick takes microseconds.
What a property needs of it is shown by the runs: those of `rr_lag` hold with the
clock ticking at any moment, and that `SharesTheCPU` holds then too is proved
(`ImplementsSharing`). `Accounting`, `RequestsAnswered` and `QuantumsKept` are checked
under it only; a child that has not used its permit when the next one comes
loses a tick of work, for instance.

The properties, with their parts:

| property | parts |
| --- | --- |
| `ProcessesInPlace` | `QueuesPartition` (each live process in one queue, of the right state) and `OnlyCurrentRuns` (only the current one executes) |
| `NothingOverlooked` | `NoOverdueBlocked` (no served fault is left waiting at the end of an iteration) and `ArrivalsBeforeDecision` |
| `Accounting` | `AccountingAtFinish` (runtime and waiting time add up to the time since arrival), `RemainingTimeAgrees` (no unit of work is lost or counted twice through the shared integer), `PerfConsistent` |
| `QuantumsKept` | `ContextSwitchCosts`, `GrantWithinQuantum`, `NoClearMissed` |
| `RequestsAnswered` | no tick is granted, and no process reaped, with a request unanswered |
| `MMUSpec` | what the scheduler does to memory is a behaviour of `MMU` |
| `SharesTheCPU` | the scheduler implements `CPUSharing` |
| `Terminates`, `BlockedResumes` | every simulation ends; who faults runs again |

### Generator, SchPCB and HPFScheduler

`Generator` is the sending loop; the three simulations instantiate it, over the same
variables. `SchPCB` is `enqueue_priority` on sequences: it compares a new process with
the front by priority alone and with the others by priority and arrival.

`HPFScheduler` is laid out like `RRScheduler`, without memory. One iteration is

    spin -> finish [-> waitpid] -> gate [-> receive] -> algo [-> wait] -> grant -> spin

with `gate` going to `spin` while a context switch is pending. It differs from
round robin in the points where the code does: a preemption leaves no current
process and spends the tick of the switch in `wait_N_secs` (`wait`), the process that
replaces it is dispatched an iteration later, and the receive loop (`ReceiveSync`)
blocks for this tick's message in every iteration that passes the gate. `ArgsNeeded`
is the argc the program of the children checks for, 4 for `process.c` and 5 for
`RR_process.c`, from which the Makefile builds `process.out`. The timing assumption
that `Prompt` makes in `RRScheduler` is built in.

The repository keeps the output of its tests (`tests/result.txt`), of processes that
run to their end, as only children of `process.c` do. `RecordedResult` states that the
model, for the input of the HPF test, computes the recorded start, finish and
waiting times of all five processes in every interleaving. `ProcessesInPlace` here also
says that the ready queue is in order (`PriorityOrder`), and `TicksGranted` that every
tick goes to the best priority that has arrived (`GrantToHighest`) and that a switch
costs one.

### DualCPU

Three schedulers interleave here. The dispatcher's iteration is

    spin -> [receive ->] algo -> [route ->] threshold -> [steal -> moved -> wait ->] open -> after -> spin

and ends in `waitpid`; the sub-scheduler's frame is

    loop (spin) -> [finish ->] down [-> gate] -> frame -> dispatch -> compute -> write -> read -> loop

and ends in `left`, `last`, `ack`, `closing`. `load` is the table in shared memory.
Everybody computes first and takes the semaphore to write afterwards, so reading and
writing are two steps: `projected` is the dispatcher's copy, `sub[c].pub` what a
sub-scheduler is about to write. `gate` is the threshold semaphore: opening it sets
its value to 2, which a sleeper takes at once. `submsg[c]` and `resp` are the message
queues; the latter carries acknowledgements and answers to a steal, and the dispatcher
takes any of them for the answer (`Stolen`). `urg` and `usr2` are the pending signals,
and `OnSIGURG`, `OnSIGUSR2` their handlers, which may run between any two steps of the
sub-scheduler they are sent to. An answer of all zeros is the process `Ghost`.

Two timing assumptions: the clock ticks only when everybody waits, as above, and, in
workloads whose `prompt` is TRUE, not between the two halves of a publication either.
One workload of the run lets it tick there too.

`OnePlace` says of every process that was sent and did not finish that it is once in one
of the `Locations` (four message queues, three ready queues, two CPUs), and of every
other that it is in none; `GateHolds`, `StallLasts` and `LoadsAgreeUndisturbed` are about
the gate, the three timers of a stall and the load table, as long as both sub-schedulers
are in their main loops (`BothRun`): for each there are inputs with which it fails after
one has left (section 5, `OpenGate` and `SubLeave`). `Accounting` says that a process
that finishes is charged for every tick since its arrival in which it did not run
(`AccountingAtFinish`), that the two reports together count each of them once, with its
times (`ReportsAddUp`), and that no CPU is ever given the `Ghost` (`OnlyProcesses`).
`MovesInTime`, that no process is moved after a sub-scheduler has left its main loop, is
the proviso under which it is proved: it holds for the inputs of the run. For others it
does not, and then `OnlyProcesses` or `AccountingAtFinish` can fail (section 5, `Stolen`
and `OpenGate`). `RecordedResult` states that the model computes, for the input of the
seven-process FCFS test, the start, finish and waiting times that `tests/result.txt`
records, in every interleaving. The `Ghost` takes no part in `Sharing`.

`QueueLoops` holds what the schedulers compute in a loop over a queue: those in it that
are kept or taken (`InOrder`) and the sum of a field (`Total`).

### CPUSharing

The promise the three schedulers share: a process gets CPU time on one CPU at a
time, alone, only while the CPU is given to it, and it is reported finished when it
has had its runtime and not before. `RRScheduler` and `HPFScheduler` implement it with
one CPU and `DualCPU` with two (`Sharing`, an instance under a refinement mapping, whose
`SharingSpec` is a property of the runs). The CPU time of a process is what its child
has counted, whoever is current is running, and what is done is what was reaped: so
an implementation that stops a child late, grants a permit to the wrong one, or reaps
early does not refine it.

### PCBQueue and LinkedQueue

`PCBQueue` is the sequence that the schedulers' modules use in place of the queue of
`Sch_PCB.c`. `LinkedQueue` is the queue itself: nodes taken from and given back to a
heap, `next` pointers, `front`, `rear` and a count. `enqueue` and `dequeue`, which the
loop of a sub-scheduler calls, take one step per assignment, because the handler of
SIGURG calls `dequeue_rear` on the same queue: with `Interrupts` it may do so between
two of them. The other operations are one step each. `ImplementsSequence` is the
refinement (`done`, a history variable, says which operation ended and whom it moved),
`WellFormed` says that between operations the list uses exactly the nodes
allocated, ends at the rear and has the length counted, and that nothing runs through
NULL.

Assumptions on the input, all met by the files in `input/`: ids are distinct and
at least 1 (an id is also a message type), the file is sorted by arrival, runtimes
are positive, limits are 1 to 64 (`swap` gives page numbers from 64 another meaning),
the quantum is at least 1. The memory manager alone is checked and proved with id
0 allowed.

## 3. The runs

| run | question | instance |
| --- | --- | --- |
| `mmu` | are tables, frames and PCBs consistent, does NRU hold, do delays match, whatever the order of calls? | 2 processes (ids 0 and 3) with limit 2, 4 frames |
| `rr` | queues, execution, timing, accounting of the whole simulation; does it use memory as `MMU` and the CPU as `CPUSharing` say? | 262 sets of input files of two or three processes, 4 frames, quantum 2, k 2 |
| `rr_live` | does every clean simulation end, does every faulting process run again? | 50 pairs |
| `rr_lag` | what holds without the timing assumption? | 2 pairs, the clock free |
| `hpf` | is every tick granted to the best priority, the queue in order, nothing lost, starved or charged wrongly; does the model compute the recorded log? | 648 sets of three processes, and the recorded test of five |
| `dual` | is no process lost, doubled or run twice through routing, stealing and stalling; do the gate, the stall and the load table keep their promises; does everybody end; does the model compute the recorded log? | 8 inputs of one to four processes, and the recorded test of seven |
| `queue` | does the linked list implement the sequence, with every operation, if no handler interrupts? | 4 processes with equal and different priorities and arrivals, 4 nodes |
| `claim_*` | five statements of documents and comments that the code contradicts | the smallest input that shows each |

The bounds. Four frames for two processes is the smallest memory in which every
fault is served and evictions still happen (each process has a table, and a page
it waits for); `EveryFaultServed` holds from twice as many frames as processes
on. In `rr` the same four frames are too few for three processes, so the third
may get no table, no page, or only after an eviction; a read without a table
ends the behaviour (`undefined`). The delays 10 and 20 become 1 and 2, 1 and 3,
2 and 3, or 4 and 6: what matters is that they differ, and that both shorter and
longer ones than a quantum occur. Three pages and limits of two and three give
pages below, at and above the limit. Runtimes 1, 2 and 4 with quantum 2 end a
process before, at and after the end of a quantum; arrivals 0 to 5 fall before
the start, in it, and into the tick a quantum ends. In `hpf` all 27 assignments
of three priorities meet arrivals together, during, at the end of and after the
first process: ties, nested preemptions and an arrival in the tick of a finish
occur. In `dual` the loads are compared every tick, every second or every fourth one;
a process moves in the first tick, later, or not at all; a load exceeds the limit with
nothing to move; and the processes that move are in the message queue, the ready queue
or running. Neither sub-scheduler leaves while the other has ticks left to run, and no
input lets a process travel back and forth for ever (both are in section 5): all runtimes
are at most *M*, but in the recorded test, and in the input of a single process, which is
never found waiting. In `queue` every order of operations on up to four processes
occurs, which passes through the queue of none, one, two and more nodes where the
code distinguishes them; the nodes are interchangeable (`malloc` may return any), which
is the symmetry the configuration declares. `MaxClk` is above the longest simulation of each run, except in `mmu` and
`rr_lag`, where it bounds the interleavings, and in the claims whose simulation
does not end.

A *clean* workload has no fault in the last tick of a process, no page equal to
the limit and no missing file: these three have the defects of section 5, and
runs of their own. (Such a fault in one of the workloads of `rr` is reported as
a deadlock.) A terminated simulation, or one that has read outside an array,
stutters explicitly (`Terminated`), so in `rr`, `rr_live`, `hpf` and `dual` every other
stop is an error, and in `queue` none occurs. `CHECK_DEADLOCK FALSE` is set where the clock's bound stops
the system: `mmu`, `rr_lag` and the claims of simulations that do not end;
in `claim_queue_interrupted` a crash stops it.

**Fairness.** `RRFairSpec`, `HPFFairSpec` and `DualFairSpec` add weak fairness of the clock, the
generator, each child and each scheduler (in `DualFairSpec` also of the delivery of a
pending signal): each is an operating-system process
which the kernel keeps scheduling while it is runnable, and a stopped child or a
blocked call is not runnable. Nothing stronger is assumed of any single action.

## 4. What is proved

`MMU_proofs` proves for every number of frames, pages and processes and all
delays, from the one assumption `MMUAssumption` on the constants:

- `TypeCorrect`: `MMUSpec => []MMUTypeOK`, by one lemma per handler;
- `TablesNeverTaken`, `EntriesAreBacked`, `FramesAreMapped`,
  `ReservedUntilWake`, `FreeFramesAreClean`: the five consistency invariants;
- `WakeFindsPage`, `EvictionIsNRU` and `DelayIsForWriteBack`: the action properties
  `WakesWithPage`, `EvictsLowestClass` and `DelayPaysForWriteBack`;
- `FaultsAreServed`: `MMUSpec => []EveryFaultServed` if memory is `Roomy`, that is,
  has two frames for each process. `FaultDemand` without that is in section 5.

The inductive invariant is `MMUInv`: the types and, as `Consistent`, the five
invariants together. None is inductive alone. That a valid entry points to its
own page (`EntriesTrue`) survives an eviction only because the frame evicted has
its entry invalidated in the right table, which needs the frame's owner to have
that table (`TablesKept`) and the entry to be the one that maps the frame
(`FramesOwned`); that a table's frame is not handed out needs the scan to see `pte`
set exactly there; that no reserved frame is evicted or freed with another
process needs `ReservedHeld`; and what a fresh frame holds, `FreeClean`. So each
handler has one lemma: it leads from consistent memory states to consistent
ones. `FrameForChoice` says what the scan returns; `PageConsistent` and
`TableConsistent` treat the two ways a frame is filled, from which the lemmas of
the three kinds of fault follow; `OtherFields` covers what only changes a
process's state. `NextConsistent` combines them, one step per action.
`WakeFindsPage` then follows: only `checkBlockEnd` changes the state of a blocked
process (`OnlyWakeUnblocks`), and in a consistent state the frame awaited is
mapped by the entry of the page awaited. `FaultsAreServed` counts: a frame the scan
passes over is the page table of a process or the page that one waits for, no two are
the same of the same process (`FramesOwned`, `ReservedHeld`), and who faults lacks one of
the two itself; so fewer frames than there are can be passed over (`FrameIsFound`).

`LinkedQueue_proofs` proves of the linked list, for any processes, nodes and orders of
operations, under the hypothesis `Interrupts = FALSE` that `claim_queue_interrupted`
shows to be needed: `ListIsWhole` (`[]WellFormed`), `NobodyIsLost` (no process put in
disappears) and `ListImplementsSequence` (`ImplementsSequence`). `WellFormed` is about the
points between two operations only, and says nothing about an operation that is half
done. The inductive invariant `QInv` says that there is a list *t*, the queue as it was
before the operation, such that the memory is that list with the assignments made so far
(`Progress`): with a node allocated but not linked, with the old rear linked to it but not
yet the rear itself, with the front moved but the node not freed. So each assignment is
one lemma, and the step that ends an operation is the step of `PCBQueue`.

`CPUSharing_proofs` proves of the abstract specification, for any number of CPUs and
processes, `RunsOnOneCPU` (no process runs on two CPUs) and `TimeIsKept` (who is
reported finished has had its runtime exactly, who runs has arrived and is not
finished). They are what `SharesTheCPU` and `SharesTheCPUs` give the schedulers, beyond
the steps themselves.

`RRScheduler_proofs` proves of the round-robin simulation, from
`MMUAssumption` and `RRAssumption` alone (any processes, input files, memory, delays,
quantum; the clock may tick at any moment, `Prompt` or not):

- `RRTypeCorrect`: `RRSpec => []RRTypeOK`;
- `ImplementsMMU`: `RRSpec => MMUSpec`, so the theorems of `MMU_proofs` hold of the
  simulation;
- `EveryProcessInPlace`: `RRSpec => []ProcessesInPlace`;
- `ImplementsSharing`: `RRSpec => SharesTheCPU`, if every process has its file of
  requests (`NoneMissing`), without which a child dies at once (section 5);
- `NothingIsOverlooked`: `RRSpec => []NothingOverlooked`, if the input file lists the
  processes in the order they arrive (`SortedFiles`), as those in `input/` and of
  `test_generator.c` do.

Three more hold while the processes keep pace with the clock (`Prompt`), if every process
has its file (`NoneMissing`) and asks for nothing in its last tick (`QuietEnds`): without
the last, a process that faults as it ends is waited for after it is dead, which is what
`claim_last_tick` shows.

- `RequestsComeFirst`: `RRSpec => RequestsAnswered`;
- `QuantumsAreKept`: `RRSpec => QuantumsKept`;
- `TimeAddsUp`: `RRSpec => []Accounting`.

The inductive invariants build on each other. `Shape` is the types with what they need:
a child still in its loop has a tick left, a process never forked has the record it was
given, `waitpid` is reached with a current process only. Under it every handler call is
an action of `MMU`, which is `ImplementsMMU`. `Places` adds that what the generator still
holds and what is in the message queue are disjoint from all that the scheduler knows,
and that only processes in the block queue are blocked: so a process that is received,
woken, preempted or reaped is in no other queue, and a child that takes a step is the
current one. `Carried` ties the children to the PCBs (forked exactly when there is a
child; at its end nothing is left), from which each step maps to one of `CPUSharing` or
to a stutter. `Watched` says which points of an iteration have looked at the block queue
in this tick, as `checked` and the comparison with the clock record it; `Announced` says
what a tick message in the queue, and the last one received, promise about what is still
unsent. One lemma per group of actions shows each preserved.

The three theorems under `Prompt` rest on `Timely`, which says where everybody is within a
tick. `Paced` ties the program counter to the clock: an iteration ends in the tick it
began in, except that a process that takes over from one that was preempted starts in the
next one, without a grant. `Told` says that the scheduler, when it waits for a message,
has been sent one, so the clock never waits for `receiveProcesses` in vain. `Settled` says
that a child between its permit and its next one runs in a tick that was granted to it
(`Granted`), and `Answered` that only the current process has a request outstanding, from
the tick in which it sent it to the step that answers it, and is not about to finish.
`Kept` and `Spaced` carry the counter of quantums and the last grant through a switch,
whose cost is in `context_switch_until` until the gate clears it. The sums need the
moment up to which a process has been charged: the clock, or one more as soon as the
current child has counted the tick that is passing (`Moment`). `Recorded` says where the
remaining time of each process is kept, `Charges` that all that passed since an arrival was
used or charged as waiting, and `Budget` counts the pairs of a process and a tick it has
used (`Work`), of which there are never more than ticks since the first arrival.

`HPFScheduler_proofs` proves of the priority simulation, from `HPFAssumption`:

- `HPFTypeCorrect`: `HPFSpec => []HPFTypeOK`;
- `EveryProcessInPlace`: `HPFSpec => []ProcessesInPlace`, given `SortedFiles`;
- `ImplementsSharing`: `HPFSpec => SharesTheCPU`, given `RightProgram`
  (`ArgsNeeded <= ArgsGiven`);
- `CompleteWhenFinished`: `HPFSpec => []FinishedIsComplete`, given `RightProgram`: what
  `claim_hpf_args` refutes for the program that the Makefile builds;
- `TicksToTheBest`: `HPFSpec => TicksGranted`, given `SortedFiles` and `RightProgram`;
- `TimeAddsUp`: `HPFSpec => []Accounting`, given `RightProgram`.

That the ready queue is in order is the interesting part, because `enqueue_priority`
compares a process with the front by priority alone. `EnqueueOrder` says what that takes:
whoever has the priority of the front must not be older than it. `Ordered` provides it:
processes are sent and received in the order they arrive, so who arrives is younger than
all that wait; and a preempted process, which is older, never has the priority of the
front, for the front has a better one. Without `SortedFiles` the queue can be out of
order. `Carried` here says where the remaining time is: in the shared integer for the
current process, in the PCB for the others, and always what the child has left.

The last two theorems are about time, and rest on `Timely`, the pace of the loop: from
the start of an iteration to its decision the clock stands still; it goes on only when the
child has used the tick it was granted (`Settled`), and the generator's message of a tick
is in the queue until the iteration of that tick takes it (`Told`). `Announced` then says
that whoever is not received yet when the scheduler decides has not arrived yet, and
with `Ordered` that the process it decides for is the best of those that have; `Spaced`
says how long ago the last grant was at each point of a switch. `Charges` says of each
process that every tick since its arrival was used or is charged as waited, or will be
when it next gets the CPU: its `last_stopped` is where the charge begins. `Budget` bounds
the sum of all ticks used by the time that passed. A sum over processes would need
induction; `Work` is the set of pairs of a process and a tick it used, so the sum is a
cardinality, and each step adds at most one pair. `Moment` is the time up to which ticks are
accounted for: it runs one ahead of the clock when the child has used its tick and the
clock has not passed it yet.

`DualCPU_proofs` proves of the two-CPU simulation, from `DualAssumption` alone (any
processes and input files, in any order of arrival, any *N* and *M*; the clock may tick
between computing a load and writing it):

- `DualTypeCorrect`: `DualSpec => []DualTypeOK`;
- `EveryProcessInOnePlace`: `DualSpec => []OnePlace`, through routing, stealing, moving
  and the handlers of the signals;
- `ImplementsSharing`: `DualSpec => SharesTheCPUs`;
- `TicksWaitForTheGate`: `DualSpec => GateHolds`, and `StallsLastThreeTicks`:
  `DualSpec => StallLasts`, about the steps taken while both sub-schedulers are in their
  main loops (`BothRun` is in both properties, and section 5 says why).

The types already need an invariant, because the dispatcher may take an acknowledgement
for a stolen process: it counts the CPUs that ended, and `Shape` bounds the count by
those that did (`EndsCounted`), taking in that a sub-scheduler has a process whenever it
is told one finished (`Served`). `Places` says where each process is, as a set for each
location: a step moves a process between two of them, or takes it in or out, and one
lemma for each such way shows that the others are not touched. It holds of the processes
alone: the `Ghost` may be in many places. `Traced` ties places to children: who is not on
a CPU and not finished has never been started, so a process on its way from one CPU to
another has no child and none of its time used; a step that neither starts nor ends a
process nor lets it work (`Quiet`) maps to a stutter, and the others to one action each.
For the gate the invariant is `Paced`. After the dispatcher has opened it for its tick
there are as many permits as sub-schedulers that have not passed (`HeldOpen`), before
that none, and whoever waits longer than the tick sleeps (`HeldClosed`); so when the
clock goes on, no permit is left over, and none can be taken for a tick the dispatcher
has not seen. That it never falls behind the clock but for a stall (`Timed`) rests on what
the generator and the sub-schedulers have sent it (`Heard`); with it, the three timers of
a stall end in the same tick (`StallsEnd`).

`DualAccounts_proofs` proves what this simulation computes. Two theorems are stated under
the hypothesis `[]MovesInTime`: a process may be stolen and moved as often as the loads
ask for it, as long as both sub-schedulers are in their loops at that moment. It holds for
all inputs of the run `dual`, and fails for those of section 5 under `Stolen` and
`OpenGate`:

- `ReportsAreRight`: `DualSpec /\ []MovesInTime => [](OnlyProcesses /\ ReportsAddUp)`;
- `AccountingIsRight`: `DualSpec /\ []MovesInTime => []Accounting`;
- `LoadsAreTrue`: `DualSpec => []LoadsAgreeUndisturbed`, for all inputs. It, too, is about
  the time both run: after a sub-scheduler has left, the table can lack a process sent to
  it (section 5).

The first needs `Genuine`, that each message is what it is taken for: the dispatcher asks
for a process only as long as both run, when no acknowledgement has been sent. `Reported`
is `ReportsAddUp` with the order of the times. The reports are compared with a sum over
the input file, of which the step that ends a process changes one term
(`TotalChanges` of `SequenceFacts`; that a least counterexample exists replaces the
induction there).

For the waiting times, each sub-scheduler must start a frame in every tick that it does
not sleep through. `Paced` gives that while both run. A sub-scheduler that goes on alone
finds permits left over, so it cannot be late: `Punctual` says what is then true of its
ticks (`Alone`), from what it knows of the end of the input (`Told`), and `Steady` that its
frames follow each other, a stall apart. `Charges` then says of the process on a CPU that
what it was charged and what it ran together reach to the present: `Spent` is the tick up
to which it is accounted for, and `Fits` says which tick that is at each point of the
frame, with or without its permit used, running, stopped by a stall or dead. A process
comes to a CPU charged with nothing and waiting since its arrival (`Come`), wherever it
was moved meanwhile; when it ends, `Spent` is the tick of its end.

For the loads, `Calm` says that from the moment the clock goes on until the dispatcher
compares them nobody but the dispatcher changes what is left to do: the children have used
their permits, and both sub-schedulers are on their way to the gate, which is closed.
What they do there changes the place of the work and not its amount, since taking a
message adds its runtime to the queue, and a process is reaped with nothing left in the
shared word, which holds what the child has left (`Mirrored`). The dispatcher adds to its
copy of the table what it adds to the messages. A tick begins with a true table, because
a sub-scheduler that has all its messages and has published its load is the only one that
lets the clock go on. `Undisturbed` takes the two cases out in which one writes its load
while the dispatcher works, and those are the disagreement of `claim_dual_loads`.

Only model-checked: `RecordedResult` of `MC_HPF` and of `MC_Dual`, each about the one
input whose result the repository records; and liveness (`Terminates`,
`BlockedResumes`), which is outside the prover's reach, like ENABLED.

## 5. Disagreements between code and documents

Five have a run of their own with the smallest input that shows it; see
`PROJECT.json` for the lines and the quotations.

- A fault in the last tick of a process leaves its SIGUSR1 to the next process,
  and the scheduler then waits for ever (`claim_last_tick`).
- The priority scheduler starts its children with one argument less than the program
  the Makefile builds asks for: each signals its end at once, and the scheduler records
  it as finished with all of its time remaining (`claim_hpf_args`). The other properties
  of `HPFScheduler`, and `DualCPU`, whose sub-schedulers start the same program, are
  checked with the child they were written for.
- On two CPUs a waiting process longer than *M* can make the loads differ by more than
  *M* wherever it waits: it is then stolen back and forth at every comparison and never
  runs (`claim_dual_ends`; the counterexample ends at the clock's bound only because the
  model has one: the process still travels then, as in every tick before).
- The load table the dispatcher compares may lack a process it has just routed: a
  sub-scheduler overwrites it with a load computed before (`claim_dual_loads`). It
  happens in two cases, the frame left over from a stall and a load computed in one tick and
  written in the next; outside these `LoadsAgreeUndisturbed` holds. So the log recorded for
  an input on which a move follows a move is one of several possible.
- A steal that interrupts `enqueue` or `dequeue` of the ready queue loses a process or
  follows a freed node (`claim_queue_interrupted`).

Others are in the model without a run:

- `ChildBoot`: a process without a requests file exits silently, and the round-robin
  scheduler grants it ticks for ever (README.md:308 allows such a process).
- `Due`: of several requests in one tick one is sent, and none after it
  (phase2_memory_management_implementation_plan.md:357 wants all, in file order).
- `ReadPastTable`: the page whose number is the limit is read beyond the table.
- `FaultDemand`: without a frame to take, a fault is waited out and nothing is loaded.
- `Preempts`: the priority scheduler preempts, which README.md:104 denies and
  `tests/result.txt` records.
- `AlgoExtend`: a quantum is extended although a process waits, if that one arrived in
  this very tick (README.md:85 knows no such exception).
- A round-robin child that lags can die between the check for finished processes and
  `RR_algo`, which then preempts a dead process (rr_scheduler.c:125).
- `LighterReady`: routing goes by the number of ready processes, not by the remaining
  work README.md:114 speaks of, and the dispatcher asks for a steal, not an idle peer
  (README.md:120). A process that moves goes behind those that arrived after it
  (README.md:124).
- `Stolen`: when a process travels so, the load of a CPU can be stale so that the
  dispatcher asks a sub-scheduler that is just ending, and takes its acknowledgement for a
  process of all zeros, which the other CPU then runs; for instance arrivals 1, 1, 2,
  runtimes 1, 1, 5, *N* = 2, *M* = 3.
- `SubLeave`: a sub-scheduler that has been told of the end and has nothing leaves its loop
  although a process that was moved to it is in its message queue. It never takes it: the
  process is not run, and the load that the sub-scheduler publishes last says that there is
  none. For instance arrivals 1, 5, 5, 5, runtimes 2, 6, 1, 2, *N* = 1, *M* = 0; so
  `LoadsAgreeUndisturbed` needs `BothRun`.
- `OpenGate`: README.md:257 says of the gate "Each sub-scheduler blocks on a `down` until
  it receives its permit, ensuring no sub-scheduler advances past a tick boundary before
  the main scheduler has finished routing that tick's arrivals." It is opened with two
  permits also when one sub-scheduler has exited. The other takes the second for its next
  tick without waiting for the dispatcher, and can end a stall before it hears of the next.
  Arrivals 1, 1, 4, runtimes 1, 1, 2, *N* = *M* = 1 lead to steps that `GateHolds` and
  `StallLasts` would not allow without `BothRun`; with arrivals 1, 2, runtimes 4, 2,
  *N* = 1, *M* = 3 the waiting time comes out wrong, too (`AccountingAtFinish`). In the
  run `dual` no sub-scheduler leaves while the other has ticks left to run: the inputs
  tried in which one does break `Accounting` as well, let a process travel up to the
  clock's bound, or have too many states to finish.
- `OnSIGURG`: processes received by the handler of SIGURG do not set the first arrival of
  the CPU's report.

## 6. Not modelled

Logging, the floating-point statistics, parsing of files and addresses, creation
of the IPC objects, SIGINT and its cleanup, failure of system calls, and the
components marked so in `PROJECT.json`. Message queues are unbounded: a
simulation holds one message per process and tick at most. In `DualCPU`, a handler in
the middle of an operation on the ready queue (that is `LinkedQueue`'s), between the
gate and the tick granted after it, and in the two statements of `finishLogic` that
free the current process; sub-schedulers that lag more than a tick.

## 7. What is left

1. `HPFScheduler` and `DualCPU` with children that lag, as `rr_lag` does for round
   robin: what of their properties needs the timing assumption.
2. An abstract `PagedMemory` (a map from pages to frames) that `MMU` implements.
