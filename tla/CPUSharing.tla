------------------------------ MODULE CPUSharing -----------------------------
(***************************************************************************)
(* What every scheduler of the simulator promises about the CPUs, whatever *)
(* its algorithm: a process gets its CPU time on one CPU at a time, a CPU  *)
(* serves one process at a time, a process gets time only while a CPU is   *)
(* given to it, and it is done when it has had all of its runtime and not  *)
(* before.  A CPU may take its process back and give it to another CPU.    *)
(*                                                                         *)
(* RRScheduler and HPFScheduler implement it with one CPU, DualCPU with    *)
(* two.                                                                    *)
(***************************************************************************)
EXTENDS Naturals

CONSTANTS
    Procs,  \* the processes
    CPUs,
    Nobody  \* what an idle CPU runs, which is no process

VARIABLES
    runtime, \* the CPU time each process needs, which never changes
    present, \* the processes the scheduler has received
    running, \* the process each CPU is given to
    used,    \* the CPU time each process has had
    done     \* the processes the scheduler has reported as finished

sharingvars == <<runtime, present, running, used, done>>

SharingTypeOK ==
    /\ runtime \in [Procs -> Nat]
    /\ present \subseteq Procs /\ done \subseteq Procs
    /\ running \in [CPUs -> Procs \cup {Nobody}]
    /\ used \in [Procs -> Nat]

SharingInit ==
    /\ runtime \in [Procs -> Nat]
    /\ present = {} /\ done = {}
    /\ running = [c \in CPUs |-> Nobody]
    /\ used = [p \in Procs |-> 0]

Arrive(p) ==
    /\ p \notin present
    /\ present' = present \cup {p}
    /\ UNCHANGED <<runtime, running, used, done>>

\* An idle CPU is given to a process that waits.
Dispatch(c, p) ==
    /\ running[c] = Nobody
    /\ p \in present \ done
    /\ \A d \in CPUs : running[d] # p
    /\ running' = [running EXCEPT ![c] = p]
    /\ UNCHANGED <<runtime, present, used, done>>

\* The process is preempted or waits for a page.
Release(c) ==
    /\ running[c] # Nobody
    /\ running' = [running EXCEPT ![c] = Nobody]
    /\ UNCHANGED <<runtime, present, used, done>>

Work(c) ==
    /\ running[c] # Nobody
    /\ used[running[c]] < runtime[running[c]]
    /\ used' = [used EXCEPT ![running[c]] = @ + 1]
    /\ UNCHANGED <<runtime, present, running, done>>

Finish(c) ==
    /\ running[c] # Nobody
    /\ used[running[c]] = runtime[running[c]]
    /\ done' = done \cup {running[c]}
    /\ running' = [running EXCEPT ![c] = Nobody]
    /\ UNCHANGED <<runtime, present, used>>

SharingNext ==
    \/ \E p \in Procs : Arrive(p)
    \/ \E c \in CPUs : Release(c) \/ Work(c) \/ Finish(c) \/ \E p \in Procs : Dispatch(c, p)

SharingSpec == SharingInit /\ [][SharingNext]_sharingvars

-----------------------------------------------------------------------------

\* A process runs on at most one CPU.
OneCPUEach ==
    \A c, d \in CPUs : running[c] = running[d] /\ running[c] # Nobody => c = d

\* A process that runs has arrived and is not done, and one that is done has had
\* its runtime exactly; none has had more.
NoCPUTimeLostOrGained ==
    /\ \A c \in CPUs : running[c] # Nobody => running[c] \in present \ done
    /\ \A p \in Procs : used[p] <= runtime[p] /\ (p \in done => used[p] = runtime[p])

=============================================================================
