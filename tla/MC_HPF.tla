------------------------------- MODULE MC_HPF --------------------------------
(***************************************************************************)
(* Instances of HPFScheduler for TLC.  The processes are sent in the order *)
(* of their ids.                                                           *)
(***************************************************************************)
EXTENDS HPFScheduler

FiveProcs == 1..5

\* A value for each process, of which a workload of three leaves out two.
Three(a, b, c) == <<a, b, c, 1, 1>>

\* Together, spread out, during or at the end of the first process.
Arrivals == {Three(0, 0, 0), Three(1, 1, 2), Three(1, 2, 3), Three(1, 3, 3), Three(1, 2, 5),
             Three(0, 4, 4)}

Runtimes == {Three(1, 2, 1), Three(3, 1, 2), Three(3, 2, 1), Three(2, 3, 2)}

TrioWorkloads ==
    [order: {<<1, 2, 3>>}, arrival: Arrivals, runtime: Runtimes,
     priority: {Three(a, b, c) : a, b, c \in 1..3}]

\* The input and the output that tests/result.txt records as c1_hpf.txt.
Recorded == [order |-> <<1, 2, 3, 4, 5>>, arrival |-> <<1, 3, 5, 7, 10>>,
             runtime |-> <<8, 4, 2, 3, 1>>, priority |-> <<4, 2, 1, 3, 0>>]

RecordedStart == <<1, 4, 6, 16, 11>>

RecordedFinish == <<26, 15, 8, 19, 12>>

RecordedWait == <<17, 8, 1, 9, 1>>

AllWorkloads == TrioWorkloads \cup {Recorded}

\* The log that the repository keeps of its HPF test is what the model computes:
\* when each of the five processes starts and finishes, and how long it waits
\* over preemptions, resumes and switch penalties, whatever the interleaving.
RecordedResult ==
    workload = Recorded /\ pc = "exited" =>
        \A p \in FiveProcs : /\ pcb[p].start_time = RecordedStart[p]
                             /\ pcb[p].finish_time = RecordedFinish[p]
                             /\ pcb[p].waiting_time = RecordedWait[p]

\* For the claim: the smallest pair with a preemption.
PreemptWorkloads ==
    {[order |-> <<1, 2>>, arrival |-> <<1, 2, 2, 1, 1>>, runtime |-> <<3, 1, 1, 1, 1>>,
      priority |-> <<2, 1, 1, 1, 1>>]}

=============================================================================
