------------------------------- MODULE MC_Dual -------------------------------
(***************************************************************************)
(* Instances of DualCPU for TLC.                                           *)
(***************************************************************************)
EXTENDS DualCPU

SevenProcs == 1..7

\* The processes 1, 2, ..., in this order, that arrive at the times a and run for
\* the times r; the loads are compared every n ticks, and a difference of more than
\* m is acted on.
Input(a, r, n, m, timely) ==
    [order   |-> [i \in DOMAIN a |-> i],
     arrival |-> [p \in SevenProcs |-> IF p \in DOMAIN a THEN a[p] ELSE 0],
     runtime |-> [p \in SevenProcs |-> IF p \in DOMAIN r THEN r[p] ELSE 1],
     N |-> n, M |-> m, prompt |-> timely]

\* Three processes of which two meet on one CPU, and a process moves in the first
\* tick, in the next or not at all; with the loads compared in every tick too.
Trios == {Input(<<1, 1, 1>>, r, 2, 3, TRUE) : r \in {<<3, 1, 3>>, <<3, 3, 1>>}}
         \cup {Input(<<1, 1, 2>>, r, 2, 3, TRUE) : r \in {<<3, 1, 3>>, <<1, 3, 3>>}}
         \cup {Input(<<1, 1, 2>>, <<3, 2, 3>>, 1, 3, TRUE)}

\* A load above the limit with nothing in the queue to move; two processes with
\* ticks in the middle of publishing; four processes.
Others == {Input(<<1>>, <<5>>, 2, 3, TRUE), Input(<<1, 1>>, <<1, 3>>, 2, 3, FALSE),
           Input(<<1, 2, 1, 2>>, <<2, 2, 2, 2>>, 1, 2, TRUE)}

\* The input and the output that tests/result.txt records as tc3_fcfs_n_4_m_2.txt.
Recorded == Input(<<1, 2, 2, 3, 4, 4, 4>>, <<10, 3, 10, 6, 1, 3, 4>>, 4, 2, TRUE)

RecordedStart == <<1, 12, 2, 13, 16, 20, 18>>

RecordedFinish == <<11, 15, 12, 19, 17, 23, 22>>

RecordedWait == <<0, 10, 0, 10, 12, 16, 14>>

AllWorkloads == Trios \cup Others \cup {Recorded}

\* For the input of the repository's own test the model computes the log that it keeps,
\* in every interleaving.
RecordedResult ==
    workload = Recorded /\ pc = "exited" =>
        \A p \in SevenProcs : /\ pcb[p].start_time = RecordedStart[p]
                              /\ pcb[p].finish_time = RecordedFinish[p]
                              /\ pcb[p].waiting_time = RecordedWait[p]

\* A runtime above M: the longest process is moved as soon as it is routed.
LongWorkloads == {Input(<<1, 1, 1>>, <<1, 1, 5>>, 2, 3, TRUE)}

\* A fourth process arrives in the tick in which the stall of a move ends.
StallWorkloads == {Input(<<1, 1, 1, 5>>, <<3, 1, 3, 1>>, 2, 3, TRUE)}

=============================================================================
