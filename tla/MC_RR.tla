-------------------------------- MODULE MC_RR --------------------------------
(***************************************************************************)
(* Instances of RRScheduler for TLC: sets of input files.                  *)
(*                                                                         *)
(* A clean workload leaves the last tick of a process without a request    *)
(* and asks for pages below or above the limit: a fault in the last tick,  *)
(* a page equal to the limit and a missing file have workloads of their    *)
(* own.                                                                    *)
(***************************************************************************)
EXTENDS RRScheduler

PairProcs == {1, 2}
TrioProcs == {1, 2, 3}
PageLimit == [p \in Procs |-> IF p = 2 THEN 2 ELSE 3]

Req(t, v, o) == [tick |-> t, page |-> v, op |-> o]

\* One value for each process, of the three that a run has at most.
Each(a, b, c) == [p \in Procs |-> IF p = 1 THEN a ELSE IF p = 2 THEN b ELSE c]

\* What a process may ask for, in the order of its file.
Files == { <<>>,
           <<Req(0, 1, "w")>>,
           <<Req(0, 0, "w"), Req(1, 1, "r")>>,
           <<Req(0, 1, "r"), Req(1, 2, "w"), Req(2, 0, "r")>>,
           <<Req(0, 3, "w"), Req(2, 1, "r")>> }

Clean(w) ==
    \A p \in Procs, i \in 1..3 :
        i \in DOMAIN w.requests[p] =>
            /\ w.requests[p][i].tick < w.runtime[p] - 1
            /\ w.requests[p][i].page # Limit[p]

\* Two processes; a third never arrives.
PairWorkloads ==
    {w \in [order: {<<1, 2>>},
            arrival: {Each(a, b, 0) : a \in {0, 1}, b \in {1, 3}},
            runtime: {Each(a, b, 1) : a, b \in {1, 2, 4}},
            requests: {Each(f, g, <<>>) : f, g \in Files},
            missing: {{}}] : Clean(w)}

\* Fewer of them for the liveness run: every request file that is clean, the
\* shortest and the longest runtime.
LiveWorkloads ==
    {w \in PairWorkloads : w.arrival[1] = 0 /\ \A p \in Procs : w.runtime[p] # 2}

\* Three processes, two of which arrive together or while the first runs.
TrioWorkloads ==
    {w \in [order: {<<2, 1, 3>>},
            arrival: {Each(2, 1, a) : a \in {2, 3, 5}},
            runtime: {Each(a, b, 3) : a \in {1, 4}, b \in {2, 5}},
            requests: {Each(f, f, g) :
                        f \in { <<>>, <<Req(0, 1, "w")>>, <<Req(0, 1, "r"), Req(1, 0, "w")>> },
                        g \in { <<>>, <<Req(0, 1, "w")>>, <<Req(1, 2, "r")>> }},
            missing: {{}}] : Clean(w)}

\* Two processes wait for their pages when the third starts: with four frames it
\* gets no page table, and then asks for a page or finishes.
CrowdedWorkloads ==
    {w \in [order: {<<1, 2, 3>>}, arrival: {Each(1, 1, 1)},
            runtime: {Each(4, 4, a) : a \in {1, 3}},
            requests: {Each(<<Req(0, 1, "w")>>, <<Req(0, 1, "w")>>, f) :
                        f \in { <<>>, <<Req(0, 1, "r")>> }},
            missing: {{}}] : Clean(w)}

Workloads3 == PairWorkloads \cup TrioWorkloads \cup CrowdedWorkloads

\* A machine that lags: the clock may tick at any moment.
LagWorkloads ==
    {[order |-> <<1, 2>>, arrival |-> Each(1, 1, 1), runtime |-> Each(r, r, r),
      requests |-> Each(<<Req(0, 1, "w")>>, <<>>, <<>>), missing |-> {}] : r \in {1, 2}}

\* For the claim: a fault in the last tick of process 1.
LastTickWorkloads ==
    {[order |-> <<1, 2>>, arrival |-> Each(1, 1, 0), runtime |-> Each(2, 3, 1),
      requests |-> Each(<<Req(1, 1, "r")>>, <<>>, <<>>), missing |-> {}]}

=============================================================================
