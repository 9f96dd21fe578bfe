------------------------------ MODULE MC_Queue -------------------------------
(***************************************************************************)
(* An instance of LinkedQueue for TLC: as many nodes as processes, which   *)
(* have equal and different priorities and times of arrival.               *)
(***************************************************************************)
EXTENDS LinkedQueue, TLC

CONSTANTS n1, n2, n3, n4

FourProcs == 1..4

Priorities == <<1, 2, 2, 1>>

ArrivalTimes == <<1, 1, 2, 2>>

FourNodes == {n1, n2, n3, n4}

\* malloc may return any free node: the nodes are interchangeable.
Symmetry == Permutations(FourNodes)

=============================================================================
