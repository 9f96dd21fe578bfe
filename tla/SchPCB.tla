------------------------------- MODULE SchPCB --------------------------------
(***************************************************************************)
(* The priority queue of data_structures/PCB/Sch_PCB.c, a linked list kept *)
(* in order on insertion, as a sequence of processes.  enqueue, dequeue,   *)
(* peek and isEmpty are Append, Head, Tail and the empty sequence.         *)
(***************************************************************************)
EXTENDS Integers, SequencesExt

\* The processes behind the front that a new one goes after.
Precedes(c, p, priority, arrival) ==
    \/ priority[c] < priority[p]
    \/ priority[c] = priority[p] /\ arrival[c] <= arrival[p]

\* Mutant: a process goes in front of one with the same priority.
GoesToFrontTied(q, p, priority) == q = <<>> \/ priority[p] <= priority[Head(q)]

GoesToFront(q, p, priority) == q = <<>> \/ priority[p] < priority[Head(q)]

\* The front itself is compared by priority only.
EnqueuePriority(q, p, priority, arrival) ==
    IF GoesToFront(q, p, priority)
    THEN <<p>> \o q
    ELSE LET last == CHOOSE i \in 1..Len(q) :
                        /\ i = Len(q) \/ ~Precedes(q[i + 1], p, priority, arrival)
                        /\ \A j \in 2..i : Precedes(q[j], p, priority, arrival)
         IN  InsertAt(q, last + 1, p)

=============================================================================
