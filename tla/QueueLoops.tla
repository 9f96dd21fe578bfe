----------------------------- MODULE QueueLoops ------------------------------
(***************************************************************************)
(* What the program computes in a loop over a queue: the elements that it  *)
(* keeps or takes, and the sum of a field of the PCBs in it.               *)
(***************************************************************************)
EXTENDS Integers, Sequences

\* The elements of q that are in S, in their order.
InOrder(q, S) ==
    LET F[i \in 0..Len(q)] == IF i = 0 THEN <<>>
                              ELSE IF q[i] \in S THEN Append(F[i - 1], q[i]) ELSE F[i - 1]
    IN  F[Len(q)]

\* The sum of f over the elements of q.
Total(q, f) ==
    LET F[i \in 0..Len(q)] == IF i = 0 THEN 0 ELSE F[i - 1] + f[q[i]]
    IN  F[Len(q)]

=============================================================================
