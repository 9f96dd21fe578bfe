----------------------------- MODULE LinkedQueue -----------------------------
(***************************************************************************)
(* The queue of data_structures/PCB/Sch_PCB.c as it is in memory: nodes    *)
(* from the heap, linked from front to rear, and a count.                  *)
(*                                                                         *)
(* enqueue and dequeue, which the loop of a sub-scheduler calls, are given *)
(* assignment by assignment, because the handler of SIGURG calls           *)
(* dequeue_rear on the same queue.  With Interrupts it may run between two *)
(* of them, otherwise only between two operations.  The operations that    *)
(* only the other schedulers call, which have no such handler, are a step  *)
(* each.                                                                   *)
(***************************************************************************)
EXTENDS SequencesExt, Integers, FiniteSets

CONSTANTS
    Nodes,    \* the heap
    NULL,
    Procs, Nothing, priority, arrival,
    Interrupts

ASSUME QueueAssumption ==
    /\ NULL \notin Nodes /\ Nothing \notin Procs
    /\ IsFiniteSet(Nodes) /\ Interrupts \in BOOLEAN

VARIABLES
    used,               \* the nodes allocated
    pcb, next,          \* their fields
    front, rear, size,  \* the queue
    pc, node,           \* the next assignment of an operation, and its node
    done,               \* history: the last operation and whom it moved
    inside,             \* history: who was put in and not given out yet
    before              \* history: the queue before the operation in progress

fields == <<used, pcb, next>>
ends == <<front, rear, size>>
queuevars == <<fields, ends, pc, node, done, inside, before>>

Precedence == INSTANCE SchPCB

\* The nodes reached from one by following a link: all of them, or as many as
\* there are in the heap if the links go round in a circle.
Following(start, link) ==
    LET at[k \in 1..Cardinality(Nodes)] ==
            IF k = 1 THEN start ELSE IF at[k - 1] = NULL THEN NULL ELSE link[at[k - 1]]
    IN  [k \in {j \in 1..Cardinality(Nodes) : at[j] # NULL} |-> at[k]]

Reached == Following(front, next)

\* The processes in a sequence of nodes.
Held(r, p) == [i \in DOMAIN r |-> p[r[i]]]

Contents == Held(Reached, pcb)

isEmpty == front = NULL

Goto(l) == pc' = l

\* The program reads through NULL, or ends with "Queue underflow!".
Crash == Goto("crashed") /\ UNCHANGED <<fields, ends, node, done, inside, before>>

\* The operation op is over: x is in the queue, or is returned.
Return(op, x) == Goto("idle") /\ node' = NULL /\ done' = <<op, x>>

-----------------------------------------------------------------------------
(* enqueue.                                                                *)

NewNode(p) ==
    /\ pc = "idle" /\ p \notin inside
    /\ \E n \in Nodes \ used :
          /\ used' = used \cup {n} /\ node' = n
          /\ pcb' = [pcb EXCEPT ![n] = p] /\ next' = [next EXCEPT ![n] = NULL]
    /\ inside' = inside \cup {p} /\ before' = Contents
    /\ Goto("link")
    /\ UNCHANGED <<ends, done>>

LinkFirst ==
    /\ pc = "link" /\ rear = NULL
    /\ rear' = node
    /\ Goto("front")
    /\ UNCHANGED <<fields, front, size, node, done, inside, before>>

LinkFront ==
    /\ pc = "front"
    /\ front' = node
    /\ Goto("count")
    /\ UNCHANGED <<fields, rear, size, node, done, inside, before>>

LinkLast ==
    /\ pc = "link" /\ rear # NULL
    /\ next' = [next EXCEPT ![rear] = node]
    /\ Goto("rear")
    /\ UNCHANGED <<used, pcb, ends, node, done, inside, before>>

NewRear == node

LinkRear ==
    /\ pc = "rear"
    /\ rear' = NewRear
    /\ Goto("count")
    /\ UNCHANGED <<fields, front, size, node, done, inside, before>>

CountIn ==
    /\ pc = "count"
    /\ size' = size + 1
    /\ Return("enqueue", pcb[node])
    /\ UNCHANGED <<fields, front, rear, inside, before>>

-----------------------------------------------------------------------------
(* dequeue, after its caller has seen that the queue is not empty.         *)

CallDequeue ==
    /\ pc = "idle" /\ ~isEmpty
    /\ before' = Contents
    /\ Goto("take")
    /\ UNCHANGED <<fields, ends, node, done, inside>>

TakeFront ==
    /\ pc = "take"
    /\ IF isEmpty THEN Crash
       ELSE /\ node' = front
            /\ Goto("advance")
            /\ UNCHANGED <<fields, ends, done, inside, before>>

Advance ==
    /\ pc = "advance"
    /\ IF front = NULL THEN Crash
       ELSE /\ front' = next[front]
            /\ Goto("clear")
            /\ UNCHANGED <<fields, rear, size, node, done, inside, before>>

\* Mutant: the rear is left pointing to the node that is freed.
RearAfterLast == rear

RearAfter == IF isEmpty THEN NULL ELSE rear

ClearRear ==
    /\ pc = "clear"
    /\ rear' = RearAfter
    /\ Goto("free")
    /\ UNCHANGED <<fields, front, size, node, done, inside, before>>

Free ==
    /\ pc = "free"
    /\ used' = used \ {node}
    /\ Goto("uncount")
    /\ UNCHANGED <<pcb, next, ends, node, done, inside, before>>

CountOut ==
    /\ pc = "uncount"
    /\ size' = size - 1
    /\ inside' = inside \ {pcb[node]}
    /\ Return("dequeue", pcb[node])
    /\ UNCHANGED <<fields, front, rear, before>>

-----------------------------------------------------------------------------
(* The other operations.                                                   *)

\* n is given to the heap, and its process to the caller of op.
GiveOut(op, n) ==
    /\ used' = used \ {n}
    /\ size' = size - 1
    /\ inside' = inside \ {pcb[n]} /\ done' = <<op, pcb[n]>>
    /\ UNCHANGED pcb

\* There is nobody to give out.
GiveNothing(op) == done' = <<op, Nothing>> /\ UNCHANGED <<fields, ends, inside>>

BeforeNode(n) == {m \in ToSet(Reached) : next[m] = n}

\* dequeue_rear, which the handler of SIGURG calls.
RearNone == isEmpty /\ GiveNothing("dequeue_rear")

RearAlone ==
    /\ ~isEmpty /\ front = rear
    /\ GiveOut("dequeue_rear", front)
    /\ front' = NULL /\ rear' = NULL
    /\ UNCHANGED next

RearOfMany ==
    /\ ~isEmpty /\ front # rear
    /\ \E m \in BeforeNode(rear) :
          /\ GiveOut("dequeue_rear", rear)
          /\ rear' = m /\ next' = [next EXCEPT ![m] = NULL]
    /\ UNCHANGED front

\* The search for the rear would run off the end of the list.
RearLost == ~isEmpty /\ front # rear /\ BeforeNode(rear) = {}

DequeueRear ==
    /\ pc = "idle" \/ (Interrupts /\ pc # "crashed")
    /\ IF RearLost THEN Crash
       ELSE /\ RearNone \/ RearAlone \/ RearOfMany
            /\ before' = IF pc = "idle" THEN Contents ELSE before
            /\ UNCHANGED <<pc, node>>

\* Behind which node enqueue_priority puts p.
PriorityPlace(p) ==
    LET r == Reached
        places == {i \in 1..Len(r) :
                      next[r[i]] = NULL
                      \/ ~Precedence!Precedes(pcb[next[r[i]]], p, priority, arrival)}
    IN  r[Min(places)]

EnqueuePriority(p) ==
    /\ pc = "idle" /\ p \notin inside
    /\ \E n \in Nodes \ used :
          /\ used' = used \cup {n}
          /\ pcb' = [pcb EXCEPT ![n] = p]
          /\ IF isEmpty \/ priority[p] < priority[pcb[front]]
             THEN /\ next' = [next EXCEPT ![n] = front]
                  /\ front' = n
                  /\ rear' = IF rear = NULL THEN n ELSE rear
             ELSE LET c == PriorityPlace(p)
                  IN  /\ next' = [next EXCEPT ![n] = next[c], ![c] = n]
                      /\ rear' = IF next[c] = NULL THEN n ELSE rear
                      /\ UNCHANGED front
    /\ size' = size + 1
    /\ inside' = inside \cup {p} /\ done' = <<"enqueue_priority", p>> /\ before' = Contents
    /\ UNCHANGED <<pc, node>>

\* Mutant: the last process leaves, and the rear stays.
RearKept(n, m) == rear

RearWithout(n, m) == IF n = rear THEN m ELSE rear

\* dequeue_by_id: the node leaves the list, wherever it is.
DequeueById(p) ==
    /\ pc = "idle"
    /\ LET here == {n \in ToSet(Reached) : pcb[n] = p}
       IN  \/ here = {} /\ GiveNothing("dequeue_by_id")
          \/ /\ front \in here
             /\ GiveOut("dequeue_by_id", front)
             /\ front' = next[front]
             /\ rear' = IF next[front] = NULL THEN NULL ELSE rear
             /\ UNCHANGED next
          \/ \E n \in here \ {front} : \E m \in BeforeNode(n) :
                /\ GiveOut("dequeue_by_id", n)
                /\ next' = [next EXCEPT ![m] = next[n]]
                /\ rear' = RearWithout(n, m)
                /\ UNCHANGED front
    /\ before' = Contents
    /\ UNCHANGED <<pc, node>>

-----------------------------------------------------------------------------

LinkedInit ==
    /\ used = {} /\ pcb = [n \in Nodes |-> Nothing] /\ next = [n \in Nodes |-> NULL]
    /\ front = NULL /\ rear = NULL /\ size = 0
    /\ pc = "idle" /\ node = NULL /\ done = <<"createQueue", Nothing>>
    /\ inside = {} /\ before = <<>>

LinkedNext ==
    \/ \E p \in Procs : NewNode(p) \/ EnqueuePriority(p) \/ DequeueById(p)
    \/ LinkFirst \/ LinkFront \/ LinkLast \/ LinkRear \/ CountIn
    \/ CallDequeue \/ TakeFront \/ Advance \/ ClearRear \/ Free \/ CountOut
    \/ DequeueRear

LinkedSpec == LinkedInit /\ [][LinkedNext]_queuevars

-----------------------------------------------------------------------------
(* Properties.                                                             *)

\* Between two operations the list is whole: it uses exactly the nodes allocated,
\* each once, ends at the rear, and has the length that the count says.
WellFormed ==
    /\ pc = "idle" => LET r == Reached IN
          /\ IsInjective(r) /\ ToSet(r) = used
          /\ size = Len(r)
          /\ IF r = <<>> THEN rear = NULL ELSE rear = Last(r) /\ next[rear] = NULL
    /\ pc # "crashed"

\* Nobody who entered the queue is lost: between two operations the list holds
\* exactly those who were put in and not given out.
NothingLost == pc = "idle" => ToSet(Contents) = inside

\* The list implements the sequence: an operation in progress has not happened yet.
Sequence == INSTANCE PCBQueue WITH queue <- IF pc = "idle" THEN Contents ELSE before

ImplementsSequence == Sequence!QueueSpec

=============================================================================
