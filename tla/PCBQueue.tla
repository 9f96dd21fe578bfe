------------------------------- MODULE PCBQueue -------------------------------
(***************************************************************************)
(* What the queue of data_structures/PCB/Sch_PCB.c promises: a sequence of *)
(* processes, entered at the rear or in order, left from the front, from   *)
(* the rear or by name.  The modules of the schedulers use it so.          *)
(***************************************************************************)
EXTENDS SchPCB

CONSTANTS
    Procs,    \* the processes
    Nothing,  \* the answer of an empty queue
    priority, \* of each process
    arrival

VARIABLES
    queue,
    done    \* the last operation and whom it moved

queuevars == <<queue, done>>

QueueInit == queue = <<>> /\ done = <<"createQueue", Nothing>>

Put(p) ==
    /\ p \notin ToSet(queue)
    /\ queue' = Append(queue, p) /\ done' = <<"enqueue", p>>

PutInOrder(p) ==
    /\ p \notin ToSet(queue)
    /\ queue' = EnqueuePriority(queue, p, priority, arrival) /\ done' = <<"enqueue_priority", p>>

Take ==
    /\ queue # <<>>
    /\ queue' = Tail(queue) /\ done' = <<"dequeue", Head(queue)>>

TakeRear ==
    /\ queue # <<>>
    /\ queue' = Front(queue) /\ done' = <<"dequeue_rear", Last(queue)>>

TakeNoRear ==
    /\ queue = <<>>
    /\ done' = <<"dequeue_rear", Nothing>> /\ UNCHANGED queue

TakeById(p) ==
    \E i \in DOMAIN queue :
        queue[i] = p /\ queue' = RemoveAt(queue, i) /\ done' = <<"dequeue_by_id", p>>

TakeNoId(p) ==
    /\ p \notin ToSet(queue)
    /\ done' = <<"dequeue_by_id", Nothing>> /\ UNCHANGED queue

QueueNext ==
    \/ \E p \in Procs : Put(p) \/ PutInOrder(p) \/ TakeById(p) \/ TakeNoId(p)
    \/ Take \/ TakeRear \/ TakeNoRear

QueueSpec == QueueInit /\ [][QueueNext]_queuevars

=============================================================================
