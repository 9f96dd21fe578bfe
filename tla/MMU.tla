--------------------------------- MODULE MMU ---------------------------------
(***************************************************************************)
(* The memory manager of the round-robin scheduler, src/MMU.               *)
(*                                                                         *)
(* Physical memory is the array RAM of frames.  A frame holds a page table *)
(* or one page of a process, a page table is itself placed in a frame, and *)
(* the PCB of a process names the frame of its table.  A page fault takes  *)
(* the first free frame; when there is none, it evicts the page of the     *)
(* lowest NRU class (2R + M).  The frame of a page that a blocked process  *)
(* waits for is reserved until the process wakes.                          *)
(*                                                                         *)
(* Every handler of mmu_functions.c that changes state is an operator from *)
(* the memory state before the call to the memory state after it: the      *)
(* round-robin scheduler of module RRScheduler makes the same calls.  Here *)
(* they are driven by the most general caller with one CPU.                *)
(*                                                                         *)
(* A page table is reached as the code reaches it, through the frame its   *)
(* owner's PCB names: the pointer RAM[i].pte is modelled by the process    *)
(* the table was allocated for.                                            *)
(***************************************************************************)
EXTENDS Integers, FiniteSets

CONSTANTS
    MEM_SIZE,    \* number of physical frames (32 in mmu.h)
    NUM_PAGES,   \* largest limit of a process (64: swap uses 64 as a mark)
    Procs,       \* the processes, named by their ids
    Limit,       \* Limit[p]: number of pages of process p
    CleanDelay,  \* ticks to load a page (10)
    DirtyDelay,  \* ticks to write a dirty page back and load another (20)
    MaxClk       \* bound on the clock

ASSUME MMUAssumption ==
    /\ MEM_SIZE \in Nat \ {0}
    /\ NUM_PAGES \in Nat \ {0}
    /\ Procs \subseteq Nat
    /\ Limit \in [Procs -> 1..NUM_PAGES]
    /\ CleanDelay \in Nat
    /\ DirtyDelay \in Nat
    /\ MaxClk \in Nat

Frame == 0..MEM_SIZE-1
Page == 0..NUM_PAGES-1
Bit == {0, 1}
Op == {"r", "w"}

NoFrame == -1
NoPage == -1
NoOne == -1

VARIABLES
    RAM,       \* RAM[i]: what frame i holds
    PT,        \* PT[p]: the page table allocated for process p
    pcb,       \* pcb[p]: the fields of p's PCB that the MMU reads or writes
    clk,       \* the shared clock that getClk() reads
    undefined  \* "no" until the program reads outside an array

MMUvars == <<RAM, PT, pcb, clk, undefined>>

-----------------------------------------------------------------------------
(* Memory states.                                                          *)

FrameRec == [occupied: BOOLEAN, process_id: Int, pte: Procs \cup {NoOne},
             R: Bit, M: Bit, vpage: Page \cup {NoPage}, reserved: BOOLEAN]

Entry == [valid: BOOLEAN, frame_address: Frame \cup {NoFrame}, R: Bit, M: Bit]

PCBRec == [state: {"W", "R", "B", "F"}, forked: BOOLEAN, frame_index: Frame \cup {NoFrame},
           unblock_at: Int, pending_page: Page \cup {NoPage},
           pending_frame: Frame \cup {NoFrame}]

MemState == [RAM: [Frame -> FrameRec], PT: [Procs -> [Page -> Entry]],
             pcb: [Procs -> PCBRec]]

\* The memory state that a handler is called in, and its effect as an action.
Mem == [RAM |-> RAM, PT |-> PT, pcb |-> pcb]

Become(m) == RAM' = m.RAM /\ PT' = m.PT /\ pcb' = m.pcb

-----------------------------------------------------------------------------
(* The handlers.                                                           *)

\* A global array starts as zeros: process_id and vpage are 0, not -1.
ZeroFrame == [occupied |-> FALSE, process_id |-> 0, pte |-> NoOne, R |-> 0,
              M |-> 0, vpage |-> 0, reserved |-> FALSE]

FreedFrame == [occupied |-> FALSE, process_id |-> NoOne, pte |-> NoOne, R |-> 0,
               M |-> 0, vpage |-> NoPage, reserved |-> FALSE]

NoEntry == [valid |-> FALSE, frame_address |-> NoFrame, R |-> 0, M |-> 0]

EmptyTable == [v \in Page |-> NoEntry]

NewPCB == [state |-> "W", forked |-> FALSE, frame_index |-> NoFrame,
           unblock_at |-> -1, pending_page |-> NoPage,
           pending_frame |-> NoFrame]

\* get_process(id) finds a PCB.
Live(m, id) == id \in Procs /\ m.pcb[id].state # "F"

\* The table that RAM[pcb->frame_index].pte points to.
TableOf(m, p) == m.RAM[m.pcb[p].frame_index].pte

\* Mutant: M written as a mask of the flags word, not as a bit.
MBitMask(op) == IF op = "w" THEN 2 ELSE 0

MBit(op) == IF op = "w" THEN 1 ELSE 0

\* Mutant: the delay follows the wrong bit.
PageFaultDelayOfR(m, i) == IF m.RAM[i].R # 0 THEN DirtyDelay ELSE CleanDelay

PageFaultDelay(m, i) == IF m.RAM[i].M # 0 THEN DirtyDelay ELSE CleanDelay

FreeFrames(m) == {i \in Frame : ~m.RAM[i].occupied}

\* Mutant: the scan forgets to skip page tables.
EvictableTables(m) == {i \in Frame : m.RAM[i].occupied /\ ~m.RAM[i].reserved}

\* Mutant: the scan forgets to skip reserved frames.
EvictableReserved(m) == {i \in Frame : m.RAM[i].occupied /\ m.RAM[i].pte = NoOne}

\* Neither a page table nor reserved for a process that waits for its page.
Evictable(m) ==
    {i \in Frame : /\ m.RAM[i].occupied
                   /\ m.RAM[i].pte = NoOne
                   /\ ~m.RAM[i].reserved}

\* Mutant: the weights of the two bits are swapped.
NRUClassSwapped(m, i) == m.RAM[i].R + 2 * m.RAM[i].M

NRUClass(m, i) == 2 * m.RAM[i].R + m.RAM[i].M

\* The frame that fault_handler's scan of RAM ends with.
FrameFor(m) ==
    IF FreeFrames(m) # {}
    THEN CHOOSE i \in FreeFrames(m) : \A j \in FreeFrames(m) : i <= j
    ELSE IF Evictable(m) # {}
    THEN CHOOSE i \in Evictable(m) : \A j \in Evictable(m) :
            \/ NRUClass(m, i) < NRUClass(m, j)
            \/ NRUClass(m, i) = NRUClass(m, j) /\ i <= j
    ELSE NoFrame

\* Mutant: swap leaves the old owner's entry valid.
UnmapNothing(m, i) == m

\* swap invalidates the entry of the page it evicts; a free frame has none.
Unmap(m, i) ==
    LET old == m.RAM[i].process_id
        v   == m.RAM[i].vpage
    IN  IF m.RAM[i].occupied /\ Live(m, old) /\ m.pcb[old].frame_index >= 0 /\ v >= 0
        THEN [RAM |-> m.RAM, PT |-> [m.PT EXCEPT ![TableOf(m, old)][v] = NoEntry], pcb |-> m.pcb]
        ELSE m

DefinePageTable(m, p, i) ==
    [RAM |-> [m.RAM EXCEPT ![i] = [@ EXCEPT !.occupied = TRUE, !.process_id = p, !.pte = p,
                                            !.R = 1, !.M = 0, !.vpage = NoPage]],
     PT  |-> [m.PT EXCEPT ![p] = EmptyTable],
     pcb |-> [m.pcb EXCEPT ![p].frame_index = i]]

\* put_page_in_frame, and what swap does once the old page is out.
MapPage(m, p, v, i, op) ==
    IF m.pcb[p].frame_index = NoFrame
    THEN m
    ELSE [RAM |-> [m.RAM EXCEPT ![i] = [@ EXCEPT !.occupied = TRUE, !.process_id = p,
                                        !.pte = NoOne, !.R = 1, !.M = MBit(op), !.vpage = v]],
          PT  |-> [m.PT EXCEPT ![TableOf(m, p)][v] =
                     [valid |-> TRUE, frame_address |-> i, R |-> 1, M |-> MBit(op)]],
          pcb |-> m.pcb]

LoadPage(m, p, v, i, op) == MapPage(Unmap(m, i), p, v, i, op)

\* fault_handler(p, 0, 0): a frame for the page table, evicting if need be.
FaultTable(m, p) ==
    LET i == FrameFor(m)
    IN  IF i = NoFrame THEN m ELSE DefinePageTable(Unmap(m, i), p, i)

\* fault_handler(p, v, 2): a page brought in without a wait.
FaultPreload(m, p, v) ==
    LET i == FrameFor(m)
        n == LoadPage(m, p, v, i, "r")
        t == IF i \in FreeFrames(m) THEN clk + PageFaultDelay(m, i)
                                    ELSE m.pcb[p].unblock_at
    IN  IF i = NoFrame
        THEN m
        ELSE [RAM |-> n.RAM, PT |-> n.PT, pcb |-> [n.pcb EXCEPT ![p].unblock_at = t]]

Block(m, p) ==
    [RAM |-> m.RAM, PT |-> m.PT,
     pcb |-> [m.pcb EXCEPT ![p] = [@ EXCEPT !.state = "B", !.unblock_at = clk + CleanDelay,
                                            !.pending_page = NoPage, !.pending_frame = NoFrame]]]

\* fault_handler(p, v, 1): the process waits, the frame is reserved.  The delay
\* is that of the page evicted, read before the new page's bits replace it.
FaultDemand(m, p, v, op) ==
    LET i == FrameFor(m)
        n == LoadPage(Block(m, p), p, v, i, op)
    IN  IF i = NoFrame
        THEN Block(m, p)
        ELSE [RAM |-> [n.RAM EXCEPT ![i].reserved = TRUE],
              PT  |-> n.PT,
              pcb |-> [n.pcb EXCEPT ![p] = [@ EXCEPT !.unblock_at = clk + PageFaultDelay(m, i),
                                                     !.pending_page = v, !.pending_frame = i]]]

InitializePCB(m, p) ==
    IF m.pcb[p].frame_index = NoFrame THEN FaultPreload(FaultTable(m, p), p, 0) ELSE m

\* What check answers, in the order of its tests.
Resident(m, p, v) == m.PT[TableOf(m, p)][v].valid

\* check on a page that is there sets the bits of its entry and of its frame.
Touch(m, p, v, op) ==
    LET t == TableOf(m, p)
        i == m.PT[t][v].frame_address
        Bits(e) == [e EXCEPT !.R = 1, !.M = IF op = "w" THEN 1 ELSE @]
    IN  [RAM |-> [m.RAM EXCEPT ![i] = Bits(@)], PT |-> [m.PT EXCEPT ![t][v] = Bits(@)],
         pcb |-> m.pcb]

ClearRecent(m) ==
    [RAM |-> [i \in Frame |-> IF m.RAM[i].occupied
                              THEN [m.RAM[i] EXCEPT !.R = 0] ELSE m.RAM[i]],
     PT  |-> [p \in Procs |-> IF \E i \in Frame : m.RAM[i].occupied /\ m.RAM[i].pte = p
                              THEN [v \in Page |-> [m.PT[p][v] EXCEPT !.R = 0]]
                              ELSE m.PT[p]],
     pcb |-> m.pcb]

\* Mutant: the data frames of the process are not released.
FreeTableOnly(m, p) ==
    [m EXCEPT !.RAM[m.pcb[p].frame_index] = FreedFrame, !.PT[p] = EmptyTable]

\* Mutant: the M bits of the frames survive.
FreeKeepsM(m, p) ==
    [m EXCEPT
        !.RAM = [i \in Frame |-> IF i = m.pcb[p].frame_index \/ m.RAM[i].process_id = p
                                 THEN [FreedFrame EXCEPT !.M = m.RAM[i].M] ELSE m.RAM[i]],
        !.PT[p] = EmptyTable]

FreePageTable(m, p) ==
    [RAM |-> [i \in Frame |-> IF i = m.pcb[p].frame_index \/ m.RAM[i].process_id = p
                              THEN FreedFrame ELSE m.RAM[i]],
     PT  |-> [m.PT EXCEPT ![p] = EmptyTable],
     pcb |-> m.pcb]

\* checkBlockEnd, for the set S of processes it moves to the ready queue.
Overdue == {p \in Procs : pcb[p].state = "B" /\ pcb[p].unblock_at <= clk}

\* Mutant: checkBlockEnd forgets freeReserved.
EndFaultsReserved(m, S) ==
    [m EXCEPT !.pcb = [p \in Procs |->
        IF p \in S THEN [m.pcb[p] EXCEPT !.state = "W", !.pending_page = NoPage,
                                          !.pending_frame = NoFrame]
        ELSE m.pcb[p]]]

EndFaults(m, S) ==
    LET Waits(p) == m.pcb[p].pending_page # NoPage /\ m.pcb[p].pending_frame # NoFrame
    IN  [RAM |-> [i \in Frame |-> IF \E p \in S : Waits(p) /\ m.pcb[p].pending_frame = i
                                  THEN [m.RAM[i] EXCEPT !.reserved = FALSE]
                                  ELSE m.RAM[i]],
         PT  |-> m.PT,
         pcb |-> [p \in Procs |->
                    IF p \notin S THEN m.pcb[p]
                    ELSE IF Waits(p)
                    THEN [m.pcb[p] EXCEPT !.state = "W", !.pending_page = NoPage,
                                          !.pending_frame = NoFrame]
                    ELSE [m.pcb[p] EXCEPT !.state = "W"]]]

-----------------------------------------------------------------------------
(* The actions.  A read outside an array ends the behaviour: whatever the   *)
(* program does from there is not described by its source.                 *)

MMUInit ==
    /\ RAM = [i \in Frame |-> ZeroFrame]
    /\ PT = [p \in Procs |-> EmptyTable]
    /\ pcb = [p \in Procs |-> NewPCB]
    /\ clk = 0
    /\ undefined = "no"

Tick ==
    /\ clk < MaxClk
    /\ clk' = clk + 1
    /\ UNCHANGED <<RAM, PT, pcb, undefined>>

\* runProcess: the first dispatch of a process initializes its memory.
Dispatch(p) ==
    /\ pcb[p].state = "W"
    /\ \A q \in Procs : pcb[q].state # "R"
    /\ LET m == IF pcb[p].forked THEN Mem ELSE InitializePCB(Mem, p)
       IN  /\ RAM' = m.RAM
           /\ PT' = m.PT
           /\ pcb' = [m.pcb EXCEPT ![p].state = "R", ![p].forked = TRUE]
    /\ UNCHANGED <<clk, undefined>>

Preempt(p) ==
    /\ pcb[p].state = "R"
    /\ pcb' = [pcb EXCEPT ![p].state = "W"]
    /\ UNCHANGED <<RAM, PT, clk, undefined>>

Hit(p, v, op) ==
    /\ pcb[p].state = "R"
    /\ pcb[p].frame_index # NoFrame
    /\ v < Limit[p]
    /\ Resident(Mem, p, v)
    /\ Become(Touch(Mem, p, v, op))
    /\ UNCHANGED <<clk, undefined>>

Fault(p, v, op) ==
    /\ pcb[p].state = "R"
    /\ pcb[p].frame_index # NoFrame
    /\ v < Limit[p]
    /\ ~Resident(Mem, p, v)
    /\ Become(FaultDemand(Mem, p, v, op))
    /\ UNCHANGED <<clk, undefined>>

\* check lets the page number equal the limit and reads past the table.
ReadPastTable(p, v) ==
    /\ pcb[p].state = "R"
    /\ pcb[p].frame_index # NoFrame
    /\ v = Limit[p]
    /\ undefined' = "past_table"
    /\ UNCHANGED <<RAM, PT, pcb, clk>>

\* check and freePageTable index RAM with the frame of a table that is not there.
ReadNoTable(p) ==
    /\ pcb[p].state = "R"
    /\ pcb[p].frame_index = NoFrame
    /\ undefined' = "no_table"
    /\ UNCHANGED <<RAM, PT, pcb, clk>>

Finish(p) ==
    /\ pcb[p].state = "R"
    /\ pcb[p].frame_index # NoFrame
    /\ LET m == FreePageTable(Mem, p)
       IN  RAM' = m.RAM /\ PT' = m.PT /\ pcb' = [m.pcb EXCEPT ![p].state = "F"]
    /\ UNCHANGED <<clk, undefined>>

Wake ==
    /\ Overdue # {}
    /\ Become(EndFaults(Mem, Overdue))
    /\ UNCHANGED <<clk, undefined>>

Clear ==
    /\ Become(ClearRecent(Mem))
    /\ UNCHANGED <<clk, undefined>>

MMUNext ==
    /\ undefined = "no"
    /\ \/ Tick
       \/ \E p \in Procs : \/ Dispatch(p) \/ Preempt(p) \/ Finish(p) \/ ReadNoTable(p)
                          \/ \E v \in 0..NUM_PAGES :
                                \/ ReadPastTable(p, v)
                                \/ \E op \in Op : Hit(p, v, op) \/ Fault(p, v, op)
       \/ Wake
       \/ Clear

MMUSpec == MMUInit /\ [][MMUNext]_MMUvars

-----------------------------------------------------------------------------
(* Properties.                                                             *)

MMUTypeOK ==
    /\ Mem \in MemState
    /\ clk \in 0..MaxClk
    /\ undefined \in {"no", "past_table", "no_table"}

\* The invariants below are of memory states, so that a handler can be said to
\* preserve them.
TablesKept(m) ==
    /\ \A p \in Procs : m.pcb[p].frame_index # NoFrame /\ m.pcb[p].state # "F" =>
          LET f == m.RAM[m.pcb[p].frame_index]
          IN  f.occupied /\ ~f.reserved /\ f.pte = p /\ f.process_id = p
    /\ \A i \in Frame : m.RAM[i].pte # NoOne =>
          /\ m.RAM[i].occupied
          /\ m.pcb[m.RAM[i].pte].frame_index = i
          /\ m.pcb[m.RAM[i].pte].state # "F"

EntriesTrue(m) ==
    \A p \in Procs, v \in Page : m.PT[p][v].valid =>
        /\ m.PT[p][v].frame_address # NoFrame
        /\ LET f == m.RAM[m.PT[p][v].frame_address]
           IN  /\ f.occupied /\ f.pte = NoOne /\ f.process_id = p /\ f.vpage = v
               /\ f.R = m.PT[p][v].R /\ f.M = m.PT[p][v].M

FramesOwned(m) ==
    \A i \in Frame : m.RAM[i].occupied /\ m.RAM[i].pte = NoOne =>
        /\ Live(m, m.RAM[i].process_id)
        /\ m.pcb[m.RAM[i].process_id].frame_index # NoFrame
        /\ m.RAM[i].vpage # NoPage
        /\ LET e == m.PT[m.RAM[i].process_id][m.RAM[i].vpage]
           IN  e.valid /\ e.frame_address = i

ReservedHeld(m) ==
    /\ \A i \in Frame : m.RAM[i].reserved =>
          \E p \in Procs : m.pcb[p].state = "B" /\ m.pcb[p].pending_frame = i
    /\ \A p \in Procs :
          /\ (m.pcb[p].pending_frame # NoFrame) <=> (m.pcb[p].pending_page # NoPage)
          /\ m.pcb[p].pending_frame # NoFrame =>
                /\ m.pcb[p].state = "B"
                /\ LET f == m.RAM[m.pcb[p].pending_frame]
                   IN  /\ f.occupied /\ f.reserved /\ f.pte = NoOne
                       /\ f.process_id = p /\ f.vpage = m.pcb[p].pending_page

FreeClean(m) ==
    \A i \in Frame : ~m.RAM[i].occupied =>
        m.RAM[i].M = 0 /\ m.RAM[i].R = 0 /\ ~m.RAM[i].reserved /\ m.RAM[i].pte = NoOne

\* A live process reaches its own table through its PCB, and every table in RAM
\* belongs to a live process: neither an eviction nor the exit of another
\* process takes a frame that holds a table (fault_handler skips pte != NULL).
TablesStay == TablesKept(Mem)

\* A valid entry points to the frame that holds that very page, with the same
\* R and M bits: check, swap and put_page_in_frame write each bit twice and
\* eviction reads only the frame's copy.
EntriesBacked == EntriesTrue(Mem)

\* Conversely an occupied frame that is not a table holds a page that its live
\* owner's table maps to it: no page is in two frames and none is orphaned by
\* an eviction, an exit or a process whose id is the 0 RAM starts with.
FramesMapped == FramesOwned(Mem)

\* A frame is reserved exactly while a blocked process waits for the page in it,
\* and it keeps that page until the process wakes (swap and fault_handler
\* reserve, checkBlockEnd releases).
ReservedIsPending == ReservedHeld(Mem)

\* A frame that is handed out as free carries nothing over from its last owner:
\* a stale M bit would cost the next fault a write-back (page_fault_delay reads
\* M of a free frame too), a stale reserved bit would hide it from eviction.
FreeFramesClean == FreeClean(Mem)

\* No process runs without a page table and no blocked process waits for a page
\* that was given no frame: fault_handler returns silently when every frame is
\* a table or reserved.  It holds while MEM_SIZE is at least twice the number
\* of processes.
EveryFaultServed ==
    \A p \in Procs :
        /\ pcb[p].forked /\ pcb[p].state # "F" => pcb[p].frame_index # NoFrame
        /\ pcb[p].state = "B" => pcb[p].pending_frame # NoFrame

\* p's page v leaves memory while p goes on.
Evicted(p, v) == PT[p][v].valid /\ ~PT'[p][v].valid /\ pcb'[p].state # "F"

Pending(p, v) == pcb[p].state = "B" /\ pcb[p].pending_page = v

\* NRU seen from the page tables: a page is evicted only when no free frame is
\* left, is not one that its process waits for, and no page that stays was in a
\* lower class.
EvictsLowestClass ==
    [][\A p \in Procs, v \in Page : Evicted(p, v) =>
         /\ FreeFrames([RAM |-> RAM']) = {}
         /\ ~Pending(p, v)
         /\ \A q \in Procs, w \in Page :
               PT[q][w].valid /\ ~Evicted(q, w) /\ ~Pending(q, w) =>
                  2 * PT[p][v].R + PT[p][v].M <= 2 * PT[q][w].R + PT[q][w].M
      ]_MMUvars

\* A process is blocked for a write-back exactly when its fault evicts a page
\* that its owner, whoever that is, wrote since it was loaded.
DelayPaysForWriteBack ==
    [][\A p \in Procs : pcb[p].state = "R" /\ pcb'[p].state = "B" =>
         pcb'[p].unblock_at - clk =
            IF \E q \in Procs, v \in Page : Evicted(q, v) /\ PT[q][v].M = 1
            THEN DirtyDelay ELSE CleanDelay
      ]_MMUvars

\* A process that wakes from a served fault finds its page there, not evicted by
\* the faults of others while it waited, and never wakes early.
WakesWithPage ==
    [][\A p \in Procs : pcb[p].state = "B" /\ pcb'[p].state # "B" =>
         /\ pcb[p].unblock_at <= clk
         /\ pcb[p].pending_page # NoPage => PT'[p][pcb[p].pending_page].valid
      ]_MMUvars

=============================================================================
