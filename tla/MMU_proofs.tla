----------------------------- MODULE MMU_proofs -----------------------------
(***************************************************************************)
(* Theorems about module MMU, for any number of frames, pages and          *)
(* processes.                                                              *)
(***************************************************************************)
EXTENDS MMU, SequenceFacts, FiniteSetTheorems

-----------------------------------------------------------------------------
(* The scan of fault_handler finds a frame.                                *)

\* FrameFor is a free frame if there is one, else one that may be evicted.
LEMMA FrameForChoice ==
  ASSUME NEW m \in MemState
  PROVE  /\ FrameFor(m) \in FreeFrames(m) \cup Evictable(m) \cup {NoFrame}
         /\ FreeFrames(m) # {} => FrameFor(m) \in FreeFrames(m)
         /\ FreeFrames(m) = {} /\ Evictable(m) # {} =>
               /\ FrameFor(m) \in Evictable(m)
               /\ \A j \in Evictable(m) : NRUClass(m, FrameFor(m)) <= NRUClass(m, j)
         /\ FreeFrames(m) = {} /\ Evictable(m) = {} => FrameFor(m) = NoFrame
<1>1. CASE FreeFrames(m) # {}
  <2>1. FreeFrames(m) \in SUBSET Nat
    BY MMUAssumption DEF FreeFrames, Frame
  <2>2. \E i \in FreeFrames(m) : \A j \in FreeFrames(m) : i <= j
    BY <1>1, <2>1, LeastExists
  <2>3. QED
    BY <1>1, <2>2 DEF FrameFor
<1>2. CASE FreeFrames(m) = {} /\ Evictable(m) # {}
  <2> DEFINE E == Evictable(m)
             C == {NRUClass(m, i) : i \in E}
  <2>1. E \in SUBSET Nat
    BY MMUAssumption DEF Evictable, Frame
  <2>2. \A i \in E : NRUClass(m, i) \in Nat
    BY DEF Evictable, NRUClass, MemState, FrameRec, Bit
  <2>3. C \in SUBSET Nat /\ C # {}
    BY <1>2, <2>2
  <2>4. PICK c \in C : \A d \in C : c <= d
    <3> HIDE DEF C
    <3> QED  BY <2>3, LeastExists
  <2> DEFINE T == {i \in E : NRUClass(m, i) = c}
  <2>5. T \in SUBSET Nat /\ T # {}
    BY <2>1, <2>4
  <2>6. PICK i \in T : \A j \in T : i <= j
    <3> HIDE DEF T
    <3> QED  BY <2>5, LeastExists
  <2>7. \A j \in E : NRUClass(m, i) <= NRUClass(m, j)
    BY <2>4, <2>6
  <2>8. \A j \in E : \/ NRUClass(m, i) < NRUClass(m, j)
                     \/ NRUClass(m, i) = NRUClass(m, j) /\ i <= j
    BY <2>2, <2>4, <2>6, <2>7
  <2>9. QED
    <3>1. FrameFor(m) = CHOOSE a \in E : \A j \in E :
                            \/ NRUClass(m, a) < NRUClass(m, j)
                            \/ NRUClass(m, a) = NRUClass(m, j) /\ a <= j
      BY <1>2 DEF FrameFor
    <3>2. /\ FrameFor(m) \in E
          /\ \A j \in E : \/ NRUClass(m, FrameFor(m)) < NRUClass(m, j)
                          \/ NRUClass(m, FrameFor(m)) = NRUClass(m, j) /\ FrameFor(m) <= j
      BY <2>6, <2>8, <3>1
    <3>3. QED
      BY <1>2, <2>2, <3>2
<1>3. CASE FreeFrames(m) = {} /\ Evictable(m) = {}
  BY <1>3 DEF FrameFor
<1>4. QED
  BY <1>1, <1>2, <1>3

-----------------------------------------------------------------------------
(* The handlers keep the memory state well typed.                          *)

RAMType == [Frame -> FrameRec]
PTType == [Procs -> [Page -> Entry]]
PCBType == [Procs -> PCBRec]

LEMMA MemStateParts ==
  ASSUME NEW m \in MemState
  PROVE  /\ m = [RAM |-> m.RAM, PT |-> m.PT, pcb |-> m.pcb]
         /\ m.RAM \in RAMType
         /\ m.PT \in PTType
         /\ m.pcb \in PCBType
BY DEF MemState, RAMType, PTType, PCBType

LEMMA MemStateWhole ==
  ASSUME NEW ram \in RAMType, NEW pt \in PTType,
         NEW blocks \in PCBType
  PROVE  [RAM |-> ram, PT |-> pt, pcb |-> blocks] \in MemState
BY DEF MemState, RAMType, PTType, PCBType

LEMMA ProcsAreNumbers == Procs \subseteq Nat /\ NoOne \notin Procs
BY MMUAssumption DEF NoOne

LEMMA FrameForType ==
  ASSUME NEW m \in MemState
  PROVE  FrameFor(m) \in Frame \cup {NoFrame}
BY FrameForChoice DEF FreeFrames, Evictable

LEMMA BitType == \A op : MBit(op) \in Bit
BY DEF MBit, Bit

LEMMA DelayType ==
  ASSUME NEW m, NEW i
  PROVE  PageFaultDelay(m, i) \in Nat
BY MMUAssumption DEF PageFaultDelay

LEMMA EmptyTableType == NoEntry \in Entry /\ EmptyTable \in [Page -> Entry]
BY DEF EmptyTable, NoEntry, Entry, Bit

LEMMA UnmapType ==
  ASSUME NEW m \in MemState, NEW i \in Frame
  PROVE  Unmap(m, i) \in MemState
<1> DEFINE q == TableOf(m, m.RAM[i].process_id)
           v == m.RAM[i].vpage
           pt == [m.PT EXCEPT ![q][v] = NoEntry]
<1>1. pt \in PTType
  <2> HIDE DEF q, v
  <2> QED  BY MemStateParts, EmptyTableType DEF PTType
<1>2. Unmap(m, i) = m \/ Unmap(m, i) = [RAM |-> m.RAM, PT |-> pt, pcb |-> m.pcb]
  BY DEF Unmap
<1> HIDE DEF pt
<1>3. QED
  BY <1>1, <1>2, MemStateParts, MemStateWhole

LEMMA DefinePageTableType ==
  ASSUME NEW m \in MemState, NEW p \in Procs, NEW i \in Frame
  PROVE  DefinePageTable(m, p, i) \in MemState
<1> DEFINE n == DefinePageTable(m, p, i)
           ram == n.RAM
           pt == n.PT
           blocks == n.pcb
<1>1. \A f \in FrameRec : [f EXCEPT !.occupied = TRUE, !.process_id = p, !.pte = p,
                                    !.R = 1, !.M = 0, !.vpage = NoPage] \in FrameRec
  <2>1. p \in Int
    BY ProcsAreNumbers
  <2>2. QED
    BY <2>1 DEF FrameRec, Bit
<1>2. \A b \in PCBRec : [b EXCEPT !.frame_index = i] \in PCBRec
  BY DEF PCBRec
<1>3. ram \in RAMType
  BY <1>1, MemStateParts DEF DefinePageTable, RAMType
<1>4. pt \in PTType
  BY EmptyTableType, MemStateParts DEF DefinePageTable, PTType
<1>5. blocks \in PCBType
  BY <1>2, MemStateParts DEF DefinePageTable, PCBType
<1>6. n = [RAM |-> ram, PT |-> pt, pcb |-> blocks]
  BY DEF DefinePageTable
<1> HIDE DEF ram, pt, blocks
<1>7. QED
  BY <1>3, <1>4, <1>5, <1>6, MemStateWhole

LEMMA MapPageType ==
  ASSUME NEW m \in MemState, NEW p \in Procs, NEW v \in Page, NEW i \in Frame, NEW op
  PROVE  MapPage(m, p, v, i, op) \in MemState
<1> DEFINE b == MBit(op)
           q == TableOf(m, p)
           n == LoadPage(m, p, v, i, op)
           e == [valid |-> TRUE, frame_address |-> i, R |-> 1, M |-> b]
           ram == [m.RAM EXCEPT ![i] = [@ EXCEPT !.occupied = TRUE, !.process_id = p,
                                        !.pte = NoOne, !.R = 1, !.M = b, !.vpage = v]]
           pt == [m.PT EXCEPT ![q][v] = e]
<1>1. b \in Bit
  BY BitType
<1>2. MapPage(m, p, v, i, op) = m \/ MapPage(m, p, v, i, op) = [RAM |-> ram, PT |-> pt, pcb |-> m.pcb]
  BY DEF MapPage
<1> HIDE DEF b, q
<1>3. \A f \in FrameRec : [f EXCEPT !.occupied = TRUE, !.process_id = p, !.pte = NoOne,
                                    !.R = 1, !.M = b, !.vpage = v] \in FrameRec
  <2>1. p \in Int
    BY ProcsAreNumbers
  <2>2. QED
    BY <1>1, <2>1 DEF FrameRec, Bit
<1>4. ram \in RAMType
  BY <1>3, MemStateParts DEF RAMType
<1>5. e \in Entry
  BY <1>1 DEF Entry, Bit
<1>6. pt \in PTType
  <2> HIDE DEF e
  <2> QED  BY <1>5, MemStateParts DEF PTType
<1> HIDE DEF ram, pt
<1>7. QED
  BY <1>2, <1>4, <1>6, MemStateParts, MemStateWhole

LEMMA LoadPageType ==
  ASSUME NEW m \in MemState, NEW p \in Procs, NEW v \in Page, NEW i \in Frame, NEW op
  PROVE  LoadPage(m, p, v, i, op) \in MemState
BY UnmapType, MapPageType DEF LoadPage

LEMMA BlockType ==
  ASSUME NEW m \in MemState, NEW p \in Procs, clk \in Int
  PROVE  Block(m, p) \in MemState
<1> DEFINE t == clk + CleanDelay
           blocks == [m.pcb EXCEPT ![p] =
                        [@ EXCEPT !.state = "B", !.unblock_at = t,
                                  !.pending_page = NoPage, !.pending_frame = NoFrame]]
<1>1. t \in Int
  BY MMUAssumption
<1>2. Block(m, p) = [RAM |-> m.RAM, PT |-> m.PT, pcb |-> blocks]
  BY DEF Block
<1> HIDE DEF t
<1>3. \A b \in PCBRec : [b EXCEPT !.state = "B", !.unblock_at = t, !.pending_page = NoPage,
                                  !.pending_frame = NoFrame] \in PCBRec
  BY <1>1 DEF PCBRec
<1>4. blocks \in PCBType
  BY <1>3, MemStateParts DEF PCBType
<1> HIDE DEF blocks
<1>5. QED
  BY <1>2, <1>4, MemStateParts, MemStateWhole

LEMMA FaultTableType ==
  ASSUME NEW m \in MemState, NEW p \in Procs
  PROVE  FaultTable(m, p) \in MemState
BY FrameForType, UnmapType, DefinePageTableType DEF FaultTable

LEMMA FaultPreloadType ==
  ASSUME NEW m \in MemState, NEW p \in Procs, NEW v \in Page, clk \in Int
  PROVE  FaultPreload(m, p, v) \in MemState
<1> DEFINE i == FrameFor(m)
           n == LoadPage(m, p, v, i, "r")
           t == IF i \in FreeFrames(m) THEN clk + PageFaultDelay(m, i)
                                       ELSE m.pcb[p].unblock_at
           blocks == [n.pcb EXCEPT ![p].unblock_at = t]
<1>1. t \in Int
  <2>1. m.pcb[p].unblock_at \in Int
    BY DEF MemState, PCBRec
  <2>2. QED
    BY <2>1, DelayType
<1>2. CASE i = NoFrame
  BY <1>2 DEF FaultPreload
<1>3. CASE i # NoFrame
  <2>1. n \in MemState
    BY <1>3, FrameForType, LoadPageType
  <2>2. FaultPreload(m, p, v) = [RAM |-> n.RAM, PT |-> n.PT, pcb |-> blocks]
    BY <1>3 DEF FaultPreload
  <2> HIDE DEF n, t
  <2>3. \A b \in PCBRec : [b EXCEPT !.unblock_at = t] \in PCBRec
    BY <1>1 DEF PCBRec
  <2>4. blocks \in PCBType
    BY <2>1, <2>3, MemStateParts DEF PCBType
  <2> HIDE DEF blocks
  <2>5. QED
    BY <2>1, <2>2, <2>4, MemStateParts, MemStateWhole
<1>4. QED
  BY <1>2, <1>3

LEMMA FaultDemandType ==
  ASSUME NEW m \in MemState, NEW p \in Procs, NEW v \in Page, NEW op, clk \in Int
  PROVE  FaultDemand(m, p, v, op) \in MemState
<1> DEFINE i == FrameFor(m)
           n == LoadPage(Block(m, p), p, v, i, op)
           t == clk + PageFaultDelay(m, i)
           ram == [n.RAM EXCEPT ![i].reserved = TRUE]
           blocks == [n.pcb EXCEPT ![p] = [@ EXCEPT !.unblock_at = t, !.pending_page = v,
                                                    !.pending_frame = i]]
<1>1. t \in Int
  BY DelayType
<1>2. CASE i = NoFrame
  BY <1>2, BlockType DEF FaultDemand
<1>3. CASE i # NoFrame
  <2>1. i \in Frame
    BY <1>3, FrameForType
  <2>2. n \in MemState
    BY <2>1, LoadPageType, BlockType
  <2>3. FaultDemand(m, p, v, op) = [RAM |-> ram, PT |-> n.PT, pcb |-> blocks]
    BY <1>3 DEF FaultDemand
  <2> HIDE DEF n, t, i
  <2>4. \A b \in PCBRec : [b EXCEPT !.unblock_at = t, !.pending_page = v,
                                    !.pending_frame = i] \in PCBRec
    BY <1>1, <2>1 DEF PCBRec
  <2>5. blocks \in PCBType
    BY <2>2, <2>4, MemStateParts DEF PCBType
  <2>6. \A f \in FrameRec : [f EXCEPT !.reserved = TRUE] \in FrameRec
    BY DEF FrameRec
  <2>7. ram \in RAMType
    BY <2>2, <2>6, MemStateParts DEF RAMType
  <2> HIDE DEF blocks, ram
  <2>8. QED
    BY <2>2, <2>3, <2>5, <2>7, MemStateParts, MemStateWhole
<1>4. QED
  BY <1>2, <1>3

LEMMA InitializePCBType ==
  ASSUME NEW m \in MemState, NEW p \in Procs, clk \in Int
  PROVE  InitializePCB(m, p) \in MemState
<1>1. 0 \in Page
  BY MMUAssumption DEF Page
<1>2. QED
  BY <1>1, FaultTableType, FaultPreloadType DEF InitializePCB

LEMMA TouchType ==
  ASSUME NEW m \in MemState, NEW p \in Procs, NEW v \in Page, NEW op
  PROVE  Touch(m, p, v, op) \in MemState
<1> DEFINE t == TableOf(m, p)
           i == m.PT[t][v].frame_address
           Bits(e) == [e EXCEPT !.R = 1, !.M = IF op = "w" THEN 1 ELSE @]
           ram == [m.RAM EXCEPT ![i] = Bits(@)]
           pt == [m.PT EXCEPT ![t][v] = Bits(@)]
<1>1. \A e \in Entry : Bits(e) \in Entry
  BY DEF Entry, Bit
<1>2. \A f \in FrameRec : Bits(f) \in FrameRec
  BY DEF FrameRec, Bit
<1>3. Touch(m, p, v, op) = [RAM |-> ram, PT |-> pt, pcb |-> m.pcb]
  BY DEF Touch
<1> HIDE DEF Bits, i, t
<1>4. ram \in RAMType /\ pt \in PTType
  BY ZenonT(40), <1>1, <1>2, MemStateParts DEF RAMType, PTType
<1> HIDE DEF ram, pt
<1>5. QED
  BY <1>3, <1>4, MemStateParts, MemStateWhole

LEMMA ClearRecentType ==
  ASSUME NEW m \in MemState
  PROVE  ClearRecent(m) \in MemState
<1> DEFINE n == ClearRecent(m)
           ram == n.RAM
           pt == n.PT
           blocks == n.pcb
<1>1. \A f \in FrameRec : [f EXCEPT !.R = 0] \in FrameRec
  BY DEF FrameRec, Bit
<1>2. \A e \in Entry : [e EXCEPT !.R = 0] \in Entry
  BY DEF Entry, Bit
<1>3. ram \in RAMType
  BY <1>1, MemStateParts DEF ClearRecent, RAMType
<1>4. pt \in PTType
  BY <1>2, MemStateParts DEF ClearRecent, PTType
<1>5. n = [RAM |-> ram, PT |-> pt, pcb |-> m.pcb]
  BY DEF ClearRecent
<1> HIDE DEF ram, pt, blocks
<1>6. QED
  BY <1>3, <1>4, <1>5, MemStateParts, MemStateWhole

LEMMA FreePageTableType ==
  ASSUME NEW m \in MemState, NEW p \in Procs
  PROVE  FreePageTable(m, p) \in MemState
<1> DEFINE n == FreePageTable(m, p)
           ram == n.RAM
           pt == n.PT
           blocks == n.pcb
<1>1. FreedFrame \in FrameRec
  BY DEF FreedFrame, FrameRec, Bit, NoOne
<1>2. ram \in RAMType
  BY <1>1, MemStateParts DEF FreePageTable, RAMType
<1>3. pt \in PTType
  BY EmptyTableType, MemStateParts DEF FreePageTable, PTType
<1>4. n = [RAM |-> ram, PT |-> pt, pcb |-> m.pcb]
  BY DEF FreePageTable
<1> HIDE DEF ram, pt, blocks
<1>5. QED
  BY <1>2, <1>3, <1>4, MemStateParts, MemStateWhole

LEMMA EndFaultsType ==
  ASSUME NEW m \in MemState, NEW S
  PROVE  EndFaults(m, S) \in MemState
<1> DEFINE n == EndFaults(m, S)
           ram == n.RAM
           pt == n.PT
           blocks == n.pcb
<1>1. \A f \in FrameRec : [f EXCEPT !.reserved = FALSE] \in FrameRec
  BY DEF FrameRec
<1>2. \A b \in PCBRec : /\ [b EXCEPT !.state = "W"] \in PCBRec
                        /\ [b EXCEPT !.state = "W", !.pending_page = NoPage,
                                     !.pending_frame = NoFrame] \in PCBRec
  BY DEF PCBRec
<1>3. ram \in RAMType
  BY <1>1, MemStateParts DEF EndFaults, RAMType
<1>4. blocks \in PCBType
  BY <1>2, MemStateParts DEF EndFaults, PCBType
<1>5. n = [RAM |-> ram, PT |-> m.PT, pcb |-> blocks]
  BY DEF EndFaults
<1> HIDE DEF ram, pt, blocks
<1>6. QED
  BY <1>3, <1>4, <1>5, MemStateParts, MemStateWhole

-----------------------------------------------------------------------------
(* Type correctness of the specification.                                  *)

LEMMA BecomeType ==
  ASSUME NEW m \in MemState, Become(m)
  PROVE  Mem' \in MemState
<1>1. Mem' = m
  BY MemStateParts DEF Mem, Become
<1>2. QED
  BY <1>1

LEMMA InitType == MMUInit => MMUTypeOK
<1> SUFFICES ASSUME MMUInit
             PROVE  MMUTypeOK
  OBVIOUS
<1>1. RAM \in RAMType
  <2>1. ZeroFrame \in FrameRec
    <3>1. 0 \in Page
      BY MMUAssumption DEF Page
    <3>2. QED
      BY <3>1 DEF ZeroFrame, FrameRec, Bit
  <2>2. QED
    BY <2>1 DEF MMUInit, RAMType
<1>2. PT \in PTType
  BY EmptyTableType DEF MMUInit, PTType
<1>3. pcb \in PCBType
  <2>1. NewPCB \in PCBRec
    BY DEF NewPCB, PCBRec
  <2>2. QED
    BY <2>1 DEF MMUInit, PCBType
<1>4. Mem \in MemState
  BY <1>1, <1>2, <1>3, MemStateWhole DEF Mem
<1>5. clk \in 0..MaxClk /\ undefined \in {"no", "past_table", "no_table"}
  BY MMUAssumption DEF MMUInit
<1>6. QED
  BY <1>4, <1>5 DEF MMUTypeOK

LEMMA NextType ==
  ASSUME MMUTypeOK, [MMUNext]_MMUvars
  PROVE  MMUTypeOK'
<1>1. Mem \in MemState /\ clk \in Int
  BY DEF MMUTypeOK
<1>2. RAM \in RAMType /\ PT \in PTType /\ pcb \in PCBType
  BY <1>1, MemStateParts DEF Mem
<1>3. \A b \in PCBRec, s \in {"W", "R", "B", "F"} :
          /\ [b EXCEPT !.state = s] \in PCBRec
          /\ [b EXCEPT !.state = s, !.forked = TRUE] \in PCBRec
  BY DEF PCBRec
<1>4. \A m \in MemState, p \in Procs, s \in {"W", "R", "B", "F"} :
          /\ [m.pcb EXCEPT ![p].state = s] \in PCBType
          /\ [m.pcb EXCEPT ![p].state = s, ![p].forked = TRUE] \in PCBType
  <2>1. SUFFICES ASSUME NEW blocks \in PCBType, NEW p \in Procs, NEW s \in {"W", "R", "B", "F"}
                 PROVE  /\ [blocks EXCEPT ![p].state = s] \in PCBType
                        /\ [blocks EXCEPT ![p].state = s, ![p].forked = TRUE] \in PCBType
    BY MemStateParts
  <2>2. QED
    BY <1>3 DEF PCBType
<1>5. \A p, v : v < Limit[p] /\ p \in Procs /\ v \in 0..NUM_PAGES => v \in Page
  BY MMUAssumption DEF Page
<1>6. CASE Tick
  BY MMUAssumption, <1>6 DEF Tick, MMUTypeOK, Mem
<1>7. ASSUME NEW p \in Procs, Dispatch(p)
      PROVE  MMUTypeOK'
  <2> DEFINE m == IF pcb[p].forked THEN Mem ELSE InitializePCB(Mem, p)
  <2>1. m \in MemState
    BY <1>1, InitializePCBType
  <2>2. RAM' = m.RAM /\ PT' = m.PT /\ pcb' = [m.pcb EXCEPT ![p].state = "R", ![p].forked = TRUE]
    BY <1>7 DEF Dispatch
  <2> HIDE DEF m
  <2>3. Mem' \in MemState
    BY <1>4, <2>1, <2>2, MemStateParts, MemStateWhole DEF Mem
  <2>4. QED
    BY <1>7, <2>3 DEF Dispatch, MMUTypeOK
<1>8. ASSUME NEW p \in Procs, Preempt(p)
      PROVE  MMUTypeOK'
  <2>1. Mem' \in MemState
    BY <1>1, <1>2, <1>4, <1>8, MemStateWhole DEF Preempt, Mem
  <2>2. QED
    BY <1>8, <2>1 DEF Preempt, MMUTypeOK
<1>9. ASSUME NEW p \in Procs, Finish(p)
      PROVE  MMUTypeOK'
  <2> DEFINE m == FreePageTable(Mem, p)
  <2>1. m \in MemState
    BY <1>1, FreePageTableType
  <2>2. RAM' = m.RAM /\ PT' = m.PT /\ pcb' = [m.pcb EXCEPT ![p].state = "F"]
    BY <1>9 DEF Finish
  <2> HIDE DEF m
  <2>3. Mem' \in MemState
    BY <1>4, <2>1, <2>2, MemStateParts, MemStateWhole DEF Mem
  <2>4. QED
    BY <1>9, <2>3 DEF Finish, MMUTypeOK
<1>10. ASSUME NEW p \in Procs, NEW v \in 0..NUM_PAGES, NEW op \in Op, Hit(p, v, op)
       PROVE  MMUTypeOK'
  <2>1. Touch(Mem, p, v, op) \in MemState
    BY <1>1, <1>5, <1>10, TouchType DEF Hit
  <2>2. Mem' \in MemState
    BY <1>10, <2>1, BecomeType DEF Hit
  <2>3. QED
    BY <1>10, <2>2 DEF Hit, MMUTypeOK
<1>11. ASSUME NEW p \in Procs, NEW v \in 0..NUM_PAGES, NEW op \in Op, Fault(p, v, op)
       PROVE  MMUTypeOK'
  <2>1. FaultDemand(Mem, p, v, op) \in MemState
    BY <1>1, <1>5, <1>11, FaultDemandType DEF Fault
  <2>2. Mem' \in MemState
    BY <1>11, <2>1, BecomeType DEF Fault
  <2>3. QED
    BY <1>11, <2>2 DEF Fault, MMUTypeOK
<1>12. CASE Wake
  <2>1. Mem' \in MemState
    BY <1>1, <1>12, EndFaultsType, BecomeType DEF Wake
  <2>2. QED
    BY <1>12, <2>1 DEF Wake, MMUTypeOK
<1>13. CASE Clear
  <2>1. Mem' \in MemState
    BY <1>1, <1>13, ClearRecentType, BecomeType DEF Clear
  <2>2. QED
    BY <1>13, <2>1 DEF Clear, MMUTypeOK
<1>14. ASSUME NEW p \in Procs, NEW v \in 0..NUM_PAGES, ReadPastTable(p, v) \/ ReadNoTable(p)
       PROVE  MMUTypeOK'
  BY <1>14 DEF ReadPastTable, ReadNoTable, MMUTypeOK, Mem
<1>15. CASE UNCHANGED MMUvars
  BY <1>15 DEF MMUvars, MMUTypeOK, Mem
<1>16. 0 \in 0..NUM_PAGES
  BY MMUAssumption
<1>17. QED
  BY <1>6, <1>7, <1>8, <1>9, <1>10, <1>11, <1>12, <1>13, <1>14, <1>15, <1>16 DEF MMUNext

\* Every state of the memory manager has the types of its declarations: the
\* frame, page and process that a field names exist.
THEOREM TypeCorrect == MMUSpec => []MMUTypeOK
<1>1. MMUInit => MMUTypeOK
  BY InitType
<1>2. MMUTypeOK /\ [MMUNext]_MMUvars => MMUTypeOK'
  BY NextType
<1>3. QED
  BY <1>1, <1>2, PTL DEF MMUSpec

-----------------------------------------------------------------------------
(* Consistency: frames, tables and PCBs agree with each other.  None of the *)
(* five parts is inductive without the others: an eviction, for example,    *)
(* finds the entry to invalidate (EntriesTrue) through the frame's owner    *)
(* (FramesOwned), whose table its PCB names (TablesKept), and may do so     *)
(* because no one waits for the page (ReservedHeld).                        *)

Consistent(m) ==
    TablesKept(m) /\ EntriesTrue(m) /\ FramesOwned(m) /\ ReservedHeld(m) /\ FreeClean(m)

LEMMA FieldTypes ==
  ASSUME NEW m \in MemState
  PROVE  /\ \A i \in Frame : /\ m.RAM[i].pte \in Procs \cup {NoOne}
                             /\ m.RAM[i].vpage \in Page \cup {NoPage}
                             /\ m.RAM[i].occupied \in BOOLEAN
                             /\ m.RAM[i].reserved \in BOOLEAN
         /\ \A p \in Procs : /\ m.pcb[p].frame_index \in Frame \cup {NoFrame}
                             /\ m.pcb[p].pending_frame \in Frame \cup {NoFrame}
                             /\ m.pcb[p].pending_page \in Page \cup {NoPage}
         /\ \A p \in Procs, v \in Page :
               /\ m.PT[p][v].valid \in BOOLEAN
               /\ m.PT[p][v].frame_address \in Frame \cup {NoFrame}
BY DEF MemState, FrameRec, PCBRec, Entry

LEMMA NumbersOfPages ==
    /\ NoPage \notin Page /\ NoFrame \notin Frame
    /\ \A v \in Page : v >= 0
    /\ \A i \in Frame : i >= 0
BY MMUAssumption DEF Page, Frame, NoPage, NoFrame

\* What a valid entry of a page table says of its frame.
EntryIsTrue(m, q, w) ==
    LET j == m.PT[q][w].frame_address
    IN  /\ j # NoFrame /\ j \in Frame
        /\ m.RAM[j].occupied /\ m.RAM[j].pte = NoOne /\ m.RAM[j].process_id = q
        /\ m.RAM[j].vpage = w /\ m.RAM[j].R = m.PT[q][w].R /\ m.RAM[j].M = m.PT[q][w].M

LEMMA EntryTrue ==
  ASSUME NEW m \in MemState, Consistent(m), NEW q \in Procs, NEW w \in Page, m.PT[q][w].valid
  PROVE  EntryIsTrue(m, q, w)
<1>1. m.PT[q][w].frame_address \in Frame \cup {NoFrame}
  BY FieldTypes
<1>2. QED
  BY <1>1 DEF Consistent, EntriesTrue, EntryIsTrue

\* What the memory state says of its PCBs survives when their other fields
\* change and when a process that is not blocked changes its state.
LEMMA OtherFields ==
  ASSUME NEW m \in MemState, Consistent(m), NEW n \in MemState,
         n.RAM = m.RAM, n.PT = m.PT,
         \A q \in Procs : /\ n.pcb[q].frame_index = m.pcb[q].frame_index
                          /\ n.pcb[q].pending_page = m.pcb[q].pending_page
                          /\ n.pcb[q].pending_frame = m.pcb[q].pending_frame
                          /\ (n.pcb[q].state = "F") <=> (m.pcb[q].state = "F")
                          /\ m.pcb[q].state = "B" => n.pcb[q].state = "B"
  PROVE  Consistent(n)
<1>1. TablesKept(n)
  <2>1. ASSUME NEW q \in Procs, n.pcb[q].frame_index # NoFrame, n.pcb[q].state # "F"
        PROVE  LET f == n.RAM[n.pcb[q].frame_index]
               IN  f.occupied /\ ~f.reserved /\ f.pte = q /\ f.process_id = q
    BY <2>1 DEF Consistent, TablesKept
  <2>2. ASSUME NEW i \in Frame, n.RAM[i].pte # NoOne
        PROVE  /\ n.RAM[i].occupied
               /\ n.pcb[n.RAM[i].pte].frame_index = i
               /\ n.pcb[n.RAM[i].pte].state # "F"
    <3>1. /\ m.RAM[i].occupied
          /\ m.pcb[m.RAM[i].pte].frame_index = i
          /\ m.pcb[m.RAM[i].pte].state # "F"
      BY <2>2 DEF Consistent, TablesKept
    <3>2. m.RAM[i].pte \in Procs
      BY <2>2, FieldTypes
    <3>3. QED
      BY <3>1, <3>2
  <2>3. QED
    BY <2>1, <2>2 DEF TablesKept
<1>2. EntriesTrue(n)
  <2>1. EntriesTrue(m)
    BY DEF Consistent
  <2>2. QED
    BY <2>1, n.RAM = m.RAM, n.PT = m.PT DEF EntriesTrue
<1>3. FramesOwned(n)
  BY DEF Consistent, FramesOwned, Live
<1>4. ReservedHeld(n)
  BY DEF Consistent, ReservedHeld
<1>5. FreeClean(n)
  BY DEF Consistent, FreeClean
<1>6. QED
  BY <1>1, <1>2, <1>3, <1>4, <1>5 DEF Consistent

\* A live process's page table is reached through its PCB.
LEMMA OwnTable ==
  ASSUME NEW m \in MemState, Consistent(m), NEW p \in Procs,
         m.pcb[p].frame_index # NoFrame, m.pcb[p].state # "F"
  PROVE  TableOf(m, p) = p
BY DEF Consistent, TablesKept, TableOf

\* Evicting a frame invalidates exactly the entry that points to it.
LEMMA UnmapEffect ==
  ASSUME NEW m \in MemState, Consistent(m), NEW i \in FreeFrames(m) \cup Evictable(m)
  PROVE  /\ Unmap(m, i).RAM = m.RAM
         /\ Unmap(m, i).pcb = m.pcb
         /\ \A q \in Procs, w \in Page :
               Unmap(m, i).PT[q][w] = IF m.PT[q][w].valid /\ m.PT[q][w].frame_address = i
                                      THEN NoEntry ELSE m.PT[q][w]
<1>1. i \in Frame
  BY DEF FreeFrames, Evictable
<1>2. Unmap(m, i).RAM = m.RAM /\ Unmap(m, i).pcb = m.pcb
  BY DEF Unmap
<1>3. CASE i \in FreeFrames(m)
  <2>1. ~m.RAM[i].occupied
    BY <1>3 DEF FreeFrames
  <2>2. Unmap(m, i) = m
    BY <2>1 DEF Unmap
  <2>3. \A q \in Procs, w \in Page : ~(m.PT[q][w].valid /\ m.PT[q][w].frame_address = i)
    BY <2>1 DEF Consistent, EntriesTrue
  <2>4. QED
    BY <1>2, <2>2, <2>3
<1>4. CASE i \in Evictable(m)
  <2> DEFINE o == m.RAM[i].process_id
             v == m.RAM[i].vpage
  <2>1. m.RAM[i].occupied /\ m.RAM[i].pte = NoOne
    BY SMTT(30), <1>4 DEF Evictable
  <2>2. /\ Live(m, o) /\ o \in Procs /\ m.pcb[o].frame_index # NoFrame /\ v # NoPage
        /\ m.PT[o][v].valid /\ m.PT[o][v].frame_address = i
    BY <1>1, <2>1 DEF Consistent, FramesOwned, Live
  <2>3. v \in Page /\ v >= 0 /\ m.pcb[o].frame_index >= 0
    <3>1. v \in Page
      BY <1>1, <2>2, FieldTypes
    <3> HIDE DEF o, v
    <3>2. m.pcb[o].frame_index \in Frame
      <4>1. o \in Procs /\ m.pcb[o].frame_index # NoFrame
        BY <2>2
      <4>2. QED
        BY <4>1, FieldTypes
    <3>3. QED
      BY <3>1, <3>2, NumbersOfPages
  <2>4. TableOf(m, o) = o
    BY <2>2, OwnTable DEF Live
  <2>5. Unmap(m, i).PT = [m.PT EXCEPT ![o][v] = NoEntry]
    BY <2>1, <2>2, <2>3, <2>4 DEF Unmap
  <2>6. \A q \in Procs, w \in Page :
           m.PT[q][w].valid /\ m.PT[q][w].frame_address = i <=> q = o /\ w = v
    <3>1. ASSUME NEW q \in Procs, NEW w \in Page,
                 m.PT[q][w].valid, m.PT[q][w].frame_address = i
          PROVE  q = o /\ w = v
      BY <3>1 DEF Consistent, EntriesTrue
    <3>2. QED
      BY <2>2, <3>1
  <2>7. m.PT \in [Procs -> [Page -> Entry]]
    BY MemStateParts DEF PTType
  <2> HIDE DEF o, v
  <2>8. QED
    BY <1>2, <2>2, <2>3, <2>5, <2>6, <2>7
<1>5. QED
  BY <1>3, <1>4

\* A page table is put in frame i for a process that has none.
LEMMA TableConsistent ==
  ASSUME NEW m \in MemState, Consistent(m), NEW i \in FreeFrames(m) \cup Evictable(m),
         NEW p \in Procs, m.pcb[p].frame_index = NoFrame, m.pcb[p].state # "F"
  PROVE  Consistent(DefinePageTable(Unmap(m, i), p, i))
<1> DEFINE u == Unmap(m, i)
           n == DefinePageTable(u, p, i)
<1>1. i \in Frame /\ i # NoFrame
  BY NumbersOfPages DEF FreeFrames, Evictable
<1>2. u \in MemState
  BY <1>1, UnmapType
<1>3. /\ u.RAM = m.RAM
      /\ u.pcb = m.pcb
      /\ \A q \in Procs, w \in Page :
            u.PT[q][w] = IF m.PT[q][w].valid /\ m.PT[q][w].frame_address = i
                         THEN NoEntry ELSE m.PT[q][w]
  BY UnmapEffect
<1>4. /\ ~m.RAM[i].reserved /\ m.RAM[i].pte = NoOne
      /\ \A q \in Procs : m.pcb[q].pending_frame # i
  BY <1>1 DEF FreeFrames, Evictable, Consistent, FreeClean, ReservedHeld
<1>5. /\ \A j \in Frame : j # i => n.RAM[j] = m.RAM[j]
      /\ n.RAM[i].occupied /\ ~n.RAM[i].reserved
      /\ n.RAM[i].process_id = p /\ n.RAM[i].pte = p
  <2>1. m.RAM[i] \in FrameRec
    BY <1>1 DEF MemState
  <2>2. n.RAM = [m.RAM EXCEPT ![i] = [@ EXCEPT !.occupied = TRUE, !.process_id = p,
                                      !.pte = p, !.R = 1, !.M = 0, !.vpage = NoPage]]
    BY <1>3 DEF DefinePageTable
  <2>3. m.RAM \in [Frame -> FrameRec]
    BY MemStateParts DEF RAMType
  <2> HIDE DEF n
  <2>4. QED
    BY <1>1, <1>4, <2>1, <2>2, <2>3 DEF FrameRec
<1>6. /\ \A q \in Procs : q # p => n.pcb[q] = m.pcb[q]
      /\ n.pcb[p].frame_index = i
      /\ n.pcb[p].state = m.pcb[p].state
      /\ n.pcb[p].pending_frame = m.pcb[p].pending_frame
      /\ n.pcb[p].pending_page = m.pcb[p].pending_page
  <2>1. m.pcb \in [Procs -> PCBRec]
    BY MemStateParts DEF PCBType
  <2>2. n.pcb = [m.pcb EXCEPT ![p].frame_index = i]
    BY <1>3 DEF DefinePageTable
  <2> HIDE DEF n
  <2>3. QED
    BY <2>1, <2>2 DEF PCBRec
<1>7. \A q \in Procs, w \in Page :
         n.PT[q][w] = IF q = p \/ (m.PT[q][w].valid /\ m.PT[q][w].frame_address = i)
                      THEN NoEntry ELSE m.PT[q][w]
  <2>1. u.PT \in [Procs -> [Page -> Entry]]
    BY <1>2, MemStateParts DEF PTType
  <2>2. n.PT = [u.PT EXCEPT ![p] = EmptyTable]
    BY DEF DefinePageTable
  <2>3. \A w \in Page : EmptyTable[w] = NoEntry
    BY DEF EmptyTable
  <2> HIDE DEF n, u
  <2>4. \A q \in Procs, w \in Page : n.PT[q][w] = IF q = p THEN NoEntry ELSE u.PT[q][w]
    BY <2>1, <2>2, <2>3
  <2>5. QED
    BY <1>3, <2>4
<1>8. \A q \in Procs, w \in Page :
         m.PT[q][w].valid => q # p /\ m.PT[q][w].frame_address \in Frame
  <2>1. ASSUME NEW w \in Page, m.PT[p][w].valid
        PROVE  FALSE
    <3> DEFINE j == m.PT[p][w].frame_address
    <3>1. EntryIsTrue(m, p, w)
      BY <2>1, EntryTrue
    <3>2. j \in Frame /\ m.RAM[j].occupied /\ m.RAM[j].pte = NoOne /\ m.RAM[j].process_id = p
      BY <3>1 DEF EntryIsTrue
    <3> HIDE DEF j
    <3>3. m.pcb[p].frame_index # NoFrame
      BY <3>2 DEF Consistent, FramesOwned
    <3>4. QED
      BY <3>3
  <2>2. ASSUME NEW q \in Procs, NEW w \in Page, m.PT[q][w].valid
        PROVE  q # p /\ m.PT[q][w].frame_address \in Frame
    <3>1. EntryIsTrue(m, q, w)
      BY <2>2, EntryTrue
    <3>2. QED
      BY <2>1, <2>2, <3>1 DEF EntryIsTrue
  <2>3. QED
    BY <2>2
<1>9. ~NoEntry.valid
  BY DEF NoEntry
<1> HIDE DEF n, u
<1>10. TablesKept(n)
  <2>1. ASSUME NEW q \in Procs, n.pcb[q].frame_index # NoFrame, n.pcb[q].state # "F"
        PROVE  LET f == n.RAM[n.pcb[q].frame_index]
               IN  f.occupied /\ ~f.reserved /\ f.pte = q /\ f.process_id = q
    <3>1. CASE q = p
      BY <1>5, <1>6, <3>1
    <3>2. CASE q # p
      <4>1. n.pcb[q].frame_index = m.pcb[q].frame_index /\ m.pcb[q].frame_index \in Frame
        BY <1>6, <2>1, <3>2, FieldTypes
      <4>2. m.RAM[m.pcb[q].frame_index].pte = q
        BY <1>6, <2>1, <3>2 DEF Consistent, TablesKept
      <4>3. m.pcb[q].frame_index # i
        BY <1>4, <4>2, ProcsAreNumbers
      <4>4. QED
        BY <1>5, <1>6, <2>1, <3>2, <4>1, <4>3 DEF Consistent, TablesKept
    <3>3. QED
      BY <3>1, <3>2
  <2>2. ASSUME NEW j \in Frame, n.RAM[j].pte # NoOne
        PROVE  /\ n.RAM[j].occupied
               /\ n.pcb[n.RAM[j].pte].frame_index = j
               /\ n.pcb[n.RAM[j].pte].state # "F"
    <3>1. CASE j = i
      BY <1>5, <1>6, <3>1
    <3>2. CASE j # i
      <4>1. n.RAM[j] = m.RAM[j]
        BY <1>5, <3>2
      <4>2. m.RAM[j].occupied /\ m.pcb[m.RAM[j].pte].frame_index = j /\ m.pcb[m.RAM[j].pte].state # "F"
        BY <2>2, <4>1 DEF Consistent, TablesKept
      <4>3. m.RAM[j].pte \in Procs /\ m.RAM[j].pte # p
        BY SMTT(30), <2>2, <4>1, <4>2, FieldTypes, NumbersOfPages
      <4>4. QED
        BY <1>6, <4>1, <4>2, <4>3
    <3>3. QED
      BY <3>1, <3>2
  <2>3. QED
    BY <2>1, <2>2 DEF TablesKept
<1>11. EntriesTrue(n)
  <2>1. SUFFICES ASSUME NEW q \in Procs, NEW w \in Page, n.PT[q][w].valid
                 PROVE  /\ n.PT[q][w].frame_address # NoFrame
                        /\ LET f == n.RAM[n.PT[q][w].frame_address]
                           IN  /\ f.occupied /\ f.pte = NoOne /\ f.process_id = q /\ f.vpage = w
                               /\ f.R = n.PT[q][w].R /\ f.M = n.PT[q][w].M
    BY DEF EntriesTrue
  <2>2. n.PT[q][w] = m.PT[q][w] /\ m.PT[q][w].frame_address # i
    BY SMTT(30), <1>7, <1>9, <2>1
  <2>3. m.PT[q][w].valid
    BY <2>1, <2>2
  <2>4. EntryIsTrue(m, q, w)
    BY <2>3, EntryTrue
  <2>5. n.RAM[m.PT[q][w].frame_address] = m.RAM[m.PT[q][w].frame_address]
    BY <1>5, <1>8, <2>2, <2>3
  <2>6. QED
    BY <2>2, <2>4, <2>5 DEF EntryIsTrue
<1>12. FramesOwned(n)
  <2>1. SUFFICES ASSUME NEW j \in Frame, n.RAM[j].occupied, n.RAM[j].pte = NoOne
                 PROVE  /\ Live(n, n.RAM[j].process_id)
                        /\ n.pcb[n.RAM[j].process_id].frame_index # NoFrame
                        /\ n.RAM[j].vpage # NoPage
                        /\ LET e == n.PT[n.RAM[j].process_id][n.RAM[j].vpage]
                           IN  e.valid /\ e.frame_address = j
    BY DEF FramesOwned
  <2>2. j # i /\ n.RAM[j] = m.RAM[j]
    BY SMTT(30), <1>5, <2>1, ProcsAreNumbers
  <2>3. /\ Live(m, m.RAM[j].process_id) /\ m.RAM[j].process_id \in Procs
        /\ m.pcb[m.RAM[j].process_id].frame_index # NoFrame
        /\ m.RAM[j].vpage \in Page
        /\ m.PT[m.RAM[j].process_id][m.RAM[j].vpage].valid
        /\ m.PT[m.RAM[j].process_id][m.RAM[j].vpage].frame_address = j
    BY <2>1, <2>2, FieldTypes DEF Consistent, FramesOwned, Live
  <2>4. m.RAM[j].process_id # p
    BY <2>3
  <2>5. n.pcb[m.RAM[j].process_id] = m.pcb[m.RAM[j].process_id]
    BY <1>6, <2>3, <2>4
  <2>6. n.PT[m.RAM[j].process_id][m.RAM[j].vpage] = m.PT[m.RAM[j].process_id][m.RAM[j].vpage]
    BY <1>7, <2>2, <2>3, <2>4
  <2>7. QED
    BY SMTT(30), <2>2, <2>3, <2>5, <2>6, NumbersOfPages DEF Live
<1>13. ReservedHeld(n)
  <2>1. \A j \in Frame : n.RAM[j].reserved => j # i /\ m.RAM[j].reserved
    BY <1>5
  <2>2. \A q \in Procs : /\ n.pcb[q].state = m.pcb[q].state
                         /\ n.pcb[q].pending_frame = m.pcb[q].pending_frame
                         /\ n.pcb[q].pending_page = m.pcb[q].pending_page
    BY <1>6
  <2>3. \A q \in Procs : m.pcb[q].pending_frame # NoFrame =>
           n.RAM[m.pcb[q].pending_frame] = m.RAM[m.pcb[q].pending_frame]
    BY <1>4, <1>5, FieldTypes
  <2>4. QED
    BY SMTT(30), <2>1, <2>2, <2>3 DEF Consistent, ReservedHeld
<1>14. FreeClean(n)
  BY <1>5 DEF Consistent, FreeClean
<1>15. QED
  BY <1>10, <1>11, <1>12, <1>13, <1>14 DEF Consistent, n, u

\* What LoadPage does to the frame, to the entry of the page it loads and to the
\* entry of the page it evicts.
Loaded(m, n, p, v, i, op) ==
    /\ n.pcb = m.pcb
    /\ \A j \in Frame : j # i => n.RAM[j] = m.RAM[j]
    /\ n.RAM[i].occupied /\ ~n.RAM[i].reserved /\ n.RAM[i].pte = NoOne
    /\ n.RAM[i].process_id = p /\ n.RAM[i].vpage = v
    /\ n.RAM[i].R = 1 /\ n.RAM[i].M = MBit(op)
    /\ n.PT[p][v].valid /\ n.PT[p][v].frame_address = i
    /\ n.PT[p][v].R = 1 /\ n.PT[p][v].M = MBit(op)
    /\ \A q \in Procs, w \in Page : q # p \/ w # v =>
          n.PT[q][w] = IF m.PT[q][w].valid /\ m.PT[q][w].frame_address = i
                       THEN NoEntry ELSE m.PT[q][w]

LEMMA LoadPageEffect ==
  ASSUME NEW m \in MemState, Consistent(m), NEW i \in FreeFrames(m) \cup Evictable(m),
         NEW p \in Procs, m.pcb[p].frame_index # NoFrame, m.pcb[p].state # "F",
         NEW v \in Page, NEW op \in Op
  PROVE  Loaded(m, LoadPage(m, p, v, i, op), p, v, i, op)
<1> DEFINE u == Unmap(m, i)
           n == LoadPage(m, p, v, i, op)
           e == [valid |-> TRUE, frame_address |-> i, R |-> 1, M |-> MBit(op)]
<1>1. i \in Frame
  BY DEF FreeFrames, Evictable
<1>2. u \in MemState
  BY <1>1, UnmapType
<1>3. /\ u.RAM = m.RAM
      /\ u.pcb = m.pcb
      /\ \A q \in Procs, w \in Page :
            u.PT[q][w] = IF m.PT[q][w].valid /\ m.PT[q][w].frame_address = i
                         THEN NoEntry ELSE m.PT[q][w]
  BY UnmapEffect
<1>4. TableOf(u, p) = p
  BY <1>3, OwnTable DEF TableOf
<1>5. ~m.RAM[i].reserved
  BY DEF FreeFrames, Evictable, Consistent, FreeClean
<1>6. n = [RAM |-> [m.RAM EXCEPT ![i] = [@ EXCEPT !.occupied = TRUE, !.process_id = p,
                                         !.pte = NoOne, !.R = 1, !.M = MBit(op), !.vpage = v]],
           PT  |-> [u.PT EXCEPT ![p][v] = e],
           pcb |-> m.pcb]
  BY <1>3, <1>4 DEF LoadPage, MapPage
<1>7. m.RAM \in [Frame -> FrameRec] /\ u.PT \in [Procs -> [Page -> Entry]]
  BY <1>2, MemStateParts DEF RAMType, PTType
<1> HIDE DEF u, n, e
<1>8. /\ \A j \in Frame : j # i => n.RAM[j] = m.RAM[j]
      /\ n.RAM[i].occupied /\ ~n.RAM[i].reserved /\ n.RAM[i].pte = NoOne
      /\ n.RAM[i].process_id = p /\ n.RAM[i].vpage = v
      /\ n.RAM[i].R = 1 /\ n.RAM[i].M = MBit(op)
  <2>1. m.RAM[i] \in FrameRec
    BY <1>1, <1>7
  <2>2. QED
    BY <1>1, <1>5, <1>6, <1>7, <2>1 DEF FrameRec
<1>9. /\ n.PT[p][v].valid /\ n.PT[p][v].frame_address = i
      /\ n.PT[p][v].R = 1 /\ n.PT[p][v].M = MBit(op)
  <2>1. n.PT[p][v] = e
    BY <1>6, <1>7
  <2>2. QED
    BY <2>1 DEF e
<1>10. \A q \in Procs, w \in Page : q # p \/ w # v => n.PT[q][w] = u.PT[q][w]
  BY <1>6, <1>7
<1>11. n.pcb = m.pcb
  BY <1>6
<1>12. QED
  BY <1>3, <1>8, <1>9, <1>10, <1>11 DEF n, Loaded

\* A page that is not resident is put in frame i.
LEMMA PageConsistent ==
  ASSUME NEW m \in MemState, Consistent(m), NEW i \in FreeFrames(m) \cup Evictable(m),
         NEW p \in Procs, m.pcb[p].frame_index # NoFrame, m.pcb[p].state # "F",
         NEW v \in Page, ~m.PT[p][v].valid, NEW op \in Op
  PROVE  Consistent(LoadPage(m, p, v, i, op))
<1> DEFINE n == LoadPage(m, p, v, i, op)
<1>1. i \in Frame /\ i # NoFrame
  BY NumbersOfPages DEF FreeFrames, Evictable
<1>2. /\ m.RAM[i].pte = NoOne
      /\ \A q \in Procs : m.pcb[q].pending_frame # i
  BY <1>1 DEF FreeFrames, Evictable, Consistent, FreeClean, ReservedHeld
<1>3. Loaded(m, n, p, v, i, op)
  BY LoadPageEffect
<1>4. /\ n.pcb = m.pcb
      /\ \A j \in Frame : j # i => n.RAM[j] = m.RAM[j]
      /\ n.RAM[i].occupied /\ ~n.RAM[i].reserved /\ n.RAM[i].pte = NoOne
      /\ n.RAM[i].process_id = p /\ n.RAM[i].vpage = v
  BY <1>3 DEF Loaded
<1>5. ~NoEntry.valid
  BY DEF NoEntry
<1> HIDE DEF n
<1>6. TablesKept(n)
  <2>1. ASSUME NEW q \in Procs, n.pcb[q].frame_index # NoFrame, n.pcb[q].state # "F"
        PROVE  LET f == n.RAM[n.pcb[q].frame_index]
               IN  f.occupied /\ ~f.reserved /\ f.pte = q /\ f.process_id = q
    <3>1. m.RAM[m.pcb[q].frame_index].pte = q /\ m.pcb[q].frame_index \in Frame
      BY <1>4, <2>1, FieldTypes DEF Consistent, TablesKept
    <3>2. m.pcb[q].frame_index # i
      BY <1>2, <3>1, ProcsAreNumbers
    <3>3. QED
      BY <1>4, <2>1, <3>1, <3>2 DEF Consistent, TablesKept
  <2>2. ASSUME NEW j \in Frame, n.RAM[j].pte # NoOne
        PROVE  /\ n.RAM[j].occupied
               /\ n.pcb[n.RAM[j].pte].frame_index = j
               /\ n.pcb[n.RAM[j].pte].state # "F"
    BY SMTT(30), <1>4, <2>2 DEF Consistent, TablesKept
  <2>3. QED
    BY <2>1, <2>2 DEF TablesKept
<1>7. EntriesTrue(n)
  <2>1. SUFFICES ASSUME NEW q \in Procs, NEW w \in Page, n.PT[q][w].valid
                 PROVE  /\ n.PT[q][w].frame_address # NoFrame
                        /\ LET f == n.RAM[n.PT[q][w].frame_address]
                           IN  /\ f.occupied /\ f.pte = NoOne /\ f.process_id = q /\ f.vpage = w
                               /\ f.R = n.PT[q][w].R /\ f.M = n.PT[q][w].M
    BY DEF EntriesTrue
  <2>2. CASE q = p /\ w = v
    BY <1>1, <1>3, <2>2 DEF Loaded
  <2>3. CASE q # p \/ w # v
    <3>1. n.PT[q][w] = m.PT[q][w] /\ m.PT[q][w].frame_address # i
      BY <1>3, <1>5, <2>1, <2>3 DEF Loaded
    <3>2. m.PT[q][w].valid /\ m.PT[q][w].frame_address # NoFrame
      BY <2>1, <3>1 DEF Consistent, EntriesTrue
    <3>3. n.RAM[m.PT[q][w].frame_address] = m.RAM[m.PT[q][w].frame_address]
      BY SMTT(30), <1>4, <3>1, <3>2, FieldTypes
    <3>4. LET f == m.RAM[m.PT[q][w].frame_address]
          IN  /\ f.occupied /\ f.pte = NoOne /\ f.process_id = q /\ f.vpage = w
              /\ f.R = m.PT[q][w].R /\ f.M = m.PT[q][w].M
      <4>1. EntryIsTrue(m, q, w)
        BY <3>2, EntryTrue
      <4>2. QED
        BY <4>1 DEF EntryIsTrue
    <3>5. QED
      BY <3>1, <3>2, <3>3, <3>4
  <2>4. QED
    BY <2>2, <2>3, Zenon
<1>8. FramesOwned(n)
  <2>1. SUFFICES ASSUME NEW j \in Frame, n.RAM[j].occupied, n.RAM[j].pte = NoOne
                 PROVE  /\ Live(n, n.RAM[j].process_id)
                        /\ n.pcb[n.RAM[j].process_id].frame_index # NoFrame
                        /\ n.RAM[j].vpage # NoPage
                        /\ LET e == n.PT[n.RAM[j].process_id][n.RAM[j].vpage]
                           IN  e.valid /\ e.frame_address = j
    BY DEF FramesOwned
  <2>2. CASE j = i
    BY SMTT(30), <1>3, <2>2, NumbersOfPages DEF Live, Loaded
  <2>3. CASE j # i
    <3>1. n.RAM[j] = m.RAM[j]
      BY SMTT(30), <1>4, <2>3
    <3>2. /\ Live(m, m.RAM[j].process_id) /\ m.RAM[j].process_id \in Procs
          /\ m.pcb[m.RAM[j].process_id].frame_index # NoFrame
          /\ m.RAM[j].vpage \in Page
          /\ m.PT[m.RAM[j].process_id][m.RAM[j].vpage].valid
          /\ m.PT[m.RAM[j].process_id][m.RAM[j].vpage].frame_address = j
      BY <2>1, <3>1, FieldTypes DEF Consistent, FramesOwned, Live
    <3>3. n.PT[m.RAM[j].process_id][m.RAM[j].vpage] = m.PT[m.RAM[j].process_id][m.RAM[j].vpage]
      BY <1>3, <2>3, <3>2 DEF Loaded
    <3>4. QED
      BY <1>4, <3>1, <3>2, <3>3, NumbersOfPages DEF Live
  <2>4. QED
    BY <2>2, <2>3, Zenon
<1>9. ReservedHeld(n)
  <2>1. \A j \in Frame : n.RAM[j].reserved => j # i /\ m.RAM[j].reserved
    BY <1>4
  <2>2. \A q \in Procs : m.pcb[q].pending_frame # NoFrame =>
           n.RAM[m.pcb[q].pending_frame] = m.RAM[m.pcb[q].pending_frame]
    BY <1>2, <1>4, FieldTypes
  <2>3. QED
    BY <1>4, <2>1, <2>2 DEF Consistent, ReservedHeld
<1>10. FreeClean(n)
  BY <1>4 DEF Consistent, FreeClean
<1>11. QED
  BY <1>6, <1>7, <1>8, <1>9, <1>10 DEF Consistent, n

LEMMA FaultTableConsistent ==
  ASSUME NEW m \in MemState, Consistent(m), NEW p \in Procs,
         m.pcb[p].frame_index = NoFrame, m.pcb[p].state # "F"
  PROVE  Consistent(FaultTable(m, p))
<1>1. CASE FrameFor(m) = NoFrame
  BY <1>1 DEF FaultTable
<1>2. CASE FrameFor(m) # NoFrame
  BY <1>2, FrameForChoice, TableConsistent DEF FaultTable
<1>3. QED
  BY <1>1, <1>2

\* A page that is brought in without a wait.
LEMMA FaultPreloadConsistent ==
  ASSUME NEW m \in MemState, Consistent(m), NEW p \in Procs, clk \in Int,
         m.pcb[p].frame_index # NoFrame, m.pcb[p].state # "F",
         NEW v \in Page, ~m.PT[p][v].valid
  PROVE  Consistent(FaultPreload(m, p, v))
<1> DEFINE i == FrameFor(m)
           n == LoadPage(m, p, v, i, "r")
           r == FaultPreload(m, p, v)
<1>1. CASE i = NoFrame
  BY <1>1 DEF FaultPreload
<1>2. CASE i # NoFrame
  <2>1. i \in FreeFrames(m) \cup Evictable(m) /\ i \in Frame
    BY <1>2, FrameForChoice, FrameForType
  <2>2. Consistent(n) /\ n \in MemState
    BY <2>1, PageConsistent, LoadPageType DEF Op
  <2>3. r \in MemState
    BY FaultPreloadType
  <2>4. PICK t : r = [RAM |-> n.RAM, PT |-> n.PT, pcb |-> [n.pcb EXCEPT ![p].unblock_at = t]]
    BY <1>2 DEF FaultPreload
  <2>5. n.pcb \in [Procs -> PCBRec]
    BY <2>2, MemStateParts DEF PCBType
  <2> HIDE DEF n, r
  <2>6. \A q \in Procs : /\ r.pcb[q].frame_index = n.pcb[q].frame_index
                         /\ r.pcb[q].pending_page = n.pcb[q].pending_page
                         /\ r.pcb[q].pending_frame = n.pcb[q].pending_frame
                         /\ r.pcb[q].state = n.pcb[q].state
    BY <2>4, <2>5 DEF PCBRec
  <2>7. r.RAM = n.RAM /\ r.PT = n.PT
    BY <2>4
  <2>8. Consistent(r)
    BY <2>2, <2>3, <2>6, <2>7, OtherFields
  <2>9. QED
    BY <2>8 DEF r
<1>3. QED
  BY <1>1, <1>2

\* When no frame is found for the table, none is found for page 0 either: a
\* page is never put in a frame for a process without a table.
LEMMA InitializePCBConsistent ==
  ASSUME NEW m \in MemState, Consistent(m), NEW p \in Procs, clk \in Int,
         m.pcb[p].state # "F"
  PROVE  Consistent(InitializePCB(m, p))
<1> DEFINE t == FaultTable(m, p)
<1>1. CASE m.pcb[p].frame_index # NoFrame
  BY <1>1 DEF InitializePCB
<1>2. CASE m.pcb[p].frame_index = NoFrame /\ FrameFor(m) = NoFrame
  BY <1>2 DEF InitializePCB, FaultTable, FaultPreload
<1>3. CASE m.pcb[p].frame_index = NoFrame /\ FrameFor(m) # NoFrame
  <2> DEFINE i == FrameFor(m)
             u == Unmap(m, i)
  <2>1. t \in MemState /\ Consistent(t)
    BY <1>3, FaultTableType, FaultTableConsistent
  <2>2. i \in FreeFrames(m) \cup Evictable(m) /\ i \in Frame
    BY <1>3, FrameForChoice, FrameForType
  <2>3. u \in MemState /\ u.pcb = m.pcb
    BY <2>2, UnmapType, UnmapEffect
  <2>4. t = DefinePageTable(u, p, i)
    BY <1>3 DEF FaultTable
  <2>5. u.pcb \in [Procs -> PCBRec] /\ u.PT \in [Procs -> [Page -> Entry]]
    BY <2>3, MemStateParts DEF PCBType, PTType
  <2>6. 0 \in Page
    BY MMUAssumption DEF Page
  <2> HIDE DEF i, u, t
  <2>7. t.pcb = [m.pcb EXCEPT ![p].frame_index = i] /\ t.PT = [u.PT EXCEPT ![p] = EmptyTable]
    BY <2>3, <2>4 DEF DefinePageTable
  <2>8. t.pcb[p].frame_index = i /\ t.pcb[p].state = m.pcb[p].state
    BY <2>3, <2>5, <2>7 DEF PCBRec
  <2>9. ~t.PT[p][0].valid
    BY <2>5, <2>6, <2>7 DEF EmptyTable, NoEntry
  <2>10. i # NoFrame
    BY <1>3 DEF i
  <2>11. Consistent(FaultPreload(t, p, 0))
    BY <2>1, <2>6, <2>8, <2>9, <2>10, FaultPreloadConsistent
  <2>12. QED
    BY <1>3, <2>11 DEF InitializePCB, t
<1>4. QED
  BY <1>1, <1>2, <1>3

LEMMA InitializePCBKeepsState ==
  ASSUME NEW m \in MemState, NEW p \in Procs, clk \in Int, NEW q \in Procs
  PROVE  /\ InitializePCB(m, p).pcb[q].state = m.pcb[q].state
         /\ InitializePCB(m, p).pcb[q].forked = m.pcb[q].forked
<1> DEFINE t == FaultTable(m, p)
<1>1. \A a, i : Unmap(a, i).pcb = a.pcb
  BY DEF Unmap
<1>2. \A a, v, i, op : LoadPage(a, p, v, i, op).pcb = a.pcb
  BY <1>1 DEF LoadPage, MapPage
<1>3. t \in MemState
  BY FaultTableType
<1>4. t.pcb[q].state = m.pcb[q].state /\ t.pcb[q].forked = m.pcb[q].forked
  <2> DEFINE i == FrameFor(m)
  <2>1. m.pcb \in [Procs -> PCBRec]
    BY MemStateParts DEF PCBType
  <2>2. CASE i = NoFrame
    BY <2>2 DEF FaultTable
  <2>3. CASE i # NoFrame
    <3>1. t = DefinePageTable(Unmap(m, i), p, i)
      BY <2>3 DEF FaultTable
    <3>2. t.pcb = [m.pcb EXCEPT ![p].frame_index = i]
      BY <1>1, <3>1 DEF DefinePageTable
    <3> HIDE DEF t, i
    <3>3. QED
      BY <2>1, <3>2 DEF PCBRec
  <2>4. QED
    BY <2>2, <2>3
<1>5. /\ FaultPreload(t, p, 0).pcb[q].state = t.pcb[q].state
      /\ FaultPreload(t, p, 0).pcb[q].forked = t.pcb[q].forked
  <2> DEFINE i == FrameFor(t)
             u == LoadPage(t, p, 0, i, "r")
             x == FaultPreload(t, p, 0)
  <2>1. t.pcb \in [Procs -> PCBRec]
    BY <1>3, MemStateParts DEF PCBType
  <2> HIDE DEF t
  <2>2. CASE i = NoFrame
    BY <2>2 DEF FaultPreload
  <2>3. CASE i # NoFrame
    <3>1. u.pcb = t.pcb
      BY <1>2
    <3>2. PICK y : x.pcb = [u.pcb EXCEPT ![p].unblock_at = y]
      BY <2>3 DEF FaultPreload
    <3> HIDE DEF u, x, i
    <3>3. x.pcb[q].state = t.pcb[q].state /\ x.pcb[q].forked = t.pcb[q].forked
      BY <2>1, <3>1, <3>2 DEF PCBRec
    <3>4. QED
      BY <3>3 DEF x
  <2>4. QED
    BY <2>2, <2>3
<1>6. QED
  BY <1>4, <1>5 DEF InitializePCB

LEMMA BlockConsistent ==
  ASSUME NEW m \in MemState, Consistent(m), NEW p \in Procs, clk \in Int,
         m.pcb[p].state = "R"
  PROVE  /\ Consistent(Block(m, p))
         /\ Block(m, p).RAM = m.RAM /\ Block(m, p).PT = m.PT
         /\ Block(m, p).pcb[p].state = "B"
         /\ Block(m, p).pcb[p].frame_index = m.pcb[p].frame_index
         /\ Block(m, p).pcb[p].pending_frame = NoFrame
<1> DEFINE n == Block(m, p)
<1>1. n \in MemState
  BY BlockType
<1>2. PICK t : n = [RAM |-> m.RAM, PT |-> m.PT,
                    pcb |-> [m.pcb EXCEPT ![p] =
                               [@ EXCEPT !.state = "B", !.unblock_at = t,
                                         !.pending_page = NoPage, !.pending_frame = NoFrame]]]
  BY DEF Block
<1>3. m.pcb[p].pending_page = NoPage /\ m.pcb[p].pending_frame = NoFrame
  BY DEF Consistent, ReservedHeld
<1>4. m.pcb \in [Procs -> PCBRec]
  BY MemStateParts DEF PCBType
<1> HIDE DEF n
<1>5. \A q \in Procs : q # p => n.pcb[q] = m.pcb[q]
  BY <1>2, <1>4
<1>6. /\ n.pcb[p].state = "B" /\ n.pcb[p].frame_index = m.pcb[p].frame_index
      /\ n.pcb[p].pending_page = NoPage /\ n.pcb[p].pending_frame = NoFrame
  BY <1>2, <1>4 DEF PCBRec
<1>7. n.RAM = m.RAM /\ n.PT = m.PT
  BY <1>2
<1>8. Consistent(n)
  BY SMTT(30), <1>1, <1>3, <1>5, <1>6, <1>7, OtherFields
<1>9. QED
  BY <1>6, <1>7, <1>8 DEF n

\* A handler that moves no page and no table.
SameLayout(m, n) ==
    /\ \A j \in Frame : /\ n.RAM[j].occupied = m.RAM[j].occupied
                        /\ n.RAM[j].pte = m.RAM[j].pte
                        /\ n.RAM[j].process_id = m.RAM[j].process_id
                        /\ n.RAM[j].vpage = m.RAM[j].vpage
                        /\ n.RAM[j].reserved => m.RAM[j].reserved \/ m.RAM[j].pte = NoOne
    /\ \A q \in Procs : /\ n.pcb[q].frame_index = m.pcb[q].frame_index
                        /\ (n.pcb[q].state = "F") <=> (m.pcb[q].state = "F")
    /\ \A q \in Procs, w \in Page :
          /\ n.PT[q][w].valid = m.PT[q][w].valid
          /\ n.PT[q][w].frame_address = m.PT[q][w].frame_address
          /\ m.PT[q][w].valid =>
                /\ n.RAM[m.PT[q][w].frame_address].R = n.PT[q][w].R
                /\ n.RAM[m.PT[q][w].frame_address].M = n.PT[q][w].M

LEMMA LayoutKept ==
  ASSUME NEW m \in MemState, NEW n \in MemState, Consistent(m), SameLayout(m, n)
  PROVE  TablesKept(n) /\ EntriesTrue(n) /\ FramesOwned(n)
<1>1. ASSUME NEW q \in Procs, n.pcb[q].frame_index # NoFrame, n.pcb[q].state # "F"
      PROVE  LET f == n.RAM[n.pcb[q].frame_index]
             IN  f.occupied /\ ~f.reserved /\ f.pte = q /\ f.process_id = q
  <2> DEFINE j == m.pcb[q].frame_index
  <2>1. n.pcb[q].frame_index = j /\ j # NoFrame /\ m.pcb[q].state # "F"
    BY <1>1 DEF SameLayout
  <2>2. j \in Frame
    BY <2>1, FieldTypes
  <2>3. m.RAM[j].occupied /\ ~m.RAM[j].reserved /\ m.RAM[j].pte = q /\ m.RAM[j].process_id = q
    BY <2>1 DEF Consistent, TablesKept
  <2> HIDE DEF j
  <2>4. QED
    BY <2>1, <2>2, <2>3, ProcsAreNumbers DEF SameLayout
<1>2. ASSUME NEW j \in Frame, n.RAM[j].pte # NoOne
      PROVE  /\ n.RAM[j].occupied
             /\ n.pcb[n.RAM[j].pte].frame_index = j
             /\ n.pcb[n.RAM[j].pte].state # "F"
  <2> DEFINE q == m.RAM[j].pte
  <2>1. n.RAM[j].pte = q /\ q # NoOne
    BY <1>2 DEF SameLayout
  <2>2. q \in Procs
    BY <2>1, FieldTypes
  <2>3. m.RAM[j].occupied /\ m.pcb[q].frame_index = j /\ m.pcb[q].state # "F"
    BY <2>1 DEF Consistent, TablesKept
  <2> HIDE DEF q
  <2>4. QED
    BY <2>1, <2>2, <2>3 DEF SameLayout
<1>3. ASSUME NEW q \in Procs, NEW w \in Page, n.PT[q][w].valid
      PROVE  /\ n.PT[q][w].frame_address # NoFrame
             /\ LET f == n.RAM[n.PT[q][w].frame_address]
                IN  /\ f.occupied /\ f.pte = NoOne /\ f.process_id = q /\ f.vpage = w
                    /\ f.R = n.PT[q][w].R /\ f.M = n.PT[q][w].M
  <2> DEFINE j == m.PT[q][w].frame_address
  <2>1. m.PT[q][w].valid /\ n.PT[q][w].frame_address = j
    BY <1>3 DEF SameLayout
  <2>2. j # NoFrame
    BY <2>1 DEF Consistent, EntriesTrue
  <2>3. j \in Frame
    BY SMTT(30), <2>2, FieldTypes
  <2>4. m.RAM[j].occupied /\ m.RAM[j].pte = NoOne /\ m.RAM[j].process_id = q /\ m.RAM[j].vpage = w
    BY <2>1 DEF Consistent, EntriesTrue
  <2>5. n.RAM[j].R = n.PT[q][w].R /\ n.RAM[j].M = n.PT[q][w].M
    BY <2>1 DEF SameLayout
  <2> HIDE DEF j
  <2>6. QED
    BY <2>1, <2>2, <2>3, <2>4, <2>5 DEF SameLayout
<1>4. ASSUME NEW j \in Frame, n.RAM[j].occupied, n.RAM[j].pte = NoOne
      PROVE  /\ Live(n, n.RAM[j].process_id)
             /\ n.pcb[n.RAM[j].process_id].frame_index # NoFrame
             /\ n.RAM[j].vpage # NoPage
             /\ LET e == n.PT[n.RAM[j].process_id][n.RAM[j].vpage]
                IN  e.valid /\ e.frame_address = j
  <2> DEFINE q == m.RAM[j].process_id
             w == m.RAM[j].vpage
  <2>1. n.RAM[j].process_id = q /\ n.RAM[j].vpage = w /\ m.RAM[j].occupied /\ m.RAM[j].pte = NoOne
    BY SMTT(30), <1>4 DEF SameLayout
  <2>2. /\ q \in Procs /\ m.pcb[q].state # "F" /\ m.pcb[q].frame_index # NoFrame /\ w # NoPage
        /\ m.PT[q][w].valid /\ m.PT[q][w].frame_address = j
    BY <2>1 DEF Consistent, FramesOwned, Live
  <2>3. w \in Page
    BY <2>2, FieldTypes
  <2> HIDE DEF q, w
  <2>4. QED
    BY <2>1, <2>2, <2>3 DEF Live, SameLayout
<1>5. QED
  BY <1>1, <1>2, <1>3, <1>4 DEF TablesKept, EntriesTrue, FramesOwned

\* A fault whose process waits: the frame is reserved for it.
LEMMA FaultDemandConsistent ==
  ASSUME NEW m \in MemState, Consistent(m), NEW p \in Procs, clk \in Int,
         m.pcb[p].state = "R", m.pcb[p].frame_index # NoFrame,
         NEW v \in Page, ~m.PT[p][v].valid, NEW op \in Op
  PROVE  Consistent(FaultDemand(m, p, v, op))
<1> DEFINE i == FrameFor(m)
           b == Block(m, p)
           n == LoadPage(b, p, v, i, op)
           r == FaultDemand(m, p, v, op)
<1>1. CASE i = NoFrame
  BY <1>1, BlockConsistent DEF FaultDemand
<1>2. CASE i # NoFrame
  <2>1. i \in FreeFrames(m) \cup Evictable(m) /\ i \in Frame
    BY <1>2, FrameForChoice, FrameForType
  <2>2. /\ b \in MemState /\ Consistent(b) /\ b.RAM = m.RAM /\ b.PT = m.PT
        /\ b.pcb[p].state = "B" /\ b.pcb[p].frame_index # NoFrame
        /\ b.pcb[p].pending_frame = NoFrame
    BY BlockType, BlockConsistent
  <2> HIDE DEF b, i
  <2>3. i \in FreeFrames(b) \cup Evictable(b)
    BY <2>1, <2>2 DEF FreeFrames, Evictable
  <2>4. n \in MemState /\ Consistent(n)
    BY <2>1, <2>2, <2>3, LoadPageType, PageConsistent
  <2>5. Loaded(b, n, p, v, i, op)
    BY <2>2, <2>3, LoadPageEffect
  <2>6. /\ n.RAM[i].occupied /\ ~n.RAM[i].reserved /\ n.RAM[i].pte = NoOne
        /\ n.RAM[i].process_id = p /\ n.RAM[i].vpage = v
        /\ n.pcb[p].state = "B" /\ n.pcb[p].pending_frame = NoFrame
    BY <2>2, <2>5 DEF Loaded
  <2>7. \A q \in Procs : n.pcb[q].pending_frame # i
    BY <2>1, <2>4, <2>6, NumbersOfPages DEF Consistent, ReservedHeld
  <2>8. PICK t : r = [RAM |-> [n.RAM EXCEPT ![i].reserved = TRUE],
                      PT  |-> n.PT,
                      pcb |-> [n.pcb EXCEPT ![p] = [@ EXCEPT !.unblock_at = t,
                                                    !.pending_page = v, !.pending_frame = i]]]
    BY <1>2 DEF FaultDemand, i, b, n, r
  <2>9. n.RAM \in [Frame -> FrameRec] /\ n.pcb \in [Procs -> PCBRec]
    BY <2>4, MemStateParts DEF RAMType, PCBType
  <2> HIDE DEF n, r
  <2>10. /\ \A j \in Frame : j # i => r.RAM[j] = n.RAM[j]
         /\ r.RAM[i].reserved
         /\ r.RAM[i].occupied = n.RAM[i].occupied /\ r.RAM[i].pte = n.RAM[i].pte
         /\ r.RAM[i].process_id = n.RAM[i].process_id /\ r.RAM[i].vpage = n.RAM[i].vpage
         /\ r.RAM[i].R = n.RAM[i].R /\ r.RAM[i].M = n.RAM[i].M
    BY <2>1, <2>8, <2>9 DEF FrameRec
  <2>11. /\ \A q \in Procs : q # p => r.pcb[q] = n.pcb[q]
         /\ r.pcb[p].frame_index = n.pcb[p].frame_index /\ r.pcb[p].state = n.pcb[p].state
         /\ r.pcb[p].pending_frame = i /\ r.pcb[p].pending_page = v
    BY <2>8, <2>9 DEF PCBRec
  <2>12. r.PT = n.PT
    BY <2>8
  <2>13. \A q \in Procs : /\ r.pcb[q].frame_index = n.pcb[q].frame_index
                          /\ r.pcb[q].state = n.pcb[q].state
    BY <2>11
  <2>14. \A j \in Frame : /\ r.RAM[j].occupied = n.RAM[j].occupied
                          /\ r.RAM[j].pte = n.RAM[j].pte
                          /\ r.RAM[j].process_id = n.RAM[j].process_id
                          /\ r.RAM[j].vpage = n.RAM[j].vpage
                          /\ r.RAM[j].reserved => n.RAM[j].reserved \/ n.RAM[j].pte = NoOne
    BY <2>6, <2>10
  <2>15. ASSUME NEW q \in Procs, NEW w \in Page, n.PT[q][w].valid
         PROVE  /\ r.RAM[n.PT[q][w].frame_address].R = r.PT[q][w].R
                /\ r.RAM[n.PT[q][w].frame_address].M = r.PT[q][w].M
    <3> DEFINE j == n.PT[q][w].frame_address
    <3>1. j \in Frame
      <4>1. EntryIsTrue(n, q, w)
        BY <2>4, <2>15, EntryTrue
      <4>2. QED
        BY <4>1 DEF EntryIsTrue
    <3>2. n.RAM[j].R = n.PT[q][w].R /\ n.RAM[j].M = n.PT[q][w].M
      <4>1. EntryIsTrue(n, q, w)
        BY <2>4, <2>15, EntryTrue
      <4>2. QED
        BY <4>1 DEF EntryIsTrue
    <3> HIDE DEF j
    <3>3. r.RAM[j].R = n.RAM[j].R /\ r.RAM[j].M = n.RAM[j].M
      BY <2>10, <3>1
    <3>4. QED
      BY <2>12, <3>2, <3>3 DEF j
  <2>16. r \in MemState
    BY FaultDemandType DEF r
  <2>17. TablesKept(r) /\ EntriesTrue(r) /\ FramesOwned(r)
    <3>1. \A q \in Procs, w \in Page :
             /\ r.PT[q][w].valid = n.PT[q][w].valid
             /\ r.PT[q][w].frame_address = n.PT[q][w].frame_address
             /\ n.PT[q][w].valid =>
                  /\ r.RAM[n.PT[q][w].frame_address].R = r.PT[q][w].R
                  /\ r.RAM[n.PT[q][w].frame_address].M = r.PT[q][w].M
      BY <2>12, <2>15
    <3>2. SameLayout(n, r)
      BY <2>13, <2>14, <3>1, Zenon DEF SameLayout
    <3>3. QED
      BY <2>4, <2>16, <3>2, LayoutKept
  <2>18. ReservedHeld(r)
    <3>1. ASSUME NEW j \in Frame, r.RAM[j].reserved
          PROVE  \E q \in Procs : r.pcb[q].state = "B" /\ r.pcb[q].pending_frame = j
      <4>1. CASE j = i
        BY <2>6, <2>11, <4>1
      <4>2. CASE j # i
        <5>1. n.RAM[j].reserved
          BY <2>10, <3>1, <4>2
        <5>2. PICK q \in Procs : n.pcb[q].state = "B" /\ n.pcb[q].pending_frame = j
          BY <2>4, <5>1 DEF Consistent, ReservedHeld
        <5>3. q # p
          BY <2>6, <5>2, NumbersOfPages
        <5>4. QED
          BY <2>11, <5>2, <5>3
      <4>3. QED
        BY <4>1, <4>2
    <3>2. ASSUME NEW q \in Procs
          PROVE  /\ (r.pcb[q].pending_frame # NoFrame) <=> (r.pcb[q].pending_page # NoPage)
                 /\ r.pcb[q].pending_frame # NoFrame =>
                      /\ r.pcb[q].state = "B"
                      /\ LET f == r.RAM[r.pcb[q].pending_frame]
                         IN  /\ f.occupied /\ f.reserved /\ f.pte = NoOne
                             /\ f.process_id = q /\ f.vpage = r.pcb[q].pending_page
      <4>1. CASE q = p
        BY ZenonT(40), <2>1, <2>6, <2>10, <2>11, <4>1, NumbersOfPages
      <4>2. CASE q # p
        <5>1. r.pcb[q] = n.pcb[q]
          BY <2>11, <4>2
        <5>2. n.pcb[q].pending_frame # NoFrame =>
                 r.RAM[n.pcb[q].pending_frame] = n.RAM[n.pcb[q].pending_frame]
          BY <2>4, <2>7, <2>10, FieldTypes
        <5>3. QED
          BY <2>4, <5>1, <5>2 DEF Consistent, ReservedHeld
      <4>3. QED
        BY <4>1, <4>2
    <3>3. QED
      BY <3>1, <3>2 DEF ReservedHeld
  <2>19. FreeClean(r)
    BY ZenonT(40), <2>4, <2>6, <2>10 DEF Consistent, FreeClean
  <2>20. QED
    BY <2>17, <2>18, <2>19 DEF Consistent, r
<1>3. QED
  BY <1>1, <1>2

LEMMA TouchConsistent ==
  ASSUME NEW m \in MemState, Consistent(m), NEW p \in Procs,
         m.pcb[p].frame_index # NoFrame, m.pcb[p].state # "F",
         NEW v \in Page, m.PT[p][v].valid, NEW op
  PROVE  Consistent(Touch(m, p, v, op))
<1> DEFINE i == m.PT[p][v].frame_address
           n == Touch(m, p, v, op)
           Bits(e) == [e EXCEPT !.R = 1, !.M = IF op = "w" THEN 1 ELSE @]
<1>1. n = [RAM |-> [m.RAM EXCEPT ![i] = Bits(@)], PT |-> [m.PT EXCEPT ![p][v] = Bits(@)],
           pcb |-> m.pcb]
  BY OwnTable DEF Touch
<1>2. n \in MemState
  BY TouchType
<1>3. i \in Frame /\ m.RAM[i].process_id = p /\ m.RAM[i].vpage = v
      /\ m.RAM[i].occupied /\ m.RAM[i].M = m.PT[p][v].M
  <2>1. EntryIsTrue(m, p, v)
    BY EntryTrue
  <2>2. QED
    BY <2>1 DEF EntryIsTrue
<1>4. m.RAM \in [Frame -> FrameRec] /\ m.PT \in [Procs -> [Page -> Entry]]
  BY MemStateParts DEF RAMType, PTType
<1>5. /\ \A f \in FrameRec : /\ Bits(f).occupied = f.occupied /\ Bits(f).pte = f.pte
                             /\ Bits(f).process_id = f.process_id /\ Bits(f).vpage = f.vpage
                             /\ Bits(f).reserved = f.reserved
                             /\ Bits(f).R = 1 /\ Bits(f).M = (IF op = "w" THEN 1 ELSE f.M)
      /\ \A e \in Entry : /\ Bits(e).valid = e.valid /\ Bits(e).frame_address = e.frame_address
                          /\ Bits(e).R = 1 /\ Bits(e).M = (IF op = "w" THEN 1 ELSE e.M)
  BY DEF FrameRec, Entry
<1> HIDE DEF n, Bits, i
<1>6. /\ \A j \in Frame : n.RAM[j] = IF j = i THEN Bits(m.RAM[j]) ELSE m.RAM[j]
      /\ \A q \in Procs, w \in Page :
            n.PT[q][w] = IF q = p /\ w = v THEN Bits(m.PT[q][w]) ELSE m.PT[q][w]
      /\ n.pcb = m.pcb
  BY <1>1, <1>3, <1>4
<1>7. \A j \in Frame : /\ n.RAM[j].occupied = m.RAM[j].occupied
                       /\ n.RAM[j].pte = m.RAM[j].pte
                       /\ n.RAM[j].process_id = m.RAM[j].process_id
                       /\ n.RAM[j].vpage = m.RAM[j].vpage
                       /\ n.RAM[j].reserved = m.RAM[j].reserved
  BY <1>4, <1>5, <1>6
<1>8. \A q \in Procs, w \in Page :
         /\ n.PT[q][w].valid = m.PT[q][w].valid
         /\ n.PT[q][w].frame_address = m.PT[q][w].frame_address
  BY <1>4, <1>5, <1>6
<1>9. ASSUME NEW q \in Procs, NEW w \in Page, m.PT[q][w].valid
      PROVE  /\ n.RAM[m.PT[q][w].frame_address].R = n.PT[q][w].R
             /\ n.RAM[m.PT[q][w].frame_address].M = n.PT[q][w].M
  <2> DEFINE j == m.PT[q][w].frame_address
  <2>1. /\ j \in Frame /\ m.RAM[j].process_id = q /\ m.RAM[j].vpage = w
        /\ m.RAM[j].R = m.PT[q][w].R /\ m.RAM[j].M = m.PT[q][w].M
    <3>1. EntryIsTrue(m, q, w)
      BY <1>9, EntryTrue
    <3>2. QED
      BY <3>1 DEF EntryIsTrue
  <2>2. CASE q = p /\ w = v
    <3>1. j = i
      BY <2>2 DEF i
    <3>2. n.RAM[i] = Bits(m.RAM[i]) /\ n.PT[p][v] = Bits(m.PT[p][v])
      BY <1>3, <1>6
    <3>3. m.RAM[i] \in FrameRec /\ m.PT[p][v] \in Entry
      BY <1>3, <1>4
    <3> HIDE DEF j
    <3>4. n.RAM[i].R = n.PT[p][v].R /\ n.RAM[i].M = n.PT[p][v].M
      BY <1>3, <1>5, <3>2, <3>3
    <3>5. QED
      BY <2>2, <3>1, <3>4 DEF j
  <2>3. CASE q # p \/ w # v
    <3>1. j # i
      BY <1>3, <2>1, <2>3
    <3> HIDE DEF j
    <3>2. n.RAM[j] = m.RAM[j] /\ n.PT[q][w] = m.PT[q][w]
      BY <1>6, <2>1, <2>3, <3>1
    <3>3. QED
      BY <2>1, <3>2 DEF j
  <2>4. QED
    BY SMTT(30), <2>2, <2>3
<1>10. TablesKept(n) /\ EntriesTrue(n) /\ FramesOwned(n)
  <2>1. SameLayout(m, n)
    BY <1>6, <1>7, <1>8, <1>9 DEF SameLayout
  <2>2. QED
    BY <1>2, <2>1, LayoutKept
<1>11. ReservedHeld(n)
  <2>1. ReservedHeld(m)
    BY DEF Consistent
  <2>2. \A q \in Procs : m.pcb[q].pending_frame # NoFrame => m.pcb[q].pending_frame \in Frame
    BY FieldTypes
  <2>3. QED
    BY <1>6, <1>7, <2>1, <2>2 DEF ReservedHeld
<1>12. FreeClean(n)
  <2>1. ASSUME NEW j \in Frame, ~n.RAM[j].occupied
        PROVE  n.RAM[j].M = 0 /\ n.RAM[j].R = 0 /\ ~n.RAM[j].reserved /\ n.RAM[j].pte = NoOne
    <3>1. ~m.RAM[j].occupied /\ j # i
      BY <1>3, <1>7, <2>1
    <3>2. n.RAM[j] = m.RAM[j]
      BY <1>6, <3>1
    <3>3. QED
      BY <3>1, <3>2 DEF Consistent, FreeClean
  <2>2. QED
    BY <2>1 DEF FreeClean
<1>13. QED
  BY <1>10, <1>11, <1>12 DEF Consistent, n

\* clear_recent reaches the entry of every page in memory: its owner has a table.
LEMMA ClearRecentConsistent ==
  ASSUME NEW m \in MemState, Consistent(m)
  PROVE  Consistent(ClearRecent(m))
<1> DEFINE n == ClearRecent(m)
           Zero(f) == [f EXCEPT !.R = 0]
<1>1. n \in MemState
  BY ClearRecentType
<1>2. m.RAM \in [Frame -> FrameRec] /\ m.PT \in [Procs -> [Page -> Entry]]
  BY MemStateParts DEF RAMType, PTType
<1>3. /\ n.pcb = m.pcb
      /\ \A j \in Frame : n.RAM[j] = IF m.RAM[j].occupied
                                     THEN Zero(m.RAM[j]) ELSE m.RAM[j]
      /\ \A q \in Procs : n.PT[q] =
            IF \E j \in Frame : m.RAM[j].occupied /\ m.RAM[j].pte = q
            THEN [w \in Page |-> Zero(m.PT[q][w])] ELSE m.PT[q]
  BY DEF ClearRecent
<1> HIDE DEF n, Zero
<1>4. \A j \in Frame : /\ n.RAM[j].occupied = m.RAM[j].occupied
                       /\ n.RAM[j].pte = m.RAM[j].pte
                       /\ n.RAM[j].process_id = m.RAM[j].process_id
                       /\ n.RAM[j].vpage = m.RAM[j].vpage
                       /\ n.RAM[j].reserved = m.RAM[j].reserved
                       /\ n.RAM[j].M = m.RAM[j].M
                       /\ n.RAM[j].R = IF m.RAM[j].occupied THEN 0 ELSE m.RAM[j].R
  <2>1. \A f \in FrameRec : /\ Zero(f).occupied = f.occupied /\ Zero(f).pte = f.pte
                            /\ Zero(f).process_id = f.process_id /\ Zero(f).vpage = f.vpage
                            /\ Zero(f).reserved = f.reserved /\ Zero(f).M = f.M
                            /\ Zero(f).R = 0
    BY DEF Zero, FrameRec
  <2>2. QED
    BY <1>2, <1>3, <2>1
<1>5. \A q \in Procs, w \in Page : /\ n.PT[q][w].valid = m.PT[q][w].valid
                                   /\ n.PT[q][w].frame_address = m.PT[q][w].frame_address
                                   /\ n.PT[q][w].M = m.PT[q][w].M
  <2>1. \A e \in Entry : /\ Zero(e).valid = e.valid /\ Zero(e).M = e.M
                         /\ Zero(e).frame_address = e.frame_address
    BY DEF Zero, Entry
  <2>2. ASSUME NEW q \in Procs, NEW w \in Page
        PROVE  n.PT[q][w] = Zero(m.PT[q][w]) \/ n.PT[q][w] = m.PT[q][w]
    <3>1. CASE \E j \in Frame : m.RAM[j].occupied /\ m.RAM[j].pte = q
      <4>1. n.PT[q] = [x \in Page |-> Zero(m.PT[q][x])]
        BY <1>3, <3>1
      <4>2. QED
        BY <4>1
    <3>2. CASE ~ \E j \in Frame : m.RAM[j].occupied /\ m.RAM[j].pte = q
      <4>1. n.PT[q] = m.PT[q]
        BY <1>3, <3>2
      <4>2. QED
        BY <4>1
    <3>3. QED
      BY <3>1, <3>2
  <2>3. \A q \in Procs, w \in Page : m.PT[q][w] \in Entry
    BY <1>2
  <2>4. QED
    BY <2>1, <2>2, <2>3
<1>6. ASSUME NEW q \in Procs, NEW w \in Page, m.PT[q][w].valid
      PROVE  /\ n.RAM[m.PT[q][w].frame_address].R = n.PT[q][w].R
             /\ n.RAM[m.PT[q][w].frame_address].M = n.PT[q][w].M
  <2> DEFINE j == m.PT[q][w].frame_address
  <2>1. /\ j \in Frame /\ m.RAM[j].occupied /\ m.RAM[j].pte = NoOne /\ m.RAM[j].process_id = q
        /\ m.RAM[j].M = m.PT[q][w].M
    BY SMTT(30), <1>6, FieldTypes DEF Consistent, EntriesTrue
  <2>2. m.pcb[q].frame_index # NoFrame /\ m.pcb[q].state # "F"
    BY <2>1 DEF Consistent, FramesOwned, Live
  <2>3. m.pcb[q].frame_index \in Frame
    BY <2>2, FieldTypes
  <2>4. m.RAM[m.pcb[q].frame_index].occupied /\ m.RAM[m.pcb[q].frame_index].pte = q
    BY <2>2 DEF Consistent, TablesKept
  <2>5. n.PT[q] = [x \in Page |-> Zero(m.PT[q][x])]
    BY <1>3, <2>3, <2>4
  <2>6. m.PT[q][w] \in Entry
    BY <1>2
  <2>7. n.PT[q][w].R = 0
    BY <2>5, <2>6 DEF Zero, Entry
  <2> HIDE DEF j
  <2>8. n.RAM[j].R = 0 /\ n.RAM[j].M = n.PT[q][w].M
    BY <1>4, <1>5, <2>1
  <2>9. QED
    BY <2>7, <2>8 DEF j
<1>7. TablesKept(n) /\ EntriesTrue(n) /\ FramesOwned(n)
  <2>1. SameLayout(m, n)
    BY <1>3, <1>4, <1>5, <1>6 DEF SameLayout
  <2>2. QED
    BY <1>1, <2>1, LayoutKept
<1>8. ReservedHeld(n)
  <2>1. ReservedHeld(m)
    BY DEF Consistent
  <2>2. \A q \in Procs : m.pcb[q].pending_frame # NoFrame => m.pcb[q].pending_frame \in Frame
    BY FieldTypes
  <2>3. QED
    BY <1>3, <1>4, <2>1, <2>2 DEF ReservedHeld
<1>9. FreeClean(n)
  BY <1>4 DEF Consistent, FreeClean
<1>10. QED
  BY <1>7, <1>8, <1>9 DEF Consistent, n

\* checkBlockEnd: no frame that another process waits for is released.
LEMMA EndFaultsConsistent ==
  ASSUME NEW m \in MemState, Consistent(m), NEW S \in SUBSET Procs,
         \A p \in S : m.pcb[p].state = "B"
  PROVE  Consistent(EndFaults(m, S))
<1> DEFINE n == EndFaults(m, S)
           Held(j) == \E p \in S : /\ m.pcb[p].pending_page # NoPage
                                   /\ m.pcb[p].pending_frame # NoFrame
                                   /\ m.pcb[p].pending_frame = j
           Free(f) == [f EXCEPT !.reserved = FALSE]
<1>1. n \in MemState
  BY EndFaultsType
<1>2. m.RAM \in [Frame -> FrameRec] /\ m.pcb \in [Procs -> PCBRec]
  BY MemStateParts DEF RAMType, PCBType
<1>3. /\ n.PT = m.PT
      /\ \A j \in Frame : n.RAM[j] = IF Held(j) THEN Free(m.RAM[j])
                                     ELSE m.RAM[j]
      /\ \A q \in Procs : q \notin S => n.pcb[q] = m.pcb[q]
  BY DEF EndFaults
<1>4. ASSUME NEW q \in S
      PROVE  /\ n.pcb[q].state = "W" /\ n.pcb[q].frame_index = m.pcb[q].frame_index
             /\ n.pcb[q].pending_frame = NoFrame /\ n.pcb[q].pending_page = NoPage
  <2>1. (m.pcb[q].pending_frame # NoFrame) <=> (m.pcb[q].pending_page # NoPage)
    BY DEF Consistent, ReservedHeld
  <2>2. m.pcb[q] \in PCBRec
    BY <1>2
  <2>3. CASE m.pcb[q].pending_frame # NoFrame
    <3>1. n.pcb[q] = [m.pcb[q] EXCEPT !.state = "W", !.pending_page = NoPage,
                                      !.pending_frame = NoFrame]
      BY <2>1, <2>3 DEF EndFaults
    <3>2. QED
      BY <2>2, <3>1 DEF PCBRec
  <2>4. CASE m.pcb[q].pending_frame = NoFrame
    <3>1. n.pcb[q] = [m.pcb[q] EXCEPT !.state = "W"]
      BY <2>1, <2>4 DEF EndFaults
    <3>2. QED
      BY <2>1, <2>2, <2>4, <3>1 DEF PCBRec
  <2>5. QED
    BY <2>3, <2>4
<1> HIDE DEF n, Held, Free
<1>5. \A j \in Frame : /\ n.RAM[j].occupied = m.RAM[j].occupied
                       /\ n.RAM[j].pte = m.RAM[j].pte
                       /\ n.RAM[j].process_id = m.RAM[j].process_id
                       /\ n.RAM[j].vpage = m.RAM[j].vpage
                       /\ n.RAM[j].R = m.RAM[j].R
                       /\ n.RAM[j].M = m.RAM[j].M
                       /\ n.RAM[j].reserved <=> m.RAM[j].reserved /\ ~Held(j)
  <2>1. \A f \in FrameRec : /\ Free(f).occupied = f.occupied /\ Free(f).pte = f.pte
                            /\ Free(f).process_id = f.process_id /\ Free(f).vpage = f.vpage
                            /\ Free(f).R = f.R /\ Free(f).M = f.M /\ ~Free(f).reserved
    BY DEF Free, FrameRec
  <2>2. ASSUME NEW j \in Frame
        PROVE  /\ n.RAM[j].occupied = m.RAM[j].occupied
               /\ n.RAM[j].pte = m.RAM[j].pte
               /\ n.RAM[j].process_id = m.RAM[j].process_id
               /\ n.RAM[j].vpage = m.RAM[j].vpage
               /\ n.RAM[j].R = m.RAM[j].R
               /\ n.RAM[j].M = m.RAM[j].M
               /\ n.RAM[j].reserved <=> m.RAM[j].reserved /\ ~Held(j)
    <3>1. CASE Held(j)
      BY <1>2, <1>3, <2>1, <3>1
    <3>2. CASE ~Held(j)
      BY <1>3, <3>2
    <3>3. QED
      BY <3>1, <3>2
  <2>3. QED
    BY <2>2
<1>6. \A q \in Procs : /\ n.pcb[q].frame_index = m.pcb[q].frame_index
                       /\ (n.pcb[q].state = "F") <=> (m.pcb[q].state = "F")
  BY <1>3, <1>4
<1>7. TablesKept(n) /\ EntriesTrue(n) /\ FramesOwned(n)
  <2>1. ASSUME NEW q \in Procs, NEW w \in Page, m.PT[q][w].valid
        PROVE  /\ n.RAM[m.PT[q][w].frame_address].R = n.PT[q][w].R
               /\ n.RAM[m.PT[q][w].frame_address].M = n.PT[q][w].M
    BY <1>3, <1>5, <2>1, FieldTypes DEF Consistent, EntriesTrue
  <2>2. SameLayout(m, n)
    BY <1>3, <1>5, <1>6, <2>1 DEF SameLayout
  <2>3. QED
    BY <1>1, <2>2, LayoutKept
<1>8. ReservedHeld(n)
  <2>1. ASSUME NEW j \in Frame, n.RAM[j].reserved
        PROVE  \E q \in Procs : n.pcb[q].state = "B" /\ n.pcb[q].pending_frame = j
    <3>1. m.RAM[j].reserved /\ ~Held(j)
      BY <1>5, <2>1
    <3>2. PICK q \in Procs : m.pcb[q].state = "B" /\ m.pcb[q].pending_frame = j
      BY <3>1 DEF Consistent, ReservedHeld
    <3>3. m.pcb[q].pending_frame # NoFrame /\ m.pcb[q].pending_page # NoPage
      BY <3>2, NumbersOfPages DEF Consistent, ReservedHeld
    <3>4. q \notin S
      BY <3>1, <3>2, <3>3 DEF Held
    <3>5. QED
      BY <1>3, <3>2, <3>4
  <2>2. ASSUME NEW q \in Procs
        PROVE  /\ (n.pcb[q].pending_frame # NoFrame) <=> (n.pcb[q].pending_page # NoPage)
               /\ n.pcb[q].pending_frame # NoFrame =>
                    /\ n.pcb[q].state = "B"
                    /\ LET f == n.RAM[n.pcb[q].pending_frame]
                       IN  /\ f.occupied /\ f.reserved /\ f.pte = NoOne
                           /\ f.process_id = q /\ f.vpage = n.pcb[q].pending_page
    <3>1. CASE q \in S
      BY <1>4, <3>1
    <3>2. CASE q \notin S
      <4> DEFINE j == m.pcb[q].pending_frame
      <4>1. n.pcb[q] = m.pcb[q]
        BY <1>3, <3>2
      <4>2. CASE j = NoFrame
        BY <4>1, <4>2 DEF Consistent, ReservedHeld
      <4>3. CASE j # NoFrame
        <5>1. j \in Frame
          BY <4>3, FieldTypes
        <5>2. m.RAM[j].process_id = q
          BY <4>3 DEF Consistent, ReservedHeld
        <5>3. \A p \in S : m.pcb[p].pending_frame # NoFrame =>
                              m.RAM[m.pcb[p].pending_frame].process_id = p
          BY DEF Consistent, ReservedHeld
        <5>4. ~Held(j)
          BY <3>2, <5>2, <5>3 DEF Held
        <5>5. QED
          BY <1>5, <4>1, <4>3, <5>1, <5>4 DEF Consistent, ReservedHeld
      <4>4. QED
        BY <4>2, <4>3
    <3>3. QED
      BY <3>1, <3>2
  <2>3. QED
    BY <2>1, <2>2 DEF ReservedHeld
<1>9. FreeClean(n)
  BY <1>5 DEF Consistent, FreeClean
<1>10. QED
  BY <1>7, <1>8, <1>9 DEF Consistent, n

\* A process that exits takes its table and its pages with it, and nothing else.
LEMMA FinishConsistent ==
  ASSUME NEW m \in MemState, Consistent(m), NEW p \in Procs,
         m.pcb[p].state = "R", m.pcb[p].frame_index # NoFrame,
         NEW n \in MemState,
         n.RAM = FreePageTable(m, p).RAM, n.PT = FreePageTable(m, p).PT,
         n.pcb = [m.pcb EXCEPT ![p].state = "F"]
  PROVE  Consistent(n)
<1> DEFINE Gone(j) == j = m.pcb[p].frame_index \/ m.RAM[j].process_id = p
<1>1. m.PT \in [Procs -> [Page -> Entry]] /\ m.pcb \in [Procs -> PCBRec]
  BY MemStateParts DEF PTType, PCBType
<1>2. \A j \in Frame : n.RAM[j] = IF Gone(j) THEN FreedFrame ELSE m.RAM[j]
  BY DEF FreePageTable
<1>3. /\ \A q \in Procs : q # p => n.PT[q] = m.PT[q] /\ n.pcb[q] = m.pcb[q]
      /\ \A w \in Page : ~n.PT[p][w].valid
      /\ n.pcb[p].state = "F"
      /\ n.pcb[p].pending_frame = m.pcb[p].pending_frame
      /\ n.pcb[p].pending_page = m.pcb[p].pending_page
  <2>1. n.PT = [m.PT EXCEPT ![p] = EmptyTable]
    BY DEF FreePageTable
  <2>2. \A w \in Page : ~EmptyTable[w].valid
    BY DEF EmptyTable, NoEntry
  <2>3. QED
    BY <1>1, <2>1, <2>2 DEF PCBRec
<1>4. m.pcb[p].pending_frame = NoFrame /\ m.pcb[p].pending_page = NoPage
  BY DEF Consistent, ReservedHeld
<1>5. /\ ~FreedFrame.occupied /\ ~FreedFrame.reserved /\ FreedFrame.pte = NoOne
      /\ FreedFrame.M = 0 /\ FreedFrame.R = 0
  BY SMTT(30) DEF FreedFrame
<1> HIDE DEF Gone
<1>6. TablesKept(n)
  <2>1. ASSUME NEW q \in Procs, n.pcb[q].frame_index # NoFrame, n.pcb[q].state # "F"
        PROVE  LET f == n.RAM[n.pcb[q].frame_index]
               IN  f.occupied /\ ~f.reserved /\ f.pte = q /\ f.process_id = q
    <3> DEFINE j == m.pcb[q].frame_index
    <3>1. q # p /\ n.pcb[q].frame_index = j /\ j # NoFrame /\ m.pcb[q].state # "F"
      BY <1>3, <2>1
    <3>2. j \in Frame
      BY <3>1, FieldTypes
    <3>3. m.RAM[j].occupied /\ ~m.RAM[j].reserved /\ m.RAM[j].pte = q /\ m.RAM[j].process_id = q
      BY <3>1 DEF Consistent, TablesKept
    <3>4. m.RAM[m.pcb[p].frame_index].pte = p
      BY DEF Consistent, TablesKept
    <3>5. ~Gone(j)
      BY <3>1, <3>3, <3>4 DEF Gone
    <3> HIDE DEF j
    <3>6. QED
      BY <1>2, <3>1, <3>2, <3>3, <3>5
  <2>2. ASSUME NEW j \in Frame, n.RAM[j].pte # NoOne
        PROVE  /\ n.RAM[j].occupied
               /\ n.pcb[n.RAM[j].pte].frame_index = j
               /\ n.pcb[n.RAM[j].pte].state # "F"
    <3> DEFINE q == m.RAM[j].pte
    <3>1. ~Gone(j) /\ n.RAM[j] = m.RAM[j]
      BY <1>2, <1>5, <2>2
    <3>2. m.RAM[j].occupied /\ m.pcb[q].frame_index = j /\ m.pcb[q].state # "F" /\ q # NoOne
      BY <2>2, <3>1 DEF Consistent, TablesKept
    <3>3. q \in Procs
      BY <3>2, FieldTypes
    <3>4. q # p
      BY <3>1, <3>2 DEF Gone
    <3>5. n.RAM[j].pte = q
      BY SMTT(30), <3>1
    <3> HIDE DEF q
    <3>6. QED
      BY <1>3, <3>1, <3>2, <3>3, <3>4, <3>5
  <2>3. QED
    BY <2>1, <2>2 DEF TablesKept
<1>7. EntriesTrue(n)
  <2>1. SUFFICES ASSUME NEW q \in Procs, NEW w \in Page, n.PT[q][w].valid
                 PROVE  /\ n.PT[q][w].frame_address # NoFrame
                        /\ LET f == n.RAM[n.PT[q][w].frame_address]
                           IN  /\ f.occupied /\ f.pte = NoOne /\ f.process_id = q /\ f.vpage = w
                               /\ f.R = n.PT[q][w].R /\ f.M = n.PT[q][w].M
    BY DEF EntriesTrue
  <2> DEFINE j == m.PT[q][w].frame_address
  <2>2. q # p /\ n.PT[q][w] = m.PT[q][w] /\ m.PT[q][w].valid
    BY SMTT(30), <1>3, <2>1
  <2>3. /\ m.RAM[j].occupied /\ m.RAM[j].pte = NoOne /\ m.RAM[j].process_id = q
        /\ m.RAM[j].vpage = w /\ m.RAM[j].R = m.PT[q][w].R /\ m.RAM[j].M = m.PT[q][w].M
        /\ j # NoFrame /\ j \in Frame
    <3>1. EntryIsTrue(m, q, w)
      BY <2>2, EntryTrue
    <3>2. QED
      BY <3>1 DEF EntryIsTrue
  <2>4. j \in Frame
    BY <2>3
  <2>5. m.RAM[m.pcb[p].frame_index].pte = p
    BY DEF Consistent, TablesKept
  <2>6. ~Gone(j)
    BY <2>2, <2>3, <2>5, ProcsAreNumbers DEF Gone
  <2>7. n.RAM[j] = m.RAM[j]
    BY <1>2, <2>4, <2>6
  <2>8. QED
    BY SMTT(30), <2>2, <2>3, <2>7
<1>8. FramesOwned(n)
  <2>1. SUFFICES ASSUME NEW j \in Frame, n.RAM[j].occupied, n.RAM[j].pte = NoOne
                 PROVE  /\ Live(n, n.RAM[j].process_id)
                        /\ n.pcb[n.RAM[j].process_id].frame_index # NoFrame
                        /\ n.RAM[j].vpage # NoPage
                        /\ LET e == n.PT[n.RAM[j].process_id][n.RAM[j].vpage]
                           IN  e.valid /\ e.frame_address = j
    BY DEF FramesOwned
  <2> DEFINE q == m.RAM[j].process_id
  <2>2. ~Gone(j) /\ n.RAM[j] = m.RAM[j]
    BY SMTT(30), <1>2, <1>5, <2>1
  <2>3. /\ q \in Procs /\ m.pcb[q].state # "F" /\ m.pcb[q].frame_index # NoFrame
        /\ m.RAM[j].vpage # NoPage
        /\ m.PT[q][m.RAM[j].vpage].valid /\ m.PT[q][m.RAM[j].vpage].frame_address = j
    BY <2>1, <2>2 DEF Consistent, FramesOwned, Live
  <2>4. q # p
    BY <2>2 DEF Gone
  <2>5. n.RAM[j].process_id = q
    BY SMTT(30), <2>2
  <2> HIDE DEF q
  <2>6. QED
    BY SMTT(30), <1>3, <2>2, <2>3, <2>4, <2>5 DEF Live
<1>9. ReservedHeld(n)
  <2>1. ASSUME NEW j \in Frame, n.RAM[j].reserved
        PROVE  \E q \in Procs : n.pcb[q].state = "B" /\ n.pcb[q].pending_frame = j
    <3>1. m.RAM[j].reserved
      BY <1>2, <1>5, <2>1
    <3>2. PICK q \in Procs : m.pcb[q].state = "B" /\ m.pcb[q].pending_frame = j
      BY <3>1 DEF Consistent, ReservedHeld
    <3>3. q # p
      BY SMTT(30), <3>2
    <3>4. QED
      BY <1>3, <3>2, <3>3
  <2>2. ASSUME NEW q \in Procs
        PROVE  /\ (n.pcb[q].pending_frame # NoFrame) <=> (n.pcb[q].pending_page # NoPage)
               /\ n.pcb[q].pending_frame # NoFrame =>
                    /\ n.pcb[q].state = "B"
                    /\ LET f == n.RAM[n.pcb[q].pending_frame]
                       IN  /\ f.occupied /\ f.reserved /\ f.pte = NoOne
                           /\ f.process_id = q /\ f.vpage = n.pcb[q].pending_page
    <3>1. CASE q = p
      BY SMTT(30), <1>3, <1>4, <3>1
    <3>2. CASE q # p
      <4> DEFINE j == m.pcb[q].pending_frame
      <4>1. n.pcb[q] = m.pcb[q]
        BY <1>3, <3>2
      <4>2. CASE j = NoFrame
        <5>1. m.pcb[q].pending_page = NoPage
          BY <4>2 DEF Consistent, ReservedHeld
        <5>2. QED
          BY <4>1, <4>2, <5>1
      <4>3. CASE j # NoFrame
        <5>1. j \in Frame
          BY <4>3, FieldTypes
        <5>2. /\ m.RAM[j].process_id = q /\ m.RAM[j].pte = NoOne
              /\ m.RAM[j].occupied /\ m.RAM[j].reserved
              /\ m.RAM[j].vpage = m.pcb[q].pending_page
              /\ m.pcb[q].pending_page # NoPage /\ m.pcb[q].state = "B"
          BY <4>3 DEF Consistent, ReservedHeld
        <5>3. m.RAM[m.pcb[p].frame_index].pte = p
          BY DEF Consistent, TablesKept
        <5>4. ~Gone(j)
          BY <3>2, <5>2, <5>3, ProcsAreNumbers DEF Gone
        <5>5. n.RAM[j] = m.RAM[j]
          BY <1>2, <5>1, <5>4
        <5>6. QED
          BY <4>1, <4>3, <5>2, <5>5
      <4>4. QED
        BY <4>2, <4>3
    <3>3. QED
      BY <3>1, <3>2
  <2>3. QED
    BY <2>1, <2>2 DEF ReservedHeld
<1>10. FreeClean(n)
  BY <1>2, <1>5 DEF Consistent, FreeClean
<1>11. QED
  BY <1>6, <1>7, <1>8, <1>9, <1>10 DEF Consistent

-----------------------------------------------------------------------------
(* The inductive invariant.                                                *)

MMUInv == MMUTypeOK /\ Consistent(Mem)

LEMMA InitConsistent == MMUInit => Consistent(Mem)
<1> SUFFICES ASSUME MMUInit
             PROVE  Consistent(Mem)
  OBVIOUS
<1>1. \A i \in Frame : /\ ~RAM[i].occupied /\ ~RAM[i].reserved /\ RAM[i].pte = NoOne
                       /\ RAM[i].R = 0 /\ RAM[i].M = 0
  BY DEF MMUInit, ZeroFrame
<1>2. \A p \in Procs, v \in Page : ~PT[p][v].valid
  BY DEF MMUInit, EmptyTable, NoEntry
<1>3. \A p \in Procs : /\ pcb[p].frame_index = NoFrame /\ pcb[p].pending_frame = NoFrame
                       /\ pcb[p].pending_page = NoPage
  BY DEF MMUInit, NewPCB
<1>4. QED
  BY <1>1, <1>2, <1>3
     DEF Mem, Consistent, TablesKept, EntriesTrue, FramesOwned, ReservedHeld, FreeClean

LEMMA NextConsistent ==
  ASSUME MMUInv, MMUTypeOK', [MMUNext]_MMUvars
  PROVE  Consistent(Mem)'
<1>1. Mem \in MemState /\ Mem' \in MemState /\ clk \in Int /\ Consistent(Mem)
  BY DEF MMUInv, MMUTypeOK
<1>2. Mem.RAM = RAM /\ Mem.PT = PT /\ Mem.pcb = pcb
  BY DEF Mem
<1>3. Mem'.RAM = RAM' /\ Mem'.PT = PT' /\ Mem'.pcb = pcb'
  BY DEF Mem
<1>4. \A m \in MemState : Become(m) => Mem' = m
  BY MemStateParts DEF Mem, Become
<1>5. \A p, v : v < Limit[p] /\ p \in Procs /\ v \in 0..NUM_PAGES => v \in Page
  BY MMUAssumption DEF Page
<1> HIDE DEF Mem
<1>6. CASE Tick
  BY <1>1, <1>6 DEF Tick, Mem
<1>7. ASSUME NEW p \in Procs, Dispatch(p)
      PROVE  Consistent(Mem')
  <2> DEFINE m == IF pcb[p].forked THEN Mem ELSE InitializePCB(Mem, p)
  <2>1. pcb[p].state = "W"
    BY <1>7 DEF Dispatch
  <2>2. m \in MemState /\ Consistent(m)
    BY <1>1, <1>2, <2>1, InitializePCBType, InitializePCBConsistent
  <2>3. RAM' = m.RAM /\ PT' = m.PT /\ pcb' = [m.pcb EXCEPT ![p].state = "R", ![p].forked = TRUE]
    BY <1>7 DEF Dispatch
  <2>4. m.pcb[p].state = "W"
    BY <1>1, <1>2, <2>1, InitializePCBKeepsState
  <2>5. m.pcb \in [Procs -> PCBRec]
    BY <2>2, MemStateParts DEF PCBType
  <2> HIDE DEF m
  <2>6. \A q \in Procs : /\ Mem'.pcb[q].frame_index = m.pcb[q].frame_index
                         /\ Mem'.pcb[q].pending_page = m.pcb[q].pending_page
                         /\ Mem'.pcb[q].pending_frame = m.pcb[q].pending_frame
                         /\ (Mem'.pcb[q].state = "F") <=> (m.pcb[q].state = "F")
                         /\ m.pcb[q].state = "B" => Mem'.pcb[q].state = "B"
    BY <1>3, <2>3, <2>4, <2>5 DEF PCBRec
  <2>7. QED
    BY <1>1, <1>3, <2>2, <2>3, <2>6, OtherFields
<1>8. ASSUME NEW p \in Procs, Preempt(p)
      PROVE  Consistent(Mem')
  <2>1. pcb[p].state = "R" /\ RAM' = RAM /\ PT' = PT /\ pcb' = [pcb EXCEPT ![p].state = "W"]
    BY <1>8 DEF Preempt
  <2>2. pcb \in [Procs -> PCBRec]
    BY <1>1, <1>2, MemStateParts DEF PCBType
  <2>3. \A q \in Procs : /\ Mem'.pcb[q].frame_index = Mem.pcb[q].frame_index
                         /\ Mem'.pcb[q].pending_page = Mem.pcb[q].pending_page
                         /\ Mem'.pcb[q].pending_frame = Mem.pcb[q].pending_frame
                         /\ (Mem'.pcb[q].state = "F") <=> (Mem.pcb[q].state = "F")
                         /\ Mem.pcb[q].state = "B" => Mem'.pcb[q].state = "B"
    BY <1>2, <1>3, <2>1, <2>2 DEF PCBRec
  <2>4. QED
    BY ZenonT(40), <1>1, <1>2, <1>3, <2>1, <2>3, OtherFields
<1>9. ASSUME NEW p \in Procs, Finish(p)
      PROVE  Consistent(Mem')
  <2>1. /\ pcb[p].state = "R" /\ pcb[p].frame_index # NoFrame
        /\ RAM' = FreePageTable(Mem, p).RAM /\ PT' = FreePageTable(Mem, p).PT
        /\ pcb' = [FreePageTable(Mem, p).pcb EXCEPT ![p].state = "F"]
    BY <1>9 DEF Finish
  <2>2. FreePageTable(Mem, p).pcb = Mem.pcb
    BY DEF FreePageTable
  <2>3. QED
    BY ZenonT(40), <1>1, <1>2, <1>3, <2>1, <2>2, FinishConsistent
<1>10. ASSUME NEW p \in Procs, NEW v \in 0..NUM_PAGES, NEW op \in Op, Hit(p, v, op)
       PROVE  Consistent(Mem')
  <2>1. /\ Mem.pcb[p].state = "R" /\ Mem.pcb[p].frame_index # NoFrame /\ v \in Page
        /\ Mem.PT[TableOf(Mem, p)][v].valid
    BY <1>2, <1>5, <1>10 DEF Hit, Resident
  <2>2. TableOf(Mem, p) = p
    BY <1>1, <2>1, OwnTable
  <2>3. Consistent(Touch(Mem, p, v, op)) /\ Touch(Mem, p, v, op) \in MemState
    BY <1>1, <2>1, <2>2, TouchConsistent, TouchType
  <2>4. QED
    BY <1>4, <1>10, <2>3 DEF Hit
<1>11. ASSUME NEW p \in Procs, NEW v \in 0..NUM_PAGES, NEW op \in Op, Fault(p, v, op)
       PROVE  Consistent(Mem')
  <2>1. /\ Mem.pcb[p].state = "R" /\ Mem.pcb[p].frame_index # NoFrame /\ v \in Page
        /\ ~Mem.PT[TableOf(Mem, p)][v].valid
    BY <1>2, <1>5, <1>11 DEF Fault, Resident
  <2>2. TableOf(Mem, p) = p
    BY <1>1, <2>1, OwnTable
  <2>3. Consistent(FaultDemand(Mem, p, v, op)) /\ FaultDemand(Mem, p, v, op) \in MemState
    BY <1>1, <2>1, <2>2, FaultDemandConsistent, FaultDemandType
  <2>4. QED
    BY <1>4, <1>11, <2>3 DEF Fault
<1>12. CASE Wake
  <2>1. Overdue \in SUBSET Procs /\ \A p \in Overdue : Mem.pcb[p].state = "B"
    BY <1>2 DEF Overdue
  <2>2. Consistent(EndFaults(Mem, Overdue)) /\ EndFaults(Mem, Overdue) \in MemState
    BY <1>1, <2>1, EndFaultsConsistent, EndFaultsType
  <2>3. QED
    BY <1>4, <1>12, <2>2 DEF Wake
<1>13. CASE Clear
  BY <1>1, <1>4, <1>13, ClearRecentConsistent, ClearRecentType DEF Clear
<1>14. ASSUME NEW p \in Procs, NEW v \in 0..NUM_PAGES, ReadPastTable(p, v) \/ ReadNoTable(p)
       PROVE  Consistent(Mem')
  BY <1>1, <1>14 DEF ReadPastTable, ReadNoTable, Mem
<1>15. CASE UNCHANGED MMUvars
  BY <1>1, <1>15 DEF MMUvars, Mem
<1>16. 0 \in 0..NUM_PAGES
  BY MMUAssumption
<1>17. QED
  BY <1>6, <1>7, <1>8, <1>9, <1>10, <1>11, <1>12, <1>13, <1>14, <1>15, <1>16 DEF MMUNext

LEMMA InvariantHolds == MMUSpec => []MMUInv
<1>1. MMUInit => MMUInv
  BY InitType, InitConsistent DEF MMUInv
<1>2. MMUInv /\ [MMUNext]_MMUvars => MMUInv'
  BY NextType, NextConsistent DEF MMUInv
<1>3. QED
  BY <1>1, <1>2, PTL DEF MMUSpec

\* A frame that holds a page table stays with its owner until the owner exits:
\* no eviction (fault_handler skips pte # NULL) and no exit of another process
\* (freePageTable) takes it, so check always follows the PCB to its own table.
THEOREM TablesNeverTaken == MMUSpec => []TablesStay
<1>1. MMUInv => TablesStay
  BY DEF MMUInv, Consistent, TablesStay
<1>2. QED
  BY <1>1, InvariantHolds, PTL

\* A valid page table entry points to the frame with that very page of that very
\* process, and both copies of R and M agree, through check, swap,
\* put_page_in_frame, clear_recent and freePageTable.
THEOREM EntriesAreBacked == MMUSpec => []EntriesBacked
<1>1. MMUInv => EntriesBacked
  BY DEF MMUInv, Consistent, EntriesBacked
<1>2. QED
  BY <1>1, InvariantHolds, PTL

\* Every occupied frame is either a table or a page that its live owner maps:
\* swap and freePageTable leave no orphan and no page is in two frames.
THEOREM FramesAreMapped == MMUSpec => []FramesMapped
<1>1. MMUInv => FramesMapped
  BY DEF MMUInv, Consistent, FramesMapped
<1>2. QED
  BY <1>1, InvariantHolds, PTL

\* A reserved frame holds the page a blocked process waits for, and the frame of
\* every such page is reserved until checkBlockEnd wakes the process.
THEOREM ReservedUntilWake == MMUSpec => []ReservedIsPending
<1>1. MMUInv => ReservedIsPending
  BY DEF MMUInv, Consistent, ReservedIsPending
<1>2. QED
  BY <1>1, InvariantHolds, PTL

\* A free frame carries no bit of its last owner over to the next one, although
\* page_fault_delay reads M of a free frame and RAM starts with process_id 0.
THEOREM FreeFramesAreClean == MMUSpec => []FreeFramesClean
<1>1. MMUInv => FreeFramesClean
  BY DEF MMUInv, Consistent, FreeFramesClean
<1>2. QED
  BY <1>1, InvariantHolds, PTL

-----------------------------------------------------------------------------
(* Waking up.                                                              *)

\* Of the handlers, only checkBlockEnd changes the state of a blocked process.
LEMMA FaultKeepsOthers ==
  ASSUME NEW m \in MemState, NEW p \in Procs, NEW v, NEW op, NEW q \in Procs, q # p
  PROVE  FaultDemand(m, p, v, op).pcb[q].state = m.pcb[q].state
<1> DEFINE i == FrameFor(m)
           n == LoadPage(Block(m, p), p, v, i, op)
           x == FaultDemand(m, p, v, op)
<1>1. m.pcb \in [Procs -> PCBRec]
  BY MemStateParts DEF PCBType
<1>2. \A a : Unmap(a, i).pcb = a.pcb
  BY DEF Unmap
<1>3. n.pcb = Block(m, p).pcb
  BY <1>2 DEF LoadPage, MapPage
<1>4. Block(m, p).pcb[q].state = m.pcb[q].state
  BY <1>1 DEF Block
<1>5. DOMAIN Block(m, p).pcb = Procs
  BY <1>1 DEF Block
<1>6. CASE i = NoFrame
  BY <1>4, <1>6 DEF FaultDemand
<1>7. CASE i # NoFrame
  <2>1. PICK y : x.pcb = [n.pcb EXCEPT ![p] = y]
    BY <1>7 DEF FaultDemand
  <2> HIDE DEF n, x
  <2>2. x.pcb[q] = n.pcb[q]
    BY <1>3, <1>5, <2>1
  <2>3. QED
    BY <1>3, <1>4, <2>2 DEF x
<1>8. QED
  BY <1>6, <1>7

LEMMA OnlyWakeUnblocks ==
  ASSUME MMUInv, MMUNext, NEW p \in Procs, pcb[p].state = "B", pcb'[p].state # "B"
  PROVE  Wake
<1>1. Mem \in MemState /\ clk \in Int /\ Mem.pcb = pcb
  BY DEF MMUInv, MMUTypeOK, Mem
<1>2. pcb \in [Procs -> PCBRec]
  BY <1>1, MemStateParts DEF PCBType
<1> HIDE DEF Mem
<1>3. ASSUME NEW q \in Procs, Dispatch(q)
      PROVE  FALSE
  <2> DEFINE m == IF pcb[q].forked THEN Mem ELSE InitializePCB(Mem, q)
  <2>1. m \in MemState /\ m.pcb[p].state = "B" /\ p # q
    BY <1>1, <1>3, InitializePCBType, InitializePCBKeepsState DEF Dispatch
  <2>2. m.pcb \in [Procs -> PCBRec]
    BY <2>1, MemStateParts DEF PCBType
  <2>3. pcb' = [m.pcb EXCEPT ![q].state = "R", ![q].forked = TRUE]
    BY <1>3 DEF Dispatch
  <2> HIDE DEF m
  <2>4. QED
    BY <2>1, <2>2, <2>3
<1>4. ASSUME NEW q \in Procs, Preempt(q)
      PROVE  FALSE
  BY <1>2, <1>4 DEF Preempt
<1>5. ASSUME NEW q \in Procs, Finish(q)
      PROVE  FALSE
  <2>1. p # q /\ pcb' = [pcb EXCEPT ![q].state = "F"]
    BY <1>1, <1>5 DEF Finish, FreePageTable
  <2>2. QED
    BY <1>2, <2>1
<1>6. ASSUME NEW q \in Procs, NEW v, NEW op, Hit(q, v, op)
      PROVE  FALSE
  BY <1>1, <1>6 DEF Hit, Become, Touch
<1>7. ASSUME NEW q \in Procs, NEW v, NEW op, Fault(q, v, op)
      PROVE  FALSE
  <2>1. p # q /\ pcb' = FaultDemand(Mem, q, v, op).pcb
    BY <1>7 DEF Fault, Become
  <2>2. QED
    BY <1>1, <2>1, FaultKeepsOthers
<1>8. ~Tick /\ ~Clear
  BY <1>1 DEF Tick, Clear, Become, ClearRecent
<1>9. \A q, v : ~ReadPastTable(q, v) /\ ~ReadNoTable(q)
  BY DEF ReadPastTable, ReadNoTable
<1>10. QED
  BY <1>3, <1>4, <1>5, <1>6, <1>7, <1>8, <1>9 DEF MMUNext

\* checkBlockEnd wakes a process no earlier than its fault said, and the page it
\* asked for is then in memory, whatever others evicted and whoever exited while
\* it was blocked.
THEOREM WakeFindsPage == MMUSpec => WakesWithPage
<1> DEFINE Woken(p) == pcb[p].state = "B" /\ pcb'[p].state # "B" =>
                         /\ pcb[p].unblock_at <= clk
                         /\ pcb[p].pending_page # NoPage =>
                               PT'[p][pcb[p].pending_page].valid
<1>1. ASSUME MMUInv, [MMUNext]_MMUvars, NEW p \in Procs
      PROVE  Woken(p)
  <2> SUFFICES ASSUME pcb[p].state = "B", pcb'[p].state # "B"
               PROVE  /\ pcb[p].unblock_at <= clk
                      /\ pcb[p].pending_page # NoPage =>
                            PT'[p][pcb[p].pending_page].valid
    OBVIOUS
  <2>1. MMUNext
    BY <1>1 DEF MMUvars
  <2>2. Wake
    BY <1>1, <2>1, OnlyWakeUnblocks
  <2>3. PT' = PT /\ pcb' = EndFaults(Mem, Overdue).pcb
    BY <2>2 DEF Wake, Become, EndFaults, Mem
  <2>4. p \in Overdue
    BY <2>3 DEF EndFaults, Mem
  <2>5. Mem.RAM = RAM /\ Mem.PT = PT /\ Mem.pcb = pcb
    BY DEF Mem
  <2>6. Mem \in MemState /\ ReservedHeld(Mem) /\ FramesOwned(Mem)
    BY <1>1 DEF MMUInv, MMUTypeOK, Consistent
  <2> HIDE DEF Mem
  <2>7. ASSUME pcb[p].pending_page # NoPage
        PROVE  PT[p][pcb[p].pending_page].valid
    <3> DEFINE i == pcb[p].pending_frame
    <3>1. i # NoFrame /\ i \in Frame
      BY <2>5, <2>6, <2>7, FieldTypes DEF ReservedHeld
    <3>2. /\ RAM[i].occupied /\ RAM[i].pte = NoOne
          /\ RAM[i].process_id = p /\ RAM[i].vpage = pcb[p].pending_page
      BY <2>5, <2>6, <3>1 DEF ReservedHeld
    <3>3. QED
      BY <2>5, <2>6, <3>1, <3>2 DEF FramesOwned
  <2>8. pcb[p].unblock_at <= clk
    BY <2>4 DEF Overdue
  <2>9. QED
    BY <2>3, <2>7, <2>8
<1>2. MMUInv /\ [MMUNext]_MMUvars => [\A p \in Procs : Woken(p)]_MMUvars
  BY <1>1
<1>3. QED
  BY <1>2, InvariantHolds, PTL DEF MMUSpec, WakesWithPage

-----------------------------------------------------------------------------
(* Eviction.                                                               *)

\* The class of a page, read from its entry instead of from its frame.
EntryClass(m, q, w) == 2 * m.PT[q][w].R + m.PT[q][w].M

\* q's fault for page w was given a frame and q has not woken since.
PendingIn(m, q, w) == m.pcb[q].state = "B" /\ m.pcb[q].pending_page = w

\* The entries that point to the frame the scan chose, and all others.
Lowest(m, q, w) ==
    /\ FreeFrames(m) = {}
    /\ ~PendingIn(m, q, w)
    /\ \A a \in Procs, x \in Page :
          m.PT[a][x].valid /\ ~PendingIn(m, a, x) => EntryClass(m, q, w) <= EntryClass(m, a, x)

LEMMA PendingFrame ==
  ASSUME NEW m \in MemState, Consistent(m), NEW q \in Procs, NEW w \in Page, PendingIn(m, q, w)
  PROVE  LET i == m.PT[q][w].frame_address
         IN  i \in Frame /\ m.RAM[i].reserved
<1> DEFINE i == m.pcb[q].pending_frame
<1>1. m.pcb[q].pending_page = w /\ w # NoPage
  BY NumbersOfPages DEF PendingIn
<1>2. i # NoFrame /\ i \in Frame
  BY <1>1, FieldTypes DEF Consistent, ReservedHeld
<1>3. /\ m.RAM[i].occupied /\ m.RAM[i].reserved /\ m.RAM[i].pte = NoOne
      /\ m.RAM[i].process_id = q /\ m.RAM[i].vpage = w
  BY <1>1, <1>2 DEF Consistent, ReservedHeld
<1>4. m.PT[q][w].frame_address = i
  BY <1>2, <1>3 DEF Consistent, FramesOwned
<1>5. QED
  BY <1>2, <1>3, <1>4

\* A page in memory that nobody waits for is one the scan may choose.
LEMMA OthersEvictable ==
  ASSUME NEW m \in MemState, Consistent(m), NEW q \in Procs, NEW w \in Page,
         m.PT[q][w].valid, ~PendingIn(m, q, w)
  PROVE  m.PT[q][w].frame_address \in Evictable(m)
<1> DEFINE j == m.PT[q][w].frame_address
<1>1. EntryIsTrue(m, q, w)
  BY EntryTrue
<1>2. /\ j \in Frame /\ m.RAM[j].occupied /\ m.RAM[j].pte = NoOne
      /\ m.RAM[j].process_id = q /\ m.RAM[j].vpage = w
  BY <1>1 DEF EntryIsTrue
<1>3. ASSUME m.RAM[j].reserved
      PROVE  FALSE
  <2>1. PICK a \in Procs : m.pcb[a].state = "B" /\ m.pcb[a].pending_frame = j
    BY <1>2, <1>3 DEF Consistent, ReservedHeld
  <2>2. m.RAM[j].process_id = a /\ m.RAM[j].vpage = m.pcb[a].pending_page
    BY <1>2, <2>1, NumbersOfPages DEF Consistent, ReservedHeld
  <2>3. QED
    BY <1>2, <2>1, <2>2 DEF PendingIn
<1>4. QED
  BY <1>2, <1>3 DEF Evictable

\* What fault_handler evicts: nobody waits for it, no frame is free, and no page
\* of a lower class may be evicted instead.
LEMMA ChoiceIsLowest ==
  ASSUME NEW m \in MemState, Consistent(m), NEW q \in Procs, NEW w \in Page,
         m.PT[q][w].valid, m.PT[q][w].frame_address = FrameFor(m)
  PROVE  Lowest(m, q, w)
<1> DEFINE i == FrameFor(m)
<1>1. EntryIsTrue(m, q, w)
  BY EntryTrue
<1>2. i # NoFrame /\ i \in Frame /\ m.RAM[i].occupied
  BY <1>1 DEF EntryIsTrue
<1>3. FreeFrames(m) = {} /\ Evictable(m) # {}
  BY <1>2, FrameForChoice DEF FreeFrames
<1>4. i \in Evictable(m) /\ \A j \in Evictable(m) : NRUClass(m, i) <= NRUClass(m, j)
  BY <1>3, FrameForChoice
<1>5. ~PendingIn(m, q, w)
  BY <1>4, PendingFrame DEF Evictable
<1>6. NRUClass(m, i) = EntryClass(m, q, w)
  BY <1>1 DEF EntryIsTrue, NRUClass, EntryClass
<1>7. ASSUME NEW a \in Procs, NEW x \in Page, m.PT[a][x].valid, ~PendingIn(m, a, x)
      PROVE  EntryClass(m, q, w) <= EntryClass(m, a, x)
  <2>1. EntryIsTrue(m, a, x)
    BY <1>7, EntryTrue
  <2>2. NRUClass(m, m.PT[a][x].frame_address) = EntryClass(m, a, x)
    BY <2>1 DEF EntryIsTrue, NRUClass, EntryClass
  <2>3. m.PT[a][x].frame_address \in Evictable(m)
    BY <1>7, OthersEvictable
  <2>4. QED
    BY <1>4, <1>6, <2>2, <2>3
<1>8. QED
  BY <1>3, <1>5, <1>7 DEF Lowest

\* A handler that fills frame i for p evicts what was in it and nothing else.
Fills(m, n, p, i) ==
    /\ FreeFrames(n) = FreeFrames(m) \ {i}
    /\ \A q \in Procs, w \in Page : n.PT[q][w].valid => m.PT[q][w].valid \/ q = p
    /\ \A q \in Procs, w \in Page : m.PT[q][w].valid =>
          IF m.PT[q][w].frame_address = i THEN ~n.PT[q][w].valid
                                          ELSE n.PT[q][w] = m.PT[q][w]

LEMMA TablelessHasNoPages ==
  ASSUME NEW m \in MemState, Consistent(m), NEW q \in Procs, NEW w \in Page, m.PT[q][w].valid
  PROVE  m.pcb[q].frame_index # NoFrame /\ m.pcb[q].state # "F"
<1>1. EntryIsTrue(m, q, w)
  BY EntryTrue
<1>2. QED
  BY <1>1 DEF EntryIsTrue, Consistent, FramesOwned, Live

LEMMA TableFills ==
  ASSUME NEW m \in MemState, Consistent(m), NEW p \in Procs,
         m.pcb[p].frame_index = NoFrame, FrameFor(m) # NoFrame
  PROVE  Fills(m, FaultTable(m, p), p, FrameFor(m))
<1> DEFINE i == FrameFor(m)
           u == Unmap(m, i)
           n == FaultTable(m, p)
<1>1. i \in FreeFrames(m) \cup Evictable(m) /\ i \in Frame
  BY FrameForChoice, FrameForType
<1>2. /\ u.RAM = m.RAM
      /\ \A q \in Procs, w \in Page :
            u.PT[q][w] = IF m.PT[q][w].valid /\ m.PT[q][w].frame_address = i
                         THEN NoEntry ELSE m.PT[q][w]
  BY <1>1, UnmapEffect
<1>3. u \in MemState
  BY <1>1, UnmapType
<1>4. n = DefinePageTable(u, p, i)
  BY DEF FaultTable
<1>5. u.RAM \in [Frame -> FrameRec] /\ u.PT \in [Procs -> [Page -> Entry]]
  BY <1>3, MemStateParts DEF RAMType, PTType
<1> HIDE DEF i, u, n
<1>6. /\ n.PT = [u.PT EXCEPT ![p] = EmptyTable]
      /\ n.RAM = [u.RAM EXCEPT ![i] = [@ EXCEPT !.occupied = TRUE, !.process_id = p, !.pte = p,
                                            !.R = 1, !.M = 0, !.vpage = NoPage]]
  BY <1>4 DEF DefinePageTable
<1>7. n.RAM[i].occupied /\ \A j \in Frame : j # i => n.RAM[j] = m.RAM[j]
  <2>1. u.RAM[i] \in FrameRec
    BY <1>1, <1>5
  <2>2. QED
    BY <1>1, <1>2, <1>5, <1>6, <2>1 DEF FrameRec
<1>8. FreeFrames(n) = FreeFrames(m) \ {i}
  BY <1>7 DEF FreeFrames
<1>9. ASSUME NEW q \in Procs, NEW w \in Page, m.PT[q][w].valid
      PROVE  IF m.PT[q][w].frame_address = i THEN ~n.PT[q][w].valid
                                             ELSE n.PT[q][w] = m.PT[q][w]
  <2>1. q # p
    BY <1>9, TablelessHasNoPages
  <2>2. n.PT[q][w] = u.PT[q][w]
    BY <1>5, <1>6, <2>1
  <2>3. QED
    BY <1>2, <1>9, <2>2 DEF NoEntry
<1>10. \A q \in Procs, w \in Page : n.PT[q][w].valid => m.PT[q][w].valid \/ q = p
  <2>1. \A q \in Procs, w \in Page : q # p => n.PT[q][w] = u.PT[q][w]
    BY <1>5, <1>6
  <2>2. QED
    BY <1>2, <2>1 DEF NoEntry
<1>11. QED
  BY <1>8, <1>9, <1>10 DEF Fills, i, n

\* From Loaded to Fills: the page brought in was not in memory.
LEMMA LoadFills ==
  ASSUME NEW m \in MemState, NEW b \in MemState, NEW n, NEW p \in Procs, NEW v \in Page,
         NEW i \in Frame, NEW op \in Op, ~m.PT[p][v].valid,
         b.RAM = m.RAM, b.PT = m.PT, Loaded(b, n, p, v, i, op)
  PROVE  Fills(m, n, p, i)
<1>1. /\ \A j \in Frame : j # i => n.RAM[j] = m.RAM[j]
      /\ n.RAM[i].occupied
      /\ \A q \in Procs, w \in Page : q # p \/ w # v =>
            n.PT[q][w] = IF m.PT[q][w].valid /\ m.PT[q][w].frame_address = i
                         THEN NoEntry ELSE m.PT[q][w]
  BY DEF Loaded
<1>2. FreeFrames(n) = FreeFrames(m) \ {i}
  BY <1>1 DEF FreeFrames
<1>3. ASSUME NEW q \in Procs, NEW w \in Page, m.PT[q][w].valid
      PROVE  IF m.PT[q][w].frame_address = i THEN ~n.PT[q][w].valid
                                             ELSE n.PT[q][w] = m.PT[q][w]
  <2>1. q # p \/ w # v
    BY <1>3
  <2>2. QED
    BY <1>1, <1>3, <2>1 DEF NoEntry
<1>4. \A q \in Procs, w \in Page : n.PT[q][w].valid => m.PT[q][w].valid \/ q = p
  BY <1>1 DEF NoEntry
<1>5. QED
  BY <1>2, <1>3, <1>4 DEF Fills

LEMMA PreloadFills ==
  ASSUME NEW m \in MemState, Consistent(m), NEW p \in Procs, NEW v \in Page,
         m.pcb[p].frame_index # NoFrame, m.pcb[p].state # "F", ~m.PT[p][v].valid,
         FrameFor(m) # NoFrame
  PROVE  Fills(m, FaultPreload(m, p, v), p, FrameFor(m))
<1> DEFINE i == FrameFor(m)
           n == LoadPage(m, p, v, i, "r")
           r == FaultPreload(m, p, v)
<1>1. i \in FreeFrames(m) \cup Evictable(m) /\ i \in Frame
  BY FrameForChoice, FrameForType
<1>2. "r" \in Op
  BY DEF Op
<1>3. Loaded(m, n, p, v, i, "r")
  BY <1>1, <1>2, LoadPageEffect
<1>4. r.RAM = n.RAM /\ r.PT = n.PT
  BY DEF FaultPreload
<1> HIDE DEF i, n, r
<1>5. Fills(m, n, p, i)
  BY <1>1, <1>2, <1>3, LoadFills
<1>6. QED
  BY <1>4, <1>5 DEF Fills, FreeFrames, i, r

LEMMA DemandFills ==
  ASSUME NEW m \in MemState, Consistent(m), clk \in Int, NEW p \in Procs, NEW v \in Page, NEW op \in Op,
         m.pcb[p].frame_index # NoFrame, m.pcb[p].state = "R", ~m.PT[p][v].valid,
         FrameFor(m) # NoFrame
  PROVE  /\ Fills(m, FaultDemand(m, p, v, op), p, FrameFor(m))
         /\ FaultDemand(m, p, v, op).pcb[p].unblock_at = clk + PageFaultDelay(m, FrameFor(m))
<1> DEFINE i == FrameFor(m)
           b == Block(m, p)
           n == LoadPage(b, p, v, i, op)
           r == FaultDemand(m, p, v, op)
           t == clk + PageFaultDelay(m, i)
<1>1. i \in FreeFrames(m) \cup Evictable(m) /\ i \in Frame
  BY FrameForChoice, FrameForType
<1>2. /\ b \in MemState /\ Consistent(b) /\ b.RAM = m.RAM /\ b.PT = m.PT
      /\ b.pcb[p].frame_index # NoFrame /\ b.pcb[p].state # "F"
  BY BlockType, BlockConsistent
<1>3. i \in FreeFrames(b) \cup Evictable(b)
  BY <1>1, <1>2 DEF FreeFrames, Evictable
<1>4. /\ r.RAM = [n.RAM EXCEPT ![i].reserved = TRUE]
      /\ r.PT = n.PT
      /\ r.pcb = [n.pcb EXCEPT ![p] = [@ EXCEPT !.unblock_at = t,
                                                !.pending_page = v, !.pending_frame = i]]
  BY DEF FaultDemand
<1> HIDE DEF i, b
<1>5. Loaded(b, n, p, v, i, op)
  BY <1>2, <1>3, LoadPageEffect
<1>6. n \in MemState
  BY <1>1, <1>2, LoadPageType
<1>7. n.RAM \in [Frame -> FrameRec] /\ n.pcb \in [Procs -> PCBRec]
  BY <1>6, MemStateParts DEF RAMType, PCBType
<1> HIDE DEF n, r, t
<1>8. Fills(m, n, p, i)
  BY <1>1, <1>2, <1>5, LoadFills
<1>9. \A j \in Frame : r.RAM[j].occupied <=> n.RAM[j].occupied
  BY <1>4, <1>7 DEF FrameRec
<1>10. Fills(m, r, p, i)
  BY <1>4, <1>8, <1>9 DEF Fills, FreeFrames
<1>11. r.pcb[p].unblock_at = t
  BY <1>4, <1>7 DEF PCBRec
<1>12. QED
  BY <1>10, <1>11 DEF i, r, t

\* Who was evicted by the handler that turned m into n.
Lost(m, n, q, w) == m.PT[q][w].valid /\ ~n.PT[q][w].valid

\* NRU for a handler: what it evicts is lowest among all it keeps.
EvictsLowest(m, n) ==
    \A q \in Procs, w \in Page : Lost(m, n, q, w) =>
       /\ FreeFrames(n) = {}
       /\ ~PendingIn(m, q, w)
       /\ \A a \in Procs, x \in Page :
             m.PT[a][x].valid /\ n.PT[a][x].valid /\ ~PendingIn(m, a, x) =>
                EntryClass(m, q, w) <= EntryClass(m, a, x)

LEMMA FillEvictsLowest ==
  ASSUME NEW m \in MemState, Consistent(m), NEW n, NEW p \in Procs, Fills(m, n, p, FrameFor(m))
  PROVE  EvictsLowest(m, n)
<1>1. ASSUME NEW q \in Procs, NEW w \in Page, Lost(m, n, q, w)
      PROVE  FreeFrames(n) = {} /\ Lowest(m, q, w)
  <2>1. m.PT[q][w].valid /\ m.PT[q][w].frame_address = FrameFor(m)
    BY <1>1 DEF Lost, Fills
  <2>2. Lowest(m, q, w)
    BY <2>1, ChoiceIsLowest
  <2>3. QED
    BY <2>2 DEF Lowest, Fills
<1>2. QED
  BY <1>1 DEF EvictsLowest, Lowest

\* A process that is dispatched for the first time takes two frames: one for its
\* table and one for its page 0.
LEMMA TwoFillsEvictLowest ==
  ASSUME NEW m \in MemState, Consistent(m), NEW t \in MemState, Consistent(t), NEW n,
         NEW p \in Procs, m.pcb[p].frame_index = NoFrame,
         Fills(m, t, p, FrameFor(m)), Fills(t, n, p, FrameFor(t)),
         \A q \in Procs : /\ t.pcb[q].state = m.pcb[q].state
                          /\ t.pcb[q].pending_page = m.pcb[q].pending_page
  PROVE  EvictsLowest(m, n)
<1>1. \A q \in Procs, w \in Page : PendingIn(t, q, w) <=> PendingIn(m, q, w)
  BY DEF PendingIn
<1>2. EvictsLowest(m, t) /\ EvictsLowest(t, n)
  BY FillEvictsLowest
<1>3. \A q \in Procs, w \in Page : m.PT[q][w].valid /\ t.PT[q][w].valid =>
         EntryClass(t, q, w) = EntryClass(m, q, w)
  BY DEF Fills, EntryClass
<1>4. \A q \in Procs, w \in Page : m.PT[q][w].valid => q # p
  BY TablelessHasNoPages
<1>5. FreeFrames(n) \subseteq FreeFrames(t)
  BY DEF Fills
<1>6. SUFFICES ASSUME NEW q \in Procs, NEW w \in Page, Lost(m, n, q, w)
               PROVE  /\ FreeFrames(n) = {}
                      /\ ~PendingIn(m, q, w)
                      /\ \A a \in Procs, x \in Page :
                            m.PT[a][x].valid /\ n.PT[a][x].valid /\ ~PendingIn(m, a, x) =>
                               EntryClass(m, q, w) <= EntryClass(m, a, x)
  BY DEF EvictsLowest
<1>7. CASE Lost(m, t, q, w)
  <2>1. FreeFrames(t) = {} /\ m.PT[q][w].frame_address = FrameFor(m) /\ m.PT[q][w].valid
    BY <1>2, <1>7 DEF EvictsLowest, Lost, Fills
  <2>2. Lowest(m, q, w)
    BY <2>1, ChoiceIsLowest
  <2>3. QED
    BY <1>5, <2>1, <2>2 DEF Lowest
<1>8. CASE ~Lost(m, t, q, w)
  <2>1. Lost(t, n, q, w) /\ m.PT[q][w].valid /\ t.PT[q][w].valid
    BY <1>6, <1>8 DEF Lost
  <2>2. FreeFrames(n) = {} /\ ~PendingIn(m, q, w)
    BY <1>1, <1>2, <2>1 DEF EvictsLowest
  <2>3. ASSUME NEW a \in Procs, NEW x \in Page,
               m.PT[a][x].valid, n.PT[a][x].valid, ~PendingIn(m, a, x)
        PROVE  EntryClass(m, q, w) <= EntryClass(m, a, x)
    <3>1. CASE t.PT[a][x].valid
      BY <1>1, <1>2, <1>3, <2>1, <2>3, <3>1 DEF EvictsLowest
    <3>2. CASE ~t.PT[a][x].valid
      BY <1>4, <2>3, <3>2 DEF Fills
    <3>3. QED
      BY <3>1, <3>2
  <2>4. QED
    BY <2>2, <2>3
<1>9. QED
  BY <1>7, <1>8

\* fault_handler(p, 0, 0) changes no PCB but for the table of p, which is empty.
LEMMA FaultTableGives ==
  ASSUME NEW m \in MemState, Consistent(m), NEW p \in Procs,
         m.pcb[p].frame_index = NoFrame, FrameFor(m) # NoFrame
  PROVE  /\ FaultTable(m, p).pcb[p].frame_index # NoFrame
         /\ \A w \in Page : ~FaultTable(m, p).PT[p][w].valid
         /\ \A q \in Procs : /\ FaultTable(m, p).pcb[q].state = m.pcb[q].state
                             /\ FaultTable(m, p).pcb[q].pending_page = m.pcb[q].pending_page
<1> DEFINE i == FrameFor(m)
           u == Unmap(m, i)
           t == FaultTable(m, p)
<1>1. i \in FreeFrames(m) \cup Evictable(m) /\ i \in Frame
  BY FrameForChoice, FrameForType
<1>2. u \in MemState /\ u.pcb = m.pcb
  BY <1>1, UnmapType, UnmapEffect
<1>3. t = DefinePageTable(u, p, i)
  BY DEF FaultTable
<1>4. u.pcb \in [Procs -> PCBRec] /\ u.PT \in [Procs -> [Page -> Entry]]
  BY <1>2, MemStateParts DEF PCBType, PTType
<1> HIDE DEF i, u, t
<1>5. t.pcb = [m.pcb EXCEPT ![p].frame_index = i] /\ t.PT = [u.PT EXCEPT ![p] = EmptyTable]
  BY <1>2, <1>3 DEF DefinePageTable
<1>6. \A q \in Procs : /\ t.pcb[q].state = m.pcb[q].state
                       /\ t.pcb[q].pending_page = m.pcb[q].pending_page
  BY <1>2, <1>4, <1>5 DEF PCBRec
<1>7. t.pcb[p].frame_index = i
  BY <1>2, <1>4, <1>5 DEF PCBRec
<1>8. \A w \in Page : ~t.PT[p][w].valid
  BY <1>4, <1>5 DEF EmptyTable, NoEntry
<1>9. QED
  BY <1>6, <1>7, <1>8 DEF i, t

LEMMA InitializePCBEvictsLowest ==
  ASSUME NEW m \in MemState, Consistent(m), NEW p \in Procs, clk \in Int, m.pcb[p].state # "F"
  PROVE  EvictsLowest(m, InitializePCB(m, p))
<1> DEFINE t == FaultTable(m, p)
           n == InitializePCB(m, p)
<1>1. EvictsLowest(m, m)
  BY DEF EvictsLowest, Lost
<1>2. CASE m.pcb[p].frame_index # NoFrame
  BY <1>1, <1>2 DEF InitializePCB
<1>3. CASE m.pcb[p].frame_index = NoFrame /\ FrameFor(m) = NoFrame
  <2>1. n = m
    BY <1>3 DEF InitializePCB, FaultTable, FaultPreload
  <2>2. QED
    BY <1>1, <2>1
<1>4. CASE m.pcb[p].frame_index = NoFrame /\ FrameFor(m) # NoFrame
  <2>1. t \in MemState /\ Consistent(t)
    BY <1>4, FaultTableType, FaultTableConsistent
  <2>2. Fills(m, t, p, FrameFor(m))
    BY <1>4, TableFills
  <2>3. /\ t.pcb[p].frame_index # NoFrame
        /\ \A w \in Page : ~t.PT[p][w].valid
        /\ \A q \in Procs : /\ t.pcb[q].state = m.pcb[q].state
                            /\ t.pcb[q].pending_page = m.pcb[q].pending_page
    BY <1>4, FaultTableGives
  <2>4. n = FaultPreload(t, p, 0)
    BY <1>4 DEF InitializePCB
  <2>5. 0 \in Page
    BY MMUAssumption DEF Page
  <2> HIDE DEF t, n
  <2>6. CASE FrameFor(t) = NoFrame
    <3>1. n = t
      BY <2>4, <2>6 DEF FaultPreload
    <3>2. QED
      BY <2>2, <3>1, FillEvictsLowest DEF n
  <2>7. CASE FrameFor(t) # NoFrame
    <3>1. Fills(t, n, p, FrameFor(t))
      BY <2>1, <2>3, <2>4, <2>5, <2>7, PreloadFills
    <3>2. EvictsLowest(m, n)
      BY <1>4, <2>1, <2>2, <2>3, <3>1, TwoFillsEvictLowest
    <3>3. QED
      BY <3>2 DEF n
  <2>8. QED
    BY <2>6, <2>7
<1>5. QED
  BY <1>2, <1>3, <1>4

\* Of the actions, only a dispatch and a demand fault evict, and the exit of a
\* process takes no page of another.
LEMMA OnlyFaultsEvict ==
  ASSUME MMUInv, [MMUNext]_MMUvars, NEW q \in Procs, NEW w \in Page,
         PT[q][w].valid, ~PT'[q][w].valid, pcb'[q].state # "F"
  PROVE  \E p \in Procs :
            \/ Dispatch(p) /\ PT' = InitializePCB(Mem, p).PT /\ RAM' = InitializePCB(Mem, p).RAM
            \/ \E v \in Page, op \in Op :
                  Fault(p, v, op) /\ Mem.pcb[p].state = "R" /\ Mem.pcb[p].frame_index # NoFrame
                                  /\ ~Mem.PT[p][v].valid
<1>1. Mem \in MemState /\ clk \in Int /\ Consistent(Mem)
  BY DEF MMUInv, MMUTypeOK
<1>2. Mem.RAM = RAM /\ Mem.PT = PT /\ Mem.pcb = pcb
  BY DEF Mem
<1>3. RAM \in [Frame -> FrameRec] /\ PT \in [Procs -> [Page -> Entry]] /\ pcb \in [Procs -> PCBRec]
  BY <1>1, <1>2, MemStateParts DEF RAMType, PTType, PCBType
<1>4. \A p, v : v < Limit[p] /\ p \in Procs /\ v \in 0..NUM_PAGES => v \in Page
  BY MMUAssumption DEF Page
<1>5. PT' # PT /\ ~UNCHANGED MMUvars
  BY DEF MMUvars
<1>6. ~Tick /\ ~Wake
  BY <1>2, <1>5 DEF Tick, Wake, Become, EndFaults
<1>7. ~Clear
  <2>1. ASSUME Clear
        PROVE  PT'[q][w].valid
    <3>1. PT' = [p \in Procs |-> IF \E i \in Frame : RAM[i].occupied /\ RAM[i].pte = p
                                 THEN [v \in Page |-> [PT[p][v] EXCEPT !.R = 0]]
                                 ELSE PT[p]]
      BY <1>2, <2>1 DEF Clear, Become, ClearRecent
    <3>2. PT'[q][w] = PT[q][w] \/ PT'[q][w] = [PT[q][w] EXCEPT !.R = 0]
      BY <3>1
    <3>3. PT[q][w] \in Entry
      BY <1>3
    <3>4. QED
      BY <3>2, <3>3 DEF Entry
  <2>2. QED
    BY <2>1
<1>8. ASSUME NEW p \in Procs, NEW v \in 0..NUM_PAGES, NEW op \in Op, Hit(p, v, op)
      PROVE  FALSE
  <2>1. /\ Mem.pcb[p].state = "R" /\ Mem.pcb[p].frame_index # NoFrame /\ v \in Page
    BY <1>2, <1>4, <1>8 DEF Hit
  <2>2. TableOf(Mem, p) = p
    BY <1>1, <2>1, OwnTable
  <2>3. PICK e : e.valid = PT[p][v].valid /\ PT' = [PT EXCEPT ![p][v] = e]
    <3> DEFINE Bits(x) == [x EXCEPT !.R = 1, !.M = IF op = "w" THEN 1 ELSE @]
    <3>1. PT' = [PT EXCEPT ![p][v] = Bits(PT[p][v])]
      BY <1>2, <1>3, <1>8, <2>1, <2>2 DEF Hit, Become, Touch
    <3>2. PT[p][v] \in Entry
      BY <1>3, <2>1
    <3>3. Bits(PT[p][v]).valid = PT[p][v].valid
      BY <3>2 DEF Entry
    <3>4. QED
      BY <3>1, <3>3
  <2>4. PT'[q][w] = PT[q][w] \/ PT'[q][w].valid = PT[q][w].valid
    BY <1>3, <2>1, <2>3
  <2>5. QED
    BY <2>4
<1>9. ASSUME NEW p \in Procs, Finish(p)
      PROVE  FALSE
  <2>1. PT' = [PT EXCEPT ![p] = EmptyTable] /\ pcb' = [pcb EXCEPT ![p].state = "F"]
    BY <1>2, <1>9 DEF Finish, FreePageTable
  <2>2. p = q
    BY <1>3, <2>1
  <2>3. pcb'[q].state = "F"
    BY <1>3, <2>1, <2>2 DEF PCBRec
  <2>4. QED
    BY <2>3
<1>10. \A p, v : ~Preempt(p) /\ ~ReadPastTable(p, v) /\ ~ReadNoTable(p)
  BY <1>5 DEF Preempt, ReadPastTable, ReadNoTable
<1>11. ASSUME NEW p \in Procs, NEW v \in 0..NUM_PAGES, NEW op \in Op, Fault(p, v, op)
       PROVE  /\ v \in Page /\ Mem.pcb[p].state = "R" /\ Mem.pcb[p].frame_index # NoFrame
              /\ ~Mem.PT[p][v].valid
  <2>1. /\ Mem.pcb[p].state = "R" /\ Mem.pcb[p].frame_index # NoFrame /\ v \in Page
        /\ ~Mem.PT[TableOf(Mem, p)][v].valid
    BY <1>2, <1>4, <1>11 DEF Fault, Resident
  <2>2. TableOf(Mem, p) = p
    BY <1>1, <2>1, OwnTable
  <2>3. QED
    BY <2>1, <2>2
<1>12. ASSUME NEW p \in Procs, Dispatch(p)
       PROVE  PT' = InitializePCB(Mem, p).PT /\ RAM' = InitializePCB(Mem, p).RAM
  BY <1>2, <1>5, <1>12 DEF Dispatch
<1>13. QED
  BY <1>5, <1>6, <1>7, <1>8, <1>9, <1>10, <1>11, <1>12 DEF MMUNext

\* The process that asked for the page waits, whether a frame was found or not.
LEMMA FaultDemandState ==
  ASSUME NEW m \in MemState, NEW p \in Procs, NEW v, NEW op
  PROVE  FaultDemand(m, p, v, op).pcb[p].state = "B"
<1> DEFINE i == FrameFor(m)
           n == LoadPage(Block(m, p), p, v, i, op)
           r == FaultDemand(m, p, v, op)
<1>1. \A a : Unmap(a, i).pcb = a.pcb
  BY DEF Unmap
<1>2. n.pcb = Block(m, p).pcb
  BY <1>1 DEF LoadPage, MapPage
<1>3. m.pcb \in [Procs -> PCBRec]
  BY MemStateParts DEF PCBType
<1>4. /\ p \in DOMAIN Block(m, p).pcb
      /\ Block(m, p).pcb[p].state = "B"
      /\ "state" \in DOMAIN Block(m, p).pcb[p]
  BY <1>3 DEF Block, PCBRec
<1>5. CASE i = NoFrame
  BY <1>4, <1>5 DEF FaultDemand
<1>6. CASE i # NoFrame
  <2>1. PICK t : r.pcb = [n.pcb EXCEPT ![p] = [@ EXCEPT !.unblock_at = t,
                                              !.pending_page = v, !.pending_frame = i]]
    BY <1>6 DEF FaultDemand
  <2> HIDE DEF n, r
  <2>2. r.pcb[p].state = "B"
    BY <1>2, <1>4, <2>1
  <2>3. QED
    BY <2>2 DEF r
<1>7. QED
  BY <1>5, <1>6

\* What a step loses is lost by the fault handler of one process.
LEMMA StepEvictsLowest ==
  ASSUME MMUInv, [MMUNext]_MMUvars, NEW q \in Procs, NEW w \in Page, Evicted(q, w)
  PROVE  EvictsLowest(Mem, Mem') /\ \A a \in Procs : pcb'[a].state = "F" => pcb[a].state = "F"
<1>1. Mem \in MemState /\ clk \in Int /\ Consistent(Mem)
  BY DEF MMUInv, MMUTypeOK
<1>2. Mem.RAM = RAM /\ Mem.PT = PT /\ Mem.pcb = pcb
  BY DEF Mem
<1>3. Mem'.RAM = RAM' /\ Mem'.PT = PT' /\ Mem'.pcb = pcb'
  BY DEF Mem
<1>4. PICK p \in Procs :
         \/ Dispatch(p) /\ PT' = InitializePCB(Mem, p).PT /\ RAM' = InitializePCB(Mem, p).RAM
         \/ \E v \in Page, op \in Op :
               Fault(p, v, op) /\ Mem.pcb[p].state = "R" /\ Mem.pcb[p].frame_index # NoFrame
                               /\ ~Mem.PT[p][v].valid
  BY OnlyFaultsEvict DEF Evicted
<1> HIDE DEF Mem
<1>5. CASE Dispatch(p) /\ PT' = InitializePCB(Mem, p).PT /\ RAM' = InitializePCB(Mem, p).RAM
  <2> DEFINE n == InitializePCB(Mem, p)
  <2>1. Mem.pcb[p].state = "W"
    BY <1>2, <1>5 DEF Dispatch
  <2>2. EvictsLowest(Mem, n)
    BY <1>1, <2>1, InitializePCBEvictsLowest
  <2>3. n \in MemState /\ \A a \in Procs : n.pcb[a].state = pcb[a].state
    BY <1>1, <1>2, InitializePCBType, InitializePCBKeepsState
  <2>4. PICK m \in {Mem, n} : pcb' = [m.pcb EXCEPT ![p].state = "R", ![p].forked = TRUE]
    BY <1>5 DEF Dispatch
  <2>5. m.pcb \in [Procs -> PCBRec] /\ \A a \in Procs : m.pcb[a].state = pcb[a].state
    BY <1>1, <1>2, <2>3, <2>4, MemStateParts DEF PCBType
  <2> HIDE DEF n
  <2>6. \A a \in Procs : pcb'[a].state = "F" => pcb[a].state = "F"
    BY <2>4, <2>5 DEF PCBRec
  <2>7. EvictsLowest(Mem, Mem')
    BY <1>3, <1>5, <2>2 DEF EvictsLowest, Lost, FreeFrames, n
  <2>8. QED
    BY <2>6, <2>7
<1>6. ASSUME NEW v \in Page, NEW op \in Op, Fault(p, v, op), Mem.pcb[p].state = "R",
             Mem.pcb[p].frame_index # NoFrame, ~Mem.PT[p][v].valid
      PROVE  EvictsLowest(Mem, Mem') /\ \A a \in Procs : pcb'[a].state = "F" => pcb[a].state = "F"
  <2> DEFINE n == FaultDemand(Mem, p, v, op)
  <2>1. RAM' = n.RAM /\ PT' = n.PT /\ pcb' = n.pcb
    BY <1>6 DEF Fault, Become
  <2>2. FrameFor(Mem) # NoFrame
    <3>1. ASSUME FrameFor(Mem) = NoFrame
          PROVE  PT' = PT
      BY <1>2, <2>1, <3>1 DEF FaultDemand, Block
    <3>2. QED
      BY <3>1 DEF Evicted
  <2>3. Fills(Mem, n, p, FrameFor(Mem))
    BY <1>1, <1>6, <2>2, DemandFills
  <2>4. EvictsLowest(Mem, n)
    BY <1>1, <2>3, FillEvictsLowest
  <2>5. \A a \in Procs : a # p => n.pcb[a].state = Mem.pcb[a].state
    BY <1>1, FaultKeepsOthers
  <2>6. n.pcb[p].state # "F"
    BY <1>1, <1>6, FaultDemandState
  <2> HIDE DEF n
  <2>7. EvictsLowest(Mem, Mem')
    BY <1>3, <2>1, <2>4 DEF EvictsLowest, Lost, FreeFrames
  <2>8. QED
    BY <1>2, <2>1, <2>5, <2>6, <2>7
<1>7. QED
  BY <1>4, <1>5, <1>6

\* fault_handler's scan evicts by Not Recently Used as its text says: only when
\* no frame is free, never a page that a blocked process waits for, and none
\* while a page of a lower class, of whatever process, stays in memory.  A
\* dispatch may evict twice, for the page table and for page 0.
THEOREM EvictionIsNRU == MMUSpec => EvictsLowestClass
<1>1. ASSUME MMUInv, [MMUNext]_MMUvars, NEW q \in Procs, NEW w \in Page, Evicted(q, w)
      PROVE  /\ FreeFrames([RAM |-> RAM']) = {}
             /\ ~Pending(q, w)
             /\ \A a \in Procs, x \in Page :
                   PT[a][x].valid /\ ~Evicted(a, x) /\ ~Pending(a, x) =>
                      2 * PT[q][w].R + PT[q][w].M <= 2 * PT[a][x].R + PT[a][x].M
  <2>1. Mem \in MemState /\ Consistent(Mem)
    BY <1>1 DEF MMUInv, MMUTypeOK
  <2>2. Mem.RAM = RAM /\ Mem.PT = PT /\ Mem.pcb = pcb
    BY DEF Mem
  <2>3. Mem'.RAM = RAM' /\ Mem'.PT = PT'
    BY DEF Mem
  <2>4. EvictsLowest(Mem, Mem') /\ \A a \in Procs : pcb'[a].state = "F" => pcb[a].state = "F"
    BY <1>1, StepEvictsLowest
  <2> HIDE DEF Mem
  <2>5. Lost(Mem, Mem', q, w)
    BY <1>1, <2>2, <2>3 DEF Lost, Evicted
  <2>6. FreeFrames([RAM |-> RAM']) = {} /\ ~Pending(q, w)
    BY <2>2, <2>3, <2>4, <2>5 DEF EvictsLowest, FreeFrames, PendingIn, Pending
  <2>7. ASSUME NEW a \in Procs, NEW x \in Page, PT[a][x].valid, ~Evicted(a, x), ~Pending(a, x)
        PROVE  2 * PT[q][w].R + PT[q][w].M <= 2 * PT[a][x].R + PT[a][x].M
    <3>1. pcb[a].state # "F"
      BY <2>1, <2>2, <2>7, TablelessHasNoPages
    <3>2. PT'[a][x].valid
      BY <2>4, <2>7, <3>1 DEF Evicted
    <3>3. EntryClass(Mem, q, w) <= EntryClass(Mem, a, x)
      BY <2>2, <2>3, <2>4, <2>5, <2>7, <3>2 DEF EvictsLowest, PendingIn, Pending
    <3>4. QED
      BY <2>2, <3>3 DEF EntryClass
  <2>8. QED
    BY <2>6, <2>7
<1> DEFINE All ==
      \A p \in Procs, v \in Page : Evicted(p, v) =>
         /\ FreeFrames([RAM |-> RAM']) = {}
         /\ ~Pending(p, v)
         /\ \A q \in Procs, w \in Page :
               PT[q][w].valid /\ ~Evicted(q, w) /\ ~Pending(q, w) =>
                  2 * PT[p][v].R + PT[p][v].M <= 2 * PT[q][w].R + PT[q][w].M
<1>2. MMUInv /\ [MMUNext]_MMUvars => [All]_MMUvars
  BY <1>1
<1>3. QED
  BY <1>2, InvariantHolds, PTL DEF MMUSpec, EvictsLowestClass
-----------------------------------------------------------------------------
(* The delay of a fault.                                                   *)

\* Of the actions, only a demand fault of the running process blocks it.
LEMMA OnlyFaultBlocks ==
  ASSUME MMUInv, [MMUNext]_MMUvars, NEW p \in Procs, pcb[p].state = "R", pcb'[p].state = "B"
  PROVE  \E v \in Page, op \in Op :
            Fault(p, v, op) /\ Mem.pcb[p].state = "R" /\ Mem.pcb[p].frame_index # NoFrame
                            /\ ~Mem.PT[p][v].valid
<1>1. Mem \in MemState /\ clk \in Int /\ Consistent(Mem)
  BY DEF MMUInv, MMUTypeOK
<1>2. Mem.PT = PT /\ Mem.pcb = pcb
  BY DEF Mem
<1>3. pcb \in [Procs -> PCBRec]
  BY <1>1, <1>2, MemStateParts DEF PCBType
<1>4. pcb' # pcb /\ MMUNext
  BY DEF MMUvars
<1>5. \A q, v : ~Tick /\ ~Clear /\ ~ReadPastTable(q, v) /\ ~ReadNoTable(q)
  BY <1>2, <1>4 DEF Tick, Clear, Become, ClearRecent, ReadPastTable, ReadNoTable
<1>6. ~Wake
  BY <1>2 DEF Wake, Become, EndFaults, Overdue
<1>7. \A q, v, op : ~Hit(q, v, op)
  BY <1>2, <1>4 DEF Hit, Become, Touch
<1>8. ASSUME NEW q \in Procs, Preempt(q) \/ Finish(q)
      PROVE  FALSE
  <2>1. \E s \in {"W", "F"} : pcb' = [pcb EXCEPT ![q].state = s]
    BY <1>2, <1>8 DEF Preempt, Finish, FreePageTable
  <2>2. QED
    BY <1>3, <2>1 DEF PCBRec
<1>9. ASSUME NEW q \in Procs, Dispatch(q)
      PROVE  FALSE
  BY <1>9 DEF Dispatch
<1>10. ASSUME NEW q \in Procs, NEW v \in 0..NUM_PAGES, NEW op \in Op, Fault(q, v, op)
       PROVE  /\ v \in Page /\ q = p /\ Mem.pcb[p].state = "R"
              /\ Mem.pcb[p].frame_index # NoFrame /\ ~Mem.PT[p][v].valid
  <2>1. pcb' = FaultDemand(Mem, q, v, op).pcb
    BY <1>10 DEF Fault, Become
  <2>2. q = p
    BY <1>1, <1>2, <2>1, FaultKeepsOthers
  <2>3. v \in Page
    BY <1>10, MMUAssumption DEF Page, Fault
  <2>4. TableOf(Mem, p) = p
    BY <1>1, <1>2, <1>10, <2>2, OwnTable DEF Fault
  <2>5. QED
    BY <1>2, <1>10, <2>2, <2>3, <2>4 DEF Fault, Resident
<1>11. QED
  BY <1>4, <1>5, <1>6, <1>7, <1>8, <1>9, <1>10 DEF MMUNext

\* The frame that is filled is dirty exactly when the page evicted from it is.
LEMMA DirtyVictim ==
  ASSUME NEW m \in MemState, Consistent(m), NEW n, NEW p \in Procs,
         FrameFor(m) # NoFrame, Fills(m, n, p, FrameFor(m))
  PROVE  PageFaultDelay(m, FrameFor(m)) =
            IF \E q \in Procs, w \in Page : Lost(m, n, q, w) /\ m.PT[q][w].M = 1
            THEN DirtyDelay ELSE CleanDelay
<1> DEFINE i == FrameFor(m)
<1>1. i \in FreeFrames(m) \cup Evictable(m) /\ i \in Frame
  BY FrameForChoice, FrameForType
<1>2. \A q \in Procs, w \in Page :
         Lost(m, n, q, w) <=> m.PT[q][w].valid /\ m.PT[q][w].frame_address = i
  BY DEF Lost, Fills
<1>3. m.RAM[i].M \in {0, 1}
  BY <1>1 DEF MemState, FrameRec, Bit
<1> HIDE DEF i
<1>4. ASSUME NEW q \in Procs, NEW w \in Page, Lost(m, n, q, w)
      PROVE  m.PT[q][w].M = m.RAM[i].M
  BY <1>2, <1>4, EntryTrue DEF EntryIsTrue
<1>5. ASSUME m.RAM[i].M # 0
      PROVE  \E q \in Procs, w \in Page : Lost(m, n, q, w) /\ m.PT[q][w].M = 1
  <2> DEFINE o == m.RAM[i].process_id
             v == m.RAM[i].vpage
  <2>1. m.RAM[i].occupied /\ m.RAM[i].pte = NoOne
    BY <1>1, <1>5 DEF FreeFrames, Evictable, Consistent, FreeClean
  <2>2. /\ o \in Procs /\ v # NoPage
        /\ m.PT[o][v].valid /\ m.PT[o][v].frame_address = i
    BY <1>1, <2>1 DEF Consistent, FramesOwned, Live
  <2>3. v \in Page
    BY <1>1, <2>2, FieldTypes
  <2> HIDE DEF o, v
  <2>4. Lost(m, n, o, v)
    BY <1>2, <2>2, <2>3
  <2>5. m.PT[o][v].M = 1
    BY <1>3, <1>4, <1>5, <2>2, <2>3, <2>4
  <2>6. QED
    BY <2>2, <2>3, <2>4, <2>5
<1>6. QED
  BY <1>4, <1>5 DEF PageFaultDelay, i

\* A process waits for a write-back exactly when its fault evicts a page that was
\* written since it was loaded, whoever owns it: the M bit of a frame that is
\* free, or of a page that came after, never sets the delay.
THEOREM DelayIsForWriteBack == MMUSpec => DelayPaysForWriteBack
<1> DEFINE All ==
      \A p \in Procs : pcb[p].state = "R" /\ pcb'[p].state = "B" =>
         pcb'[p].unblock_at - clk =
            IF \E q \in Procs, v \in Page : Evicted(q, v) /\ PT[q][v].M = 1
            THEN DirtyDelay ELSE CleanDelay
<1>1. ASSUME MMUInv, [MMUNext]_MMUvars, NEW p \in Procs, pcb[p].state = "R", pcb'[p].state = "B"
      PROVE  pcb'[p].unblock_at - clk =
                IF \E q \in Procs, v \in Page : Evicted(q, v) /\ PT[q][v].M = 1
                THEN DirtyDelay ELSE CleanDelay
  <2>1. Mem \in MemState /\ clk \in Int /\ Consistent(Mem)
    BY <1>1 DEF MMUInv, MMUTypeOK
  <2>2. Mem.RAM = RAM /\ Mem.PT = PT /\ Mem.pcb = pcb
    BY DEF Mem
  <2>3. PICK v \in Page, op \in Op :
           Fault(p, v, op) /\ Mem.pcb[p].state = "R" /\ Mem.pcb[p].frame_index # NoFrame
                           /\ ~Mem.PT[p][v].valid
    BY <1>1, OnlyFaultBlocks
  <2> HIDE DEF Mem
  <2> DEFINE n == FaultDemand(Mem, p, v, op)
  <2>4. RAM' = n.RAM /\ PT' = n.PT /\ pcb' = n.pcb
    BY <2>3 DEF Fault, Become
  <2>5. CASE FrameFor(Mem) = NoFrame
    <3>1. n = Block(Mem, p)
      BY <2>5 DEF FaultDemand
    <3>2. pcb'[p].unblock_at = clk + CleanDelay
      BY <2>1, <2>4, <3>1, MemStateParts DEF Block, PCBType, PCBRec
    <3>3. PT' = PT
      BY <2>2, <2>4, <3>1 DEF Block
    <3>4. QED
      BY <2>1, <3>2, <3>3, MMUAssumption DEF Evicted
  <2>6. CASE FrameFor(Mem) # NoFrame
    <3>1. /\ Fills(Mem, n, p, FrameFor(Mem))
          /\ n.pcb[p].unblock_at = clk + PageFaultDelay(Mem, FrameFor(Mem))
      BY <2>1, <2>3, <2>6, DemandFills
    <3>2. \A q \in Procs : n.pcb[q].state = "F" => pcb[q].state = "F"
      BY <2>1, <2>2, FaultKeepsOthers, FaultDemandState
    <3> HIDE DEF n
    <3>3. \A q \in Procs, w \in Page : Evicted(q, w) <=> Lost(Mem, n, q, w)
      BY <2>1, <2>2, <2>4, <3>2, TablelessHasNoPages DEF Evicted, Lost
    <3>4. PageFaultDelay(Mem, FrameFor(Mem)) =
             IF \E q \in Procs, w \in Page : Lost(Mem, n, q, w) /\ Mem.PT[q][w].M = 1
             THEN DirtyDelay ELSE CleanDelay
      BY <2>1, <2>6, <3>1, DirtyVictim
    <3>5. PageFaultDelay(Mem, FrameFor(Mem)) =
             IF \E q \in Procs, w \in Page : Evicted(q, w) /\ PT[q][w].M = 1
             THEN DirtyDelay ELSE CleanDelay
      BY <2>2, <3>3, <3>4
    <3>6. pcb'[p].unblock_at - clk = PageFaultDelay(Mem, FrameFor(Mem))
      BY <2>1, <2>4, <3>1, DelayType
    <3>7. QED
      BY <3>5, <3>6
  <2>7. QED
    BY <2>5, <2>6
<1>2. MMUInv /\ [MMUNext]_MMUvars => [All]_MMUvars
  BY <1>1
<1>3. QED
  BY <1>2, InvariantHolds, PTL DEF MMUSpec, DelayPaysForWriteBack
-----------------------------------------------------------------------------
(* Enough memory: two frames for each process, its table and the page it    *)
(* waits for.                                                              *)

Roomy == IsFiniteSet(Procs) /\ 2 * Cardinality(Procs) <= MEM_SIZE

\* A frame that the scan passes over is the table of one process or the page one
\* process waits for, and no two frames are either of the same process: with one
\* process short of such a frame, there are fewer of them than frames.
LEMMA FrameIsFound ==
  ASSUME Roomy, NEW m \in MemState, Consistent(m), NEW p \in Procs,
         m.pcb[p].frame_index = NoFrame \/ m.pcb[p].pending_frame = NoFrame
  PROVE  FrameFor(m) # NoFrame
<1> SUFFICES ASSUME FrameFor(m) = NoFrame
             PROVE  FALSE
  OBVIOUS
<1> DEFINE Uses == Procs \X {1, 2}
           free == IF m.pcb[p].frame_index = NoFrame THEN <<p, 1>> ELSE <<p, 2>>
           T == Uses \ {free}
           use == [i \in Frame |-> IF m.RAM[i].pte # NoOne THEN <<m.RAM[i].pte, 1>>
                                                           ELSE <<m.RAM[i].process_id, 2>>]
<1>1. \A i \in Frame : m.RAM[i].pte # NoOne \/ m.RAM[i].reserved
  <2>1. NoFrame \notin FreeFrames(m) \cup Evictable(m)
    BY NumbersOfPages DEF FreeFrames, Evictable
  <2>2. FreeFrames(m) = {} /\ Evictable(m) = {}
    BY <2>1, FrameForChoice
  <2>3. QED
    BY <2>2 DEF FreeFrames, Evictable
<1>2. ASSUME NEW i \in Frame, m.RAM[i].pte # NoOne
      PROVE  m.RAM[i].pte \in Procs /\ m.pcb[m.RAM[i].pte].frame_index = i
  BY <1>2, FieldTypes DEF Consistent, TablesKept
<1>3. ASSUME NEW i \in Frame, m.RAM[i].pte = NoOne
      PROVE  m.RAM[i].process_id \in Procs /\ m.pcb[m.RAM[i].process_id].pending_frame = i
  <2>1. PICK a \in Procs : m.pcb[a].pending_frame = i
    BY <1>1, <1>3 DEF Consistent, ReservedHeld
  <2>2. m.RAM[i].process_id = a
    BY <2>1, NumbersOfPages DEF Consistent, ReservedHeld
  <2>3. QED
    BY <2>1, <2>2
<1>4. use \in [Frame -> T]
  <2>1. \A i \in Frame : use[i] \in Uses
    BY <1>2, <1>3
  <2>2. \A i \in Frame : use[i] # free
    BY <1>2, <1>3, NumbersOfPages
  <2>3. QED
    BY <2>1, <2>2
<1>5. \A i, j \in Frame : use[i] = use[j] => i = j
  BY <1>2, <1>3
<1>6. free \in Uses
  OBVIOUS
<1>7. IsFiniteSet({1, 2}) /\ Cardinality({1, 2}) = 2
  <2>1. IsFiniteSet({1}) /\ Cardinality({1}) = 1
    BY FS_Singleton
  <2>2. {1, 2} = {1} \cup {2}
    OBVIOUS
  <2>3. IsFiniteSet({1} \cup {2}) /\ Cardinality({1} \cup {2}) = 2
    <3> DEFINE S == {1}
    <3>1. IsFiniteSet(S) /\ Cardinality(S) = 1 /\ 2 \notin S
      BY <2>1
    <3> HIDE DEF S
    <3>2. IsFiniteSet(S \cup {2}) /\ Cardinality(S \cup {2}) = 1 + 1
      BY <3>1, FS_AddElement
    <3>3. QED
      BY <3>2 DEF S
  <2>4. QED
    BY <2>2, <2>3
<1>8. IsFiniteSet(Uses) /\ Cardinality(Uses) = Cardinality(Procs) * 2
  BY <1>7, FS_Product DEF Roomy
<1>9. Cardinality(Procs) \in Nat
  BY FS_CardinalityType DEF Roomy
<1> HIDE DEF free, Uses
<1>10. IsFiniteSet(T) /\ Cardinality(T) = Cardinality(Uses) - 1
  BY <1>6, <1>8, FS_RemoveElement
<1>11. IsFiniteSet(Frame) /\ Cardinality(Frame) = MEM_SIZE
  BY MMUAssumption, FS_Interval DEF Frame
<1>12. Cardinality(T) < Cardinality(Frame)
  BY <1>8, <1>9, <1>10, <1>11, MMUAssumption DEF Roomy
<1> HIDE DEF T, use
<1>13. QED
  BY <1>4, <1>5, <1>10, <1>11, <1>12, FS_PigeonHole

\* What EveryFaultServed says of one PCB.
Served(b) ==
    /\ b.forked /\ b.state # "F" => b.frame_index # NoFrame
    /\ b.state = "B" => b.pending_frame # NoFrame

\* The first dispatch of a process leaves it with a table.
LEMMA InitializePCBServes ==
  ASSUME Roomy, NEW m \in MemState, Consistent(m), NEW p \in Procs
  PROVE  /\ InitializePCB(m, p).pcb[p].frame_index # NoFrame
         /\ \A q \in Procs \ {p} : InitializePCB(m, p).pcb[q] = m.pcb[q]
<1> DEFINE t == FaultTable(m, p)
           n == InitializePCB(m, p)
<1>1. m.pcb \in [Procs -> PCBRec]
  BY MemStateParts DEF PCBType
<1>2. CASE m.pcb[p].frame_index # NoFrame
  BY <1>2 DEF InitializePCB
<1>3. CASE m.pcb[p].frame_index = NoFrame
  <2>1. FrameFor(m) # NoFrame
    BY <1>3, FrameIsFound
  <2>2. \A a, i : Unmap(a, i).pcb = a.pcb
    BY DEF Unmap
  <2>3. \A a, v, i, op : LoadPage(a, p, v, i, op).pcb = a.pcb
    BY <2>2 DEF LoadPage, MapPage
  <2>4. t.pcb = [m.pcb EXCEPT ![p].frame_index = FrameFor(m)]
    BY <2>1, <2>2 DEF FaultTable, DefinePageTable
  <2>5. n = FaultPreload(t, p, 0)
    BY <1>3 DEF InitializePCB
  <2> HIDE DEF t, n
  <2>6. t.pcb[p].frame_index = FrameFor(m) /\ "frame_index" \in DOMAIN t.pcb[p]
        /\ DOMAIN t.pcb = Procs /\ \A q \in Procs \ {p} : t.pcb[q] = m.pcb[q]
    BY <1>1, <2>4 DEF PCBRec
  <2>7. n = t \/ \E x : n.pcb = [t.pcb EXCEPT ![p].unblock_at = x]
    <3> DEFINE u == LoadPage(t, p, 0, FrameFor(t), "r")
               x == IF FrameFor(t) \in FreeFrames(t)
                    THEN clk + PageFaultDelay(t, FrameFor(t)) ELSE t.pcb[p].unblock_at
    <3>1. u.pcb = t.pcb
      BY <2>3
    <3>2. FrameFor(t) = NoFrame => n = t
      BY <2>5 DEF FaultPreload
    <3>3. FrameFor(t) # NoFrame => n.pcb = [u.pcb EXCEPT ![p].unblock_at = x]
      BY <2>5 DEF FaultPreload
    <3>4. QED
      BY <3>1, <3>2, <3>3
  <2>8. n.pcb[p].frame_index = FrameFor(m) /\ \A q \in Procs \ {p} : n.pcb[q] = m.pcb[q]
    BY <2>6, <2>7
  <2>9. QED
    BY <2>1, <2>8 DEF n
<1>4. QED
  BY <1>2, <1>3

\* A fault of the running process is given a frame.
LEMMA FaultDemandServes ==
  ASSUME Roomy, NEW m \in MemState, Consistent(m), NEW p \in Procs, NEW v, NEW op,
         m.pcb[p].state = "R", m.pcb[p].frame_index # NoFrame
  PROVE  /\ Served(FaultDemand(m, p, v, op).pcb[p])
         /\ \A q \in Procs \ {p} : FaultDemand(m, p, v, op).pcb[q] = m.pcb[q]
<1> DEFINE i == FrameFor(m)
           b == Block(m, p)
           n == LoadPage(b, p, v, i, op)
           r == FaultDemand(m, p, v, op)
<1>1. m.pcb[p].pending_frame = NoFrame
  BY DEF Consistent, ReservedHeld
<1>2. i # NoFrame
  BY <1>1, FrameIsFound
<1>3. \A a : Unmap(a, i).pcb = a.pcb
  BY DEF Unmap
<1>4. n.pcb = b.pcb
  BY <1>3 DEF LoadPage, MapPage
<1>5. m.pcb \in [Procs -> PCBRec]
  BY MemStateParts DEF PCBType
<1>6. /\ DOMAIN b.pcb = Procs
      /\ \A q \in Procs \ {p} : b.pcb[q] = m.pcb[q]
      /\ b.pcb[p].frame_index = m.pcb[p].frame_index
      /\ "pending_frame" \in DOMAIN b.pcb[p]
  BY <1>5 DEF Block, PCBRec
<1>7. PICK t : r.pcb = [n.pcb EXCEPT ![p] = [@ EXCEPT !.unblock_at = t,
                                            !.pending_page = v, !.pending_frame = i]]
  BY <1>2 DEF FaultDemand
<1> HIDE DEF i, b, n, r
<1>8. \A q \in Procs \ {p} : r.pcb[q] = m.pcb[q]
  BY <1>4, <1>6, <1>7
<1>9. r.pcb[p].pending_frame = i /\ r.pcb[p].frame_index = m.pcb[p].frame_index
  BY <1>4, <1>6, <1>7
<1>10. QED
  BY <1>2, <1>8, <1>9 DEF Served, r

LEMMA NextServed ==
  ASSUME Roomy, MMUInv, EveryFaultServed, [MMUNext]_MMUvars
  PROVE  EveryFaultServed'
<1>1. Mem \in MemState /\ clk \in Int /\ Consistent(Mem)
  BY DEF MMUInv, MMUTypeOK
<1>2. Mem.RAM = RAM /\ Mem.PT = PT /\ Mem.pcb = pcb
  BY DEF Mem
<1>3. pcb \in [Procs -> PCBRec]
  BY <1>1, <1>2, MemStateParts DEF PCBType
<1>4. \A q \in Procs : Served(pcb[q])
  BY DEF EveryFaultServed, Served
<1>5. SUFFICES \A q \in Procs : Served(pcb'[q])
  BY DEF EveryFaultServed, Served
<1>6. CASE UNCHANGED pcb
  BY <1>4, <1>6
<1>7. ASSUME NEW p \in Procs, Dispatch(p)
      PROVE  \A q \in Procs : Served(pcb'[q])
  <2> DEFINE n == InitializePCB(Mem, p)
  <2>1. n \in MemState
    BY <1>1, InitializePCBType
  <2>2. PICK m \in {Mem, n} : /\ pcb' = [m.pcb EXCEPT ![p].state = "R", ![p].forked = TRUE]
                              /\ m = IF pcb[p].forked THEN Mem ELSE n
    BY <1>7 DEF Dispatch
  <2>3. m.pcb \in [Procs -> PCBRec]
    BY <1>1, <2>1, <2>2, MemStateParts DEF PCBType
  <2>4. m.pcb[p].frame_index # NoFrame
    <3>1. pcb[p].state = "W"
      BY <1>7 DEF Dispatch
    <3>2. pcb[p].forked => pcb[p].frame_index # NoFrame
      BY <1>4, <3>1 DEF Served
    <3>3. n.pcb[p].frame_index # NoFrame
      BY <1>1, InitializePCBServes
    <3>4. QED
      BY <1>2, <2>2, <3>2, <3>3
  <2>5. \A q \in Procs \ {p} : m.pcb[q] = pcb[q]
    BY <1>1, <1>2, <2>2, InitializePCBServes
  <2> HIDE DEF n
  <2>6. pcb'[p].state = "R" /\ pcb'[p].frame_index # NoFrame
    BY <2>2, <2>3, <2>4 DEF PCBRec
  <2>7. \A q \in Procs \ {p} : pcb'[q] = pcb[q]
    BY <2>2, <2>3, <2>5
  <2>8. QED
    BY <1>4, <2>6, <2>7 DEF Served
<1>8. ASSUME NEW p \in Procs, Preempt(p) \/ Finish(p)
      PROVE  \A q \in Procs : Served(pcb'[q])
  <2>1. PICK s \in {"W", "F"} : /\ pcb' = [pcb EXCEPT ![p].state = s]
                                /\ pcb[p].state = "R"
    BY <1>2, <1>8 DEF Preempt, Finish, FreePageTable
  <2>2. Served(pcb'[p])
    BY <1>3, <1>4, <2>1 DEF PCBRec, Served
  <2>3. \A q \in Procs \ {p} : pcb'[q] = pcb[q]
    BY <1>3, <2>1
  <2>4. QED
    BY <1>4, <2>2, <2>3
<1>9. ASSUME NEW p \in Procs, NEW v, NEW op, Fault(p, v, op)
      PROVE  \A q \in Procs : Served(pcb'[q])
  <2>1. pcb' = FaultDemand(Mem, p, v, op).pcb /\ pcb[p].state = "R" /\ pcb[p].frame_index # NoFrame
    BY <1>9 DEF Fault, Become
  <2>2. Served(pcb'[p]) /\ \A q \in Procs \ {p} : pcb'[q] = pcb[q]
    BY <1>1, <1>2, <2>1, FaultDemandServes
  <2>3. QED
    BY <1>4, <2>2
<1>10. CASE Wake
  <2>1. \A q \in Procs :
           \/ pcb'[q] = pcb[q]
           \/ pcb'[q] = [pcb[q] EXCEPT !.state = "W"]
           \/ pcb'[q] = [pcb[q] EXCEPT !.state = "W", !.pending_page = NoPage,
                                       !.pending_frame = NoFrame]
    BY <1>2, <1>10 DEF Wake, Become, EndFaults
  <2>2. ASSUME NEW q \in Procs, pcb'[q] # pcb[q], pcb[q].state = "B"
        PROVE  Served(pcb'[q])
    <3>1. pcb'[q].state = "W" /\ pcb'[q].frame_index = pcb[q].frame_index
          /\ pcb'[q].forked = pcb[q].forked
      BY <1>3, <2>1, <2>2 DEF PCBRec
    <3>2. QED
      BY <1>4, <2>2, <3>1 DEF Served
  <2>3. \A q \in Procs : pcb'[q] # pcb[q] => pcb[q].state = "B"
    BY <1>2, <1>10 DEF Wake, Become, EndFaults, Overdue
  <2>4. QED
    BY <1>4, <2>2, <2>3
<1>11. \A p, v, op : Tick \/ Clear \/ Hit(p, v, op) \/ ReadPastTable(p, v) \/ ReadNoTable(p) =>
          UNCHANGED pcb
  BY <1>2 DEF Tick, Clear, Hit, ReadPastTable, ReadNoTable, Become, Touch, ClearRecent
<1>12. QED
  BY <1>6, <1>7, <1>8, <1>9, <1>10, <1>11 DEF MMUNext, MMUvars

\* With two frames for each process, fault_handler's scan always ends with a
\* frame: no process runs without a page table, and none waits for a page that
\* was given no frame and would find it missing again.
THEOREM FaultsAreServed ==
  ASSUME Roomy PROVE MMUSpec => []EveryFaultServed
<1>1. MMUInit => EveryFaultServed
  BY DEF MMUInit, NewPCB, EveryFaultServed
<1>2. MMUInv /\ EveryFaultServed /\ [MMUNext]_MMUvars => EveryFaultServed'
  BY NextServed
<1>3. QED
  BY <1>1, <1>2, InvariantHolds, PTL DEF MMUSpec
=============================================================================
