-------------------------- MODULE CPUSharing_proofs --------------------------
(***************************************************************************)
(* What the abstract specification of the schedulers promises, for every   *)
(* set of processes and of CPUs.  The runs show that RRScheduler,          *)
(* HPFScheduler and DualCPU implement it; so these hold of them too, under *)
(* the refinement mappings of those modules.                               *)
(***************************************************************************)
EXTENDS CPUSharing, TLAPS

LEMMA InitType == SharingInit => SharingTypeOK
BY DEF SharingInit, SharingTypeOK

LEMMA NextType == SharingTypeOK /\ [SharingNext]_sharingvars => SharingTypeOK'
<1> SUFFICES ASSUME SharingTypeOK, [SharingNext]_sharingvars PROVE SharingTypeOK'
  OBVIOUS
<1> USE DEF SharingTypeOK
<1>1. ASSUME NEW p \in Procs, Arrive(p) PROVE SharingTypeOK'
  BY <1>1 DEF Arrive
<1>2. ASSUME NEW c \in CPUs, NEW p \in Procs, Dispatch(c, p) PROVE SharingTypeOK'
  BY <1>2 DEF Dispatch
<1>3. ASSUME NEW c \in CPUs, Release(c) PROVE SharingTypeOK'
  BY <1>3 DEF Release
<1>4. ASSUME NEW c \in CPUs, Work(c) PROVE SharingTypeOK'
  <2>1. running[c] \in Procs /\ used[running[c]] + 1 \in Nat
    BY <1>4 DEF Work
  <2> QED  BY <1>4, <2>1 DEF Work
<1>5. ASSUME NEW c \in CPUs, Finish(c) PROVE SharingTypeOK'
  BY <1>5 DEF Finish
<1>6. CASE UNCHANGED sharingvars
  BY <1>6 DEF sharingvars
<1> QED  BY <1>1, <1>2, <1>3, <1>4, <1>5, <1>6 DEF SharingNext

\* The processes that arrived, run and are done are processes, and the time they
\* had is a number.
THEOREM SharingType == SharingSpec => []SharingTypeOK
BY InitType, NextType, PTL DEF SharingSpec

-----------------------------------------------------------------------------

LEMMA NextOneCPU ==
    ASSUME SharingTypeOK, OneCPUEach, [SharingNext]_sharingvars
    PROVE  OneCPUEach'
<1> USE DEF SharingTypeOK, OneCPUEach
<1>1. ASSUME NEW p \in Procs, Arrive(p) PROVE OneCPUEach'
  BY <1>1 DEF Arrive
<1>2. ASSUME NEW c \in CPUs, NEW p \in Procs, Dispatch(c, p) PROVE OneCPUEach'
  BY <1>2 DEF Dispatch
<1>3. ASSUME NEW c \in CPUs, Release(c) PROVE OneCPUEach'
  BY <1>3 DEF Release
<1>4. ASSUME NEW c \in CPUs, Work(c) PROVE OneCPUEach'
  BY <1>4 DEF Work
<1>5. ASSUME NEW c \in CPUs, Finish(c) PROVE OneCPUEach'
  BY <1>5 DEF Finish
<1>6. CASE UNCHANGED sharingvars
  BY <1>6 DEF sharingvars
<1> QED  BY <1>1, <1>2, <1>3, <1>4, <1>5, <1>6 DEF SharingNext

\* A process runs on at most one CPU, however often CPUs take it back and give it
\* to one another.
THEOREM RunsOnOneCPU == SharingSpec => []OneCPUEach
<1>1. SharingInit => OneCPUEach
  BY DEF SharingInit, OneCPUEach
<1>2. SharingTypeOK /\ OneCPUEach /\ [SharingNext]_sharingvars => OneCPUEach'
  BY NextOneCPU
<1> QED  BY <1>1, <1>2, SharingType, PTL DEF SharingSpec

-----------------------------------------------------------------------------

\* Whoever runs has arrived and is not done: a CPU that finishes a process takes
\* it from no other, because no other runs it.
LEMMA NextTime ==
    ASSUME Nobody \notin Procs, SharingTypeOK, OneCPUEach, NoCPUTimeLostOrGained,
           [SharingNext]_sharingvars
    PROVE  NoCPUTimeLostOrGained'
<1> USE DEF SharingTypeOK, NoCPUTimeLostOrGained
<1>1. ASSUME NEW p \in Procs, Arrive(p) PROVE NoCPUTimeLostOrGained'
  BY <1>1 DEF Arrive
<1>2. ASSUME NEW c \in CPUs, NEW p \in Procs, Dispatch(c, p) PROVE NoCPUTimeLostOrGained'
  BY <1>2 DEF Dispatch
<1>3. ASSUME NEW c \in CPUs, Release(c) PROVE NoCPUTimeLostOrGained'
  BY <1>3 DEF Release
<1>4. ASSUME NEW c \in CPUs, Work(c) PROVE NoCPUTimeLostOrGained'
  <2> DEFINE r == running[c]
  <2>1. r \in Procs /\ r \in present \ done /\ used[r] < runtime[r]
    BY <1>4 DEF Work
  <2>2. \A p \in Procs : used'[p] <= runtime[p] /\ (p \in done => used'[p] = runtime[p])
    BY <1>4, <2>1 DEF Work
  <2> QED  BY <1>4, <2>2 DEF Work
<1>5. ASSUME NEW c \in CPUs, Finish(c) PROVE NoCPUTimeLostOrGained'
  <2> DEFINE r == running[c]
  <2>1. \A d \in CPUs : d # c => running[d] # r
    BY <1>5 DEF Finish, OneCPUEach
  <2>2. \A d \in CPUs : running'[d] # Nobody => running'[d] \in present' \ done'
    BY <1>5, <2>1 DEF Finish
  <2>3. \A p \in Procs : used'[p] <= runtime'[p] /\ (p \in done' => used'[p] = runtime'[p])
    BY <1>5 DEF Finish
  <2> QED  BY <2>2, <2>3
<1>6. CASE UNCHANGED sharingvars
  BY <1>6 DEF sharingvars
<1> QED  BY <1>1, <1>2, <1>3, <1>4, <1>5, <1>6 DEF SharingNext

\* No process has more time than it needs, and it is done with exactly that much:
\* what is taken back from a CPU is neither lost nor counted twice.
THEOREM TimeIsKept ==
    ASSUME Nobody \notin Procs
    PROVE  SharingSpec => []NoCPUTimeLostOrGained
<1>1. SharingInit => NoCPUTimeLostOrGained
  BY DEF SharingInit, NoCPUTimeLostOrGained
<1>2. SharingTypeOK /\ OneCPUEach /\ NoCPUTimeLostOrGained /\ [SharingNext]_sharingvars
        => NoCPUTimeLostOrGained'
  BY NextTime
<1> QED  BY <1>1, <1>2, SharingType, RunsOnOneCPU, PTL DEF SharingSpec

=============================================================================
