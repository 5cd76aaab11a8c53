--------------------------- MODULE SystemProofs ---------------------------
(***************************************************************************)
(* Proofs about module System, for any processes, programs, semaphores and *)
(* memory: the composition of the scheduler with the memory implements     *)
(* both of them, each in place of what the other abstracts.                *)
(***************************************************************************)
EXTENDS System, SchedulerProofs

\* The theorems about the memory, for the memory of this composition.
MP == INSTANCE MemoryProofs WITH phase <- memPhase

----------------------------------------------------------------------------
(* M and MP are two instances of the same definitions.                      *)

LEMMA SameMarked == ASSUME NEW m, NEW c, NEW v PROVE M!Marked(m, c, v) = MP!Marked(m, c, v)
BY DEF M!Marked, MP!Marked, M!Cells, MP!Cells

LEMMA SameBlock == ASSUME NEW s PROVE M!Block(s) = MP!Block(s)
BY DEF M!Block, MP!Block

LEMMA SameImage == ASSUME NEW id PROVE M!Image(id) = MP!Image(id)
BY DEF M!Image, MP!Image

LEMMA SameLive == M!Live = MP!Live
BY DEF M!Live, MP!Live

LEMMA SameUnlinked == ASSUME NEW st, NEW s PROVE M!Unlinked(st, s) = MP!Unlinked(st, s)
BY SameMarked, SameBlock DEF M!Unlinked, MP!Unlinked, M!NoShm, MP!NoShm, M!Free, MP!Free

LEMMA SameErased == ASSUME NEW i PROVE M!Erased(i) = MP!Erased(i)
BY DEF M!Erased, MP!Erased, M!RemoveAt, MP!RemoveAt, M!Front, MP!Front

LEMMA SameAllocation ==
    ASSUME NEW m, NEW size
    PROVE  M!AllocateSharedMemory(m, size) = MP!AllocateSharedMemory(m, size)
BY DEF M!AllocateSharedMemory, MP!AllocateSharedMemory, M!Min, MP!Min, M!Free, MP!Free,
   M!Garbage, MP!Garbage

LEMMA SameRegister == ASSUME NEW name PROVE M!Register(name) <=> MP!Register(name)
BY DEF M!Register, MP!Register, M!Entry, MP!Entry, M!NoShm, MP!NoShm

LEMMA SameGetPcb == ASSUME NEW name PROVE M!GetPcb(name) = MP!GetPcb(name)
BY DEF M!GetPcb, MP!GetPcb

LEMMA SameOutOfTable == ASSUME NEW name PROVE M!OutOfTable(name) <=> MP!OutOfTable(name)
BY DEF M!OutOfTable, MP!OutOfTable

LEMMA SameLoadProgram == ASSUME NEW f PROVE M!LoadProgram(f) <=> MP!LoadProgram(f)
<1>1. M!Occupied(f) <=> MP!Occupied(f)
  BY DEF M!Occupied, MP!Occupied, M!Used, MP!Used
<1>2. \A m : M!Marked(m, M!Claimed(f), M!Used) = MP!Marked(m, MP!Claimed(f), MP!Used)
  BY SameMarked DEF M!Claimed, MP!Claimed, M!Used, MP!Used
<1> QED
  BY <1>1, <1>2, SameRegister DEF M!LoadProgram, MP!LoadProgram

LEMMA SameVFork == ASSUME NEW id PROVE M!VFork(id) <=> MP!VFork(id)
BY SameRegister DEF M!VFork, MP!VFork, M!Child, MP!Child

LEMMA SameOpenSharedMemory ==
    ASSUME NEW one, NEW two, NEW size, M!OpenSharedMemory(one, two, size)
    PROVE  MP!OpenSharedMemory(one, two, size)
<1> DEFINE start == [mark |-> mark, shms |-> shms]
           new == Len(shms) + 1
           Opened(p, q, closed, addr) ==
             IF M!Failed(addr)
             THEN /\ mark' = closed.mark /\ shms' = closed.shms
                  /\ UNCHANGED <<memPhase, pcbs>>
             ELSE /\ memPhase' = IF addr + size \in M!Cells THEN "up" ELSE "corrupt"
                  /\ mark' = M!Marked(closed.mark, addr..(addr + size), M!Used)
                  /\ shms' = Append(closed.shms, [addr |-> addr, size |-> size, count |-> 2])
                  /\ pcbs' = [pcbs EXCEPT ![p].shm = new, ![q].shm = new]
           AfterClosing(p, q) == M!Unlinked(M!Unlinked(start, pcbs[p].shm), pcbs[q].shm)
<1>1. PICK p \in M!GetPcb(one), q \in M!GetPcb(two) :
        Opened(p, q, AfterClosing(p, q), M!AllocateSharedMemory(AfterClosing(p, q).mark, size))
  BY DEF M!OpenSharedMemory
<1>2. p \in MP!GetPcb(one) /\ q \in MP!GetPcb(two)
  BY <1>1, SameGetPcb
<1>3. PICK closed, addr :
        /\ closed = MP!Unlinked(MP!Unlinked(start, pcbs[p].shm), pcbs[q].shm)
        /\ addr = MP!AllocateSharedMemory(closed.mark, size)
        /\ Opened(p, q, closed, addr)
  BY <1>1, SameUnlinked, SameAllocation
<1>4. memPhase = "up" /\ Len(shms) < MaxShm /\ UNCHANGED <<vMemory, vMemoryLookup>>
  BY DEF M!OpenSharedMemory
<1>5. IF MP!Failed(addr)
      THEN /\ mark' = closed.mark /\ shms' = closed.shms
           /\ UNCHANGED <<memPhase, pcbs>>
      ELSE /\ memPhase' = IF addr + size \in MP!Cells THEN "up" ELSE "corrupt"
           /\ mark' = MP!Marked(closed.mark, addr..(addr + size), MP!Used)
           /\ shms' = Append(closed.shms, [addr |-> addr, size |-> size, count |-> 2])
           /\ pcbs' = [pcbs EXCEPT ![p].shm = new, ![q].shm = new]
  BY <1>3, SameMarked
     DEF M!Failed, MP!Failed, M!Cells, MP!Cells, M!Used, MP!Used
<1> HIDE DEF Opened, AfterClosing
<1> QED
  BY <1>2, <1>3, <1>4, <1>5 DEF MP!OpenSharedMemory

LEMMA SameBadLookup == ASSUME NEW name PROVE M!BadLookup(name) <=> MP!BadLookup(name)
BY SameOutOfTable DEF M!BadLookup, MP!BadLookup

LEMMA SameDeallocateMemory ==
    ASSUME NEW id PROVE M!DeallocateMemory(id) <=> MP!DeallocateMemory(id)
BY SameUnlinked, SameMarked, SameImage, SameErased, SameOutOfTable
   DEF M!DeallocateMemory, MP!DeallocateMemory, M!CellsFreed, MP!CellsFreed, M!Free, MP!Free

LEMMA SameInit == M!Init <=> MP!Init
BY DEF M!Init, MP!Init, M!Cells, MP!Cells, M!Free, MP!Free, M!Used, MP!Used, M!Garbage,
   MP!Garbage

LEMMA SameVars == M!vars = memVars /\ MP!vars = memVars
BY DEF M!vars, MP!vars, memVars

LEMMA SameNext == M!Next => MP!Next
<1>1. (\E f \in File : M!LoadProgram(f)) => (\E f \in File : MP!LoadProgram(f))
  BY SameLoadProgram
<1>2. (\E id \in M!Live : M!VFork(id) \/ M!DeallocateMemory(id))
      => (\E id \in MP!Live : MP!VFork(id) \/ MP!DeallocateMemory(id))
  BY SameLive, SameVFork, SameDeallocateMemory
<1>3. (\E one, two \in DOMAIN vMemoryLookup, size \in ShmSizes :
         M!OpenSharedMemory(one, two, size))
      => (\E one, two \in DOMAIN vMemoryLookup, size \in ShmSizes :
             MP!OpenSharedMemory(one, two, size))
  BY SameOpenSharedMemory
<1>4. (\E name \in DOMAIN vMemoryLookup : M!BadLookup(name))
      => (\E name \in DOMAIN vMemoryLookup : MP!BadLookup(name))
  BY SameBadLookup
<1>5. M!Dead => MP!Dead
  BY SameVars DEF M!Dead, MP!Dead, M!Died, MP!Died, M!vars, MP!vars
<1> QED
  BY <1>1, <1>2, <1>3, <1>4, <1>5 DEF M!Next, MP!Next

----------------------------------------------------------------------------
(* The scheduler's states and the memory's processes agree.                 *)

\* The PCBs created are those in the table's order, and the halted ones are the
\* terminated ones; a halt that the table interrupts is the last step.
Linked ==
    /\ DOMAIN pcbs = {p \in Proc : pState[p] # CREATED}
    /\ \A p \in DOMAIN pcbs : pcbs[p].halted => pState[p] = TERMINATED
    /\ memPhase # "badTable" => \A p \in DOMAIN pcbs : pState[p] = TERMINATED => pcbs[p].halted
    /\ sharedMemory = SharedByPcb(pcbs)
    /\ memPhase = "badTable" => phase = "badTable"

SysInv == IInv /\ SInv /\ MP!IInv /\ Linked

LEMMA PcbTable ==
    ASSUME MP!IInv
    PROVE  /\ DOMAIN pcbs = 1..Len(pcbs) /\ Len(pcbs) \in Nat
           /\ \A name : M!GetPcb(name) \subseteq DOMAIN pcbs
<1>1. MP!TypeInv
  BY DEF MP!IInv
<1>2. DOMAIN pcbs = 1..Len(pcbs) /\ Len(pcbs) \in Nat
  BY <1>1, MP!LiveFinite, CapacityAssumption, FileAssumption, ShmAssumption, BoundAssumption
<1>3. \A name : MP!GetPcb(name) \subseteq DOMAIN pcbs
  BY <1>1, MP!GetPcbRange, CapacityAssumption, FileAssumption, ShmAssumption, BoundAssumption
<1> QED
  BY <1>2, <1>3, SameGetPcb

LEMMA LiveByState ==
    ASSUME SysInv, NEW p \in Proc
    PROVE  /\ pState[p] \notin {CREATED, TERMINATED} => p \in M!Live
           /\ memPhase # "badTable" /\ p \in M!Live => pState[p] \notin {CREATED, TERMINATED}
BY DEF SysInv, Linked, M!Live

\* The process whose instruction or interrupt is served has its memory.
LEMMA RunningLive ==
    ASSUME SysInv, pRunningPcb # NoProc, phase \in {"execute", "isr"}
    PROVE  pRunningPcb \in Proc /\ pRunningPcb \in M!Live
<1>1. pRunningPcb \in Proc
  BY DEF SysInv, IInv, TypeOK
<1>2. CASE phase = "execute"
  <2>1. pState[pRunningPcb] \in {READY, RUNNING}
    BY <1>2 DEF SysInv, SInv, RunningState
  <2> QED
    BY <1>1, <2>1, LiveByState DEF READY, RUNNING, CREATED, TERMINATED
<1>3. CASE phase = "isr"
  <2>1. In(queue, pRunningPcb, "waitingQueue")
    <3>1. queue["waitingQueue"] = <<pRunningPcb>>
      BY <1>3 DEF SysInv, IInv, InterruptPlace
    <3> QED
      BY <3>1 DEF In
  <2>2. pState[pRunningPcb] = WAITING
    BY <1>1, <2>1, QueueNames, StateOfNames DEF SysInv, SInv, Placed
  <2> QED
    BY <1>1, <2>2, LiveByState DEF WAITING, CREATED, TERMINATED
<1> QED
  BY <1>1, <1>2, <1>3

\* The table stops the program only after a process has ended.
LEMMA DiesAfterHalt ==
    ASSUME SysInv, memPhase = "up", M!Next, memPhase' = "badTable"
    PROVE  TableStale
<1>1. MP!Live # DOMAIN pcbs
  <2>1. MP!Next /\ MP!IInv
    BY SameNext DEF SysInv
  <2>2. MP!vars' # MP!vars
    BY DEF MP!vars
  <2> QED
    BY <2>1, <2>2, MP!DiesStale, CapacityAssumption, FileAssumption, ShmAssumption,
       BoundAssumption
<1>2. PICK p \in DOMAIN pcbs : pcbs[p].halted
  BY <1>1, SameLive DEF M!Live
<1> QED
  BY <1>2 DEF SysInv, Linked, TableStale

----------------------------------------------------------------------------
(* Every step is a step of the memory, or leaves it alone.                  *)

\* A process that is running or in an interrupt halts, or forks, once.
LEMMA RunningStep ==
    ASSUME SysInv, SysHalt \/ SysIsrVFork \/ SysReturn
    PROVE  M!Next \/ UNCHANGED memVars
<1>1. pRunningPcb # NoProc /\ phase \in {"execute", "isr"}
  <2>1. phase = "isr" => pRunningPcb \in Proc
    BY DEF SysInv, IInv, InterruptPlace
  <2> QED
    BY <2>1, ProcAssumption DEF SysHalt, HaltTo, SysIsrVFork, IsrVFork, SysReturn, ReturnTo
<1>2. pRunningPcb \in M!Live
  BY <1>1, RunningLive
<1>3. M!VFork(pRunningPcb) \/ M!DeallocateMemory(pRunningPcb) => M!Next
  BY <1>2 DEF M!Next
<1> QED
  BY <1>3 DEF SysHalt, SysIsrVFork, SysReturn

LEMMA MemoryStep ==
    ASSUME SysInv, [SysNext]_sysVars
    PROVE  M!Next \/ UNCHANGED memVars
<1>1. CASE SysLoadProgram \/ SysArrive
  <2>1. (\E f \in File : M!LoadProgram(f)) \/ UNCHANGED memVars
    BY <1>1 DEF SysLoadProgram, SysArrive
  <2> QED
    BY <2>1 DEF M!Next
<1>2. \A name : M!BadLookup(name) => M!Next
  <2>1. \A name : M!BadLookup(name) => name \in DOMAIN vMemoryLookup
    BY DEF M!BadLookup, M!OutOfTable
  <2> QED
    BY <2>1 DEF M!Next
<1>3. CASE SysInitSemaphore
  <2>1. UNCHANGED memVars \/ \E name \in Name : M!BadLookup(name)
    BY <1>3 DEF SysInitSemaphore
  <2> QED
    BY <1>2, <2>1
<1>4. CASE SysOpenSharedMemory
  <2>1. PICK one \in DOMAIN vMemoryLookup, two \in DOMAIN vMemoryLookup, size \in ShmSizes :
          M!OpenSharedMemory(one, two, size) \/ M!BadLookup(one) \/ M!BadLookup(two)
    BY <1>4 DEF SysOpenSharedMemory
  <2>2. M!OpenSharedMemory(one, two, size) => M!Next
    BY DEF M!Next
  <2> QED
    BY <1>2, <2>1, <2>2
<1>5. CASE SysHalt \/ SysIsrVFork \/ SysReturn
  BY <1>5, RunningStep
<1>6. CASE SysOther
  BY <1>6 DEF SysOther
<1>7. CASE SysDied \/ UNCHANGED sysVars
  BY <1>7 DEF SysDied, sysVars
<1> QED
  BY <1>1, <1>3, <1>4, <1>5, <1>6, <1>7 DEF SysNext

----------------------------------------------------------------------------
(* Every step is a step of the scheduler, or leaves it alone.               *)

LEMMA InitSemaphoreRefines == ASSUME SysInv, SysInitSemaphore, memPhase = "up" PROVE InitSemaphore
<1> DEFINE outcomes == IF TableStale THEN {"shell", "badTable"} ELSE {"shell"}
<1>1. PICK one \in Name, two \in Name :
        \/ /\ UNCHANGED memVars
           /\ \E p \in PcbNamed(one), q \in PcbNamed(two) : LinkSemaphore(p, q, {"shell"})
        \/ /\ M!BadLookup(one) \/ M!BadLookup(two)
           /\ LinkSemaphore(NoProc, NoProc, {"badTable"})
  BY DEF SysInitSemaphore
<1>2. \A name \in Name : PcbNamed(name) \subseteq Found
  <2>1. \A name : M!GetPcb(name) \subseteq DOMAIN pcbs
    BY PcbTable DEF SysInv
  <2>2. DOMAIN pcbs \subseteq Found
    BY DEF SysInv, Linked, Found
  <2> QED
    BY <2>1, <2>2 DEF PcbNamed, Found
<1>3. \A p, q : LinkSemaphore(p, q, {"shell"}) => LinkSemaphore(p, q, outcomes)
  BY DEF LinkSemaphore
<1>4. ASSUME NEW p \in PcbNamed(one), NEW q \in PcbNamed(two), LinkSemaphore(p, q, {"shell"})
      PROVE  InitSemaphore
  BY <1>2, <1>3, <1>4 DEF InitSemaphore
<1>5. ASSUME M!BadLookup(one) \/ M!BadLookup(two), LinkSemaphore(NoProc, NoProc, {"badTable"})
      PROVE  InitSemaphore
  <2>1. memPhase' = "badTable"
    BY <1>5 DEF M!BadLookup
  <2>2. M!Next
    <3>1. \A name : M!BadLookup(name) => name \in DOMAIN vMemoryLookup
      BY DEF M!BadLookup, M!OutOfTable
    <3> QED
      BY <1>5, <3>1 DEF M!Next
  <2>3. TableStale
    BY <2>1, <2>2, DiesAfterHalt
  <2>4. LinkSemaphore(NoProc, NoProc, outcomes)
    BY <1>5, <2>3 DEF LinkSemaphore
  <2>5. NoProc \in Found
    BY DEF Found
  <2> QED
    BY <2>4, <2>5 DEF InitSemaphore
<1> QED
  BY <1>1, <1>4, <1>5

\* The pointers an oshm command sets are those of its two processes.
LEMMA OpenSetsShared ==
    ASSUME SysInv, NEW one, NEW two, NEW size, M!OpenSharedMemory(one, two, size)
    PROVE  /\ memPhase' # "badTable" /\ DOMAIN pcbs' = DOMAIN pcbs
           /\ \A x \in DOMAIN pcbs : pcbs'[x].halted = pcbs[x].halted
           /\ \/ pcbs' = pcbs
              \/ \E p, q \in DOMAIN pcbs :
                   SharedByPcb(pcbs') = [SharedByPcb(pcbs) EXCEPT ![p] = TRUE, ![q] = TRUE]
<1>1. memPhase' # "badTable"
  BY DEF M!OpenSharedMemory
<1>2. PICK p \in M!GetPcb(one), q \in M!GetPcb(two) :
        \/ pcbs' = pcbs
        \/ pcbs' = [pcbs EXCEPT ![p].shm = Len(shms) + 1, ![q].shm = Len(shms) + 1]
  BY DEF M!OpenSharedMemory
<1>3. p \in DOMAIN pcbs /\ q \in DOMAIN pcbs
  BY <1>2, PcbTable DEF SysInv
<1>4. Len(shms) \in Nat
  BY LenProperties DEF SysInv, MP!IInv, MP!TypeInv
<1>5. CASE pcbs' = pcbs
  BY <1>1, <1>5
<1>6. CASE pcbs' = [pcbs EXCEPT ![p].shm = Len(shms) + 1, ![q].shm = Len(shms) + 1]
  <2> DEFINE new == Len(shms) + 1
             Opened(r) == [r EXCEPT !.shm = new]
             first == [pcbs EXCEPT ![p] = Opened(pcbs[p])]
  <2>1. \A x \in DOMAIN pcbs : pcbs[x] \in MP!PcbType
    BY <1>3, PcbTable, ElementOfSeq DEF SysInv, MP!IInv, MP!TypeInv
  <2>2. \A r \in MP!PcbType :
          Opened(r) \in MP!PcbType /\ Opened(r).halted = r.halted /\ Opened(r).shm = new
    BY <1>4 DEF MP!PcbType
  <2>3. pcbs' = [first EXCEPT ![q] = Opened(first[q])]
    BY <1>6
  <2> HIDE DEF Opened
  <2>4. /\ DOMAIN first = DOMAIN pcbs
        /\ \A x \in DOMAIN pcbs :
             /\ first[x] \in MP!PcbType /\ first[x].halted = pcbs[x].halted
             /\ first[x].shm = IF x = p THEN new ELSE pcbs[x].shm
    BY <1>3, <2>1, <2>2
  <2> HIDE DEF first
  <2>5. /\ DOMAIN pcbs' = DOMAIN pcbs
        /\ \A x \in DOMAIN pcbs :
             /\ pcbs'[x].halted = pcbs[x].halted
             /\ pcbs'[x].shm = IF x \in {p, q} THEN new ELSE pcbs[x].shm
    BY <1>3, <2>2, <2>3, <2>4
  <2>6. SharedByPcb(pcbs') = [SharedByPcb(pcbs) EXCEPT ![p] = TRUE, ![q] = TRUE]
    <3>1. new # M!NoShm
      BY <1>4 DEF M!NoShm
    <3> DEFINE old == SharedByPcb(pcbs)
               set == [old EXCEPT ![p] = TRUE, ![q] = TRUE]
    <3>2. set = [x \in Proc |-> IF x \in {p, q} THEN TRUE ELSE old[x]]
      BY DEF SharedByPcb
    <3>3. \A x \in Proc :
            (x \in DOMAIN pcbs' /\ pcbs'[x].shm # M!NoShm)
              = IF x \in {p, q} THEN TRUE ELSE x \in DOMAIN pcbs /\ pcbs[x].shm # M!NoShm
      BY <1>3, <2>5, <3>1
    <3> HIDE DEF set
    <3> QED
      BY <3>2, <3>3, Zenon DEF SharedByPcb
  <2> QED
    BY <1>1, <1>3, <2>5, <2>6
<1> QED
  BY <1>2, <1>5, <1>6

LEMMA OpenSharedMemoryRefines ==
    ASSUME SysInv, SysOpenSharedMemory, memPhase = "up"
    PROVE  OpenSharedMemory \/ UNCHANGED vars
<1>1. PICK one \in DOMAIN vMemoryLookup, two \in DOMAIN vMemoryLookup, size \in ShmSizes :
        M!OpenSharedMemory(one, two, size) \/ M!BadLookup(one) \/ M!BadLookup(two)
  BY DEF SysOpenSharedMemory
<1>2. /\ phase = "shell" /\ phase' = Outcome("shell")
      /\ sharedMemory' = SharedByPcb(pcbs') /\ sharedMemory = SharedByPcb(pcbs)
      /\ UNCHANGED <<kernelVars, queue, runVars, pState, levelVars, semVars, cpuVars, logged>>
  BY DEF SysOpenSharedMemory, SysInv, Linked
<1>3. DOMAIN pcbs \subseteq Found \ {NoProc}
  BY ProcAssumption DEF SysInv, Linked, Found
<1>4. CASE M!OpenSharedMemory(one, two, size)
  <2>1. phase' = "shell"
    BY <1>2, <1>4, OpenSetsShared DEF Outcome
  <2>2. \/ sharedMemory' = sharedMemory
        \/ \E p, q \in DOMAIN pcbs : sharedMemory' = [sharedMemory EXCEPT ![p] = TRUE, ![q] = TRUE]
    BY <1>2, <1>4, OpenSetsShared
  <2>3. sharedMemory' = sharedMemory => UNCHANGED vars
    BY <1>2, <2>1 DEF vars, pcbVars
  <2>4. (\E p, q \in DOMAIN pcbs : sharedMemory' = [sharedMemory EXCEPT ![p] = TRUE, ![q] = TRUE])
          => OpenSharedMemory
    BY <1>2, <1>3, <2>1 DEF OpenSharedMemory
  <2> QED
    BY <2>2, <2>3, <2>4
<1>5. CASE M!BadLookup(one) \/ M!BadLookup(two)
  <2>1. memPhase' = "badTable" /\ pcbs' = pcbs /\ M!Next
    BY <1>5 DEF M!BadLookup, M!Next
  <2>2. TableStale
    BY <2>1, DiesAfterHalt
  <2> QED
    BY <1>2, <2>1, <2>2 DEF OpenSharedMemory, Outcome
<1> QED
  BY <1>1, <1>4, <1>5

LEMMA HaltRefines == ASSUME SysInv, SysHalt, memPhase = "up" PROVE Halt
<1>1. HaltTo({"loop", "badTable"}) /\ phase' = Outcome("loop")
  BY DEF SysHalt
<1>2. memPhase' = "badTable" => TableStale
  <2>1. M!Next \/ UNCHANGED memVars
    BY RunningStep
  <2> QED
    BY <2>1, DiesAfterHalt DEF memVars
<1> QED
  BY <1>1, <1>2 DEF HaltTo, Halt, Outcome

LEMMA ReturnRefines == ASSUME SysInv, SysReturn, memPhase = "up" PROVE IsrReturnSharedMemPtr
<1>1. ReturnTo({"resume", "badTable"}) /\ phase' = Outcome("resume")
  BY DEF SysReturn
<1>2. memPhase' = "badTable" => TableStale
  <2>1. M!Next \/ UNCHANGED memVars
    BY RunningStep
  <2> QED
    BY <2>1, DiesAfterHalt DEF memVars
<1> QED
  BY <1>1, <1>2 DEF ReturnTo, IsrReturnSharedMemPtr, Outcome

LEMMA SystemSchedulerStep ==
    ASSUME SysInv, [SysNext]_sysVars
    PROVE  [Next]_vars
<1>1. CASE memPhase = "up" /\ SysLoadProgram
  BY <1>1 DEF SysLoadProgram, Next, ShellStep
<1>2. CASE memPhase = "up" /\ (SysInitSemaphore \/ SysOpenSharedMemory)
  BY <1>2, InitSemaphoreRefines, OpenSharedMemoryRefines DEF Next, ShellStep
<1>3. CASE memPhase = "up" /\ (SysHalt \/ SysReturn)
  BY <1>3, HaltRefines, ReturnRefines DEF Next, KernelStep, SchedulerStep
<1>4. CASE memPhase = "up" /\ (SysArrive \/ SysIsrVFork)
  BY <1>4 DEF SysArrive, SysIsrVFork, Next, KernelStep, SchedulerStep
<1>5. CASE memPhase = "up" /\ SysOther
  BY <1>5 DEF SysOther, Next, ShellStep, KernelStep, SchedulerStep
<1>6. CASE SysDied \/ UNCHANGED sysVars
  BY <1>6 DEF SysDied, sysVars
<1> QED
  BY <1>1, <1>2, <1>3, <1>4, <1>5, <1>6 DEF SysNext

----------------------------------------------------------------------------
(* Every step keeps the two linked.                                         *)

\* No process is created by the step, and none ends.
KeepsLife ==
    \A x \in Proc : /\ pState'[x] = CREATED <=> pState[x] = CREATED
                    /\ pState'[x] = TERMINATED <=> pState[x] = TERMINATED

LEMMA LifeByPlaces ==
    ASSUME IInv, NEW p, NEW b, Places(p, b), pState[p] \notin {CREATED, TERMINATED},
           b # "terminatedQueue"
    PROVE  KeepsLife
<1>1. pState' = [pState EXCEPT ![p] = StateOf(b)] /\ p \in Proc
  BY DEF Places
<1>2. StateOf(b) \notin {CREATED, TERMINATED}
  BY DEF StateOf, NEWLY, READY, WAITING, CREATED, TERMINATED
<1>3. pState \in [Proc -> {CREATED, NEWLY, READY, RUNNING, WAITING, TERMINATED}]
  BY DEF IInv, TypeOK
<1> QED
  BY <1>1, <1>2, <1>3 DEF KeepsLife

LEMMA OtherKeepsLife == ASSUME SysInv, SysOther PROVE KeepsLife
<1>1. /\ IInv /\ Placed /\ RunningState
      /\ pState \in [Proc -> {CREATED, NEWLY, READY, RUNNING, WAITING, TERMINATED}]
  BY DEF SysInv, SInv, IInv, TypeOK
<1>2. \A id \in QueueId, x \in Proc : In(queue, x, id) /\ id # "terminatedQueue" =>
        pState[x] \notin {CREATED, TERMINATED}
  <2>1. \A id \in QueueId : id # "terminatedQueue" => StateOf(id) \notin {CREATED, TERMINATED}
    BY DEF StateOf, NEWLY, READY, WAITING, CREATED, TERMINATED
  <2> QED
    BY <1>1, <2>1 DEF Placed
<1>3. ASSUME UNCHANGED pState PROVE KeepsLife
  BY <1>3 DEF KeepsLife
<1>4. CASE SetScheduler \/ StartRun \/ CallScheduler \/ EndRun \/ KeepRunning \/ NoPreemption
           \/ Idle \/ Instruction \/ IsrPrint
  BY <1>3, <1>4 DEF SetScheduler, StartRun, CallScheduler, EndRun, KeepRunning, NoPreemption,
     Fault, Idle, Instruction, IsrPrint
<1>5. CASE AdmitNew
  <2>1. PICK h \in Proc, b \in ReadyIds : Places(h, b) /\ In(queue, h, "newQueue")
    BY <1>1, <1>5, PlacesAdmitted
  <2> QED
    BY <1>1, <1>2, <2>1, LifeByPlaces, QueueNames
<1>6. CASE Dispatch
  <2>1. PICK n \in Proc : Takes(n)
    BY <1>1, <1>6, TakesDispatched
  <2>2. pState[n] \notin {CREATED, TERMINATED}
    BY <1>2, <2>1, QueueNames DEF Takes
  <2> QED
    BY <1>1, <1>3, <2>1, <2>2 DEF Takes, KeepsLife, RUNNING, CREATED, TERMINATED
<1>7. CASE PreemptRR \/ PreemptMLFQ
  <2>1. PICK n \in Proc : Switches(pRunningPcb, n)
    BY <1>1, <1>7, PreemptSwitches
  <2>2. phase = "preempt" /\ pRunningPcb # NoProc
    BY <1>7, <2>1, ProcAssumption DEF PreemptRR, PreemptMLFQ, Switches
  <2>3. /\ pState[pRunningPcb] \notin {CREATED, TERMINATED}
        /\ pState[n] \notin {CREATED, TERMINATED}
    BY <1>1, <1>2, <2>1, <2>2, QueueNames
       DEF Switches, RunningState, READY, RUNNING, CREATED, TERMINATED
  <2> QED
    BY <1>1, <2>1, <2>3 DEF Switches, KeepsLife, READY, RUNNING, CREATED, TERMINATED
<1>8. ASSUME NEW code \in Swis, Trap(code) PROVE KeepsLife
  <2>1. Places(pRunningPcb, "waitingQueue")
    BY <1>1, <1>8, TrapPlaces
  <2>2. pState[pRunningPcb] \notin {CREATED, TERMINATED}
    BY <1>1, <1>8 DEF Trap, RunningState, READY, RUNNING, CREATED, TERMINATED
  <2> QED
    BY <1>1, <2>1, <2>2, LifeByPlaces
<1>9. CASE IsrSemaphoreAquire \/ IsrSemaphoreWait
  <2>1. UNCHANGED pState \/ \E s \in Sem : Places(pRunningPcb, s)
    BY <1>1, <1>9, AquirePlaces, WaitPlaces
  <2>2. ASSUME NEW s \in Sem, Places(pRunningPcb, s) PROVE KeepsLife
    <3>1. pRunningPcb \in Proc /\ pRunningPcb # NoProc /\ phase = "isr"
      BY <1>9, <2>2, ProcAssumption DEF Places, IsrSemaphoreAquire, IsrSemaphoreWait
    <3>2. pState[pRunningPcb] \notin {CREATED, TERMINATED}
      <4>1. queue["waitingQueue"] = <<pRunningPcb>>
        BY <1>1, <3>1 DEF IInv, InterruptPlace
      <4>2. In(queue, pRunningPcb, "waitingQueue")
        BY <4>1 DEF In
      <4> QED
        BY <1>2, <3>1, <4>2, QueueNames
    <3> QED
      BY <1>1, <2>2, <3>2, LifeByPlaces, QueueNames
  <2> QED
    BY <1>3, <2>1, <2>2
<1>10. CASE IsrSemaphoreRelease
  <2>1. \/ UNCHANGED pState
        \/ \E s \in Sem : /\ In(queue, Head(queue[s]), s)
                         /\ \E b \in ReadyIds : Places(Head(queue[s]), b)
    BY <1>1, <1>10, ReleasePlaces
  <2>2. ASSUME NEW s \in Sem, NEW b \in ReadyIds, In(queue, Head(queue[s]), s),
               Places(Head(queue[s]), b)
        PROVE  KeepsLife
    <3>1. pState[Head(queue[s])] \notin {CREATED, TERMINATED}
      BY <1>2, <2>2, QueueNames DEF Places
    <3> QED
      BY <1>1, <2>2, <3>1, LifeByPlaces, QueueNames
  <2> QED
    BY <1>3, <2>1, <2>2
<1>11. CASE Resume
  <2>1. \/ UNCHANGED pState
        \/ /\ In(queue, pRunningPcb, "waitingQueue")
           /\ \E b \in ReadyIds : Places(pRunningPcb, b)
    BY <1>1, <1>11, ResumePlaces
  <2>2. ASSUME NEW b \in ReadyIds, In(queue, pRunningPcb, "waitingQueue"), Places(pRunningPcb, b)
        PROVE  KeepsLife
    BY <1>1, <1>2, <2>2, LifeByPlaces, QueueNames DEF Places
  <2> QED
    BY <1>3, <2>1, <2>2
<1> QED
  BY <1>4, <1>5, <1>6, <1>7, <1>8, <1>9, <1>10, <1>11 DEF SysOther

LEMMA LinkedKept ==
    ASSUME SysInv, KeepsLife, memPhase' # "badTable", memPhase # "badTable",
           DOMAIN pcbs' = DOMAIN pcbs, \A x \in DOMAIN pcbs : pcbs'[x].halted = pcbs[x].halted,
           sharedMemory' = SharedByPcb(pcbs')
    PROVE  Linked'
<1>1. Linked
  BY DEF SysInv
<1>2. DOMAIN pcbs \subseteq Proc
  BY <1>1 DEF Linked
<1>3. SharedByPcb(pcbs)' = SharedByPcb(pcbs')
  BY DEF SharedByPcb
<1> QED
  BY <1>1, <1>2, <1>3 DEF Linked, KeepsLife

\* The PCB a step creates is the next of the table.
LEMMA RegisterGrows ==
    ASSUME SysInv, NEW name, M!Register(name)
    PROVE  LET new == Len(pcbs) + 1 IN
             /\ Len(pcbs') = new /\ new \in Proc /\ new \notin DOMAIN pcbs
             /\ DOMAIN pcbs' = DOMAIN pcbs \cup {new}
             /\ \A x \in DOMAIN pcbs : pcbs'[x] = pcbs[x]
             /\ pcbs'[new].halted = FALSE /\ pcbs'[new].shm = M!NoShm
<1> DEFINE new == Len(pcbs) + 1
           pcb == [name |-> name, shm |-> M!NoShm, halted |-> FALSE]
<1>1. pcb.halted = FALSE /\ pcb.shm = M!NoShm
  OBVIOUS
<1>2. /\ DOMAIN pcbs = 1..Len(pcbs) /\ Len(pcbs) \in Nat
      /\ pcbs \in Seq(MP!PcbType) /\ pcbs' = Append(pcbs, pcb)
  BY PcbTable DEF SysInv, MP!IInv, MP!TypeInv, M!Register
<1>3. new \in Proc /\ new \notin DOMAIN pcbs
  BY <1>2, ProcIsId, BoundAssumption DEF M!Register
<1> HIDE DEF pcb
<1>4. /\ Len(Append(pcbs, pcb)) = new /\ DOMAIN Append(pcbs, pcb) = 1..new
      /\ \A x \in 1..Len(pcbs) : Append(pcbs, pcb)[x] = pcbs[x]
      /\ Append(pcbs, pcb)[new] = pcb
  BY <1>2
<1> QED
  BY <1>1, <1>2, <1>3, <1>4

\* A PCB that is created takes the first number that is free.
LEMMA LinkedCreated ==
    ASSUME SysInv, NEW p \in Proc, pState[p] = CREATED, NEW state \in {NEWLY, READY},
           pState' = [pState EXCEPT ![p] = state], NewestIs(state), NEW name, M!Register(name),
           sharedMemory' = sharedMemory, memPhase = "up", memPhase' = "up"
    PROVE  Linked'
<1>1. /\ pState \in [Proc -> {CREATED, NEWLY, READY, RUNNING, WAITING, TERMINATED}]
      /\ state \notin {CREATED, TERMINATED}
      /\ Linked /\ MP!TypeInv
  BY DEF SysInv, IInv, TypeOK, MP!IInv, NEWLY, READY, CREATED, TERMINATED
<1>2. /\ Len(pcbs') = Len(pcbs) + 1 /\ DOMAIN pcbs' = DOMAIN pcbs \cup {Len(pcbs) + 1}
      /\ \A x \in DOMAIN pcbs : pcbs'[x] = pcbs[x]
      /\ pcbs'[Len(pcbs) + 1].halted = FALSE /\ pcbs'[Len(pcbs) + 1].shm = M!NoShm
  BY RegisterGrows
<1>3. p = Len(pcbs) + 1
  <2>1. Len(pcbs) + 1 \in Proc /\ pState[Len(pcbs) + 1] = CREATED
    BY <1>1, RegisterGrows DEF Linked
  <2>2. pState'[Len(pcbs) + 1] = state
    BY <1>2 DEF NewestIs
  <2> QED
    BY <1>1, <2>1, <2>2
<1>4. DOMAIN pcbs' = {x \in Proc : pState'[x] # CREATED}
  BY <1>1, <1>2, <1>3 DEF Linked
<1>5. sharedMemory' = SharedByPcb(pcbs)'
  BY <1>1, <1>2, <1>3 DEF Linked, SharedByPcb
<1>6. \A x \in DOMAIN pcbs' : pcbs'[x].halted <=> pState'[x] = TERMINATED
  BY <1>1, <1>2, <1>3 DEF Linked
<1> QED
  BY <1>4, <1>5, <1>6 DEF Linked

\* The process that ends is halted, unless the table stops the program.
LEMMA LinkedEnded ==
    ASSUME SysInv, NEW p \in M!Live, p \in Proc, M!DeallocateMemory(p), sharedMemory' = sharedMemory,
           memPhase = "up", pState' = [pState EXCEPT ![p] = TERMINATED],
           memPhase' = "badTable" => phase' = "badTable"
    PROVE  Linked'
<1>1. /\ pState \in [Proc -> {CREATED, NEWLY, READY, RUNNING, WAITING, TERMINATED}]
      /\ Linked /\ MP!TypeInv /\ p \in DOMAIN pcbs
  BY DEF SysInv, IInv, TypeOK, MP!IInv, M!Live
<1>2. \/ memPhase' = "badTable" /\ pcbs' = pcbs
      \/ pcbs' = [pcbs EXCEPT ![p].halted = TRUE]
  BY DEF M!DeallocateMemory
<1>3. /\ DOMAIN pcbs' = DOMAIN pcbs
      /\ \A x \in DOMAIN pcbs : /\ x # p => pcbs'[x] = pcbs[x]
                               /\ pcbs'[x].shm = pcbs[x].shm
      /\ pcbs'[p].halted \/ memPhase' = "badTable"
  <2> DEFINE Halted(r) == [r EXCEPT !.halted = TRUE]
  <2>1. pcbs[p] \in MP!PcbType
    BY <1>1, PcbTable, ElementOfSeq DEF SysInv, MP!TypeInv
  <2>2. Halted(pcbs[p]).halted = TRUE /\ Halted(pcbs[p]).shm = pcbs[p].shm
    BY <2>1 DEF MP!PcbType
  <2>3. (pcbs' = pcbs /\ memPhase' = "badTable") \/ pcbs' = [pcbs EXCEPT ![p] = Halted(pcbs[p])]
    BY <1>2
  <2> HIDE DEF Halted
  <2> QED
    BY <1>1, <2>2, <2>3
<1>4. sharedMemory' = SharedByPcb(pcbs)'
  BY <1>1, <1>3 DEF Linked, SharedByPcb
<1>5. DOMAIN pcbs' = {x \in Proc : pState'[x] # CREATED}
  BY <1>1, <1>3 DEF Linked, CREATED, TERMINATED
<1> QED
  BY <1>1, <1>3, <1>4, <1>5 DEF Linked

LEMMA OtherKeepsShared == ASSUME SysOther PROVE sharedMemory' = sharedMemory /\ UNCHANGED memVars
<1> USE DEF pcbVars
<1>1. UNCHANGED memVars
  BY DEF SysOther
<1>2. SetScheduler \/ StartRun \/ CallScheduler \/ EndRun \/ AdmitNew \/ KeepRunning \/ Idle
        => sharedMemory' = sharedMemory
  BY DEF SetScheduler, StartRun, CallScheduler, EndRun, AdmitNew, KeepRunning, Idle
<1>3. Dispatch \/ PreemptRR \/ PreemptMLFQ \/ NoPreemption => sharedMemory' = sharedMemory
  BY DEF Dispatch, PreemptRR, PreemptMLFQ, NoPreemption, Fault
<1>4. Instruction \/ (\E code \in Swis : Trap(code)) \/ IsrPrint \/ Resume
        => sharedMemory' = sharedMemory
  BY DEF Instruction, Trap, IsrPrint, Resume
<1>5. IsrSemaphoreAquire \/ IsrSemaphoreRelease \/ IsrSemaphoreWait
        => sharedMemory' = sharedMemory
  BY DEF IsrSemaphoreAquire, IsrSemaphoreRelease, IsrSemaphoreWait
<1> QED
  BY <1>1, <1>2, <1>3, <1>4, <1>5 DEF SysOther

LEMMA LinkedStep ==
    ASSUME SysInv, [SysNext]_sysVars
    PROVE  Linked'
<1>1. Linked /\ (memPhase = "up" => memPhase # "badTable")
  BY DEF SysInv
<1>2. ASSUME memPhase = "up", KeepsLife, sharedMemory' = sharedMemory,
             UNCHANGED memVars \/ (memPhase' = "badTable" /\ phase' = "badTable" /\ pcbs' = pcbs)
      PROVE  Linked'
  <2>1. pcbs' = pcbs
    BY <1>2 DEF memVars
  <2>2. memPhase' # "badTable" \/ phase' = "badTable"
    BY <1>2 DEF memVars
  <2>3. SharedByPcb(pcbs)' = SharedByPcb(pcbs) /\ DOMAIN pcbs \subseteq Proc
    BY <1>1, <2>1 DEF SharedByPcb, Linked
  <2> QED
    BY <1>1, <1>2, <2>1, <2>2, <2>3 DEF Linked, KeepsLife
<1>3. ASSUME UNCHANGED pState PROVE KeepsLife
  BY <1>3 DEF KeepsLife
<1>4. ASSUME memPhase = "up", NEW p \in Proc, NewPcb(p), NEW f \in File, M!LoadProgram(f),
             NewestIs(NEWLY), sharedMemory' = sharedMemory
      PROVE  Linked'
  BY <1>4, LinkedCreated DEF NewPcb, M!LoadProgram
<1>5. CASE memPhase = "up" /\ SysLoadProgram
  BY <1>4, <1>5 DEF SysLoadProgram, LoadProgram, pcbVars
<1>6. CASE memPhase = "up" /\ SysArrive
  <2>1. Arrive /\ sharedMemory' = sharedMemory
    BY <1>6 DEF SysArrive, Arrive, pcbVars
  <2>2. CASE (\E f \in File : M!LoadProgram(f)) /\ NewestIs(NEWLY)
    <3>1. CASE \E p \in Proc : NewPcb(p)
      BY <1>4, <1>6, <2>1, <2>2, <3>1
    <3>2. CASE UNCHANGED pState
      <4>1. PICK name : M!Register(name)
        BY <2>2 DEF M!LoadProgram
      <4>2. Len(pcbs') = Len(pcbs) + 1 /\ pState[Len(pcbs) + 1] = CREATED
        BY <1>1, <4>1, RegisterGrows DEF Linked
      <4> QED
        BY <2>2, <3>2, <4>2 DEF NewestIs, NEWLY, CREATED
    <3> QED
      BY <2>1, <3>1, <3>2 DEF Arrive
  <2>3. CASE UNCHANGED <<pState, memVars>>
    BY <1>2, <1>3, <1>6, <2>1, <2>3
  <2> QED
    BY <1>6, <2>2, <2>3 DEF SysArrive
<1>7. CASE memPhase = "up" /\ SysIsrVFork
  <2>1. PICK p \in Proc : pState[p] = CREATED /\ pState' = [pState EXCEPT ![p] = READY]
    BY <1>7 DEF SysIsrVFork, IsrVFork
  <2>2. PICK name : M!Register(name)
    BY <1>7 DEF SysIsrVFork, M!VFork
  <2>3. sharedMemory' = sharedMemory /\ NewestIs(READY) /\ memPhase' = "up"
    BY <1>7 DEF SysIsrVFork, IsrVFork, M!VFork, pcbVars
  <2> QED
    BY <1>7, <2>1, <2>2, <2>3, LinkedCreated
<1>8. CASE memPhase = "up" /\ SysInitSemaphore
  <2>1. UNCHANGED <<pState, sharedMemory>>
    BY <1>8 DEF SysInitSemaphore, LinkSemaphore
  <2>2. UNCHANGED memVars \/ (memPhase' = "badTable" /\ phase' = "badTable" /\ pcbs' = pcbs)
    BY <1>8 DEF SysInitSemaphore, LinkSemaphore, M!BadLookup
  <2> QED
    BY <1>2, <1>3, <1>8, <2>1, <2>2
<1>9. CASE memPhase = "up" /\ SysOpenSharedMemory
  <2>1. PICK one \in DOMAIN vMemoryLookup, two \in DOMAIN vMemoryLookup, size \in ShmSizes :
          M!OpenSharedMemory(one, two, size) \/ M!BadLookup(one) \/ M!BadLookup(two)
    BY <1>9 DEF SysOpenSharedMemory
  <2>2. KeepsLife /\ sharedMemory' = SharedByPcb(pcbs') /\ phase' = Outcome("shell")
    BY <1>3, <1>9 DEF SysOpenSharedMemory
  <2>3. CASE M!OpenSharedMemory(one, two, size)
    BY <1>9, <2>2, <2>3, OpenSetsShared, LinkedKept
  <2>4. CASE M!BadLookup(one) \/ M!BadLookup(two)
    <3>1. memPhase' = "badTable" /\ pcbs' = pcbs /\ phase' = "badTable"
      BY <2>2, <2>4 DEF M!BadLookup, Outcome
    <3>2. sharedMemory' = sharedMemory
      BY <1>1, <2>2, <3>1 DEF Linked
    <3> QED
      BY <1>2, <1>9, <2>2, <3>1, <3>2
  <2> QED
    BY <2>1, <2>3, <2>4
<1>10. CASE memPhase = "up" /\ SysHalt
  <2>1. /\ pState' = [pState EXCEPT ![pRunningPcb] = TERMINATED]
        /\ sharedMemory' = sharedMemory /\ pRunningPcb # NoProc /\ phase = "execute"
        /\ M!DeallocateMemory(pRunningPcb) /\ phase' = Outcome("loop")
    BY <1>10 DEF SysHalt, HaltTo, pcbVars
  <2> QED
    BY <1>10, <2>1, RunningLive, LinkedEnded DEF Outcome
<1>11. CASE memPhase = "up" /\ SysReturn
  <2>1. phase = "isr" /\ sharedMemory' = sharedMemory /\ phase' = Outcome("resume")
    BY <1>11 DEF SysReturn, ReturnTo, pcbVars
  <2>2. pRunningPcb \in Proc /\ pRunningPcb # NoProc /\ queue["waitingQueue"] = <<pRunningPcb>>
    BY <2>1, ProcAssumption DEF SysInv, IInv, InterruptPlace
  <2>3. CASE sharedMemory[pRunningPcb]
    BY <1>2, <1>3, <1>11, <2>1, <2>3 DEF SysReturn, ReturnTo
  <2>4. CASE ~sharedMemory[pRunningPcb]
    <3>1. pState' = [pState EXCEPT ![pRunningPcb] = TERMINATED]
      BY <1>11, <2>2, <2>4 DEF SysReturn, ReturnTo, HaltWaiting
    <3>2. M!DeallocateMemory(pRunningPcb)
      BY <1>11, <2>4 DEF SysReturn
    <3> QED
      BY <1>11, <2>1, <2>2, <3>1, <3>2, RunningLive, LinkedEnded DEF Outcome
  <2> QED
    BY <2>3, <2>4
<1>12. CASE memPhase = "up" /\ SysOther
  BY <1>2, <1>12, OtherKeepsLife, OtherKeepsShared
<1>13. CASE SysDied \/ UNCHANGED sysVars
  <2>1. UNCHANGED <<phase, pState, sharedMemory, memPhase, pcbs>>
    BY <1>13 DEF SysDied, sysVars, vars, memVars, pcbVars
  <2>2. SharedByPcb(pcbs)' = SharedByPcb(pcbs)
    BY <2>1 DEF SharedByPcb
  <2> QED
    BY <1>1, <2>1, <2>2 DEF Linked
<1> QED
  BY <1>5, <1>6, <1>7, <1>8, <1>9, <1>10, <1>11, <1>12, <1>13 DEF SysNext

----------------------------------------------------------------------------
(* The theorems.                                                           *)

LEMMA InitSysInv == SysInit => SysInv
<1> SUFFICES ASSUME SysInit PROVE SysInv
  OBVIOUS
<1>1. IInv /\ SInv
  BY InitInv, InitPlaced DEF SysInit
<1>2. MP!IInv
  BY SameInit, MP!InitIInv, CapacityAssumption, FileAssumption, ShmAssumption, BoundAssumption
     DEF SysInit
<1>3. Linked
  <2>1. /\ DOMAIN pcbs = {} /\ pState = [p \in Proc |-> CREATED] /\ memPhase = "up"
        /\ sharedMemory = [p \in Proc |-> FALSE]
    BY DEF SysInit, Init, M!Init
  <2> QED
    BY <2>1 DEF Linked, SharedByPcb
<1> QED
  BY <1>1, <1>2, <1>3 DEF SysInv

LEMMA NextSysInv == SysInv /\ [SysNext]_sysVars => SysInv'
<1> SUFFICES ASSUME SysInv, [SysNext]_sysVars PROVE SysInv'
  OBVIOUS
<1>1. IInv' /\ SInv'
  BY SystemSchedulerStep, NextInv, NextPlaced DEF SysInv
<1>2. MP!IInv'
  <2>1. MP!Next \/ UNCHANGED MP!vars
    BY MemoryStep, SameNext, SameVars DEF memVars, MP!vars
  <2> QED
    BY <2>1, MP!NextKeeps, CapacityAssumption, FileAssumption, ShmAssumption, BoundAssumption
       DEF SysInv
<1>3. Linked'
  BY LinkedStep
<1> QED
  BY <1>1, <1>2, <1>3 DEF SysInv

\* The two inductive invariants hold side by side, and the scheduler's states agree
\* with the memory's processes in every reachable state.
THEOREM SystemInvariance == SysSpec => []SysInv
BY InitSysInv, NextSysInv, PTL DEF SysSpec

\* What the lookup table and the memory really do is what module Scheduler lets
\* them do: its theorems about safety hold of the whole system.
THEOREM SchedulerImplemented == SysSpec => ImplementsScheduler
<1>1. SysInv /\ [SysNext]_sysVars => [Next]_vars
  BY SystemSchedulerStep
<1>2. SysInit => Init
  BY DEF SysInit
<1> QED
  BY <1>1, <1>2, SystemInvariance, PTL DEF SysSpec, ImplementsScheduler

\* What the scheduler really does with processes is what module Memory lets live
\* processes do: no process is deallocated twice, and none forks without memory.
THEOREM MemoryImplemented == SysSpec => ImplementsMemory
<1>1. SysInv /\ [SysNext]_sysVars => [M!Next]_(M!vars)
  BY MemoryStep DEF M!vars, memVars
<1>2. SysInit => M!Init
  BY DEF SysInit
<1> QED
  BY <1>1, <1>2, SystemInvariance, PTL DEF SysSpec, ImplementsMemory, M!Spec

\* The stage read off the queues is that of a process not yet ended exactly when
\* pState says so.
LEMMA StageAlive ==
    ASSUME SysInv, phase \notin Faults, NEW p \in Proc
    PROVE  Scheduled(p) <=> pState[p] \notin {CREATED, TERMINATED}
<1>1. /\ IInv /\ Placed /\ RunningState
      /\ StageByPlace(queue, logged, pRunningPcb, p)
      /\ Stage(p) = StageIn(queue, logged, pRunningPcb, p)
  BY StageNow DEF SysInv, SInv
<1>2. CASE p \in logged
  BY <1>1, <1>2 DEF StageByPlace, Placed, Scheduled
<1>3. ASSUME NEW id \in QueueId, In(queue, p, id)
      PROVE  Scheduled(p) <=> pState[p] \notin {CREATED, TERMINATED}
  <2>1. Stage(p) = StageOf(id) /\ pState[p] = StateOf(id)
    BY <1>1, <1>3 DEF StageByPlace, Placed
  <2>2. CASE id = "terminatedQueue"
    BY <2>1, <2>2, StageOfNames, StateOfNames DEF Scheduled
  <2>3. CASE id # "terminatedQueue"
    BY <2>1, <2>3 DEF StageOf, StateOf, Scheduled, NEWLY, READY, WAITING, CREATED, TERMINATED
  <2> QED
    BY <2>2, <2>3
<1>4. CASE ~InQueue(queue, p) /\ p \notin logged
  <2>1. Stage(p) = IF p = pRunningPcb THEN "running" ELSE "none"
    BY <1>1, <1>4 DEF StageByPlace
  <2>2. CASE p = pRunningPcb
    <3>1. p # NoProc
      BY ProcAssumption
    <3>2. phase # "isr"
      BY <1>1, <1>4, <2>2, QueueNames DEF IInv, InterruptPlace, InQueue, In
    <3>3. phase # "resume"
      BY <1>1, <1>4, <2>2 DEF IInv, InterruptPlace, InQueue
    <3>4. phase # "shell"
      BY <1>1, <2>2, <3>1 DEF IInv, NothingToPreempt
    <3>5. phase \in {"loop", "admit", "preempt", "execute"}
      BY <1>1, <3>2, <3>3, <3>4 DEF IInv, TypeOK, Phases
    <3>6. pState[p] \in {READY, RUNNING}
      BY <1>1, <2>2, <3>1, <3>5 DEF RunningState
    <3> QED
      BY <2>1, <2>2, <3>6 DEF Scheduled, READY, RUNNING, CREATED, TERMINATED
  <2>3. CASE p # pRunningPcb
    BY <1>1, <1>4, <2>1, <2>3 DEF IInv, NotLost, Scheduled
  <2> QED
    BY <2>2, <2>3
<1> QED
  BY <1>2, <1>3, <1>4 DEF InQueue

\* A process has its memory exactly while it is at a stage it can leave.
LEMMA LiveScheduled == SysInv => LiveByStage
<1> SUFFICES ASSUME SysInv, phase \notin Faults, NEW p \in Proc
             PROVE  p \in M!Live <=> Scheduled(p)
  BY DEF LiveByStage
<1>1. memPhase # "badTable"
  BY DEF SysInv, Linked, Faults
<1> QED
  BY <1>1, StageAlive, LiveByState

\* Deallocation and the moves between the queues stay together, whatever path a
\* process takes to its end.
THEOREM LiveByStageHolds == SysSpec => []LiveByStage
BY LiveScheduled, SystemInvariance, PTL

\* Once every process has ended and been logged, only open blocks are marked.
THEOREM AllReturnedHolds == SysSpec => []AllReturned
<1>1. SysInv => AllReturned
  <2> SUFFICES ASSUME SysInv, phase = "shell",
                      \A p \in Proc : Stage(p) \in {"none", "logged"},
                      NEW i \in 0..(Capacity - 1), mark[i] = M!Used
               PROVE  \E s \in DOMAIN shms : shms[s].count > 0 /\ i \in M!Block(s)
    BY DEF AllReturned
  <2>1. M!Live \subseteq Proc
    BY DEF SysInv, Linked, M!Live
  <2>2. M!Live = {}
    BY <2>1, LiveScheduled DEF LiveByStage, Scheduled, Faults
  <2>3. MP!NoLeak /\ mark[i] = MP!Used
    BY DEF SysInv, MP!IInv, M!Used, MP!Used
  <2>4. MP!Live = {}
    BY <2>2, SameLive
  <2>5. PICK s \in DOMAIN shms : shms[s].count > 0 /\ i \in MP!Block(s)
    BY <2>3, <2>4 DEF MP!NoLeak
  <2> QED
    BY <2>5, SameBlock
<1> QED
  BY <1>1, SystemInvariance, PTL

\* A process blocked when a run ends keeps its memory until the program ends.
THEOREM StrandedKeepsMemoryHolds == SysSpec => StrandedKeepsMemory
<1>1. ASSUME NEW p \in Proc
      PROVE  SysSpec => [](phase = "shell" /\ Blocked(p) => [](p \in M!Live))
  <2>1. DInv /\ phase = "shell" /\ Blocked(p) => Stranded(p)
    BY PromptStranded
  <2>2. DInv /\ Stranded(p) /\ [Next]_vars => Stranded(p)'
    BY StrandedStays DEF DInv
  <2>3. SysInv /\ Stranded(p) => p \in M!Live
    <3> SUFFICES ASSUME SysInv, Stranded(p) PROVE p \in M!Live
      OBVIOUS
    <3>1. PICK s \in Sem : In(queue, p, s)
      BY StrandedBlocked DEF Blocked
    <3>2. pState[p] = WAITING
      BY <3>1, QueueNames, StateOfNames DEF SysInv, SInv, Placed
    <3> QED
      BY <3>2, LiveByState DEF WAITING, CREATED, TERMINATED
  <2>4. SysInit => DInv
    BY InitDInv DEF SysInit
  <2>5. DInv /\ [Next]_vars => DInv'
    BY StepDInv
  <2>6. SysInv /\ [SysNext]_sysVars => [Next]_vars
    BY SystemSchedulerStep
  <2> QED
    BY <2>1, <2>2, <2>3, <2>4, <2>5, <2>6, SystemInvariance, PTL DEF SysSpec
<1> QED
  BY <1>1 DEF StrandedKeepsMemory

=============================================================================
