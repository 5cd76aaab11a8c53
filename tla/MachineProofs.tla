---------------------------- MODULE MachineProofs ----------------------------
(***************************************************************************)
(* Every step of the machine is a step of the scheduler, so what            *)
(* SchedulerProofs establishes holds of all programs; and the registers of  *)
(* a process move only by its own instructions and interrupts.              *)
(*                                                                         *)
(* Nothing is assumed of Code there: programs may jump anywhere, as long as   *)
(* the initial queue names each process once.  MTypeOKHolds has the premise  *)
(* that they are sound (SoundPrograms), which its conclusion needs.          *)
(***************************************************************************)
EXTENDS Machine, SchedulerProofs

----------------------------------------------------------------------------
(* The machine refines the scheduler, step by step.                        *)

LEMMA MNextIsNext == MNext => [Next]_vars
<1> SUFFICES ASSUME MNext PROVE [Next]_vars OBVIOUS
<1> USE DEF Next, ShellStep, KernelStep, SchedulerStep
<1>1. CASE Run BY <1>1 DEF Run
<1>2. CASE MDispatch BY <1>2 DEF MDispatch
<1>3. CASE MPreempt BY <1>3 DEF MPreempt
<1>4. CASE MInstruction BY <1>4 DEF MInstruction
<1>5. CASE MTrap BY <1>5 DEF MTrap
<1>6. CASE MHalt BY <1>6 DEF MHalt
<1>7. CASE MIsrPrint BY <1>7 DEF MIsrPrint
<1>8. CASE MIsrVFork BY <1>8 DEF MIsrVFork
<1>9. CASE MIsrReturnSharedMemPtr BY <1>9 DEF MIsrReturnSharedMemPtr
<1>10. CASE MOther BY <1>10 DEF MOther
<1>11. CASE Finished BY <1>11 DEF Finished, mVars
<1> QED
  BY <1>1, <1>2, <1>3, <1>4, <1>5, <1>6, <1>7, <1>8, <1>9, <1>10, <1>11
  DEF MNext, MKernelStep

\* After the shell's commands the scheduler's invariant holds.
LEMMA StartedInv ==
    ASSUME NEW loaded \in Seq(Proc), IsInjective(loaded), NEW linked \in SUBSET Proc,
           Started(loaded, linked)
    PROVE  IInv
<1> USE DEF Started
<1>1. /\ queue["newQueue"] = loaded
      /\ \A id \in QueueId : id # "newQueue" => queue[id] = <<>> /\ DOMAIN queue[id] = {}
  BY QueueNames
<1>2. \A id \in QueueId : \A p : In(queue, p, id) <=> id = "newQueue" /\ p \in Range(loaded)
  BY <1>1, QueueNames DEF In, Range
<1>3. \A p : InQueue(queue, p) <=> p \in Range(loaded)
  BY <1>2, QueueNames DEF InQueue
<1>4. Range(loaded) \subseteq Proc
  BY DEF Range
<1>5. TypeOK
  <2>1. queue \in [QueueId -> Seq(Proc)] BY <1>1
  <2>2. semId \in [Proc -> semaphoreTable \cup {NoSem}]
    BY DEF Started
  <2>3. pState \in [Proc -> {CREATED, NEWLY, READY, RUNNING, WAITING, TERMINATED}]
    OBVIOUS
  <2>4. semValue \in [Sem -> Int] /\ sharedMemory \in [Proc -> BOOLEAN]
    OBVIOUS
  <2> QED BY <2>1, <2>2, <2>3, <2>4, DemoteAssumption, ValuesAssumption DEF TypeOK, Phases
<1>6. NoDuplicate
  <2>1. ASSUME NEW a \in QueueId, NEW b \in QueueId,
               NEW i \in DOMAIN queue[a], NEW j \in DOMAIN queue[b],
               queue[a][i] = queue[b][j]
        PROVE  a = b /\ i = j
    BY <1>1, <2>1 DEF IsInjective
  <2> QED BY <2>1 DEF NoDuplicate, Distinct
<1>7. \A p \in Proc : pState[p] # CREATED <=> p \in Range(loaded)
  <2>1. pState = [p \in Proc |-> IF p \in Range(loaded) THEN NEWLY ELSE CREATED]
    OBVIOUS
  <2>2. NEWLY # CREATED BY DEF CREATED, NEWLY
  <2> HIDE DEF Started
  <2> QED BY <2>1, <2>2, Zenon
<1>8. NotLost /\ FreshUnplaced
  BY <1>3, <1>7, ProcAssumption DEF NotLost, FreshUnplaced
<1>9. Exclusive
  BY <1>3, <1>4, ProcAssumption DEF Exclusive
<1>10. NoNullDeref /\ NothingToPreempt /\ ContextInv
  BY DEF NoNullDeref, NothingToPreempt, ContextInv
<1>11. ReadyByPriority
  BY <1>2, QueueNames, ReadyQueueNames DEF ReadyByPriority
<1>12. InterruptPlace
  BY <1>1, QueueNames DEF InterruptPlace
<1> QED BY <1>5, <1>6, <1>8, <1>9, <1>10, <1>11, <1>12 DEF IInv

LEMMA MNextInv == IInv /\ [MNext]_mVars => IInv'
BY MNextIsNext, NextInv DEF mVars

\* The context switch always finds a process to run: the one it has just queued.
LEMMA SwitchFindsNext ==
    ASSUME IInv, pRunningPcb \in Proc, NEW priority \in 0..2, SwitchContext(priority)
    PROVE  pRunningPcb' \in Proc
<1> DEFINE q == Push(queue, ReadyQueue(priority), pRunningPcb)
<1>1. queue \in Queues BY DEF IInv, TypeOK, Queues
<1>2. ReadyQueue(priority) \in ReadyIds /\ ReadyQueue(priority) \in QueueId
  BY QueueNames, ReadyQueueNames
<1>3. q \in Queues /\ q[ReadyQueue(priority)] = Append(queue[ReadyQueue(priority)], pRunningPcb)
  BY <1>1, <1>2, PushType DEF Push, Queues
<1>4. q[ReadyQueue(priority)] # <<>>
  BY <1>1, <1>2, <1>3 DEF Queues
<1>5. pRunningPcb' = NextReady(q) BY DEF SwitchContext
<1> HIDE DEF q
<1>6. ~ReadyQueuesEmpty(q) BY <1>2, <1>4 DEF ReadyQueuesEmpty
<1>7. TopQueue(q) \in QueueId /\ q[TopQueue(q)] # <<>>
  BY <1>6, QueueNames DEF TopQueue, ReadyQueuesEmpty, ReadyIds
<1>8. Head(q[TopQueue(q)]) \in Proc BY <1>3, <1>7 DEF Queues
<1> QED BY <1>5, <1>6, <1>8 DEF NextReady

----------------------------------------------------------------------------
(* The registers.                                                          *)

HasShape(c) == "Reg" \in DOMAIN c /\ 0 \in DOMAIN c.Reg

Shapes ==
    /\ DOMAIN image = Proc
    /\ HasShape(cpu)
    /\ \A p \in Proc : HasShape(image[p])

\* What the CPU holds of a process that is not running is also in its PCB, and
\* while an interrupt is served the CPU holds nothing.
CpuInv ==
    /\ cpuOwner \in Proc /\ cpuOwner # pRunningPcb => image[cpuOwner] = cpu
    /\ phase \in {"isr", "resume"} => cpuOwner = NoProc

MInv == IInv /\ Shapes /\ CpuInv

LEMMA ClearedShape == HasShape(Cleared) /\ HasShape(FirstInstruction)
BY DEF HasShape, Cleared, FirstInstruction, Registers

LEMMA AfterOpShape ==
    ASSUME NEW i, NEW c, NEW mem, HasShape(c)
    PROVE  HasShape(AfterOp(i, c, mem))
<1>1. \A r, value : HasShape(SetReg(c, r, value)) BY DEF SetReg, HasShape
<1>2. \A taken, target : HasShape(Branch(c, taken, target)) BY DEF Branch, HasShape
<1>3. \A z : HasShape([c EXCEPT !.Z = z, !.PC = @ + 1]) BY DEF HasShape
<1>4. HasShape([c EXCEPT !.PC = @ + 1]) BY DEF HasShape
<1> HIDE DEF HasShape
<1> QED BY <1>1, <1>2, <1>3, <1>4 DEF AfterOp

\* The only registers that are not a process's own work are those of a new child.
Born(p) == MIsrVFork /\ pState[p] = CREATED /\ Context(p)' = Forked(pRunningPcb)

\* What every step has to show.
Kept == Shapes' /\ CpuInv' /\ \A p \in Proc : OwnStep(p) \/ Born(p)

\* Steps after which the registers are where they were.
LEMMA SameRegisters ==
    ASSUME MInv, UNCHANGED <<cpu, image, cpuOwner>>,
           phase' \in {"isr", "resume"} => phase \in {"isr", "resume"},
           UNCHANGED pRunningPcb \/ cpuOwner = NoProc
    PROVE  Kept
<1>1. Shapes' BY DEF MInv, Shapes, HasShape
<1>2. CpuInv' BY ProcAssumption DEF MInv, CpuInv
<1>3. \A p \in Proc : OwnStep(p) BY DEF OwnStep, Context
<1> QED BY <1>1, <1>2, <1>3 DEF Kept

\* Dispatch and preemption: the CPU is given the registers of the next process.
LEMMA LoadsNext ==
    ASSUME MInv, NEW next \in Proc, pRunningPcb' = next, cpuOwner' = next,
           phase' \notin {"isr", "resume"}, DOMAIN image' = Proc,
           \A p \in Proc : image'[p] = Context(p), cpu' = image'[next]
    PROVE  Kept
<1>1. \A p \in Proc : HasShape(Context(p)) BY DEF MInv, Shapes, Context
<1>2. \A p \in Proc : HasShape(image'[p]) BY <1>1
<1>3. Shapes' BY <1>2 DEF Shapes, HasShape
<1>4. CpuInv' BY DEF CpuInv
<1>5. \A p \in Proc : Context(p)' = Context(p) BY DEF Context
<1>6. \A p \in Proc : OwnStep(p) BY <1>5 DEF OwnStep
<1> QED BY <1>3, <1>4, <1>6 DEF Kept

LEMMA MDispatchKept == ASSUME MInv, MDispatch PROVE Kept
<1>1. Dispatch /\ IInv /\ IInv' BY DispatchStep DEF MInv, MDispatch
<1> DEFINE n == NextReady(queue)
<1>2. /\ pRunningPcb = NoProc /\ pRunningPcb' = n /\ cpuOwner' = n
      /\ cpu' = image[n] /\ UNCHANGED image
  BY <1>1 DEF MDispatch, Dispatch, DispatchNeeded
<1>3. n # NoProc /\ phase' \in {"execute", "preempt"}
  BY <1>1 DEF Dispatch, AfterDispatch, IInv, NoNullDeref
<1>4. n \in Proc BY <1>1, <1>2, <1>3 DEF IInv, TypeOK
<1> HIDE DEF n
<1>5. \A p \in Proc : image'[p] = Context(p)
  BY <1>2, ProcAssumption DEF MInv, CpuInv, Context
<1> QED BY <1>2, <1>3, <1>4, <1>5, LoadsNext DEF MInv, Shapes

LEMMA MPreemptSwitches ==
    ASSUME MInv, MPreempt
    PROVE  /\ phase' = "execute" /\ pRunningPcb \in Proc /\ cpuOwner = pRunningPcb
           /\ pRunningPcb' \in Proc /\ cpuOwner' = pRunningPcb'
<1>1. IInv /\ phase = "preempt" BY DEF MInv, MPreempt, PreemptRR, PreemptMLFQ
<1>2. pRunningPcb \in Proc
  BY <1>1 DEF MPreempt, PreemptRR, PreemptMLFQ, QuantumUp, IInv, TypeOK, NothingToPreempt,
              ReadyQueuesEmpty, ReadyIds
<1>3. phase' = "execute" /\ \E priority \in 0..2 : SwitchContext(priority)
  <2>1. CASE PreemptRR
    <3>1. pPriority[pRunningPcb] \in 0..2 BY <1>1, <1>2 DEF IInv, TypeOK
    <3>2. phase' = "execute" /\ SwitchContext(pPriority[pRunningPcb])
      BY <1>2, <2>1, ProcAssumption DEF PreemptRR
    <3> QED BY <3>1, <3>2
  <2>2. CASE PreemptMLFQ
    <3> DEFINE p == pRunningPcb
               priority == IF DemotionDue(p) /\ pPriority[p] < 2
                           THEN pPriority[p] + 1 ELSE pPriority[p]
    <3>1. priority \in 0..2 BY <1>1, <1>2 DEF IInv, TypeOK
    <3>2. phase' = "execute" /\ SwitchContext(priority) BY <2>2 DEF PreemptMLFQ
    <3> QED BY <3>1, <3>2
  <2> QED BY <2>1, <2>2 DEF MPreempt
<1>4. pRunningPcb' \in Proc /\ cpuOwner' = pRunningPcb'
  BY <1>1, <1>2, <1>3, SwitchFindsNext DEF SwitchContext
<1>5. cpuOwner = pRunningPcb
  BY <1>1, <1>2, ProcAssumption DEF IInv, ContextInv
<1> QED BY <1>2, <1>3, <1>4, <1>5

LEMMA MPreemptKept == ASSUME MInv, MPreempt PROVE Kept
<1>1. /\ phase' = "execute" /\ pRunningPcb \in Proc /\ cpuOwner = pRunningPcb
      /\ pRunningPcb' \in Proc /\ cpuOwner' = pRunningPcb'
      /\ image' = [image EXCEPT ![pRunningPcb] = cpu] /\ cpu' = image'[pRunningPcb']
  BY MPreemptSwitches DEF MPreempt
<1>2. DOMAIN image' = Proc /\ \A p \in Proc : image'[p] = Context(p)
  BY <1>1 DEF MInv, Shapes, Context
<1> QED BY <1>1, <1>2, LoadsNext

\* The process that executes is the one whose registers the CPU holds.
LEMMA Executing ==
    ASSUME MInv, phase = "execute", pRunningPcb # NoProc
    PROVE  pRunningPcb \in Proc /\ cpuOwner = pRunningPcb /\ Context(pRunningPcb) = cpu
BY DEF MInv, IInv, TypeOK, ContextInv, Context

LEMMA MInstructionKept == ASSUME MInv, MInstruction PROVE Kept
<1>1. phase = "execute" /\ pRunningPcb # NoProc /\ phase' = "loop"
  BY DEF MInstruction, Instruction
<1>2. pRunningPcb \in Proc /\ cpuOwner = pRunningPcb /\ Context(pRunningPcb) = cpu
  BY <1>1, Executing
<1>3. /\ cpu' = AfterOp(Fetched, cpu, memory)
      /\ UNCHANGED <<image, cpuOwner, pRunningPcb>>
  BY DEF MInstruction, Instruction
<1>4. HasShape(cpu') BY <1>3, AfterOpShape DEF MInv, Shapes
<1>5. Shapes' BY <1>3, <1>4 DEF MInv, Shapes, HasShape
<1>6. CpuInv' BY <1>1, <1>2, <1>3 DEF CpuInv
<1>7. OwnStep(pRunningPcb)
  BY <1>1, <1>2, <1>3 DEF OwnStep, Context, Fetched
<1>8. \A p \in Proc : p # pRunningPcb => OwnStep(p)
  BY <1>2, <1>3 DEF OwnStep, Context
<1> QED BY <1>5, <1>6, <1>7, <1>8 DEF Kept

LEMMA MTrapKept == ASSUME MInv, MTrap PROVE Kept
<1>1. /\ phase = "execute" /\ pRunningPcb # NoProc
      /\ cpuOwner' = NoProc /\ UNCHANGED pRunningPcb
  BY DEF MTrap, Trap
<1>2. pRunningPcb \in Proc /\ cpuOwner = pRunningPcb /\ Context(pRunningPcb) = cpu
  BY <1>1, Executing
<1>3. image' = [image EXCEPT ![pRunningPcb] = AfterOp(Fetched, cpu, memory)] /\ cpu' = Cleared
  BY DEF MTrap
<1>4. HasShape(AfterOp(Fetched, cpu, memory)) /\ HasShape(Cleared)
  BY AfterOpShape, ClearedShape DEF MInv, Shapes
<1>5. /\ DOMAIN image' = Proc
      /\ image'[pRunningPcb] = AfterOp(Fetched, cpu, memory)
      /\ \A p \in Proc : p # pRunningPcb => image'[p] = image[p]
  BY <1>2, <1>3 DEF MInv, Shapes
<1>6. Shapes'
  <2>1. \A p \in Proc : HasShape(image'[p]) BY <1>4, <1>5 DEF MInv, Shapes
  <2>2. HasShape(cpu') BY <1>3, <1>4
  <2> QED BY <1>5, <2>1, <2>2 DEF Shapes, HasShape
<1>7. CpuInv' BY <1>1, ProcAssumption DEF CpuInv
<1>8. OwnStep(pRunningPcb)
  BY <1>1, <1>2, <1>5, ProcAssumption DEF OwnStep, Context, Fetched
<1>9. \A p \in Proc : p # pRunningPcb => OwnStep(p)
  BY <1>1, <1>2, <1>5, ProcAssumption DEF OwnStep, Context
<1> QED BY <1>6, <1>7, <1>8, <1>9 DEF Kept

LEMMA MHaltKept == ASSUME MInv, MHalt PROVE Kept
<1>1. /\ phase = "execute" /\ pRunningPcb # NoProc /\ phase' \in {"loop", "badTable"}
      /\ UNCHANGED cpuOwner
  BY DEF MHalt, Halt, HaltTo
<1>2. pRunningPcb \in Proc /\ cpuOwner = pRunningPcb /\ Context(pRunningPcb) = cpu
  BY <1>1, Executing
<1>3. cpu' = AfterOp(Fetched, cpu, memory) \/ cpu' = cpu
  <2>1. AfterOp(SWI(10), cpu, memory) = [cpu EXCEPT !.PC = @ + 1] BY DEF AfterOp, SWI, Op
  <2> QED BY <2>1 DEF MHalt
<1>4. HasShape(cpu')
  <2>1. HasShape(cpu) BY DEF MInv, Shapes
  <2>2. HasShape(AfterOp(Fetched, cpu, memory)) BY <2>1, AfterOpShape
  <2> HIDE DEF HasShape
  <2> QED BY <1>3, <2>1, <2>2
<1>5. /\ DOMAIN image' = Proc /\ image'[pRunningPcb] = cpu'
      /\ \A p \in Proc : p # pRunningPcb => image'[p] = image[p]
  BY <1>2 DEF MHalt, MInv, Shapes
<1>6. Shapes'
  <2>1. \A p \in Proc : HasShape(image'[p]) BY <1>4, <1>5 DEF MInv, Shapes
  <2> QED BY <1>4, <1>5, <2>1 DEF Shapes, HasShape
<1>7. CpuInv' BY <1>1, <1>2, <1>5 DEF CpuInv
<1>8. ASSUME NEW p \in Proc, p = pRunningPcb PROVE OwnStep(p)
  <2>1. Context(p) = cpu /\ Context(p)' = cpu' BY <1>1, <1>2, <1>8 DEF Context
  <2>2. CASE cpu' = cpu BY <2>1, <2>2 DEF OwnStep
  <2>3. CASE cpu' = AfterOp(Fetched, cpu, memory)
    BY <1>1, <1>8, <2>1, <2>3 DEF OwnStep, Fetched
  <2> QED BY <1>3, <2>2, <2>3
<1>9. \A p \in Proc : p # pRunningPcb => OwnStep(p)
  BY <1>1, <1>2, <1>5 DEF OwnStep, Context
<1> QED BY <1>6, <1>7, <1>8, <1>9 DEF Kept

\* An interrupt that leaves a value in register 0 of the process it serves.
LEMMA WritesResult ==
    ASSUME MInv, phase = "isr", NEW value, image' = [image EXCEPT ![pRunningPcb].Reg[0] = value],
           UNCHANGED <<cpu, cpuOwner, pRunningPcb>>
    PROVE  Kept
<1>1. pRunningPcb \in Proc /\ cpuOwner = NoProc
  BY DEF MInv, IInv, InterruptPlace, CpuInv
<1>2. HasShape(image[pRunningPcb]) BY <1>1 DEF MInv, Shapes
<1>3. /\ DOMAIN image' = Proc
      /\ image'[pRunningPcb] = [image[pRunningPcb] EXCEPT !.Reg[0] = value]
      /\ \A p \in Proc : p # pRunningPcb => image'[p] = image[p]
  BY <1>1 DEF MInv, Shapes
<1>4. HasShape(image'[pRunningPcb]) /\ image'[pRunningPcb].Reg[0] = value
  BY <1>2, <1>3 DEF HasShape
<1>5. Shapes'
  <2>1. \A p \in Proc : HasShape(image'[p]) BY <1>3, <1>4 DEF MInv, Shapes
  <2> QED BY <1>3, <2>1 DEF MInv, Shapes, HasShape
<1>6. CpuInv' BY <1>1, ProcAssumption DEF CpuInv
<1>7. \A p \in Proc : Context(p) = image[p] /\ Context(p)' = image'[p]
  BY <1>1, ProcAssumption DEF Context
<1>8. OwnStep(pRunningPcb)
  <2>1. Context(pRunningPcb)' = [Context(pRunningPcb) EXCEPT !.Reg[0] = value]
    BY <1>1, <1>3, <1>7
  <2>2. Context(pRunningPcb)'.Reg[0] = value BY <1>1, <1>4, <1>7
  <2> QED BY <2>1, <2>2 DEF OwnStep
<1>9. \A p \in Proc : p # pRunningPcb => OwnStep(p)
  BY <1>3, <1>7 DEF OwnStep
<1> QED BY <1>5, <1>6, <1>8, <1>9 DEF Kept

LEMMA MIsrPrintKept == ASSUME MInv, MIsrPrint PROVE Kept
<1>1. phase = "isr" /\ UNCHANGED <<cpu, cpuOwner, pRunningPcb>>
  BY DEF MIsrPrint, IsrPrint, cpuVars, runVars
<1>2. \/ UNCHANGED image
      \/ \E value : image' = [image EXCEPT ![pRunningPcb].Reg[0] = value]
  BY DEF MIsrPrint
<1> QED BY <1>1, <1>2, SameRegisters, WritesResult

LEMMA MIsrReturnSharedMemPtrKept == ASSUME MInv, MIsrReturnSharedMemPtr PROVE Kept
<1>1. phase = "isr" /\ UNCHANGED <<cpu, cpuOwner, pRunningPcb>>
  BY DEF MIsrReturnSharedMemPtr, IsrReturnSharedMemPtr, ReturnTo, cpuVars, runVars
<1>2. \/ UNCHANGED image
      \/ \E value : image' = [image EXCEPT ![pRunningPcb].Reg[0] = value]
  BY DEF MIsrReturnSharedMemPtr
<1> QED BY <1>1, <1>2, SameRegisters, WritesResult

\* Only the child, which was not created before, gets registers.
LEMMA MIsrVForkKept == ASSUME MInv, MIsrVFork PROVE Kept
<1>1. /\ phase = "isr" /\ UNCHANGED <<cpu, cpuOwner, pRunningPcb>>
      /\ \A p \in Proc : pState[p] # CREATED => pState'[p] = pState[p]
  BY DEF MIsrVFork, IsrVFork, cpuVars, runVars, MInv, IInv, TypeOK
<1>2. pRunningPcb \in Proc /\ cpuOwner = NoProc
  BY <1>1 DEF MInv, IInv, InterruptPlace, CpuInv
<1>3. HasShape(Forked(pRunningPcb)) BY ClearedShape DEF Forked, HasShape
<1>4. image' = [p \in Proc |-> IF pState'[p] # pState[p] THEN Forked(pRunningPcb) ELSE image[p]]
  BY DEF MIsrVFork
<1>5. Shapes'
  <2>1. DOMAIN image' = Proc BY <1>4
  <2>2. \A p \in Proc : HasShape(image'[p]) BY <1>3, <1>4 DEF MInv, Shapes
  <2> QED BY <1>1, <2>1, <2>2 DEF MInv, Shapes, HasShape
<1>6. CpuInv' BY <1>1, <1>2, ProcAssumption DEF CpuInv
<1>7. ASSUME NEW p \in Proc PROVE OwnStep(p) \/ Born(p)
  <2>1. Context(p) = image[p] /\ Context(p)' = image'[p]
    BY <1>1, <1>2, ProcAssumption DEF Context
  <2>2. CASE image'[p] = image[p] BY <2>1, <2>2 DEF OwnStep
  <2>3. CASE image'[p] # image[p]
    <3>1. pState[p] = CREATED /\ image'[p] = Forked(pRunningPcb) BY <1>1, <1>4, <2>3
    <3> QED BY <2>1, <3>1 DEF Born
  <2> QED BY <2>2, <2>3
<1> QED BY <1>5, <1>6, <1>7 DEF Kept

LEMMA MOtherKept == ASSUME MInv, MOther \/ Run \/ Finished \/ UNCHANGED mVars PROVE Kept
<1> USE DEF MOther, machineVars, cpuVars, runVars, kernelVars, Fault
<1>1. CASE MOther /\ phase # "resume"
  <2>1. UNCHANGED <<cpu, image, cpuOwner, pRunningPcb>>
    BY <1>1 DEF Arrive, CallScheduler, EndRun, AdmitNew, KeepRunning, NoPreemption, Idle,
                IsrSemaphoreAquire, IsrSemaphoreRelease, IsrSemaphoreWait, Resume
  <2>2. phase' \in {"isr", "resume"} => phase = "isr"
    BY <1>1 DEF Arrive, CallScheduler, EndRun, AdmitNew, KeepRunning, NoPreemption, Idle,
                IsrSemaphoreAquire, IsrSemaphoreRelease, IsrSemaphoreWait, Resume,
                AfterDispatch, Faults
  <2> QED BY <2>1, <2>2, SameRegisters
<1>2. CASE MOther /\ phase = "resume"
  <2>1. Resume
    BY <1>2 DEF Arrive, CallScheduler, EndRun, AdmitNew, KeepRunning, NoPreemption, Idle,
                IsrSemaphoreAquire, IsrSemaphoreRelease, IsrSemaphoreWait
  <2>2. UNCHANGED <<cpu, image, cpuOwner>> BY <1>2, <2>1 DEF Resume
  <2>3. cpuOwner = NoProc BY <1>2 DEF MInv, CpuInv
  <2> QED BY <1>2, <2>2, <2>3, SameRegisters
<1>3. CASE Run
  <2>1. UNCHANGED <<cpu, image, cpuOwner, pRunningPcb>> /\ phase' = "loop"
    BY <1>3 DEF Run, StartRun
  <2> QED BY <2>1, SameRegisters
<1>4. CASE Finished \/ UNCHANGED mVars
  <2>1. UNCHANGED <<cpu, image, cpuOwner, pRunningPcb, phase>>
    BY <1>4 DEF Finished, mVars, vars
  <2> QED BY <2>1, SameRegisters
<1> QED BY <1>1, <1>2, <1>3, <1>4

LEMMA StepKept == MInv /\ [MNext]_mVars => MInv' /\ Kept
<1> SUFFICES ASSUME MInv, [MNext]_mVars PROVE MInv' /\ Kept OBVIOUS
<1>1. Kept
  BY MDispatchKept, MPreemptKept, MInstructionKept, MTrapKept, MHaltKept, MIsrPrintKept,
     MIsrVForkKept, MIsrReturnSharedMemPtrKept, MOtherKept DEF MNext, MKernelStep
<1>2. IInv' BY MNextInv DEF MInv
<1> QED BY <1>1, <1>2 DEF MInv, Kept

LEMMA StartedShapes == ASSUME NEW loaded, NEW linked, Started(loaded, linked) PROVE Shapes /\ CpuInv
<1>1. cpu = Cleared /\ image = [p \in Proc |-> FirstInstruction] BY DEF Started
<1>2. Shapes BY <1>1, ClearedShape DEF Shapes
<1>3. CpuInv BY ProcAssumption DEF Started, CpuInv
<1> QED BY <1>2, <1>3

----------------------------------------------------------------------------
(* The theorems.                                                           *)

\* A machine started on programs loaded once each, linked by oshm and insm or
\* not: the scheduler loses, duplicates and misfiles none of them.
THEOREM ProgramsSafe ==
    ASSUME NEW CONSTANT loaded \in Seq(Proc), IsInjective(loaded),
           NEW CONSTANT linked \in SUBSET Proc
    PROVE  Started(loaded, linked) /\ [][MNext]_mVars => []MInv
<1>1. Started(loaded, linked) => MInv BY StartedInv, StartedShapes DEF MInv
<1>2. MInv /\ [MNext]_mVars => MInv' BY StepKept
<1> QED BY <1>1, <1>2, PTL

\* No process disturbs the registers of another, whatever the programs do and
\* wherever they are preempted, interrupted or ended.
THEOREM OwnStepsHold ==
    ASSUME NEW CONSTANT loaded \in Seq(Proc), IsInjective(loaded),
           NEW CONSTANT linked \in SUBSET Proc
    PROVE  Started(loaded, linked) /\ [][MNext]_mVars => OwnSteps
<1>1. MInv /\ [MNext]_mVars => [\A p \in Proc : pState[p] # CREATED => OwnStep(p)]_mVars
  BY StepKept DEF Kept, Born
<1> QED BY <1>1, ProgramsSafe, PTL DEF OwnSteps

\* Real programs too move only as module Lifecycle lets them: with registers, memory
\* and output, every step of the machine is one of its moves, or none.
THEOREM MachineImplemented ==
    ASSUME NEW CONSTANT loaded \in Seq(Proc), IsInjective(loaded),
           NEW CONSTANT linked \in SUBSET Proc
    PROVE  Started(loaded, linked) /\ [][MNext]_mVars => [][Abstract!Next]_(Abstract!lifeVars)
<1>1. Started(loaded, linked) => IInv BY StartedInv
<1>2. IInv /\ [MNext]_mVars => IInv' BY MNextInv
<1>3. IInv /\ IInv' /\ [MNext]_mVars => [Abstract!Next]_(Abstract!lifeVars)
  BY MNextIsNext, NextImplemented DEF mVars
<1> QED BY <1>1, <1>2, <1>3, PTL

----------------------------------------------------------------------------
(* Types, and where each process stands in its program.                    *)

\* Nothing happens after a fault.
LEMMA FaultStops == ASSUME phase \in Faults, [Next]_vars PROVE UNCHANGED vars
<1> USE DEF Faults
<1>1. ~ShellStep
  BY DEF ShellStep, SetScheduler, LoadProgram, InitSemaphore, LinkSemaphore, OpenSharedMemory,
       StartRun
<1>2. ~Arrive /\ ~CallScheduler /\ ~EndRun
  BY DEF Arrive, CallScheduler, EndRun
<1>3. ~SchedulerStep
  BY DEF SchedulerStep, AdmitNew, Dispatch, KeepRunning, PreemptRR, PreemptMLFQ, NoPreemption,
     Idle, Instruction, Halt, HaltTo, Trap, IsrPrint, IsrVFork, IsrReturnSharedMemPtr, ReturnTo,
     IsrSemaphoreAquire, IsrSemaphoreRelease, IsrSemaphoreWait, Resume
<1> QED BY <1>1, <1>2, <1>3 DEF Next, KernelStep, Faulted

\* What has ended is over, and stays so.
LEMMA EndedOver ==
    ASSUME IInv, SInv, phase \notin Faults, NEW p \in Proc, pState[p] = TERMINATED
    PROVE  Over(p)
<1>1. CASE InQueue(queue, p)
  <2>1. PICK id \in QueueId : In(queue, p, id) BY <1>1 DEF InQueue
  <2>2. StateOf(id) = TERMINATED BY <2>1 DEF SInv, Placed
  <2>3. id = "terminatedQueue"
    BY <2>2 DEF StateOf, NEWLY, READY, WAITING, TERMINATED
  <2> QED BY <2>1, <2>3 DEF Over
<1>2. CASE p \in logged BY <1>2 DEF Over
<1>3. CASE p = pRunningPcb /\ ~InQueue(queue, p)
  <2>1. phase \notin {"isr", "resume"}
    BY <1>3, InIsr, QueueNames DEF IInv, InterruptPlace, InQueue
  <2>2. phase \in {"loop", "admit", "preempt", "execute"}
    BY <1>3, <2>1, ProcAssumption DEF IInv, TypeOK, Phases, NothingToPreempt
  <2> QED BY <1>3, <2>2, ProcAssumption DEF SInv, RunningState, READY, RUNNING, TERMINATED
<1> QED BY <1>1, <1>2, <1>3 DEF IInv, NotLost, CREATED, TERMINATED

LEMMA EndedStays ==
    ASSUME IInv, SInv, [Next]_vars, NEW p \in Proc, pState[p] = TERMINATED
    PROVE  pState'[p] = TERMINATED
<1>1. CASE phase \in Faults BY <1>1, FaultStops DEF vars
<1>2. CASE phase \notin Faults
  <2>1. Over(p)' BY <1>2, EndedOver, OverStays
  <2>2. SInv' BY NextPlaced
  <2> QED BY <2>1, <2>2, StateOfNames, QueueNames DEF Over, SInv, Placed
<1> QED BY <1>1, <1>2

\* No process goes back to not being created.
LEMMA CreatedStays ==
    ASSUME IInv, [Next]_vars, NEW p \in Proc, pState'[p] = CREATED
    PROVE  pState[p] = CREATED
<1>1. {} \in SUBSET Sem /\ Closed({}) BY DEF Closed
<1> QED BY <1>1, Moves

\* The interrupt being served is that of the instruction before the process's PC.
Trapped ==
    phase = "isr" =>
        \E k \in DOMAIN Code[pRunningPcb] :
            /\ k + 1 = image[pRunningPcb].PC
            /\ Code[pRunningPcb][k].op = "SWI" /\ Code[pRunningPcb][k].a # 10
            /\ returnCode = ReturnCode(Code[pRunningPcb][k].a)

Types ==
    /\ cpu \in Contexts /\ image \in [Proc -> Contexts]
    /\ DOMAIN memory \subseteq Words /\ \A a \in DOMAIN memory : memory[a] \in Int
    /\ output \in Seq({PRINT_INT, PRINT} \X Int)
AtCode == \A p \in Proc : pState[p] # TERMINATED => Context(p).PC \in DOMAIN Code[p]
Loaded(loaded) == \A p \in Proc : pState[p] = CREATED => p \notin Range(loaded)

TInv(loaded) == MInv /\ SInv /\ Types /\ AtCode /\ Trapped /\ Loaded(loaded)

LEMMA SetRegType ==
    ASSUME NEW c \in Contexts, NEW r \in Registers, NEW v \in Int
    PROVE  /\ SetReg(c, r, v) \in Contexts
           /\ SetReg(c, r, v).PC = c.PC + 1 /\ SetReg(c, r, v).Z = c.Z
           /\ SetReg(c, r, v).Reg = [c.Reg EXCEPT ![r] = v]
<1>1. c.Reg \in [Registers -> Int] /\ c.PC \in Int /\ c.Z \in Int BY DEF Contexts
<1>2. [c.Reg EXCEPT ![r] = v] \in [Registers -> Int] BY <1>1
<1>3. c.PC + 1 \in Int BY <1>1
<1>4. SetReg(c, r, v) = [c EXCEPT !.Reg = [c.Reg EXCEPT ![r] = v], !.PC = c.PC + 1]
  BY DEF SetReg, Contexts
<1> QED BY <1>1, <1>2, <1>3, <1>4 DEF Contexts

\* No other field matters when the PC or Z is set.
WithPC(c, k) == [c EXCEPT !.PC = k]
WithZ(c, z) == [c EXCEPT !.Z = z]

LEMMA WithType ==
    ASSUME NEW c \in Contexts, NEW k \in Int
    PROVE  /\ WithPC(c, k) \in Contexts
           /\ WithPC(c, k).PC = k /\ WithPC(c, k).Reg = c.Reg /\ WithPC(c, k).Z = c.Z
           /\ WithZ(c, k) \in Contexts
           /\ WithZ(c, k).PC = c.PC /\ WithZ(c, k).Reg = c.Reg /\ WithZ(c, k).Z = k
BY DEF Contexts, WithPC, WithZ

Jumps == {"B", "BL", "BEQ", "BNE", "BGT", "BLT"}

LEMMA TargetFollows ==
    ASSUME NEW i, i.op \in Jumps, NEW k
    PROVE  /\ i.a \in Successors(i, k)
           /\ i.op \notin {"B", "BL"} => k + 1 \in Successors(i, k)
<1>1. CASE i.op \in {"B", "BL"} BY <1>1 DEF Successors, SWI, Op
<1>2. CASE i.op \in {"BEQ", "BNE", "BGT", "BLT"}
  <2>1. i.op \notin {"B", "BL"} BY <1>2
  <2>2. Successors(i, k) = {i.a, k + 1} BY <1>2, <2>1 DEF Successors, SWI, Op
  <2> QED BY <2>2
<1> QED BY <1>1, <1>2 DEF Jumps

LEMMA AfterBranch ==
    ASSUME NEW i, i.op \in Jumps, NEW c \in Contexts, NEW mem
    PROVE  \/ AfterOp(i, c, mem) = WithPC(c, i.a)
           \/ AfterOp(i, c, mem) = WithPC(c, c.PC + 1) /\ i.op \notin {"B", "BL"}
<1>1. /\ Branch(c, TRUE, i.a) = WithPC(c, i.a)
      /\ Branch(c, FALSE, i.a) = WithPC(c, c.PC + 1)
  BY DEF Branch, WithPC
<1>0. c.Z \in Int BY DEF Contexts
<1>2. CASE i.op \in {"B", "BL"} BY <1>1, <1>2 DEF AfterOp
<1>3. CASE i.op = "BEQ"
  <2>1. AfterOp(i, c, mem) = Branch(c, c.Z = 0, i.a) BY <1>3 DEF AfterOp
  <2> QED BY <1>1, <1>3, <2>1
<1>4. CASE i.op = "BNE"
  <2>1. AfterOp(i, c, mem) = Branch(c, c.Z # 0, i.a) BY <1>4 DEF AfterOp
  <2> QED BY <1>1, <1>4, <2>1
<1>5. CASE i.op = "BGT"
  <2>1. AfterOp(i, c, mem) = Branch(c, c.Z > 0, i.a) BY <1>5 DEF AfterOp
  <2>2. (c.Z > 0) \in BOOLEAN BY <1>0
  <2> QED BY <1>1, <1>5, <2>1, <2>2
<1>6. CASE i.op = "BLT"
  <2>1. AfterOp(i, c, mem) = Branch(c, c.Z < 0, i.a) BY <1>6 DEF AfterOp
  <2>2. (c.Z < 0) \in BOOLEAN BY <1>0
  <2> QED BY <1>1, <1>6, <2>1, <2>2
<1> QED BY <1>2, <1>3, <1>4, <1>5, <1>6 DEF Jumps

LEMMA QuotientType ==
    ASSUME NEW x \in Int, NEW y \in Int, y # 0
    PROVE  Quotient(x, y) \in Int
<1>1. Magnitude(x) \in Nat /\ Magnitude(y) \in Nat /\ Magnitude(y) > 0 BY DEF Magnitude
<1>2. Magnitude(x) \div Magnitude(y) \in Int BY <1>1
<1> QED BY <1>2 DEF Quotient

LEMMA AfterOpType ==
    ASSUME NEW i, Operands(i), NEW c \in Contexts, NEW mem,
           i.op \in {"LDR", "LDRB"} => mem[c.Reg[i.b]] \in Int,
           i.op = "DIV" => c.Reg[i.c] # 0,
           Successors(i, c.PC) \subseteq Int
    PROVE  AfterOp(i, c, mem) \in Contexts
<1>1. c.PC \in Int /\ c.Z \in Int /\ \A r \in Registers : c.Reg[r] \in Int BY DEF Contexts
<1>2. CASE i.op \in {"ADD", "SUB", "MUL"}
  <2>1. {i.a, i.b, i.c} \subseteq Registers BY <1>2 DEF Operands
  <2>2. /\ c.Reg[i.b] + c.Reg[i.c] \in Int /\ c.Reg[i.b] - c.Reg[i.c] \in Int
        /\ c.Reg[i.b] * c.Reg[i.c] \in Int
    BY <1>1, <2>1
  <2> QED BY <1>2, <2>1, <2>2, SetRegType DEF AfterOp
<1>3. CASE i.op \in {"MOV", "MVI", "ADR", "LDR"}
  BY <1>1, <1>3, SetRegType DEF AfterOp, Operands
<1>7. CASE i.op = "DIV"
  <2>1. {i.a, i.b, i.c} \subseteq Registers BY <1>7 DEF Operands
  <2>2. Quotient(c.Reg[i.b], c.Reg[i.c]) \in Int BY <1>1, <1>7, <2>1, QuotientType
  <2> QED BY <1>7, <2>1, <2>2, SetRegType DEF AfterOp
<1>8. CASE i.op = "LDRB"
  <2>1. LowByte(mem[c.Reg[i.b]]) \in Int BY <1>8 DEF LowByte
  <2> QED BY <1>8, <2>1, SetRegType DEF AfterOp, Operands
<1>4. CASE i.op = "CMP"
  <2> DEFINE z == c.Reg[i.a] - c.Reg[i.b]
  <2>1. z \in Int BY <1>1, <1>4 DEF Operands
  <2>2. AfterOp(i, c, mem) = [c EXCEPT !.Z = z, !.PC = @ + 1] BY <1>4 DEF AfterOp
  <2>3. [c EXCEPT !.Z = z, !.PC = @ + 1] = WithPC(WithZ(c, z), c.PC + 1)
    BY DEF WithPC, WithZ, Contexts
  <2> HIDE DEF z
  <2>4. WithZ(c, z) \in Contexts BY <2>1, WithType
  <2>5. c.PC + 1 \in Int BY <1>1
  <2> QED BY <2>2, <2>3, <2>4, <2>5, WithType
<1>5. CASE i.op \in Jumps
  <2>1. i.a \in Successors(i, c.PC) BY <1>5, TargetFollows
  <2>2. AfterOp(i, c, mem) \in {WithPC(c, i.a), WithPC(c, c.PC + 1)}
    BY <1>5, AfterBranch
  <2> QED BY <1>1, <2>1, <2>2, WithType
<1>6. CASE i.op \notin {"ADD", "SUB", "MUL", "DIV", "MOV", "MVI", "ADR", "LDR", "LDRB", "CMP"}
                       \cup Jumps
  <2>1. AfterOp(i, c, mem) = WithPC(c, c.PC + 1) BY <1>6 DEF AfterOp, WithPC, Jumps
  <2> QED BY <1>1, <2>1, WithType
<1> QED BY <1>2, <1>3, <1>4, <1>5, <1>6, <1>7, <1>8

LEMMA AfterOpNext ==
    ASSUME NEW i, Operands(i), NEW c \in Contexts, NEW mem, i # SWI(10),
           Successors(i, c.PC) \subseteq Int
    PROVE  AfterOp(i, c, mem).PC \in Successors(i, c.PC)
<1>0. c.PC + 1 \in Int BY DEF Contexts
<1>1. CASE i.op \in Jumps
  <2>1. i.a \in Int BY <1>1, TargetFollows
  <2>2. WithPC(c, i.a).PC = i.a /\ WithPC(c, c.PC + 1).PC = c.PC + 1 BY <1>0, <2>1, WithType
  <2> QED BY <1>1, <2>2, TargetFollows, AfterBranch
<1>2. CASE i.op \notin Jumps
  <2>1. Successors(i, c.PC) = {c.PC + 1} BY <1>2 DEF Successors, Jumps
  <2>2. \A r, v : SetReg(c, r, v).PC = c.PC + 1 BY DEF SetReg, Contexts
  <2>3. CASE i.op = "CMP" BY <2>1, <2>3 DEF AfterOp, Contexts
  <2>4. CASE i.op \in {"ADD", "SUB", "MUL", "DIV", "MOV", "MVI", "ADR", "LDR", "LDRB"}
    BY <2>1, <2>2, <2>4 DEF AfterOp
  <2>5. CASE i.op \notin {"CMP", "ADD", "SUB", "MUL", "DIV", "MOV", "MVI", "ADR", "LDR", "LDRB"}
    <3>1. AfterOp(i, c, mem) = WithPC(c, c.PC + 1) BY <1>2, <2>5 DEF AfterOp, WithPC, Jumps
    <3>2. WithPC(c, c.PC + 1).PC = c.PC + 1 BY <1>0, WithType
    <3> QED BY <2>1, <3>1, <3>2
  <2> QED BY <2>3, <2>4, <2>5
<1> QED BY <1>1, <1>2

\* Wherever a process stands, the instruction there has an operand for everything
\* it uses and somewhere to go on.
LEMMA AtInstruction ==
    ASSUME Types, AtCode, NEW p \in Proc, WellFormed(Code[p]), pState[p] # TERMINATED
    PROVE  LET c == Context(p)
               i == Code[p][c.PC]
           IN  /\ c \in Contexts /\ c.PC \in DOMAIN Code[p] /\ c.PC \in Int
               /\ Operands(i) /\ Successors(i, c.PC) \subseteq DOMAIN Code[p]
               /\ Successors(i, c.PC) \subseteq Int
<1> DEFINE c == Context(p)
           i == Code[p][c.PC]
<1>1. c \in Contexts BY DEF Types, Context
<1>2. c.PC \in DOMAIN Code[p] BY DEF AtCode
<1>3. /\ DOMAIN Code[p] \subseteq Int
      /\ \A k \in DOMAIN Code[p] : Operands(Code[p][k]) /\ Successors(Code[p][k], k) \subseteq DOMAIN Code[p]
  BY DEF WellFormed
<1>4. Operands(i) /\ Successors(i, c.PC) \subseteq DOMAIN Code[p] BY <1>2, <1>3
<1> QED BY <1>1, <1>2, <1>3, <1>4

\* The process that executes has not ended.
LEMMA ExecutingInstruction ==
    ASSUME MInv, SInv, Types, AtCode, \A p \in Proc : WellFormed(Code[p]),
           phase = "execute", pRunningPcb # NoProc
    PROVE  /\ pRunningPcb \in Proc /\ cpuOwner = pRunningPcb /\ Context(pRunningPcb) = cpu
           /\ pState[pRunningPcb] # TERMINATED
           /\ cpu \in Contexts /\ cpu.PC \in DOMAIN Code[pRunningPcb] /\ cpu.PC \in Int
           /\ Operands(Fetched) /\ Successors(Fetched, cpu.PC) \subseteq DOMAIN Code[pRunningPcb]
           /\ Successors(Fetched, cpu.PC) \subseteq Int
<1>1. pRunningPcb \in Proc /\ cpuOwner = pRunningPcb /\ Context(pRunningPcb) = cpu
  BY Executing
<1>2. pState[pRunningPcb] # TERMINATED
  BY DEF SInv, RunningState, READY, RUNNING, TERMINATED
<1> QED BY <1>1, <1>2, AtInstruction DEF Fetched

LEMMA Waiting ==
    ASSUME MInv, SInv, phase = "isr"
    PROVE  /\ pRunningPcb \in Proc /\ pState[pRunningPcb] = WAITING
           /\ cpuOwner = NoProc /\ \A p \in Proc : Context(p) = image[p]
<1>1. pRunningPcb \in Proc /\ In(queue, pRunningPcb, "waitingQueue") BY InIsr DEF MInv
<1>2. pState[pRunningPcb] = StateOf("waitingQueue") BY <1>1, QueueNames DEF SInv, Placed
<1>3. StateOf("waitingQueue") = WAITING BY StateOfNames
<1>4. cpuOwner = NoProc BY DEF MInv, CpuInv
<1> QED BY <1>1, <1>2, <1>3, <1>4, ProcAssumption DEF Context

\* Steps that move neither registers, memory nor output.
LEMMA TypesStutter == ASSUME Types, UNCHANGED machineVars PROVE Types'
BY DEF Types, machineVars

LEMMA TypesSwitch == ASSUME MInv, Types, MDispatch \/ MPreempt PROVE Types'
<1>1. CASE MDispatch
  <2>1. Dispatch /\ IInv /\ IInv' /\ pRunningPcb' = NextReady(queue)
    BY <1>1, DispatchStep DEF MInv, MDispatch, Dispatch
  <2>2. NextReady(queue) \in Proc
    <3>1. phase' \in {"execute", "preempt"} /\ NextReady(queue) # NoProc
      BY <2>1 DEF Dispatch, AfterDispatch, IInv, NoNullDeref
    <3> QED BY <2>1, <3>1 DEF IInv, TypeOK
  <2> QED BY <1>1, <2>2 DEF MDispatch, Types
<1>2. CASE MPreempt
  <2>1. image' = [image EXCEPT ![pRunningPcb] = cpu] /\ cpu' = image'[pRunningPcb']
        /\ pRunningPcb' \in Proc /\ UNCHANGED <<memory, output>>
    BY <1>2, MPreemptSwitches DEF MPreempt
  <2>2. image' \in [Proc -> Contexts] BY <2>1 DEF Types
  <2>3. cpu' \in Contexts BY <2>1, <2>2
  <2> QED BY <2>1, <2>2, <2>3 DEF Types
<1> QED BY <1>1, <1>2

LEMMA TypesInstruction ==
    ASSUME MInv, SInv, Types, AtCode, \A p \in Proc : WellFormed(Code[p]), MInstruction
    PROVE  Types'
<1> DEFINE i == Fetched
<1>1. /\ phase = "execute" /\ pRunningPcb # NoProc /\ ~Segfault(i, cpu, memory)
      /\ Defined(i, cpu, memory)
      /\ cpu' = AfterOp(i, cpu, memory) /\ memory' = AfterStore(i, cpu, memory)
      /\ UNCHANGED <<image, output>>
  BY DEF MInstruction, Instruction
<1>2. cpu \in Contexts /\ Operands(i) /\ Successors(i, cpu.PC) \subseteq Int
  BY <1>1, ExecutingInstruction
<1> HIDE DEF i
<1>3. /\ i.op \in {"LDR", "LDRB"} => memory[cpu.Reg[i.b]] \in Int
      /\ i.op = "DIV" => cpu.Reg[i.c] # 0
  BY <1>1 DEF Segfault, Defined, Types
<1>4. cpu' \in Contexts BY <1>1, <1>2, <1>3, AfterOpType
<1>5. DOMAIN memory' \subseteq Words /\ \A a \in DOMAIN memory' : memory'[a] \in Int
  <2>1. CASE i.op = "STR"
    <3>1. cpu.Reg[i.a] \in Int BY <1>2, <2>1 DEF Operands, Contexts
    <3>2. memory' = [memory EXCEPT ![cpu.Reg[i.b]] = cpu.Reg[i.a]] BY <1>1, <2>1 DEF AfterStore
    <3> QED BY <3>1, <3>2 DEF Types
  <2>2. CASE i.op # "STR" BY <1>1, <2>2 DEF AfterStore, Types
  <2> QED BY <2>1, <2>2
<1> QED BY <1>1, <1>4, <1>5 DEF Types

LEMMA ClearedType == Cleared \in Contexts /\ FirstInstruction \in Contexts
BY DEF Cleared, FirstInstruction, Contexts

LEMMA TypesTrap ==
    ASSUME MInv, SInv, Types, AtCode, \A p \in Proc : WellFormed(Code[p]), MTrap
    PROVE  Types'
<1> DEFINE i == Fetched
<1>1. /\ phase = "execute" /\ pRunningPcb # NoProc /\ i.op = "SWI"
      /\ image' = [image EXCEPT ![pRunningPcb] = AfterOp(i, cpu, memory)]
      /\ cpu' = Cleared /\ UNCHANGED <<memory, output>>
  BY DEF MTrap, Instruction
<1>2. cpu \in Contexts /\ Operands(i) /\ Successors(i, cpu.PC) \subseteq Int
  BY <1>1, ExecutingInstruction
<1> HIDE DEF i
<1>3. AfterOp(i, cpu, memory) \in Contexts BY <1>1, <1>2, AfterOpType
<1> QED BY <1>1, <1>3, ClearedType DEF Types

LEMMA TypesHalt ==
    ASSUME MInv, SInv, Types, AtCode, \A p \in Proc : WellFormed(Code[p]), MHalt
    PROVE  Types'
<1>1. /\ phase = "execute" /\ pRunningPcb # NoProc
      /\ cpu' = cpu \/ cpu' = [cpu EXCEPT !.PC = @ + 1]
      /\ image' = [image EXCEPT ![pRunningPcb] = cpu']
      /\ memory' = AfterDeallocation(pRunningPcb) /\ UNCHANGED output
  BY DEF MHalt, Halt, HaltTo
<1>2. cpu \in Contexts /\ cpu.PC + 1 \in Int BY <1>1, ExecutingInstruction
<1>3. [cpu EXCEPT !.PC = @ + 1] \in Contexts
  <2>1. [cpu EXCEPT !.PC = @ + 1] = WithPC(cpu, cpu.PC + 1) BY DEF WithPC
  <2> QED BY <1>2, <2>1, WithType
<1>4. cpu' \in Contexts BY <1>1, <1>2, <1>3
<1>5. memory' = memory \/ DOMAIN memory' = {} BY <1>1 DEF AfterDeallocation
<1> QED BY <1>1, <1>4, <1>5 DEF Types

\* An interrupt that leaves an integer in register 0 of the process it serves.
LEMMA TypesResult ==
    ASSUME MInv, SInv, Types, phase = "isr", NEW v \in Int,
           image' = [image EXCEPT ![pRunningPcb].Reg[0] = v]
    PROVE  image' \in [Proc -> Contexts]
<1> DEFINE c == image[pRunningPcb]
<1>1. pRunningPcb \in Proc /\ c \in Contexts BY Waiting DEF Types
<1>2. image' = [image EXCEPT ![pRunningPcb] = [c EXCEPT !.Reg = [c.Reg EXCEPT ![0] = v]]]
  BY DEF Contexts
<1>3. [c EXCEPT !.Reg = [c.Reg EXCEPT ![0] = v]] \in Contexts
  BY <1>1 DEF Contexts, Registers
<1> QED BY <1>1, <1>2, <1>3 DEF Types

LEMMA TypesPrint == ASSUME MInv, SInv, Types, MIsrPrint PROVE Types'
<1> DEFINE v == image[pRunningPcb].Reg[0]
<1>1. /\ phase = "isr" /\ returnCode \in {PRINT_INT, PRINT, INPUT}
      /\ UNCHANGED <<cpu, memory>>
      /\ output' = IF returnCode = INPUT THEN output ELSE Append(output, <<returnCode, v>>)
      /\ image' = IF returnCode = PRINT /\ v \in DOMAIN Strings
                  THEN [image EXCEPT ![pRunningPcb].Reg[0] = Strings[v]] ELSE image
  BY DEF MIsrPrint, IsrPrint
<1>2. v \in Int
  <2>1. image[pRunningPcb] \in Contexts BY <1>1, Waiting DEF Types
  <2> QED BY <2>1 DEF Contexts, Registers
<1> HIDE DEF v
<1>3. output' \in Seq({PRINT_INT, PRINT} \X Int) BY <1>1, <1>2 DEF Types
<1>4. image' \in [Proc -> Contexts] BY <1>1, TypesResult, AddressAssumption DEF Types
<1> QED BY <1>1, <1>3, <1>4 DEF Types

LEMMA ForkedType == ASSUME Types, NEW p \in Proc
                    PROVE  Forked(p) \in Contexts /\ Forked(p).PC = image[p].PC
<1>1. Forked(p) = WithZ(WithPC(Cleared, image[p].PC), 1) BY DEF Forked, WithZ, WithPC, Cleared
<1>2. image[p].PC \in Int BY DEF Types, Contexts
<1>3. WithPC(Cleared, image[p].PC) \in Contexts /\ WithPC(Cleared, image[p].PC).PC = image[p].PC
  BY <1>2, ClearedType, WithType
<1> QED BY <1>1, <1>3, WithType

LEMMA TypesInterrupt ==
    ASSUME MInv, SInv, Types, MIsrVFork \/ MIsrReturnSharedMemPtr
    PROVE  Types'
<1>1. CASE MIsrVFork
  <2>1. pRunningPcb \in Proc BY <1>1, Waiting DEF MIsrVFork, IsrVFork
  <2>2. image' \in [Proc -> Contexts] BY <1>1, <2>1, ForkedType DEF MIsrVFork, Types
  <2> QED BY <1>1, <2>2 DEF MIsrVFork, Types
<1>2. CASE MIsrReturnSharedMemPtr
  <2>1. phase = "isr" BY <1>2 DEF MIsrReturnSharedMemPtr, IsrReturnSharedMemPtr, ReturnTo
  <2>2. image' \in [Proc -> Contexts]
    BY <1>2, <2>1, TypesResult, AddressAssumption DEF MIsrReturnSharedMemPtr, Types
  <2> QED BY <1>2, <2>2 DEF MIsrReturnSharedMemPtr, Types
<1> QED BY <1>1, <1>2

LEMMA TypesStep ==
    ASSUME MInv, SInv, Types, AtCode, \A p \in Proc : WellFormed(Code[p]), [MNext]_mVars
    PROVE  Types'
<1>1. CASE MOther \/ Run \/ Finished \/ UNCHANGED mVars
  BY <1>1, TypesStutter DEF MOther, Run, Finished, mVars
<1> QED
  BY <1>1, TypesSwitch, TypesInstruction, TypesTrap, TypesHalt, TypesPrint, TypesInterrupt
  DEF MNext, MKernelStep

\* A step of the machine is a step of the scheduler for the lemmas of SchedulerProofs.
LEMMA MNextMoves ==
    ASSUME MInv, SInv, [MNext]_mVars
    PROVE  /\ MInv' /\ SInv' /\ Kept
           /\ \A p \in Proc : pState[p] = TERMINATED => pState'[p] = TERMINATED
           /\ \A p \in Proc : pState'[p] = CREATED => pState[p] = CREATED
<1>1. [Next]_vars BY MNextIsNext DEF mVars
<1> QED BY <1>1, StepKept, NextPlaced, EndedStays, CreatedStays DEF MInv

\* SWI 10 is the end of a process.
LEMMA ExitEnds ==
    ASSUME MInv, SInv, [MNext]_mVars, phase = "execute", NEW p \in Proc, pRunningPcb = p,
           Fetched = SWI(10)
    PROVE  Context(p)' = Context(p) \/ pState'[p] = TERMINATED
<1>1. Fetched.op = "SWI" /\ Fetched.a = 10 BY DEF SWI, Op
<1>2. CASE MHalt
  BY <1>2, Executing DEF MHalt, Halt, HaltTo, MInv, IInv, TypeOK
<1>3. CASE MOther \/ Run \/ Finished \/ UNCHANGED mVars
  <2>1. UNCHANGED machineVars BY <1>3 DEF MOther, Run, Finished, mVars
  <2>2. UNCHANGED cpuOwner
    BY <1>3 DEF MOther, Arrive, CallScheduler, EndRun, AdmitNew, KeepRunning, NoPreemption, Idle,
                IsrSemaphoreAquire, IsrSemaphoreRelease, IsrSemaphoreWait, Resume, Run, StartRun,
                Finished, mVars, vars, cpuVars, runVars, kernelVars, Fault
  <2> QED BY <2>1, <2>2 DEF Context, machineVars
<1>4. ~MDispatch /\ ~MPreempt /\ ~MIsrPrint /\ ~MIsrVFork /\ ~MIsrReturnSharedMemPtr
  BY DEF MDispatch, Dispatch, MPreempt, PreemptRR, PreemptMLFQ, MIsrPrint, IsrPrint, MIsrVFork,
         IsrVFork, MIsrReturnSharedMemPtr, IsrReturnSharedMemPtr, ReturnTo
<1>5. ~MInstruction /\ ~MTrap BY <1>1 DEF MInstruction, MTrap
<1> QED BY <1>2, <1>3, <1>4, <1>5 DEF MNext, MKernelStep

\* A process that moves goes to an instruction of its program, or ends.
LEMMA AtCodeStep ==
    ASSUME NEW loaded, SoundPrograms(loaded), TInv(loaded), [MNext]_mVars
    PROVE  AtCode'
<1> SUFFICES ASSUME NEW p \in Proc, pState'[p] # TERMINATED
             PROVE  Context(p)'.PC \in DOMAIN Code[p]
  BY DEF AtCode
<1> DEFINE c == Context(p)
<1>1. MInv /\ SInv /\ Types /\ AtCode /\ Trapped /\ Loaded(loaded) BY DEF TInv
<1>2. OwnStep(p) \/ Born(p) BY <1>1, MNextMoves DEF Kept
<1>3. pState[p] # TERMINATED BY <1>1, MNextMoves
<1>4. WellFormed(Code[p]) /\ \A q \in Proc : WellFormed(Code[q]) BY DEF SoundPrograms
<1>5. /\ c \in Contexts /\ c.PC \in DOMAIN Code[p]
      /\ Operands(Code[p][c.PC]) /\ Successors(Code[p][c.PC], c.PC) \subseteq DOMAIN Code[p]
      /\ Successors(Code[p][c.PC], c.PC) \subseteq Int
  BY <1>1, <1>3, <1>4, AtInstruction
<1>6. CASE Context(p)' = c BY <1>5, <1>6
<1>7. CASE phase = "execute" /\ pRunningPcb = p /\ Context(p)' = AfterOp(Code[p][c.PC], c, memory)
  <2>1. pRunningPcb # NoProc /\ Fetched = Code[p][c.PC]
    BY <1>1, <1>7, Executing, ProcAssumption DEF Fetched
  <2>2. CASE Fetched = SWI(10)
    BY <1>1, <1>6, <1>7, <2>1, <2>2, ExitEnds
  <2>3. CASE Fetched # SWI(10)
    <3>1. AfterOp(Code[p][c.PC], c, memory).PC \in Successors(Code[p][c.PC], c.PC)
      BY <1>5, <2>1, <2>3, AfterOpNext
    <3> QED BY <1>5, <1>7, <3>1
  <2> QED BY <2>2, <2>3
<1>8. CASE Context(p)' = [c EXCEPT !.Reg[0] = Context(p)'.Reg[0]]
  BY <1>5, <1>8 DEF Contexts
<1>9. CASE Born(p)
  <2> DEFINE parent == pRunningPcb
  <2>1. phase = "isr" /\ returnCode = FORK /\ pState[p] = CREATED /\ Context(p)' = Forked(parent)
    BY <1>9 DEF Born, MIsrVFork, IsrVFork
  <2>2. parent \in Proc /\ pState[parent] = WAITING /\ Context(parent) = image[parent]
    BY <1>1, <2>1, Waiting
  <2>3. image[parent].PC \in DOMAIN Code[parent]
    BY <1>1, <2>2 DEF AtCode, WAITING, TERMINATED
  <2>4. Forks(parent)
    <3>1. PICK k \in DOMAIN Code[parent] :
            Code[parent][k].op = "SWI" /\ FORK = ReturnCode(Code[parent][k].a)
      BY <1>1, <2>1 DEF Trapped
    <3>2. Operands(Code[parent][k]) BY <1>4, <2>2 DEF WellFormed
    <3>3. Code[parent][k].a \in Int BY <3>1, <3>2 DEF Operands
    <3>4. Code[parent][k].a = 3 BY <3>1, <3>3 DEF ReturnCode, FORK, HALT
    <3> QED BY <3>1, <3>4 DEF Forks
  <2>5. p \notin Range(loaded) BY <1>1, <2>1 DEF Loaded
  <2>6. Code[p] = Code[parent] BY <2>2, <2>4, <2>5 DEF SoundPrograms
  <2>7. Forked(parent).PC = image[parent].PC BY <1>1, <2>2, ForkedType
  <2> QED BY <2>1, <2>3, <2>6, <2>7
<1> QED BY <1>2, <1>6, <1>7, <1>8, <1>9 DEF OwnStep

LEMMA TrappedStep ==
    ASSUME MInv, SInv, Types, AtCode, Trapped, \A p \in Proc : WellFormed(Code[p]), [MNext]_mVars
    PROVE  Trapped'
<1>1. CASE MTrap
  <2> DEFINE i == Fetched
             r == pRunningPcb
  <2>1. /\ phase = "execute" /\ r # NoProc /\ i.op = "SWI" /\ i.a # 10
        /\ returnCode' = ReturnCode(i.a) /\ UNCHANGED pRunningPcb
        /\ image' = [image EXCEPT ![r] = AfterOp(i, cpu, memory)]
    BY <1>1 DEF MTrap, Trap
  <2>2. r \in Proc /\ cpu \in Contexts /\ cpu.PC \in DOMAIN Code[r] /\ i = Code[r][cpu.PC]
    BY <2>1, ExecutingInstruction DEF Fetched
  <2>3. image'[r] = AfterOp(i, cpu, memory) BY <2>1, <2>2 DEF Types
  <2>4. AfterOp(i, cpu, memory).PC = cpu.PC + 1 BY <2>1, <2>2 DEF AfterOp, Contexts
  <2> QED BY <2>1, <2>2, <2>3, <2>4 DEF Trapped
<1>2. CASE phase' # "isr" BY <1>2 DEF Trapped
<1>3. CASE Finished \/ UNCHANGED mVars
  <2>1. UNCHANGED <<phase, pRunningPcb, returnCode, image>>
    BY <1>3 DEF Finished, mVars, machineVars, vars, runVars
  <2> QED BY <2>1 DEF Trapped
<1>4. CASE MDispatch \/ MPreempt \/ MInstruction \/ MHalt
  <2>1. phase' # "isr"
    BY <1>4, MPreemptSwitches
    DEF MDispatch, Dispatch, AfterDispatch, MInstruction, Instruction, MHalt, Halt, HaltTo
  <2> QED BY <1>2, <2>1
<1>5. CASE MIsrPrint \/ MIsrVFork \/ MIsrReturnSharedMemPtr
  <2>1. phase' # "isr"
    BY <1>5 DEF MIsrPrint, IsrPrint, MIsrVFork, IsrVFork, MIsrReturnSharedMemPtr,
                IsrReturnSharedMemPtr, ReturnTo
  <2> QED BY <1>2, <2>1
<1>6. CASE MOther \/ Run
  <2>1. phase' # "isr"
    BY <1>6 DEF MOther, Arrive, CallScheduler, EndRun, AdmitNew, KeepRunning, NoPreemption, Idle,
                IsrSemaphoreAquire, IsrSemaphoreRelease, IsrSemaphoreWait, Resume, Run, StartRun,
                AfterDispatch, Fault
  <2> QED BY <1>2, <2>1
<1> QED BY <1>1, <1>3, <1>4, <1>5, <1>6 DEF MNext, MKernelStep

LEMMA TInvStep ==
    ASSUME NEW loaded, SoundPrograms(loaded)
    PROVE  TInv(loaded) /\ [MNext]_mVars => TInv(loaded)'
<1> SUFFICES ASSUME TInv(loaded), [MNext]_mVars PROVE TInv(loaded)' OBVIOUS
<1>1. \A p \in Proc : WellFormed(Code[p]) BY DEF SoundPrograms
<1>2. MInv' /\ SInv' /\ Loaded(loaded)' BY MNextMoves DEF TInv, Loaded
<1>3. AtCode' BY AtCodeStep
<1>4. Types' /\ Trapped' BY <1>1, TypesStep, TrappedStep DEF TInv
<1> QED BY <1>2, <1>3, <1>4 DEF TInv

LEMMA StartedTypes ==
    ASSUME NEW loaded \in Seq(Proc), IsInjective(loaded), NEW linked \in SUBSET Proc,
           SoundPrograms(loaded), Started(loaded, linked)
    PROVE  TInv(loaded)
<1>1. MInv BY StartedInv, StartedShapes DEF MInv
<1>2. /\ cpu = Cleared /\ image = [p \in Proc |-> FirstInstruction] /\ cpuOwner = NoProc
      /\ phase = "shell" /\ memory = [a \in Words |-> 0] /\ output = <<>> /\ logged = {}
      /\ queue = [id \in QueueId |-> IF id = "newQueue" THEN loaded ELSE <<>>]
      /\ pState = [p \in Proc |-> IF p \in Range(loaded) THEN NEWLY ELSE CREATED]
  BY DEF Started
<1>3. SInv
  <2>1. RunningState BY <1>2 DEF RunningState
  <2>2. \A id \in QueueId, p \in Proc :
          In(queue, p, id) => id = "newQueue" /\ p \in Range(loaded)
    BY <1>2, QueueNames DEF In, Range
  <2> QED BY <1>2, <2>1, <2>2, StateOfNames DEF SInv, Placed
<1>4. Types BY <1>2, ClearedType DEF Types
<1>5. AtCode
  <2>1. \A p \in Proc : Context(p) = FirstInstruction BY <1>2, ProcAssumption DEF Context
  <2>2. FirstInstruction.PC = 1 BY DEF FirstInstruction, Cleared
  <2> QED BY <2>1, <2>2 DEF AtCode, SoundPrograms, WellFormed
<1>6. Trapped BY <1>2 DEF Trapped
<1>7. Loaded(loaded) BY <1>2 DEF Loaded, CREATED, NEWLY
<1> QED BY <1>1, <1>3, <1>4, <1>5, <1>6, <1>7 DEF TInv

LEMMA TInvTypes == ASSUME NEW loaded, TInv(loaded) PROVE MTypeOK
BY DEF TInv, Types, AtCode, MTypeOK

\* Programs that neither jump nor run out of themselves compute on integers, and
\* never leave their own instructions: neither a preemption nor an interrupt, nor
\* what a forked child starts from, moves a PC to where there is none.
THEOREM MTypeOKHolds ==
    ASSUME NEW CONSTANT loaded \in Seq(Proc), IsInjective(loaded),
           NEW CONSTANT linked \in SUBSET Proc, SoundPrograms(loaded)
    PROVE  Started(loaded, linked) /\ [][MNext]_mVars => []MTypeOK
<1>1. Started(loaded, linked) => TInv(loaded) BY StartedTypes
<1>2. TInv(loaded) /\ [MNext]_mVars => TInv(loaded)' BY TInvStep
<1>3. TInv(loaded) => MTypeOK BY TInvTypes
<1> QED BY <1>1, <1>2, <1>3, PTL

----------------------------------------------------------------------------
(* What a step can do to a process that does not take it.                  *)

\* The interrupt of the instruction before its PC is still to be served.
Pending(p) == phase = "isr" /\ pRunningPcb = p
Gone(p) == pState[p] = TERMINATED

\* Only SWI 10 and a segmentation fault end a process, or a request for shared memory
\* that it does not have.
LEMMA OnlyHaltEnds ==
    ASSUME MInv, SInv, [MNext]_mVars, ~MHalt, NEW p \in Proc,
           MIsrReturnSharedMemPtr /\ p = pRunningPcb => sharedMemory[p]
    PROVE  Gone(p)' = Gone(p)
<1>1. Gone(p) => Gone(p)' BY MNextMoves DEF Gone
<1>2. pState \in [Proc -> {CREATED, NEWLY, READY, RUNNING, WAITING, TERMINATED}]
  BY DEF MInv, IInv, TypeOK
<1>3. READY # TERMINATED /\ RUNNING # TERMINATED /\ WAITING # TERMINATED /\ NEWLY # TERMINATED
  BY DEF READY, RUNNING, WAITING, TERMINATED, NEWLY
<1>4. \/ UNCHANGED pState
      \/ \E q, r, v, w : /\ pState' = [pState EXCEPT ![q] = v, ![r] = w]
                         /\ {v, w} \subseteq {NEWLY, READY, RUNNING, WAITING}
      \/ \E q, v : pState' = [pState EXCEPT ![q] = v] /\ v \in {NEWLY, READY, RUNNING, WAITING}
      \/ \E q, v : pState' = [pState EXCEPT ![q] = v] /\ q # p
  <2>1. CASE MIsrReturnSharedMemPtr
    <3>1. CASE p = pRunningPcb
      BY <2>1, <3>1 DEF MIsrReturnSharedMemPtr, IsrReturnSharedMemPtr, ReturnTo
    <3>2. CASE p # pRunningPcb
      <4>1. UNCHANGED pState \/ pState' = [pState EXCEPT ![pRunningPcb] = StateOf("terminatedQueue")]
        BY <2>1, ReturnPlaces DEF MIsrReturnSharedMemPtr, MInv, Places
      <4> QED BY <3>2, <4>1
    <3> QED BY <3>1, <3>2
  <2>2. CASE MDispatch BY <2>2 DEF MDispatch, Dispatch
  <2>3. CASE MPreempt
    <3>1. phase' = "execute" BY <2>3, MPreemptSwitches
    <3>2. PreemptRR \/ PreemptMLFQ BY <2>3 DEF MPreempt
    <3>3. CASE PreemptRR BY <3>1, <3>3 DEF PreemptRR, SwitchContext, Fault
    <3>4. CASE PreemptMLFQ BY <3>4 DEF PreemptMLFQ, SwitchContext
    <3> QED BY <3>2, <3>3, <3>4
  <2>4. CASE MInstruction BY <2>4 DEF MInstruction, Instruction
  <2>5. CASE MTrap BY <2>5 DEF MTrap, Trap
  <2>6. CASE MIsrPrint BY <2>6 DEF MIsrPrint, IsrPrint
  <2>7. CASE MIsrVFork BY <2>7 DEF MIsrVFork, IsrVFork
  <2>8. CASE MOther
    <3>1. CASE Arrive \/ CallScheduler \/ EndRun \/ AdmitNew \/ KeepRunning \/ NoPreemption \/ Idle
      BY <3>1 DEF Arrive, NewPcb, CallScheduler, EndRun, AdmitNew, KeepRunning, NoPreemption, Idle, Fault
    <3>2. CASE IsrSemaphoreAquire \/ IsrSemaphoreWait
      BY <3>2 DEF IsrSemaphoreAquire, IsrSemaphoreWait, BlockOn
    <3>3. CASE IsrSemaphoreRelease BY <3>3 DEF IsrSemaphoreRelease, Wake
    <3>4. CASE Resume BY <3>4 DEF Resume, Requeue
    <3> QED BY <2>8, <3>1, <3>2, <3>3, <3>4 DEF MOther
  <2>9. CASE Run \/ Finished \/ UNCHANGED mVars
    BY <2>9 DEF Run, StartRun, Finished, mVars, vars
  <2> QED BY <2>1, <2>2, <2>3, <2>4, <2>5, <2>6, <2>7, <2>8, <2>9 DEF MNext, MKernelStep
<1>5. Gone(p)' => Gone(p) BY <1>2, <1>3, <1>4 DEF Gone
<1> QED BY <1>1, <1>5 DEF Gone

\* Only a trap makes an interrupt pending.
LEMMA OnlyTrapRaises ==
    ASSUME MInv, [MNext]_mVars, ~MTrap, phase # "isr"
    PROVE  phase' # "isr"
<1>1. CASE MDispatch \/ MPreempt \/ MInstruction \/ MHalt
  BY <1>1, MPreemptSwitches
  DEF MDispatch, Dispatch, AfterDispatch, MInstruction, Instruction, MHalt, Halt, HaltTo
<1>2. CASE MIsrPrint \/ MIsrVFork \/ MIsrReturnSharedMemPtr
  BY <1>2 DEF MIsrPrint, IsrPrint, MIsrVFork, IsrVFork, MIsrReturnSharedMemPtr,
       IsrReturnSharedMemPtr, ReturnTo
<1>3. CASE MOther \/ Run
  BY <1>3 DEF MOther, Arrive, CallScheduler, EndRun, AdmitNew, KeepRunning, NoPreemption, Idle,
              IsrSemaphoreAquire, IsrSemaphoreRelease, IsrSemaphoreWait, Resume, Run, StartRun,
              AfterDispatch, Fault
<1>4. CASE Finished \/ UNCHANGED mVars
  BY <1>4 DEF Finished, mVars, vars
<1> QED BY <1>1, <1>2, <1>3, <1>4 DEF MNext, MKernelStep

\* Only a fork and exec create processes while the programs run.
LEMMA CreatedKept ==
    ASSUME IInv, [Next]_vars, ~LoadProgram, ~Arrive, ~IsrVFork, NEW x \in Proc, pState[x] = CREATED
    PROVE  pState'[x] = CREATED
<1>1. x # pRunningPcb /\ \A id \in QueueId : ~In(queue, x, id)
  BY DEF IInv, FreshUnplaced, InQueue
<1>2. pState \in [Proc -> {CREATED, NEWLY, READY, RUNNING, WAITING, TERMINATED}]
  BY DEF IInv, TypeOK
<1>3. ASSUME NEW p, NEW b, Places(p, b), p = pRunningPcb \/ \E id \in QueueId : In(queue, p, id)
      PROVE  pState'[x] = CREATED
  BY <1>1, <1>2, <1>3 DEF Places
<1>4. CASE SetScheduler \/ InitSemaphore \/ OpenSharedMemory \/ StartRun \/ CallScheduler
           \/ KeepRunning \/ NoPreemption \/ Idle \/ Instruction \/ IsrPrint \/ Faulted \/ EndRun
           \/ UNCHANGED vars
  BY <1>4 DEF SetScheduler, InitSemaphore, LinkSemaphore, OpenSharedMemory, StartRun,
     CallScheduler, KeepRunning, NoPreemption, Fault, Idle, Instruction, IsrPrint, Faulted,
     EndRun, vars
<1>5. CASE AdmitNew BY <1>3, <1>5, PlacesAdmitted, QueueNames
<1>6. CASE Dispatch
  <2>1. PICK n \in Proc : Takes(n) BY <1>6, TakesDispatched
  <2> QED BY <1>1, <1>2, <2>1, QueueNames DEF Takes
<1>7. CASE PreemptRR \/ PreemptMLFQ
  <2>1. PICK n \in Proc : Switches(pRunningPcb, n) BY <1>7, PreemptSwitches
  <2> QED BY <1>1, <1>2, <2>1, QueueNames DEF Switches
<1>8. CASE \E code \in Swis : Trap(code) BY <1>3, <1>8, TrapPlaces
<1>9. CASE Halt BY <1>3, <1>9, HaltPlaces
<1>10. CASE IsrReturnSharedMemPtr BY <1>3, <1>10, ReturnPlaces
<1>11. CASE IsrSemaphoreAquire \/ IsrSemaphoreWait BY <1>3, <1>11, AquirePlaces, WaitPlaces
<1>12. CASE IsrSemaphoreRelease BY <1>3, <1>12, ReleasePlaces DEF QueueId
<1>13. CASE Resume BY <1>3, <1>13, ResumePlaces
<1> QED
  BY <1>4, <1>5, <1>6, <1>7, <1>8, <1>9, <1>10, <1>11, <1>12, <1>13
  DEF Next, ShellStep, KernelStep, SchedulerStep

\* A step that p does not take, and that does not create it, leaves p alone.
LEMMA BystanderSame ==
    ASSUME MInv, SInv, [MNext]_mVars, NEW p \in Proc, p # pRunningPcb,
           phase' = "isr" => pRunningPcb' = pRunningPcb,
           ~(MIsrVFork /\ pState[p] = CREATED)
    PROVE  Context(p)' = Context(p) /\ Pending(p)' = Pending(p) /\ Gone(p)' = Gone(p)
<1>1. Context(p)' = Context(p) BY MNextMoves DEF Kept, Born, OwnStep
<1>2. Gone(p)' = Gone(p)
  <2>1. CASE ~MHalt BY <2>1, OnlyHaltEnds
  <2>2. CASE MHalt
    <3>1. pState' = [pState EXCEPT ![pRunningPcb] = TERMINATED] BY <2>2 DEF MHalt, Halt, HaltTo
    <3> QED BY <3>1 DEF Gone, MInv, IInv, TypeOK
  <2> QED BY <2>1, <2>2
<1>3. Pending(p)' = Pending(p) BY DEF Pending
<1> QED BY <1>1, <1>2, <1>3

----------------------------------------------------------------------------
(* What each operation leaves in the registers.                            *)

\* d is c with value in register r, or c itself if r is none, at the next instruction.
Writes(d, c, r, value) ==
    /\ d.PC = c.PC + 1 /\ d.Z = c.Z
    /\ \A s \in Registers : d.Reg[s] = IF s = r THEN value ELSE c.Reg[s]
Compares(d, c, z) == d.PC = c.PC + 1 /\ d.Z = z /\ d.Reg = c.Reg
Goes(d, c, k) == d.PC = k /\ d.Z = c.Z /\ d.Reg = c.Reg

LEMMA SetRegWrites ==
    ASSUME NEW c \in Contexts, NEW r \in Registers, NEW value
    PROVE  Writes(SetReg(c, r, value), c, r, value)
<1>1. SetReg(c, r, value) = [c EXCEPT !.Reg = [c.Reg EXCEPT ![r] = value], !.PC = c.PC + 1]
  BY DEF SetReg, Contexts
<1>2. c.Reg \in [Registers -> Int] BY DEF Contexts
<1> QED BY <1>1, <1>2 DEF Writes, Contexts

LEMMA AfterAssign ==
    ASSUME NEW c \in Contexts, NEW mem, NEW a \in Registers, NEW b, NEW e
    PROVE  /\ Writes(AfterOp(Op("ADD", a, b, e), c, mem), c, a, c.Reg[b] + c.Reg[e])
           /\ Writes(AfterOp(Op("MOV", a, b, e), c, mem), c, a, c.Reg[b])
           /\ Writes(AfterOp(Op("MVI", a, b, e), c, mem), c, a, b)
           /\ Writes(AfterOp(Op("ADR", a, b, e), c, mem), c, a, b)
           /\ Writes(AfterOp(Op("LDR", a, b, e), c, mem), c, a, mem[c.Reg[b]])
BY SetRegWrites DEF AfterOp, Op

LEMMA AfterCompare ==
    ASSUME NEW c \in Contexts, NEW mem, NEW a, NEW b, NEW e
    PROVE  Compares(AfterOp(Op("CMP", a, b, e), c, mem), c, c.Reg[a] - c.Reg[b])
<1> DEFINE d == AfterOp(Op("CMP", a, b, e), c, mem)
<1>1. d = [c EXCEPT !.Z = c.Reg[a] - c.Reg[b], !.PC = @ + 1] BY DEF AfterOp, Op
<1> QED BY <1>1 DEF Compares, Contexts

LEMMA AfterSkip ==
    ASSUME NEW c \in Contexts, NEW mem, NEW a, NEW b, NEW e
    PROVE  /\ Goes(AfterOp(SWI(a), c, mem), c, c.PC + 1)
           /\ Goes(AfterOp(Op("STR", a, b, e), c, mem), c, c.PC + 1)
<1>1. AfterOp(SWI(a), c, mem) = [c EXCEPT !.PC = @ + 1] BY DEF AfterOp, SWI, Op
<1>2. AfterOp(Op("STR", a, b, e), c, mem) = [c EXCEPT !.PC = @ + 1] BY DEF AfterOp, Op
<1> QED BY <1>1, <1>2 DEF Goes, Contexts

LEMMA AfterJump ==
    ASSUME NEW c \in Contexts, NEW mem, NEW k, NEW b, NEW e
    PROVE  /\ Goes(AfterOp(Op("B", k, b, e), c, mem), c, k)
           /\ Goes(AfterOp(Op("BEQ", k, b, e), c, mem), c, IF c.Z = 0 THEN k ELSE c.PC + 1)
           /\ Goes(AfterOp(Op("BNE", k, b, e), c, mem), c, IF c.Z # 0 THEN k ELSE c.PC + 1)
           /\ Goes(AfterOp(Op("BLT", k, b, e), c, mem), c, IF c.Z < 0 THEN k ELSE c.PC + 1)
<1>1. ASSUME NEW taken \in BOOLEAN
      PROVE  Goes(Branch(c, taken, k), c, IF taken THEN k ELSE c.PC + 1)
  BY DEF Branch, Goes, Contexts
<1>2. c.Z \in Int BY DEF Contexts
<1>3. AfterOp(Op("B", k, b, e), c, mem) = Branch(c, TRUE, k) BY DEF AfterOp, Op
<1>4. AfterOp(Op("BEQ", k, b, e), c, mem) = Branch(c, c.Z = 0, k) BY DEF AfterOp, Op
<1>5. AfterOp(Op("BNE", k, b, e), c, mem) = Branch(c, c.Z # 0, k) BY DEF AfterOp, Op
<1>6. AfterOp(Op("BLT", k, b, e), c, mem) = Branch(c, c.Z < 0, k) BY DEF AfterOp, Op
<1>7. (c.Z < 0) \in BOOLEAN BY <1>2
<1>8. Goes(Branch(c, c.Z < 0, k), c, IF c.Z < 0 THEN k ELSE c.PC + 1) BY <1>1, <1>7
<1> QED BY <1>1, <1>3, <1>4, <1>5, <1>6, <1>8

LEMMA AfterStoring ==
    ASSUME NEW c, NEW mem, NEW a, NEW b, NEW e
    PROVE  LET m == AfterStore(Op("STR", a, b, e), c, mem)
           IN  /\ DOMAIN m = DOMAIN mem
               /\ \A x \in DOMAIN mem : m[x] = IF x = c.Reg[b] THEN c.Reg[a] ELSE mem[x]
<1>1. AfterStore(Op("STR", a, b, e), c, mem) = [mem EXCEPT ![c.Reg[b]] = c.Reg[a]]
  BY DEF AfterStore, Op
<1> QED BY <1>1

\* i is no load or store: it touches no memory; and it is no interrupt.
Inward(i) == i.op \notin {"LDR", "STR"}
Plain(i) == Inward(i) /\ i.op # "SWI"

LEMMA InwardOps ==
    ASSUME NEW a, NEW b, NEW e
    PROVE  /\ Plain(Op("ADD", a, b, e)) /\ Plain(Op("MOV", a, b, e)) /\ Plain(Op("MVI", a, b, e))
           /\ Plain(Op("ADR", a, b, e)) /\ Plain(Op("CMP", a, b, e)) /\ Plain(Op("B", a, b, e))
           /\ Plain(Op("BEQ", a, b, e)) /\ Plain(Op("BNE", a, b, e)) /\ Plain(Op("BLT", a, b, e))
           /\ Inward(SWI(a)) /\ SWI(a).op = "SWI"
           /\ Op("LDR", a, b, e).op = "LDR" /\ Op("LDR", a, b, e).b = b
           /\ Op("STR", a, b, e).op = "STR" /\ Op("STR", a, b, e).b = b
BY DEF Plain, Inward, SWI, Op

LEMMA InwardStep ==
    ASSUME NEW i, Inward(i), NEW c, NEW mem
    PROVE  AfterStore(i, c, mem) = mem /\ ~Segfault(i, c, mem)
BY DEF Inward, AfterStore, Segfault

\* At place k of a program of n instructions, i has its operands and goes on inside.
Fits(i, k, n) == Operands(i) /\ Successors(i, k) \subseteq 1..n

LEMMA NoExit == ASSUME NEW i, i.op # "SWI" PROVE i # SWI(10)
BY DEF SWI, Op

LEMMA AddFits ==
    ASSUME NEW k, NEW n, k + 1 \in 1..n, NEW a \in Registers, NEW b \in Registers,
           NEW e \in Registers
    PROVE  Fits(Op("ADD", a, b, e), k, n)
BY NoExit DEF Fits, Operands, Successors, Op

LEMMA MoveFits ==
    ASSUME NEW k, NEW n, k + 1 \in 1..n, NEW a \in Registers, NEW b \in Registers
    PROVE  /\ Fits(Op("MOV", a, b, 0), k, n) /\ Fits(Op("CMP", a, b, 0), k, n)
           /\ Fits(Op("LDR", a, b, 0), k, n) /\ Fits(Op("STR", a, b, 0), k, n)
BY NoExit DEF Fits, Operands, Successors, Op

LEMMA SetFits ==
    ASSUME NEW k, NEW n, k + 1 \in 1..n, NEW a \in Registers, NEW v \in Int
    PROVE  Fits(Op("MVI", a, v, 0), k, n) /\ Fits(Op("ADR", a, v, 0), k, n)
BY NoExit DEF Fits, Operands, Successors, Op

LEMMA JumpFits ==
    ASSUME NEW k, NEW n, NEW t \in 1..n
    PROVE  /\ Fits(Op("B", t, 0, 0), k, n)
           /\ k + 1 \in 1..n => /\ Fits(Op("BEQ", t, 0, 0), k, n)
                               /\ Fits(Op("BNE", t, 0, 0), k, n)
                               /\ Fits(Op("BLT", t, 0, 0), k, n)
BY NoExit DEF Fits, Operands, Successors, Op

LEMMA InterruptFits ==
    ASSUME NEW k, NEW n, NEW v \in Int, v = 10 \/ k + 1 \in 1..n
    PROVE  Fits(SWI(v), k, n)
<1>1. SWI(v).op = "SWI" /\ SWI(v).a = v BY DEF SWI, Op
<1>2. SWI(v) = SWI(10) <=> v = 10 BY DEF SWI, Op
<1> QED BY <1>1, <1>2 DEF Fits, Operands, Successors

=============================================================================
