----------------------------- MODULE Scheduler -----------------------------
(***************************************************************************)
(* The kernel's run loop and the CPU scheduler of the virtual machine      *)
(* (src/src/kernel/scheduler.cpp, kernel.cpp, src/src/hardware/pcb.h).     *)
(*                                                                         *)
(* The program is one thread: between two shell commands the kernel calls  *)
(* one scheduling function again and again, and each call admits the new   *)
(* processes, dispatches or preempts, executes one instruction and serves  *)
(* the software interrupt it may have raised.  phase is the place reached  *)
(* inside that call, so every action is one statement block of the code.   *)
(*                                                                         *)
(* The programs are abstract: an instruction computes, raises one of the   *)
(* interrupts Swis, or halts.  RAM and its process table are abstracted to *)
(* the outcomes they can give the scheduler (see TableStale).              *)
(***************************************************************************)
EXTENDS Integers, Sequences

CONSTANTS
    Proc,          \* PCB objects; each is created once, which bounds loads and forks
    NoProc,        \* the NULL Pcb pointer
    Sem,           \* Semaphore objects; bounds the number of insm commands
    NoSem,         \* semId = -1
    Algos,         \* algorithms the sets command selects, among FCFS, RR and MLFQ
    Quanta,        \* quantum arguments of the sets command
    Ratios,        \* ratio arguments of the sets command
    LowFactor,     \* quantum multiplier of the lowest level (1000 in the code)
    DemoteAfter,   \* preemptions before a demotion (5 in the code)
    InitValues,    \* semaphore values the insm command is given
    MaxSemValue,   \* bound: no release is executed above this value
    MaxArrivals,   \* bound: programs named by one exec command
    Swis           \* interrupt codes the loaded programs raise

HALT == 10
PRINT_INT == 20
PRINT == 21
INPUT == 22
FORK == 23
RET_SMRP == 24
SEM_AQ == 25
SEM_RE == 26
SEM_WAIT == 27

CREATED == 0
NEWLY == 1
READY == 2
RUNNING == 3
WAITING == 4
TERMINATED == 5

ReadyIds == {"readyQueue0", "readyQueue1", "readyQueue2"}
SchedulerQueues == ReadyIds \cup {"newQueue", "waitingQueue", "terminatedQueue"}
QueueId == SchedulerQueues \cup Sem   \* the blockQueue of semaphore s is queue[s]

\* The program died here: no later state.
Faults == {"nullDeref", "badSemId", "badTable", "divByZero"}
Phases == {"shell", "loop", "admit", "preempt", "execute", "isr", "resume"} \cup Faults

ASSUME ProcAssumption == NoProc \notin Proc
ASSUME SemAssumption == NoSem \notin Sem /\ Sem \cap SchedulerQueues = {}
ASSUME AlgosAssumption == Algos \subseteq {"FCFS", "RR", "MLFQ"}
ASSUME QuantaAssumption == Quanta \subseteq Nat /\ Ratios \subseteq Nat /\ LowFactor \in Nat
ASSUME DemoteAssumption == DemoteAfter \in Nat \ {0}
ASSUME ValuesAssumption == InitValues \subseteq Int /\ MaxSemValue \in Int /\ MaxArrivals \in Nat
ASSUME SwisAssumption ==
    Swis \subseteq {PRINT_INT, PRINT, INPUT, FORK, RET_SMRP, SEM_AQ, SEM_RE, SEM_WAIT}

VARIABLES
    phase,             \* the statement block about to run
    schedulerAlgo, schedulerQuantum, mlfqRatio,
    argMap,            \* number of exec programs that have not arrived yet
    queue,             \* every deque of the scheduler, and of the semaphores
    pRunningPcb,
    quantumClock,      \* wrapped at the quantum in force, see Tick
    returnCode,        \* interrupt being served
    pState, pPriority, pQuantumCount, semId,
    sharedMemory,      \* whether Pcb::sharedMemory is set
    semaphoreTable,    \* semaphores created so far
    semValue,
    cpuOwner,          \* process whose registers the CPU holds
    unsaved,           \* processes whose Pcb registers are out of date
    logged             \* processes moved to the process log

kernelVars == <<schedulerAlgo, schedulerQuantum, mlfqRatio, argMap>>
levelVars == <<pPriority, pQuantumCount>>
semVars == <<semaphoreTable, semValue, semId>>
cpuVars == <<cpuOwner, unsaved>>
runVars == <<pRunningPcb, quantumClock, returnCode>>
pcbVars == <<levelVars, sharedMemory, semVars>>
vars == <<phase, kernelVars, queue, runVars, pState, pcbVars, cpuVars, logged>>

----------------------------------------------------------------------------
(* The queues.  Here and below, a definition whose name ends in M is a      *)
(* faulty variant of the definition that follows it; no specification uses  *)
(* it.  Substituting it for the definition must break a property.           *)

PushFrontM(q, id, p) == [q EXCEPT ![id] = <<p>> \o @]
Push(q, id, p) == [q EXCEPT ![id] = Append(@, p)]
Pop(q, id) == [q EXCEPT ![id] = Tail(@)]

In(q, p, id) == \E i \in DOMAIN q[id] : q[id][i] = p
InQueue(q, p) == \E id \in QueueId : In(q, p, id)

ReadyQueue(priority) ==
    CASE priority = 0 -> "readyQueue0"
      [] priority = 1 -> "readyQueue1"
      [] priority = 2 -> "readyQueue2"

ReadyQueuesEmpty(q) == \A id \in ReadyIds : q[id] = <<>>

\* The first ready queue that is not empty, in priority order.
TopQueue(q) == IF q["readyQueue0"] # <<>> THEN "readyQueue0"
               ELSE IF q["readyQueue1"] # <<>> THEN "readyQueue1" ELSE "readyQueue2"

\* popQueue(READY): the popped Pcb, NULL when every ready queue is empty ...
NextReady(q) == IF ReadyQueuesEmpty(q) THEN NoProc ELSE Head(q[TopQueue(q)])
\* ... and the queues it leaves.
PopReady(q) == IF ReadyQueuesEmpty(q) THEN q ELSE Pop(q, TopQueue(q))

AllQueuesEmptyM ==   \* forgets the lower ready queues
    /\ pRunningPcb = NoProc
    /\ \A id \in {"readyQueue0", "newQueue", "waitingQueue"} : queue[id] = <<>>
AllQueuesEmpty ==
    /\ pRunningPcb = NoProc
    /\ ReadyQueuesEmpty(queue)
    /\ queue["newQueue"] = <<>>
    /\ queue["waitingQueue"] = <<>>

\* After a termination the indices of Ram::vMemoryLookup may be stale: a later
\* deallocation or lookup by name may then throw or leave the vector.
TableStale == \E p \in Proc : pState[p] = TERMINATED

Fault(f) ==
    /\ phase' = f
    /\ UNCHANGED <<kernelVars, queue, runVars, pState, pcbVars, cpuVars, logged>>

----------------------------------------------------------------------------
(* The CPU image: contextToPcb saves what the CPU holds, so it saves p's   *)
(* own registers only while the CPU holds them.                            *)

AfterSaveM(p) == unsaved   \* contextToPcb left out
AfterSave(p) == IF cpuOwner = p THEN unsaved \ {p} ELSE unsaved \cup {p}

\* quantumClock is compared with 0 and with multiples of the quantum only, so
\* counting restarts at 1 after each multiple.
Tick(n, quantum) == IF n = quantum THEN 1 ELSE n + 1

\* The quantum in force: by priority under MLFQ, the kernel's under RR.
QuantumSet ==
    IF schedulerAlgo = "MLFQ" /\ pRunningPcb # NoProc
    THEN schedulerQuantum * (CASE pPriority[pRunningPcb] = 0 -> 1
                               [] pPriority[pRunningPcb] = 1 -> mlfqRatio
                               [] pPriority[pRunningPcb] = 2 -> LowFactor)
    ELSE schedulerQuantum

ClockAfterInstruction ==
    IF schedulerAlgo = "FCFS" THEN quantumClock ELSE Tick(quantumClock, QuantumSet)
ClockReset == IF schedulerAlgo = "FCFS" THEN quantumClock ELSE 0

----------------------------------------------------------------------------
Init ==
    /\ phase = "shell"
    /\ schedulerAlgo \in Algos
    /\ schedulerQuantum \in Quanta
    /\ mlfqRatio \in Ratios
    /\ argMap = 0
    /\ queue = [id \in QueueId |-> <<>>]
    /\ pRunningPcb = NoProc
    /\ quantumClock = 0
    /\ returnCode = 0
    /\ pState = [p \in Proc |-> CREATED]
    /\ pPriority = [p \in Proc |-> 0]
    /\ pQuantumCount = [p \in Proc |-> 0]
    /\ semId = [p \in Proc |-> NoSem]
    /\ sharedMemory = [p \in Proc |-> FALSE]
    /\ semaphoreTable = {}
    /\ semValue = [s \in Sem |-> 0]
    /\ cpuOwner = NoProc
    /\ unsaved = {}
    /\ logged = {}

(* Shell commands, between two runs. *)

SetScheduler ==
    /\ phase = "shell"
    /\ schedulerAlgo' \in Algos
    /\ schedulerQuantum' \in IF schedulerAlgo' = "FCFS" THEN {schedulerQuantum} ELSE Quanta
    /\ mlfqRatio' \in IF schedulerAlgo' = "MLFQ" THEN Ratios ELSE {mlfqRatio}
    /\ UNCHANGED <<phase, argMap, queue, runVars, pState, pcbVars, cpuVars, logged>>

\* createPcb and queuePcb(NEW) of a program that loads.
NewPcb(p) ==
    /\ pState[p] = CREATED
    /\ pState' = [pState EXCEPT ![p] = NEWLY]
    /\ queue' = Push(queue, "newQueue", p)

LoadProgram ==
    /\ phase = "shell"
    /\ \E p \in Proc : NewPcb(p)
    /\ UNCHANGED <<phase, kernelVars, runVars, pcbVars, cpuVars, logged>>

\* Pcb pointers Ram::getPcb can return: with stale indices any PCB ever created.
Found == {p \in Proc : pState[p] # CREATED} \cup {NoProc}

\* semIdCounter: every semaphore gets an id, and a queue, of its own.
FreshSemaphoresM == Sem
FreshSemaphores == Sem \ semaphoreTable

\* The semaphore is created before the names are looked up, and stays if one is
\* not found; a name whose index is stale past the end of vMemory aborts.
LinkSemaphore(one, two, outcomes) ==
    /\ phase = "shell"
    /\ phase' \in outcomes
    /\ \E s \in FreshSemaphores, v \in InitValues :
         /\ semaphoreTable' = semaphoreTable \cup {s}
         /\ semValue' = [semValue EXCEPT ![s] = v]
         /\ semId' = IF one = NoProc \/ two = NoProc THEN semId
                     ELSE [semId EXCEPT ![one] = s, ![two] = s]
    /\ UNCHANGED <<kernelVars, queue, runVars, pState, levelVars, sharedMemory, cpuVars,
                   logged>>
InitSemaphore ==
    \E one, two \in Found :
        LinkSemaphore(one, two, IF TableStale THEN {"shell", "badTable"} ELSE {"shell"})

\* Nothing is linked when a lookup aborts.
OpenSharedMemory ==
    /\ phase = "shell"
    /\ \/ /\ phase' = "shell"
          /\ \E one, two \in Found \ {NoProc} :
               sharedMemory' = [sharedMemory EXCEPT ![one] = TRUE, ![two] = TRUE]
       \/ TableStale /\ phase' = "badTable" /\ UNCHANGED sharedMemory
    /\ UNCHANGED <<kernelVars, queue, runVars, pState, levelVars, semVars, cpuVars, logged>>

\* run (no arrival) or exec (up to MaxArrivals programs).
StartRun ==
    /\ phase = "shell"
    /\ phase' = "loop"
    /\ argMap' \in 0..MaxArrivals
    /\ UNCHANGED <<schedulerAlgo, schedulerQuantum, mlfqRatio, queue, runVars, pState,
                   pcbVars, cpuVars, logged>>

----------------------------------------------------------------------------
(* The run loop. *)

\* A program's arrival time is reached: it loads, or its load fails.
Arrive ==
    /\ phase = "loop"
    /\ argMap > 0
    /\ argMap' = argMap - 1
    /\ \/ \E p \in Proc : NewPcb(p)
       \/ UNCHANGED <<pState, queue>>
    /\ UNCHANGED <<phase, schedulerAlgo, schedulerQuantum, mlfqRatio, runVars, pcbVars,
                   cpuVars, logged>>

CallScheduler ==
    /\ phase = "loop"
    /\ argMap > 0 \/ ~AllQueuesEmpty
    /\ phase' = "admit"
    /\ UNCHANGED <<kernelVars, queue, runVars, pState, pcbVars, cpuVars, logged>>

\* The loop ends; the terminated processes are moved to the log.
EndRunM ==   \* the queue is read but not emptied
    /\ phase = "loop"
    /\ argMap = 0 /\ AllQueuesEmpty
    /\ phase' = "shell"
    /\ logged' = logged \cup {queue["terminatedQueue"][i] : i \in DOMAIN queue["terminatedQueue"]}
    /\ UNCHANGED <<kernelVars, queue, runVars, pState, pcbVars, cpuVars>>
EndRun ==
    /\ phase = "loop"
    /\ argMap = 0 /\ AllQueuesEmpty
    /\ phase' = "shell"
    /\ logged' = logged \cup {queue["terminatedQueue"][i] : i \in DOMAIN queue["terminatedQueue"]}
    /\ queue' = [queue EXCEPT !["terminatedQueue"] = <<>>]
    /\ UNCHANGED <<kernelVars, runVars, pState, pcbVars, cpuVars>>

----------------------------------------------------------------------------
(* One call of the scheduling function. *)

AdmitNewM ==   \* the newest first
    /\ phase = "admit"
    /\ queue["newQueue"] # <<>>
    /\ LET new == queue["newQueue"]
           p == new[Len(new)]
       IN /\ queue' = Push([queue EXCEPT !["newQueue"] = SubSeq(@, 1, Len(@) - 1)],
                           ReadyQueue(pPriority[p]), p)
          /\ pState' = [pState EXCEPT ![p] = READY]
    /\ UNCHANGED <<phase, kernelVars, runVars, pcbVars, cpuVars, logged>>
AdmitNew ==
    /\ phase = "admit"
    /\ queue["newQueue"] # <<>>
    /\ LET p == Head(queue["newQueue"]) IN
         /\ queue' = Push(Pop(queue, "newQueue"), ReadyQueue(pPriority[p]), p)
         /\ pState' = [pState EXCEPT ![p] = READY]
    /\ UNCHANGED <<phase, kernelVars, runVars, pcbVars, cpuVars, logged>>

\* FCFS has no preemption block.
AfterDispatch == IF schedulerAlgo = "FCFS" THEN "execute" ELSE "preempt"

\* RR tests allQueuesEmpty where the others test readyQueuesEmpty, and may so
\* dereference the NULL that popQueue(READY) returns.
DispatchNeededM == pRunningPcb = NoProc
DispatchNeeded ==
    /\ pRunningPcb = NoProc
    /\ IF schedulerAlgo = "RR" THEN ~AllQueuesEmpty ELSE ~ReadyQueuesEmpty(queue)

Dispatch ==
    /\ phase = "admit"
    /\ queue["newQueue"] = <<>>
    /\ DispatchNeeded
    /\ LET p == NextReady(queue) IN
         /\ phase' = IF p = NoProc THEN "nullDeref" ELSE AfterDispatch
         /\ pRunningPcb' = p
         /\ cpuOwner' = p
         /\ pState' = IF schedulerAlgo = "FCFS" THEN [pState EXCEPT ![p] = RUNNING] ELSE pState
    /\ queue' = PopReady(queue)
    /\ quantumClock' = IF schedulerAlgo = "MLFQ" THEN 0 ELSE quantumClock
    /\ UNCHANGED <<kernelVars, returnCode, pcbVars, unsaved, logged>>

KeepRunning ==
    /\ phase = "admit"
    /\ queue["newQueue"] = <<>>
    /\ ~DispatchNeeded
    /\ phase' = AfterDispatch
    /\ UNCHANGED <<kernelVars, queue, runVars, pState, pcbVars, cpuVars, logged>>

\* x % 0 when sets was given quantum 0 or, at priority 1, ratio 0.
DivisionByZero ==
    /\ QuantumSet = 0
    /\ schedulerAlgo = "RR" \/ (pRunningPcb # NoProc /\ quantumClock # 0)

\* RR looks at readyQueue0 only, and does not test pRunningPcb.
QuantumUpM ==   \* readyQueue0 only, under MLFQ too
    /\ quantumClock # 0 /\ quantumClock % QuantumSet = 0
    /\ pRunningPcb # NoProc /\ queue["readyQueue0"] # <<>>
QuantumUp ==
    /\ quantumClock # 0 /\ quantumClock % QuantumSet = 0
    /\ IF schedulerAlgo = "RR" THEN queue["readyQueue0"] # <<>>
       ELSE pRunningPcb # NoProc /\ ~ReadyQueuesEmpty(queue)

\* The context switch both algorithms end with: the running process joins the
\* ready queue of its priority, then the first ready process takes the CPU.
SwitchContext(priority) ==
    LET q == Push(queue, ReadyQueue(priority), pRunningPcb) IN
      /\ queue' = PopReady(q)
      /\ pRunningPcb' = NextReady(q)
      /\ pState' = [pState EXCEPT ![pRunningPcb] = READY, ![NextReady(q)] = RUNNING]
      /\ unsaved' = AfterSave(pRunningPcb)
      /\ cpuOwner' = NextReady(q)

PreemptRR ==
    /\ phase = "preempt" /\ schedulerAlgo = "RR"
    /\ ~DivisionByZero /\ QuantumUp
    /\ IF pRunningPcb = NoProc THEN Fault("nullDeref")
       ELSE /\ phase' = "execute"
            /\ SwitchContext(pPriority[pRunningPcb])
            /\ UNCHANGED <<kernelVars, quantumClock, returnCode, pcbVars, logged>>

DemotionDueM(p) == pQuantumCount[p] + 1 > DemoteAfter
DemotionDue(p) == pQuantumCount[p] + 1 >= DemoteAfter

\* incrementQuatumCount, then demotePriority once the count reaches the limit.
PreemptMLFQ ==
    /\ phase = "preempt" /\ schedulerAlgo = "MLFQ"
    /\ ~DivisionByZero /\ QuantumUp
    /\ LET p == pRunningPcb
           demoted == DemotionDue(p)
           priority == IF demoted /\ pPriority[p] < 2 THEN pPriority[p] + 1 ELSE pPriority[p]
       IN /\ pQuantumCount' = [pQuantumCount EXCEPT ![p] = IF demoted THEN 0 ELSE @ + 1]
          /\ pPriority' = [pPriority EXCEPT ![p] = priority]
          /\ SwitchContext(priority)
    /\ phase' = "execute"
    /\ quantumClock' = 0
    /\ UNCHANGED <<kernelVars, returnCode, sharedMemory, semVars, logged>>

NoPreemption ==
    /\ phase = "preempt"
    /\ IF DivisionByZero THEN Fault("divByZero")
       ELSE /\ ~QuantumUp
            /\ phase' = "execute"
            /\ UNCHANGED <<kernelVars, queue, runVars, pState, pcbVars, cpuVars, logged>>

----------------------------------------------------------------------------
(* fetchDecodeExecute, and what follows it in the same call. *)

Idle ==
    /\ phase = "execute" /\ pRunningPcb = NoProc
    /\ phase' = "loop"
    /\ UNCHANGED <<kernelVars, queue, runVars, pState, pcbVars, cpuVars, logged>>

Instruction ==
    /\ phase = "execute" /\ pRunningPcb # NoProc
    /\ phase' = "loop"
    /\ quantumClock' = ClockAfterInstruction
    /\ unsaved' = unsaved \cup {pRunningPcb}
    /\ UNCHANGED <<kernelVars, queue, pRunningPcb, returnCode, pState, pcbVars, cpuOwner,
                   logged>>

\* Bounds: a fork needs a PCB left in Proc, a release a value below MaxSemValue.
WithinBounds(code) ==
    /\ code = FORK => \E c \in Proc : pState[c] = CREATED
    /\ code = SEM_RE /\ semId[pRunningPcb] # NoSem => semValue[semId[pRunningPcb]] < MaxSemValue

\* A software interrupt: save the context, queue WAITING, clear the CPU.
Trap(code) ==
    /\ phase = "execute" /\ pRunningPcb # NoProc
    /\ WithinBounds(code)
    /\ phase' = "isr"
    /\ returnCode' = code
    /\ quantumClock' = ClockAfterInstruction
    /\ queue' = Push(queue, "waitingQueue", pRunningPcb)
    /\ pState' = [pState EXCEPT ![pRunningPcb] = WAITING]
    /\ unsaved' = AfterSave(pRunningPcb)
    /\ cpuOwner' = NoProc
    /\ UNCHANGED <<kernelVars, pRunningPcb, pcbVars, logged>>

\* SWI 10 or a segmentation fault of the program; deallocateMemory may throw.
HaltTo(outcomes) ==
    /\ phase = "execute" /\ pRunningPcb # NoProc
    /\ phase' \in outcomes
    /\ queue' = Push(queue, "terminatedQueue", pRunningPcb)
    /\ pState' = [pState EXCEPT ![pRunningPcb] = TERMINATED]
    /\ unsaved' = AfterSave(pRunningPcb)
    /\ pRunningPcb' = NoProc
    /\ quantumClock' = ClockReset
    /\ UNCHANGED <<kernelVars, returnCode, pcbVars, cpuOwner, logged>>
Halt == HaltTo(IF TableStale THEN {"loop", "badTable"} ELSE {"loop"})

----------------------------------------------------------------------------
(* interruptServiceRoutine: one action per interrupt. *)

\* SWI 0, 1 and 2: output only, the PCB stays in waitingQueue.
IsrPrint ==
    /\ phase = "isr" /\ returnCode \in {PRINT_INT, PRINT, INPUT}
    /\ phase' = "resume"
    /\ UNCHANGED <<kernelVars, queue, runVars, pState, pcbVars, cpuVars, logged>>

\* The child is made ready before its parent is.
IsrVFork ==
    /\ phase = "isr" /\ returnCode = FORK
    /\ \E child \in Proc :
         /\ pState[child] = CREATED
         /\ pState' = [pState EXCEPT ![child] = READY]
         /\ queue' = Push(queue, ReadyQueue(pPriority[child]), child)
    /\ phase' = "resume"
    /\ UNCHANGED <<kernelVars, runVars, pcbVars, cpuVars, logged>>

\* isrHalt's move of the PCB to terminatedQueue.
HaltWaiting(p) ==
    /\ queue' = Push(Pop(queue, "waitingQueue"), "terminatedQueue", p)
    /\ pState' = [pState EXCEPT ![p] = TERMINATED]

\* Without shared memory the process is terminated (isrHalt).
ReturnTo(outcomes) ==
    /\ phase = "isr" /\ returnCode = RET_SMRP
    /\ IF sharedMemory[pRunningPcb]
       THEN phase' = "resume" /\ UNCHANGED <<queue, pState>>
       ELSE HaltWaiting(Head(queue["waitingQueue"])) /\ phase' \in outcomes
    /\ UNCHANGED <<kernelVars, runVars, pcbVars, cpuVars, logged>>
IsrReturnSharedMemPtr == ReturnTo(IF TableStale THEN {"resume", "badTable"} ELSE {"resume"})

\* blockQueue.push_back(popQueue(WAITING)) and updateState(WAITING).
BlockOnM(s) ==   \* the process stays in waitingQueue too
    /\ queue' = Push(queue, s, Head(queue["waitingQueue"]))
    /\ pState' = [pState EXCEPT ![pRunningPcb] = WAITING]
BlockOn(s) ==
    /\ queue' = Push(Pop(queue, "waitingQueue"), s, Head(queue["waitingQueue"]))
    /\ pState' = [pState EXCEPT ![pRunningPcb] = WAITING]

\* Without a semaphore the interrupt does nothing.
IsrSemaphoreAquire ==
    /\ phase = "isr" /\ returnCode = SEM_AQ
    /\ LET s == semId[pRunningPcb] IN
         IF s = NoSem THEN UNCHANGED <<queue, pState, semValue>>
         ELSE IF semValue[s] = 0 THEN BlockOn(s) /\ UNCHANGED semValue
         ELSE semValue' = [semValue EXCEPT ![s] = @ - 1] /\ UNCHANGED <<queue, pState>>
    /\ phase' = "resume"
    /\ UNCHANGED <<kernelVars, runVars, levelVars, sharedMemory, semaphoreTable, semId,
                   cpuVars, logged>>

\* The first waiter of s, if any, is made ready.
WakeLostM(s) ==   \* popped, never queued
    /\ queue' = IF queue[s] = <<>> THEN queue ELSE Pop(queue, s)
    /\ UNCHANGED pState
WakeStateM(s) ==   \* push_back instead of queuePcb: no updateState
    /\ queue' = IF queue[s] = <<>> THEN queue
                ELSE Push(Pop(queue, s), ReadyQueue(pPriority[Head(queue[s])]), Head(queue[s]))
    /\ UNCHANGED pState
Wake(s) ==
    IF queue[s] = <<>> THEN UNCHANGED <<queue, pState>>
    ELSE LET p == Head(queue[s]) IN
           /\ queue' = Push(Pop(queue, s), ReadyQueue(pPriority[p]), p)
           /\ pState' = [pState EXCEPT ![p] = READY]

\* The value is incremented and the first waiter, if any, is made ready; without
\* a semaphore the table is indexed with -1.
IsrSemaphoreRelease ==
    /\ phase = "isr" /\ returnCode = SEM_RE
    /\ LET s == semId[pRunningPcb] IN
         IF s = NoSem THEN phase' = "badSemId" /\ UNCHANGED <<queue, pState, semValue>>
         ELSE /\ phase' = "resume"
              /\ semValue' = [semValue EXCEPT ![s] = @ + 1]
              /\ Wake(s)
    /\ UNCHANGED <<kernelVars, runVars, levelVars, sharedMemory, semaphoreTable, semId,
                   cpuVars, logged>>

IsrSemaphoreWait ==
    /\ phase = "isr" /\ returnCode = SEM_WAIT
    /\ LET s == semId[pRunningPcb] IN
         IF s = NoSem THEN phase' = "badSemId" /\ UNCHANGED <<queue, pState>>
         ELSE phase' = "resume" /\ BlockOn(s)
    /\ UNCHANGED <<kernelVars, runVars, pcbVars, cpuVars, logged>>

\* popQueue(WAITING) and queuePcb(READY), unless the interrupt took the PCB away.
RequeueOldM(p, priority) ==   \* queued before the promotion
    IF queue["waitingQueue"] = <<>> THEN UNCHANGED <<queue, pState>>
    ELSE /\ queue' = Push(Pop(queue, "waitingQueue"), ReadyQueue(pPriority[p]), p)
         /\ pState' = [pState EXCEPT ![p] = READY]
Requeue(p, priority) ==
    IF queue["waitingQueue"] = <<>> THEN UNCHANGED <<queue, pState>>
    ELSE /\ queue' = Push(Pop(queue, "waitingQueue"), ReadyQueue(priority), p)
         /\ pState' = [pState EXCEPT ![p] = READY]

\* After the interrupt: MLFQ promotes the process; it becomes ready again if the
\* interrupt left it in waitingQueue; the CPU is free.
Resume ==
    /\ phase = "resume"
    /\ LET p == pRunningPcb
           priority == IF schedulerAlgo = "MLFQ" /\ pPriority[p] > 0
                       THEN pPriority[p] - 1 ELSE pPriority[p]
       IN /\ pPriority' = [pPriority EXCEPT ![p] = priority]
          /\ pQuantumCount' = [pQuantumCount EXCEPT ![p] = IF schedulerAlgo = "MLFQ" THEN 0 ELSE @]
          /\ Requeue(p, priority)
    /\ phase' = "loop"
    /\ pRunningPcb' = NoProc
    /\ returnCode' = 0
    /\ quantumClock' = ClockReset
    /\ UNCHANGED <<kernelVars, sharedMemory, semVars, cpuVars, logged>>

Faulted == phase \in Faults /\ UNCHANGED vars

----------------------------------------------------------------------------
ShellStep == SetScheduler \/ LoadProgram \/ InitSemaphore \/ OpenSharedMemory \/ StartRun

SchedulerStep ==
    \/ AdmitNew \/ Dispatch \/ KeepRunning
    \/ PreemptRR \/ PreemptMLFQ \/ NoPreemption
    \/ Idle \/ Instruction \/ Halt
    \/ \E code \in Swis : Trap(code)
    \/ IsrPrint \/ IsrVFork \/ IsrReturnSharedMemPtr
    \/ IsrSemaphoreAquire \/ IsrSemaphoreRelease \/ IsrSemaphoreWait
    \/ Resume

KernelStep == Arrive \/ CallScheduler \/ EndRun \/ SchedulerStep

Next == ShellStep \/ KernelStep \/ Faulted

\* The kernel never stops inside a run; the user may stop typing commands.
Spec == Init /\ [][Next]_vars /\ WF_vars(KernelStep)

----------------------------------------------------------------------------
(* What the scheduler promises. *)

\* Every variable stays in its range: the priorities name a ready queue, and the
\* count of preemptions is below the demotion limit (pcb.h, scheduler.cpp).
TypeOK ==
    /\ phase \in Phases
    /\ schedulerAlgo \in Algos /\ schedulerQuantum \in Quanta /\ mlfqRatio \in Ratios
    /\ argMap \in 0..MaxArrivals
    /\ queue \in [QueueId -> Seq(Proc)]
    /\ pRunningPcb \in Proc \cup {NoProc}
    /\ quantumClock \in Nat
    /\ returnCode \in Swis \cup {0}
    /\ pState \in [Proc -> {CREATED, NEWLY, READY, RUNNING, WAITING, TERMINATED}]
    /\ pPriority \in [Proc -> 0..2]
    /\ pQuantumCount \in [Proc -> 0..(DemoteAfter - 1)]
    /\ semId \in [Proc -> semaphoreTable \cup {NoSem}]
    /\ sharedMemory \in [Proc -> BOOLEAN]
    /\ semaphoreTable \subseteq Sem
    /\ semValue \in [Sem -> Int]
    /\ cpuOwner \in Proc \cup {NoProc}
    /\ unsaved \subseteq Proc
    /\ logged \subseteq Proc

Blocked(p) == \E s \in Sem : In(queue, p, s)
Ready(p) == \E id \in ReadyIds : In(queue, p, id)

Distinct(q) ==
    \A a, b \in QueueId : \A i \in DOMAIN q[a], j \in DOMAIN q[b] :
        q[a][i] = q[b][j] => a = b /\ i = j

\* No process is queued twice, in one queue or in two: the raw Pcb pointers are
\* copied between the deques by hand (queuePcb, popQueue, the block queues).
NoDuplicate == Distinct(queue)

\* No process disappears: one that was created is running, in a queue, or logged.
NotLost ==
    \A p \in Proc : pState[p] # CREATED => p = pRunningPcb \/ InQueue(queue, p) \/ p \in logged

\* The process that owns the CPU is in no queue, and a logged process is in none
\* and not running: nothing of it can be scheduled again.
Exclusive ==
    /\ phase \in {"loop", "admit", "preempt", "execute"} => ~InQueue(queue, pRunningPcb)
    /\ \A p \in logged : p # pRunningPcb /\ ~InQueue(queue, p)

\* A ready process is in the ready queue of its own priority, whatever interrupt
\* or preemption put it there ("be sure that everything gets back to the right
\* ready queue after interrupt", scheduler.cpp:238).
ReadyByPriority == \A p \in Proc, k \in 0..2 : In(queue, p, ReadyQueue(k)) => pPriority[p] = k

\* pState says in which queue a process is, or that its run was logged; and under FCFS,
\* whose dispatch marks it (updateState(RUNNING), scheduler.cpp:49), the process on the
\* CPU is RUNNING.  Nothing is claimed of the process on the CPU under RR and MLFQ: only
\* a preemption marks it there, a dispatch (110-114, 191-196) leaves it READY, although
\* the lines after say "run process marked as running" (126, 228).
StateByQueue ==
    /\ \A p \in Proc :
         /\ In(queue, p, "newQueue") => pState[p] = NEWLY
         /\ Ready(p) => pState[p] = READY
         /\ In(queue, p, "waitingQueue") \/ Blocked(p) => pState[p] = WAITING
         /\ In(queue, p, "terminatedQueue") \/ p \in logged => pState[p] = TERMINATED
    /\ phase = "execute" /\ pRunningPcb # NoProc /\ schedulerAlgo = "FCFS" =>
           pState[pRunningPcb] = RUNNING

\* The NULL that pRunningPcb or popQueue(READY) may hold is never dereferenced,
\* although roundRobin tests neither (scheduler.cpp:100 "SEG FAULT", 110, 119).
NoNullDeref == phase # "nullDeref"

\* The CPU executes a process on that process's registers, and a process that is
\* not running has all its registers in its PCB.
ContextSafe ==
    /\ phase = "execute" /\ pRunningPcb # NoProc => cpuOwner = pRunningPcb
    /\ \A p \in unsaved : p = pRunningPcb

\* Under RR and FCFS no process is in a lower ready queue, where the preemption
\* test of roundRobin (scheduler.cpp:118) would not see it.
LowQueuesOnlyMLFQ ==
    phase # "shell" /\ schedulerAlgo # "MLFQ" =>
        queue["readyQueue1"] = <<>> /\ queue["readyQueue2"] = <<>>

\* A process still blocked when a run ends is blocked for ever: no later command
\* and no later run can wake it.
StrandedForever == \A p \in Proc : [](phase = "shell" /\ Blocked(p) => []Blocked(p))

\* Under RR every ready process runs, whatever the others do.
RRServed ==
    \A p \in Proc : schedulerAlgo = "RR" /\ Ready(p) ~> pRunningPcb = p \/ phase \in Faults

\* Under MLFQ every ready process runs, once interrupts have stopped: only a
\* process that keeps raising interrupts stays above the lower queues for ever.
MLFQServed ==
    <>[](phase # "isr") =>
        \A p \in Proc : schedulerAlgo = "MLFQ" /\ Ready(p) ~> pRunningPcb = p \/ phase \in Faults

----------------------------------------------------------------------------
(* The abstract specification this one implements.                          *)

\* The stage of a process, read off the queues and pRunningPcb alone.
Stage(p) ==
    IF p \in logged THEN "logged"
    ELSE IF In(queue, p, "terminatedQueue") THEN "terminated"
    ELSE IF Blocked(p) THEN "blocked"
    ELSE IF In(queue, p, "waitingQueue") THEN "interrupted"
    ELSE IF Ready(p) THEN "ready"
    ELSE IF In(queue, p, "newQueue") THEN "new"
    ELSE IF p = pRunningPcb THEN "running" ELSE "none"

Abstract == INSTANCE Lifecycle
            WITH life <- [p \in Proc |-> Stage(p)], waiters <- [s \in Sem |-> queue[s]]

\* Whatever the algorithm and the interleaving of quanta, interrupts, forks,
\* semaphores and commands, the processes only move as module Lifecycle lets them:
\* a blocked process leaves its semaphore by another process's release alone; the
\* CPU passes between processes in one step or is free; what has ended is logged
\* when nothing can run any more, and never comes back.
ImplementsLifecycle == Abstract!Spec

----------------------------------------------------------------------------
(* The inductive invariant behind the theorems of SchedulerProofs.          *)

\* waitingQueue holds the running process, and only while its interrupt is served.
InterruptPlace ==
    /\ phase \in {"shell", "loop", "admit", "preempt", "execute"} =>
         queue["waitingQueue"] = <<>>
    /\ phase = "isr" => pRunningPcb \in Proc /\ queue["waitingQueue"] = <<pRunningPcb>>
    /\ phase = "resume" =>
         /\ pRunningPcb \in Proc
         /\ queue["waitingQueue"] \in {<<>>, <<pRunningPcb>>}
         /\ \E id \in QueueId \ ReadyIds : In(queue, pRunningPcb, id)

\* A PCB that was not created yet is nowhere.
FreshUnplaced ==
    \A p \in Proc : pState[p] = CREATED =>
        ~InQueue(queue, p) /\ p # pRunningPcb /\ p \notin logged

\* With no process running the preemption block finds nothing ready.
NothingToPreempt ==
    /\ phase = "shell" => pRunningPcb = NoProc
    /\ phase = "preempt" /\ pRunningPcb = NoProc => ReadyQueuesEmpty(queue)

\* Outside an interrupt the CPU holds the registers of the running process, and
\* an interrupt leaves every process saved.
ContextInv ==
    /\ phase \in {"loop", "admit", "preempt", "execute"} /\ pRunningPcb # NoProc =>
         cpuOwner = pRunningPcb
    /\ phase \in {"isr", "resume"} => unsaved = {}
    /\ \A p \in unsaved : p = pRunningPcb

IInv ==
    /\ TypeOK /\ NoDuplicate /\ NotLost /\ Exclusive /\ ReadyByPriority /\ NoNullDeref
    /\ InterruptPlace /\ FreshUnplaced /\ NothingToPreempt /\ ContextInv

=============================================================================
