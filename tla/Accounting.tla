---------------------------- MODULE Accounting ----------------------------
(***************************************************************************)
(* The clock and the records kept by it: the arrivals of exec, the time    *)
(* slices, waiting and response times of each Pcb (src/src/hardware/pcb.h), *)
(* and the process log with its Gantt chart (processlog.cpp, processlog.h, *)
(* errorhandler.cpp).                                                      *)
(*                                                                         *)
(* Each action is an action of module Scheduler with what it does to the   *)
(* clock and to these records.  Every instruction takes a time slice, so   *)
(* MaxSlices bounds the instructions of a process.                         *)
(***************************************************************************)
EXTENDS Scheduler, FiniteSetsExt, SequencesExt

CONSTANTS
    Times,       \* arrival times given to the exec command
    MaxSlices,   \* bound: a process with this many slices less one can only halt
    MaxClock     \* bound: no run starts at or after this time

ASSUME TimesAssumption == Times \subseteq Nat /\ MaxSlices \in Nat /\ MaxClock \in Nat
ASSUME ProcNumbers == Proc \subseteq Nat   \* PCBs are taken in the order of their numbers

VARIABLES
    clock,             \* VirtualMachine::clock
    arrivals,          \* exec's argMap: when its programs are due, in order
    currentIdCount,    \* Loader::currentIdCount
    pId, cpuTimeSlices, pArrivalTime, pTerminationTime, wait, response, turnAround,
    cpuLogs            \* the processMap of each process log

idVars == <<currentIdCount, pId>>
timeVars == <<cpuTimeSlices, pArrivalTime, pTerminationTime, wait, response, turnAround>>
recordVars == <<clock, arrivals, idVars, timeVars, cpuLogs>>
aVars == <<vars, recordVars>>

----------------------------------------------------------------------------
(* The records of one process. *)

LastSlice(p) == IF cpuTimeSlices[p] = <<>> THEN pArrivalTime[p] ELSE Last(cpuTimeSlices[p])

\* captureTimeSlice(now): the wait since the last slice, then the slice.
WaitAfterM(p, now) == wait[p] + (now - LastSlice(p))   \* the slice itself counted
WaitAfter(p, now) ==
    LET gap == now - LastSlice(p) - 1 IN IF gap > 0 THEN wait[p] + gap ELSE wait[p]
CaptureTimeSlice(p, now) ==
    /\ wait' = [wait EXCEPT ![p] = WaitAfter(p, now)]
    /\ cpuTimeSlices' = [cpuTimeSlices EXCEPT ![p] = Append(@, now)]

\* The end of deallocateMemory, calculateResponse and calculateTurnAround; an
\* exception of deallocateMemory skips all three.
Finish(p, now, slices) ==
    IF phase' = "badTable" THEN UNCHANGED <<pTerminationTime, response, turnAround>>
    ELSE /\ pTerminationTime' = [pTerminationTime EXCEPT ![p] = now]
         /\ response' = [response EXCEPT ![p] = slices[1] - pArrivalTime[p]]
         /\ turnAround' = [turnAround EXCEPT ![p] = now - pArrivalTime[p]]

\* The PCBs created by this step.
Fresh == {p \in Proc : pState[p] = CREATED /\ pState'[p] # CREATED}
InOrder == \A p \in Fresh, q \in Proc : pState[q] = CREATED => p <= q

\* createPcb; the load passes the clock as arrival time, not the time asked for.
CreatePcb ==
    /\ InOrder
    /\ pId' = [p \in Proc |-> IF p \in Fresh THEN currentIdCount ELSE pId[p]]
    /\ currentIdCount' = currentIdCount + Cardinality(Fresh)
    /\ pArrivalTime' = [p \in Proc |-> IF p \in Fresh THEN clock ELSE pArrivalTime[p]]
    /\ UNCHANGED <<cpuTimeSlices, pTerminationTime, wait, response, turnAround>>

----------------------------------------------------------------------------
AInit ==
    /\ Init
    /\ clock = 0 /\ arrivals = <<>> /\ currentIdCount = 0 /\ cpuLogs = <<>>
    /\ pId = [p \in Proc |-> 0]
    /\ cpuTimeSlices = [p \in Proc |-> <<>>]
    /\ pArrivalTime = [p \in Proc |-> 0] /\ pTerminationTime = [p \in Proc |-> 0]
    /\ wait = [p \in Proc |-> 0]
    /\ response = [p \in Proc |-> 0] /\ turnAround = [p \in Proc |-> 0]

ALoadProgram ==
    /\ LoadProgram
    /\ CreatePcb
    /\ UNCHANGED <<clock, arrivals, cpuLogs>>

\* Arrival times count from the clock at the start of the run; the multimap
\* keeps them in order.
AStartRun ==
    /\ clock < MaxClock
    /\ StartRun
    /\ \E due \in [1..argMap' -> Times] :
         /\ \A i, j \in 1..argMap' : i <= j => due[i] <= due[j]
         /\ arrivals' = [i \in 1..argMap' |-> due[i] + clock]
    /\ UNCHANGED <<clock, idVars, timeVars, cpuLogs>>

DueM == arrivals # <<>> /\ Head(arrivals) < clock
Due == arrivals # <<>> /\ Head(arrivals) <= clock

\* Every program that is due is loaded before the scheduler is called.
AArrive ==
    /\ Due
    /\ Arrive
    /\ arrivals' = Tail(arrivals)
    /\ CreatePcb
    /\ UNCHANGED <<clock, cpuLogs>>

ACallScheduler ==
    /\ ~Due
    /\ CallScheduler
    /\ UNCHANGED recordVars

\* logTerminatedProcesses, if anything terminated.
AEndRun ==
    /\ EndRun
    /\ cpuLogs' = IF queue["terminatedQueue"] = <<>> THEN cpuLogs
                  ELSE Append(cpuLogs, ToSet(queue["terminatedQueue"]))
    /\ UNCHANGED <<clock, arrivals, idVars, timeVars>>

----------------------------------------------------------------------------
(* One call of the scheduling function. *)

AIdleM == Idle /\ UNCHANGED recordVars   \* the clock stands still
AIdle ==
    /\ Idle
    /\ clock' = clock + 1
    /\ UNCHANGED <<arrivals, idVars, timeVars, cpuLogs>>

TicksM(swi) == IF swi THEN 1 ELSE 0   \* no tick for the fetch
Ticks(swi) == IF swi THEN 2 ELSE 1   \* the fetch, and a software interrupt again

AInstruction ==
    /\ Instruction
    /\ Len(cpuTimeSlices[pRunningPcb]) < MaxSlices - 1
    /\ clock' = clock + Ticks(FALSE)
    /\ CaptureTimeSlice(pRunningPcb, clock')
    /\ UNCHANGED <<arrivals, idVars, pArrivalTime, pTerminationTime, response, turnAround, cpuLogs>>

ATrap(code) ==
    /\ Trap(code)
    /\ Len(cpuTimeSlices[pRunningPcb]) < MaxSlices - 1
    /\ clock' = clock + Ticks(TRUE)
    /\ CaptureTimeSlice(pRunningPcb, clock')
    /\ UNCHANGED <<arrivals, idVars, pArrivalTime, pTerminationTime, response, turnAround, cpuLogs>>

\* By SWI 10 or by a segmentation fault, which ticks once.
AHalt ==
    /\ Halt
    /\ \E swi \in BOOLEAN : clock' = clock + Ticks(swi)
    /\ CaptureTimeSlice(pRunningPcb, clock')
    /\ Finish(pRunningPcb, clock', cpuTimeSlices'[pRunningPcb])
    /\ UNCHANGED <<arrivals, idVars, pArrivalTime, cpuLogs>>

\* The child has no slice yet, and an id that is its parent's plus one.
AIsrVFork ==
    /\ IsrVFork
    /\ InOrder
    /\ \E child \in Fresh :
         /\ pId' = [pId EXCEPT ![child] = pId[pRunningPcb] + 1]
         /\ pArrivalTime' = [pArrivalTime EXCEPT ![child] = clock]
    /\ UNCHANGED <<clock, arrivals, currentIdCount, cpuTimeSlices, pTerminationTime, wait,
                   response, turnAround, cpuLogs>>

\* isrHalt: the clock has not moved since the slice of the interrupt.
AIsrReturnSharedMemPtr ==
    /\ IsrReturnSharedMemPtr
    /\ IF sharedMemory[pRunningPcb] THEN UNCHANGED <<pTerminationTime, response, turnAround>>
       ELSE Finish(pRunningPcb, clock, cpuTimeSlices[pRunningPcb])
    /\ UNCHANGED <<clock, arrivals, idVars, cpuTimeSlices, pArrivalTime, wait, cpuLogs>>

\* These leave the records alone.
AShellOther ==
    /\ SetScheduler \/ InitSemaphore \/ OpenSharedMemory
    /\ UNCHANGED recordVars
AKernelOther ==
    /\ \/ AdmitNew \/ Dispatch \/ KeepRunning \/ PreemptRR \/ PreemptMLFQ \/ NoPreemption
       \/ IsrPrint \/ IsrSemaphoreAquire \/ IsrSemaphoreRelease \/ IsrSemaphoreWait
       \/ Resume
    /\ UNCHANGED recordVars

AShellStep == ALoadProgram \/ AStartRun \/ AShellOther

AKernelStep ==
    \/ AArrive \/ ACallScheduler \/ AEndRun
    \/ AIdle \/ AInstruction \/ AHalt
    \/ \E code \in Swis : ATrap(code)
    \/ AIsrVFork \/ AIsrReturnSharedMemPtr
    \/ AKernelOther

AFaulted == Faulted /\ UNCHANGED recordVars

ANext == AShellStep \/ AKernelStep \/ AFaulted

\* As in module Scheduler: the kernel never stops inside a run.
ASpec == AInit /\ [][ANext]_aVars /\ WF_aVars(AKernelStep)

----------------------------------------------------------------------------
(* The process log, as the coredump command prints it (errorhandler.cpp).   *)

\* The entries of a log's ganntChart, one for each slice.
GanntChart(log) == UNION {{p} \X DOMAIN cpuTimeSlices[p] : p \in log}
Column(entry) == cpuTimeSlices[entry[1]][entry[2]]
Before(log, i) == Cardinality({e \in GanntChart(log) : Column(e) < i})

\* Its first and last columns: a process without a slice does not count.
Charted(log) == {p \in log : cpuTimeSlices[p] # <<>>}
GlobalStart(log) == Min({pArrivalTime[p] : p \in Charted(log)})
GlobalEnd(log) == Max({LastSlice(p) : p \in Charted(log)})

\* printLogGannt walks the columns with one iterator over the sorted chart, which
\* moves on only where its entry is in the column: printed[i] is the number of
\* entries it has passed after column i.
Printed(log) ==
    LET start == GlobalStart(log)
        printed[i \in (start - 1)..GlobalEnd(log)] ==
            IF i < start THEN 0
            ELSE LET n == printed[i - 1] IN
                   IF Before(log, i) <= n /\ n < Before(log, i + 1) THEN n + 1 ELSE n
    IN printed

----------------------------------------------------------------------------
(* What the records promise. *)

\* Two instructions never share a time slice, of one process or of two: there is
\* one CPU, and the clock moves with every fetch (vm.cpp:69).
OneAtATime ==
    \A p, q \in Proc : \A i \in DOMAIN cpuTimeSlices[p], j \in DOMAIN cpuTimeSlices[q] :
        cpuTimeSlices[p][i] = cpuTimeSlices[q][j] => p = q /\ i = j

\* The three times of a process agree with its slices, whenever it is interrupted,
\* blocked or preempted: every tick since its arrival is a slice or a wait, and the
\* turnaround and response of what has ended are read off its slices (pcb.h:90-106).
\* The second tick of an interrupt so counts as waiting.
TimesAddUp ==
    \A p \in Proc :
        /\ wait[p] + Len(cpuTimeSlices[p]) = LastSlice(p) - pArrivalTime[p]
        /\ pState[p] = TERMINATED /\ phase # "badTable" =>
             /\ pTerminationTime[p] = LastSlice(p)
             /\ turnAround[p] = wait[p] + Len(cpuTimeSlices[p])
             /\ response[p] = cpuTimeSlices[p][1] - pArrivalTime[p]

\* Under every algorithm, processes execute their first instruction in the order
\* in which they were created, by a load, by an arrival or by a fork.
FirstServedInOrder ==
    \A p, q \in Proc :
        p < q /\ cpuTimeSlices[q] # <<>> =>
            cpuTimeSlices[p] # <<>> /\ cpuTimeSlices[p][1] < cpuTimeSlices[q][1]

\* A log covers its own run: its processes arrived after everything an earlier
\* log lists had ended, so no average contains the time of another run.
LogsInOrder ==
    \A i, j \in DOMAIN cpuLogs : i < j =>
        \A p \in cpuLogs[i], q \in cpuLogs[j] : p # q /\ LastSlice(p) <= pArrivalTime[q]

\* The walk of printLogGannt prints every entry of the chart, and does not read the
\* iterator after the last one; every process of the log has an entry, and so the
\* colour that coreDump looks up without a test (errorhandler.cpp:212, 309).
ChartComplete ==
    \A k \in DOMAIN cpuLogs :
        LET log == cpuLogs[k]
            total == Cardinality(GanntChart(log))
            printed == Printed(log)
        IN /\ log = Charted(log)
           /\ printed[GlobalEnd(log)] = total
           /\ \A i \in GlobalStart(log)..GlobalEnd(log) : printed[i - 1] < total

\* A program of exec is taken at most one tick after its arrival time: an
\* interrupt is the only thing that makes the clock skip a time (kernel.cpp:117).
ArrivalsOnTime ==
    [][arrivals # <<>> /\ arrivals' = Tail(arrivals) => clock - Head(arrivals) \in {0, 1}]_aVars

\* Every program of exec is taken in the end: the loop idles until it is due.
AllArrive == arrivals # <<>> ~> arrivals = <<>> \/ phase \in Faults

=============================================================================
