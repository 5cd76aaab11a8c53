------------------------------- MODULE System -------------------------------
(***************************************************************************)
(* Scheduler and memory in one specification: the PCBs of the queues are   *)
(* those of the vector vMemory, numbered in the order of their creation    *)
(* (src/src/kernel/kernel.cpp, scheduler.cpp, src/src/hardware/ram.h).     *)
(*                                                                         *)
(* Alone, module Scheduler lets a lookup go wrong whenever some process    *)
(* has ended, and module Memory lets any live process fork or halt at any  *)
(* time.  Here the lookup table decides how each call ends, and the        *)
(* scheduler who makes it.  The names below prefixed by Sys are the        *)
(* actions of Scheduler and of Memory that one call of the code performs.  *)
(***************************************************************************)
EXTENDS Scheduler

CONSTANTS Capacity, File, Load, Size, ShmSizes, MaxPcb, MaxShm   \* see module Memory

ASSUME ProcIsId == Proc = 1..MaxPcb
ASSUME CapacityAssumption == Capacity \in Nat \ {0}
ASSUME FileAssumption == Load \in [File -> Nat] /\ Size \in [File -> Nat]
ASSUME ShmAssumption == ShmSizes \subseteq Nat
ASSUME BoundAssumption == MaxPcb \in Nat /\ MaxShm \in Nat

VARIABLES memPhase, mark, pcbs, vMemory, vMemoryLookup, shms   \* see module Memory

M == INSTANCE Memory WITH phase <- memPhase

memVars == <<memPhase, mark, pcbs, vMemory, vMemoryLookup, shms>>
sysVars == <<vars, memVars>>

SysInit == Init /\ M!Init

\* The call in progress ends as the table lets it.
Outcome(next) == IF memPhase' = "badTable" THEN "badTable" ELSE next

\* The PCB made by this step has this state.
NewestIs(state) == pState'[Len(pcbs')] = state

----------------------------------------------------------------------------
(* Shell commands. *)

SysLoadProgram ==
    /\ LoadProgram
    /\ \E f \in File : M!LoadProgram(f)
    /\ NewestIs(NEWLY)

Name == [file : File, forks : 0..MaxPcb]

PcbNamed(name) == IF name \in DOMAIN vMemoryLookup THEN M!GetPcb(name) ELSE {NoProc}

\* An index past the end of vMemory finds any PCB, or none: BadLookup.
SysInitSemaphore ==
    \E one, two \in Name :
        \/ /\ UNCHANGED memVars
           /\ \E p \in PcbNamed(one), q \in PcbNamed(two) : LinkSemaphore(p, q, {"shell"})
        \/ /\ M!BadLookup(one) \/ M!BadLookup(two)
           /\ LinkSemaphore(NoProc, NoProc, {"badTable"})

\* Whether Pcb::sharedMemory is set.
SharedByPcb(table) == [p \in Proc |-> p \in DOMAIN table /\ table[p].shm # M!NoShm]

\* A failed allocation sets no pointer.
SysOpenSharedMemory ==
    /\ phase = "shell"
    /\ \E one, two \in DOMAIN vMemoryLookup, size \in ShmSizes :
         M!OpenSharedMemory(one, two, size) \/ M!BadLookup(one) \/ M!BadLookup(two)
    /\ phase' = Outcome("shell")
    /\ sharedMemory' = SharedByPcb(pcbs')
    /\ UNCHANGED <<kernelVars, queue, runVars, pState, levelVars, semVars, cpuVars, logged>>

----------------------------------------------------------------------------
(* Calls of the run loop that reach the table. *)

SysArrive ==
    /\ Arrive
    /\ \/ (\E f \in File : M!LoadProgram(f)) /\ NewestIs(NEWLY)
       \/ pState' = pState /\ UNCHANGED memVars

SysHalt ==
    /\ HaltTo({"loop", "badTable"})
    /\ M!DeallocateMemory(pRunningPcb)
    /\ phase' = Outcome("loop")

SysIsrVFork ==
    /\ IsrVFork
    /\ M!VFork(pRunningPcb)
    /\ NewestIs(READY)

SysReturnM ==   \* isrHalt without deallocateMemory
    /\ ReturnTo({"resume", "badTable"})
    /\ UNCHANGED memVars
    /\ phase' = Outcome("resume")
SysReturn ==
    /\ ReturnTo({"resume", "badTable"})
    /\ IF sharedMemory[pRunningPcb] THEN UNCHANGED memVars ELSE M!DeallocateMemory(pRunningPcb)
    /\ phase' = Outcome("resume")

\* What the scheduler does without the table.
SysOther ==
    /\ \/ SetScheduler \/ StartRun \/ CallScheduler \/ EndRun
       \/ AdmitNew \/ Dispatch \/ KeepRunning
       \/ PreemptRR \/ PreemptMLFQ \/ NoPreemption
       \/ Idle \/ Instruction
       \/ \E code \in Swis : Trap(code)
       \/ IsrPrint \/ IsrSemaphoreAquire \/ IsrSemaphoreRelease \/ IsrSemaphoreWait
       \/ Resume
    /\ UNCHANGED memVars

\* The program died, in the scheduler or in the memory.
SysDied == (phase \in Faults \/ memPhase \in M!Died) /\ UNCHANGED sysVars

SysNext ==
    \/ /\ memPhase = "up"
       /\ \/ SysLoadProgram \/ SysInitSemaphore \/ SysOpenSharedMemory
          \/ SysArrive \/ SysHalt \/ SysIsrVFork \/ SysReturn
          \/ SysOther
    \/ SysDied

SysSpec == SysInit /\ [][SysNext]_sysVars

----------------------------------------------------------------------------
\* The abstraction of module Scheduler is right: only after a process has ended
\* can a lookup by name, in a command or in deallocateMemory, stop the program.
ImplementsScheduler == Init /\ [][Next]_vars

\* The abstraction of module Memory is right: only live processes fork and halt.
\* No interleaving of interrupts, semaphores and preemptions makes the scheduler
\* deallocate a process twice, or fork one whose memory is gone.
ImplementsMemory == M!Spec

Scheduled(p) == Stage(p) \in {"new", "ready", "running", "interrupted", "blocked"}

\* The memory of a process is held exactly as long as the process may run again, or
\* is blocked: deallocateMemory and the move to terminatedQueue are two statements
\* in three functions (scheduler.cpp:81, 158, 544).
LiveByStage == phase \notin Faults => \A p \in Proc : p \in M!Live <=> Scheduled(p)

\* When no process is left, none waiting to be run and none blocked, no cell is
\* marked except those of the blocks still open: the bounds of loading and of
\* deallocating (loader.cpp:109, scheduler.cpp:391-393) undo each other over every
\* path by which a process can reach the log.
AllReturned ==
    phase = "shell" /\ (\A p \in Proc : Stage(p) \in {"none", "logged"}) =>
        \A i \in 0..(Capacity - 1) : mark[i] = M!Used =>
            \E s \in DOMAIN shms : shms[s].count > 0 /\ i \in M!Block(s)

\* A process still blocked when a run ends is never deallocated: no later run can
\* bring it to its halt (scheduler.cpp:348 does not count the blockQueues).
StrandedKeepsMemory == \A p \in Proc : [](phase = "shell" /\ Blocked(p) => [](p \in M!Live))

=============================================================================
