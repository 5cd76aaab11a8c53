# TLA+ models of operatingSystems2

The repository is a small operating system in C++: a virtual machine with six
registers and 12 K memory cells, a loader, a kernel with three schedulers
(FCFS, round robin, multi-level feedback queue), software interrupts for
output, `vfork`, shared memory and semaphores, and a shell that loads and runs
assembled programs. This directory models it in TLA+, checks the models with
TLC, and proves every safety property of the passing runs with TLAPS.

Paths below are relative to `src/` of the repository; `scheduler.cpp` is
`src/kernel/scheduler.cpp` there, and so on.

## 1. The system

| Component | State | Operations | Interacts with |
|---|---|---|---|
| Shell (`shell/shell.cpp`) | verbosity flag | one command per line: `load`, `run`, `exec`, `sets`, `insm`, `oshm`, `wout`, `test`, dumps | calls the kernel, prints what it returned |
| Kernel (`kernel/kernel.cpp`) | algorithm, quantum, ratio, error list, logs | `kernelLoadProgram`, `kernelRun`, `kernelExecuteProgram` (arrival times), `kernelSetScheduler`, `kernelInitSemaphore`, `kernelOpenSharedMemory` | loops over one scheduling function until the queues are empty |
| Scheduler (`kernel/scheduler.cpp`) | `newQueue`, `readyQueue0..2`, `waitingQueue`, `terminatedQueue`, semaphore table with a `blockQueue` each, `pRunningPcb`, `quantumClock` | admit, dispatch, preempt, execute one instruction, serve an interrupt, terminate | owns the PCB pointers, saves and loads the CPU registers, unmarks memory |
| Virtual machine (`hardware/vm.cpp`) | `Reg`, `PC`, `Z`, clock, RAM | `fetchDecodeExecute` | returns an interrupt code to the scheduler |
| PCB (`hardware/pcb.h`) | state, priority, quantum count, CPU image, semaphore, shared block, times | constructors, `promotePriority`, `demotePriority`, `captureTimeSlice`, `calculate...` | shared by raw pointer between all of the above |
| RAM and loader (`hardware/ram.h`, `kernel/loader.cpp`) | cells with an allocation mark, `vMemory`, `vMemoryLookup` | load, verify, mark, allocate a shared block, create a PCB | freed by the scheduler at a halt |
| Process log, dumps (`processlog.*`, `errorhandler.cpp`) | one log per run, its Gantt chart, error list | log, average, print | reads terminated PCBs |
| Programs (`prodCom/*.asm`, `asm/fork.asm`, others) | registers, shared words | instructions and interrupts | run on the machine |

**What is hard.** The C++ program has one thread, so its hazards are not data
races. They are:

- *Interleavings of the simulated processes.* The quantum decides where a
  process loses the CPU, and each interrupt gives it up. The order of steps of a
  producer and a consumer, or a parent and a child, is a function of algorithm,
  quantum and load order; a test runs one of them.
- *Pointers copied by hand.* A PCB is moved between deques by separate
  `pop`/`push` statements in different functions, while `pRunningPcb` is a
  further copy. The comment at scheduler.cpp:238 worries about exactly this.
- *One register file.* Each switch must save before it loads.
- *Stale indices.* `vMemory.erase` shifts entries that `vMemoryLookup` still
  points at with the old index.
- *Shared images and blocks.* A child shares its parent's cells, a block its two
  processes; each is unmarked by somebody's halt.
- *Liveness.* Interrupts promote, preemptions demote; semaphores block; the loop
  condition does not look at blocked processes; `exec` waits for a clock that only
  the scheduler moves.
- *State that outlives a run.* Blocked processes, levels, logs and the clock are
  carried into the next run, which may use another algorithm.
- *Times.* An interrupt advances the clock twice; slices, waits and arrivals are
  computed from differences that assume otherwise.
- *Partial failure.* Commands convert arguments and call the kernel one at a time;
  return codes -1, 1 and 204 mean different things to different callers.

What makes each component correct: no process lost, duplicated, misfiled or run
on the wrong registers (scheduler); every ready process eventually runs
(policies); a semaphore of value 1 excludes (semaphores); every cell is marked
exactly for who uses it, and every name finds its own PCB (memory); slices are
disjoint and times add up (accounting); what fails is recorded, and `exec` reads its
format (shell); the shipped programs do what their comments say (programs).
`PROJECT.json` lists 38 hazards, each with its line and the properties that would
catch it, or the reason why none does.

## 2. Modules

    Lifecycle                              abstract: the stages of a process
    Scheduler ──── MCScheduler             run loop, queues, policies, interrupts
      │  └──────── SchedulerProofs         inductive invariant, the refinement of
      │                                    Lifecycle, what a run leaves to the next
      ├─ Accounting ── MCAccounting        + clock, slices, arrivals, logs, charts
      │  └──────── AccountingProofs        (extends SchedulerProofs)
      └─ Machine                           + registers, memory words, output
           ├─ MachineProofs                steps are Scheduler's, registers are private,
           │                               programs stay in their text
           ├─ ProdCom ── MCProdCom         + prod.asm and com.asm
           │    └─ ProdComProofs           values in order, none lost before the last
           └─ ForkDemo ─ MCForkDemo        + fork.asm and three other programs
                └─ ForkDemoProofs          each prints its own string once
    Memory ─────── MCMemory                marks, process table, shared blocks
      └─────────── MemoryProofs
    System ─────── MCSystem                Scheduler and Memory in one state
      └─────────── SystemProofs            it implements both (ext. SchedulerProofs,
                                           instance of MemoryProofs)
    Shell ──────── MCShell                 lines, arguments, answers, error list
      └─────────── ShellProofs

Accounting and Machine each EXTEND Scheduler and conjoin to its actions what they
do to further variables, so a step of either is a step of Scheduler. They compose
with it, not with each other. System EXTENDS Scheduler and takes an INSTANCE of
Memory: each module abstracts the other, and System is shown to implement both.
Shell stands alone.

### Scheduler

One call of `firstComeFirstServe`, `roundRobin` or `multiLevelFeedbackQueue` is
a path through the values of `phase`; each action is one statement block of the
code, so the model has the code's control flow and a state between any two
blocks.

| `phase` | Code | Actions |
|---|---|---|
| `shell` | between two commands | `SetScheduler`, `LoadProgram`, `InitSemaphore`, `OpenSharedMemory`, `StartRun` |
| `loop` | the `while` of `kernelRun` / `kernelExecuteProgram` | `Arrive`, `CallScheduler`, `EndRun` |
| `admit` | `while (!newQueue.empty())`, then the test for a dispatch | `AdmitNew`, `Dispatch`, `KeepRunning` |
| `preempt` | "if quantum is up" | `PreemptRR`, `PreemptMLFQ`, `NoPreemption` |
| `execute` | `fetchDecodeExecute` and the save that follows it | `Instruction`, `Trap`, `Halt`, `Idle` |
| `isr` | `interruptServiceRoutine` | `IsrPrint`, `IsrVFork`, `IsrReturnSharedMemPtr`, `IsrSemaphoreAquire`, `IsrSemaphoreRelease`, `IsrSemaphoreWait` |
| `resume` | promotion, requeueing, `pRunningPcb = NULL` | `Resume` |
| a fault | the program has crashed | `Faulted` |

Details kept because the properties depend on them: RR dispatches on
`allQueuesEmpty` and preempts on `readyQueue0` alone, the other two look at
every ready queue; only MLFQ resets the clock at a dispatch or preemption; FCFS
has no clock; the child of a fork is queued before its parent; a release
increments the value *and* wakes a waiter; acquire tests the semaphore id while
release and wait do not; dispatch leaves the state READY except under FCFS;
`sets fcfs` keeps the old quantum; `insm` creates its semaphore before it looks
the names up.

Abstractions: an instruction computes, raises one of `Swis`, or halts, in any
order (so every program is covered). Which registers the CPU holds is
`cpuOwner`, and whether a PCB's saved registers are current is `unsaved`.
`quantumClock` restarts at 1 after each multiple of the quantum, since the code
only compares it with 0 and with multiples. Crashes are the four `Faults`. The
process table is reduced to two facts: before any process has terminated it
works (`TableStale` false), afterwards a lookup can return any PCB and a
deletion or lookup can end the program. MemoryProofs shows the first
(`StaleNeedsHalt`), the violated `LookupIsIndex` the second; that the two facts
are a sound reduction of the table is the refinement `ImplementsScheduler` of
System. The damage `oshm` can do when memory is exhausted is in Memory and System.

### Lifecycle

The abstract scheduler: the stage each process has reached (none, new, ready,
running, interrupted, blocked, terminated, logged) and the waiters of each
semaphore, without queues, priorities, quanta or registers. It says that the CPU
is taken only when free, or passed on in one step; that a process blocks only
during an interrupt of its own and is woken only by another's, first come first
served; that what has ended is logged when nothing can run, and stays logged.
`ImplementsLifecycle` is `Abstract!Spec`, with each process mapped to the stage its
place in the queues and `pRunningPcb` give it (`Stage`), not its `pState`.

### Accounting

The clock (`vm.cpp`: one tick a fetch, one more for a software interrupt), each
PCB's slices, arrival, wait, response, turnaround and id, the programs `exec` still
has to load with their times, and the process logs. Where the code reads
`clock`, so does the model: a load takes it as the arrival time, a trap's slice is
recorded after the second tick, `isrHalt` finishes a process at a clock that has
not moved. `Printed` is the walk of `printLogGannt` over the columns. PCBs are
numbers, so that the order of creation is visible. Each action names the action of
Scheduler it extends.

### Machine, ProdCom, ForkDemo

`Machine` EXTENDS `Scheduler` and conjoins to each action what it does to
registers, memory and output: `MPreempt` is `PreemptRR \/ PreemptMLFQ` with
`contextToPcb` and `contextToCpu`, `MTrap` is `Trap` of the code the fetched SWI
returns, and so on. The instruction is no longer arbitrary but `Code[p][PC]`,
one cell per instruction (six bytes in RAM). A word outside `DOMAIN memory` is
one whose allocation mark is 0: `LDR` and `STR` there end the process, as in
vm.cpp. Every step of Machine is a step of Scheduler (lemma `MNextIsNext`);
only the initial states differ, since Machine starts where the shell's commands
have already run (`Started`).

`ProdCom` is `test 2` of the shell (shell.cpp:441): both programs loaded, a
shared block and a semaphore of value 1 between them, either loaded first.
`ForkDemo` is `asm/fork.asm` next to three programs of ours in MCForkDemo that use
the rest of the instruction set (DIV as in `asm/div.asm`, STR and LDRB of a word of
its own image as in `asm/ldrb.asm`), one of which segfaults, and one of which is
terminated for using shared memory it does not have. Two instructions have no step:
a division by zero, at which the simulator dies, and an LDRB outside `memory`, which
tests no mark and loads what is left there. A program that came to one would be
reported as a deadlock.

### Memory

The cells' marks, `vMemory` and `vMemoryLookup` entry by entry, and the shared
blocks with their link counts. The scheduler is reduced to "any live process
may fork or halt". All bounds are the code's inclusive ones. `mem` is followed by
`vMemoryLookup` in `Ram`: `capacity` (4 bytes) and `mem` (24576 bytes) leave 4
bytes of padding before it, two cells that exist, are never initialised and can
be read and written without further damage. They are the cells `Capacity` and
`Capacity + 1`, whose initial marks are 0, 1 or neither. A write past them is the
fault `corrupt`; an `at()` that throws or an index past the end, `badTable`. An
index past the end may also yield a pointer left over in the vector's buffer:
`GetPcb` returns any PCB then.

### System

The PCBs of the queues and those of `vMemory` are the same objects, numbered as
they are created. Each action named `Sys...` conjoins what one call of the code
does in both: `SysLoadProgram` is `LoadProgram` of both modules, `SysIsrVFork` is
`IsrVFork` and `VFork(pRunningPcb)`, `SysHalt` and `SysReturn` (SWI 26 without a
shared block) are the ends of a process with `DeallocateMemory(pRunningPcb)`,
`SysInitSemaphore` takes its processes from `GetPcb`, `SysOpenSharedMemory` and
`SysArrive` go to the memory for their effect and their failures. Everything else
is `SysOther`, and leaves the memory alone. Three choices that the components
leave open are settled here: who may fork and halt (the process on the CPU), which
PCB a name yields (`PcbNamed`), and whether the table ends the program (`Outcome`).

`ImplementsScheduler` and `ImplementsMemory` say that these settled choices are
among those each component allows alone, so that what is proved of Scheduler and
of Memory holds of the whole. A memory written past its end (`corrupt`) has no
counterpart in Scheduler: the composition stops there, as Memory does.

### Shell

A line is a sequence of tokens, taken from `Lines` or from the script of the
`test` command. Each command is an action: which of its arguments are converted
and in which order, what is refused ("usage"), which kernel operations it calls,
how many of them fail, how many errors they push on the error list, what is
answered. `Stoi` gives the tokens `std::stoi` reads a number from, and `Numeral` those
among them that a user would call a number: the difference are names that begin with a
digit, like `demo/1.osx`. A number outside `int` throws, and no handler
catches it (`aborted`), as when an empty line indexes an empty vector. `-v` toggles
six flags, of which that of the error handler is never initialised (errorhandler.h:44)
and starts with either value. The kernel
is reduced to the names it can find, its settings and the number of its logs;
which programs end in a run is a choice. `exec` hands over its programs in
`argMap`, in the order the loop inserts them.

## 3. Runs

| Run | Question | Result |
|---|---|---|
| `scheduler_safety` | three processes that fork, print, block, wake and use shared memory, a late arrival, quantum 0, the algorithm changed between runs: is one lost, duplicated, misfiled, run on wrong registers, left in a lower queue? does the state agree with the queue? is NULL dereferenced? is every step one of Lifecycle? (1.3 M states) | no; yes; no; yes |
| `scheduler_fair` | does every ready process run under RR, and under MLFQ once interrupts stop? | yes |
| `accounting` | two processes over several runs: are slices disjoint, do times add up, are processes first served in order, are logs apart and charts complete, are arrivals taken, and on time, does what a run leaves blocked stay blocked? (0.8 M states) | yes |
| `shell` | every line of MCShell in any order, with either initial flag of the error handler: is every failure recorded? does `exec` read its format, program names like `1.osx` included? (0.9 M states) | yes; yes, except on the lines named below |
| `prodcom` | are values ordered, is none before the last lost, and do both programs end, quanta 2-10, ratios 1-3, every algorithm, either load order? | yes |
| `fork_demo` | do the three processes print their own string once, does nobody disturb anybody's registers, do all end? | yes |
| `memory` | is the table right before the first halt, is any cell leaked or shared? | yes; no |
| `system` | two processes loaded, forked, halted and linked, queues and process table together, RR and MLFQ, a late arrival: is each step one of Scheduler, and one of Memory? is memory held exactly by what may still run or is blocked, free when nothing is, and never freed for what a run leaves blocked? (0.6 M states) | yes |
| `prodcom_mutex` | do `;CRITICAL` sections exclude each other? | **violated** |
| `prodcom_last_value` | is the last value read? | **violated** |
| `memory_lookup` | is the stored index the PCB's index? | **violated** |
| `memory_overlap` | can a program or block overlap a live program? | **violated** |

**What the violations show.**

- `prodcom_mutex`: `isrSemaphoreRelease` increments the value and wakes the first
  waiter as well, so one release admits two. The settings are those of the shell's
  `test 2` exactly (RR, quantum 7, 500 values). The protocol's flag saves the
  order of the values all the same (`InOrder`) and loses none before the last
  (`NoneLost`); for the last:
- `prodcom_last_value`: the producer releases "so consumer reads last value" and
  then overwrites it at once. What the consumer prints then is the end marker 0: its
  "value == 0? sentinel check" (com.asm:21) compares the value with R4, the number of
  values read, so that the marker is taken for a value. (It also means that a value equal
  to that number would end the consumer; none is.)
- `memory_lookup`: `erase` shifts, the indices stay.
- `memory_overlap`: a block marks one cell more than it owns; closing the block
  unmarks the neighbour's first cell.

**What the passing runs say that a reader may not expect.** A child starts with
`PC` and zeroed registers (pcb.h:59), although scheduler.cpp:528 says "copy the pcb
with context": `fork.asm` uses no register across the fork, so `PrintsOwn` holds of it
all the same, and says nothing about the registers.
`StateByQueue` claims RUNNING of the process on the CPU under FCFS only. Round robin and
MLFQ dispatch without `updateState` (scheduler.cpp:110-114, 191-196), against their own
comments: "run process marked as running" (126, 228). A process is RUNNING there only if
it came to the CPU by the preemption of another, and READY otherwise.
`ExecByFormat` leaves out lines on which a program whose name `stoi` reads a number from
comes straight after another one (`NameReadAsTime`). The code takes it for an arrival
time there: `exec prod 1.osx` runs `prod` alone, at time 1, although shell.cpp:180-181
promises time 0 "if no arrival time follows" and line 192 asks for "a number". In the
first place, or after a time, such a name is a program like any other, and the property
says so.
`FailuresRecorded` excepts two commands, because the code breaks it for them in both
directions: `mdmp` of an unknown name fails without a word (the shell tests a code that
is never returned, so the "was not found" of shell.cpp:270-272 is never printed), and
`wout` records an error after each success. Its second half does not say that what
fails is reported: `oshm` without free memory answers "ok".
`AllReturned` excepts open blocks; there are some that nobody closes (section 4).
`StrandedForever` says that a process blocked at the end of a run never runs again;
its memory is then never freed (`StrandedKeepsMemory`).
`TimesAddUp` counts the second tick of each interrupt as waiting.
`ArrivalsOnTime` allows one tick of delay, which interrupts do cause.
`ChartComplete` is about one walk of the chart, and the walk changes nothing in the log:
the model has no counterpart of what errorhandler.cpp:293 calls "something strange" on a
second core dump. That the verbosity flags of the components agree is no property:
the uninitialised one may differ from the start, and toggling keeps it so.

**Bounds.** Processes are PCB objects, created once: three are enough for a
running process, one blocked and one ready, or a parent, child and unrelated
process; no action looks at more than two. Accounting needs two to compare slices,
and a run after a run. `DemoteAfter` is 1 instead of 5 and the levels' factors are
small in the abstract runs (the proofs take any value); the program runs use the
code's values, 5 and 1000. Quanta 2 to 10 in `prodcom` stand for every quantum
above 1: the clock restarts at each interrupt, and neither program executes more
than ten instructions between two of its interrupts, so a larger quantum never
ends; for the same reason there are at most four preemptions between two
interrupts, and no demotion, so ratios do not matter there. Quantum 1 is left out
because under MLFQ both programs really do not end (see *Fairness*). `Limit` is 3
instead of 500 where the property is about the last value or about ending: the loop
has no state but its counter. Memory has eight cells, four programs that touch,
overlap or leave one cell, and blocks of one or two cells, so that every inclusive
bound meets a neighbour; three PCBs (four in the two violation runs) and two blocks. `MaxSemValue` bounds the
releases above it in the abstract runs and is above every value reached in the
program runs. `system` has four cells and two programs of one cell, of
which the second ends at the last cell, one block, and two PCBs: a late arrival or
a fork beside the first process, one blocked and one to wake it. The lookups of a
table with two entries already go wrong in every way: another entry, the end, a name
that is missing. In `accounting`, `MaxSlices` lets a process execute three
instructions, `MaxClock` lets a run start up to time 2, after a first run may have
ended, and the arrival time 2 is one the clock can skip. In `shell`, `MaxLogs` = 2
tells no log, one and several apart, and `Lines` has every command with too few,
enough and too many arguments. `CHECK_DEADLOCK FALSE` appears in the Memory runs
only: when all `MaxPcb` PCBs are used and have halted, and no command is left, that
bounded model stops. In Scheduler and Machine a fault state stutters (`Faulted`,
`Finished`), in Shell an ended program (`Stopped`), and the shell can otherwise
always start a run or read a line.

**Symmetry** is used over processes and semaphores in `scheduler_safety` only;
its one temporal property, `ImplementsLifecycle`, has no liveness part and is itself
symmetric.

**Fairness.** `WF(KernelStep)` in Scheduler, `WF(AKernelStep)` in Accounting and
`WF(MNext)` in Machine: a run is a `while` loop on one thread that never waits, so
it always takes its next step. In Scheduler and Accounting nothing is assumed of the
user (no fairness on shell commands). In Machine the commands have been given
(`Started`), and `WF(MNext)` covers the one left, `Run`: `BothEnd` and `AllEnd` are about
users who do type `run` at last. Nothing is assumed of the programs (a process may compute
for ever or trap for ever).
`RRServed` and `AllArrive` need no more. `MLFQServed` has the premise that interrupts stop: every
interrupt promotes its process, so two processes that keep trapping keep a demoted
one waiting for ever, and TLC shows so when the premise is removed. `BothEnd` fails
for the same reason under MLFQ with quantum 1: the consumer's polling starves the
producer.

Each property of a passing run has a mutant in `PROJECT.json`: a plausible bug,
written next to the definition it changes (names ending in `M`), that makes the
property fail.

**Comparison with the program.** The C++ program was built with g++ and its
`prod.osx` and `com.osx` images patched to the limit 3. Its output was compared with
the output of ProdCom for 56 settings (FCFS; RR with quanta 1-10; MLFQ with quanta
1, 2, 3, 4, 5, 7 and ratios 1-3; both load orders): all agree, including the ones
that lose the last value and the ones that never end. With 500 values the
program prints 499 and then 0 under FCFS and RR 2, and 500 under RR 7. It also
crashes in its own deallocation at the end of `test 2` with the producer loaded
first, and in the fork demo: the stale indices of `memory_lookup`.

## 4. Proofs

Every invariant and action property of the passing runs is a theorem, for all
values of the constants; what is left to TLC alone is liveness. Eight modules hold
theorems. None rests on anything but the named assumptions of the modules it is
about, which TLC evaluates in each run, and the premises the theorem states.

| Module | Theorems |
|---|---|
| SchedulerProofs | `Invariance`; `TypeCorrect`, `NoDuplicateHolds`, `NotLostHolds`, `ExclusiveHolds`, `ReadyByPriorityHolds`, `NoNullDerefHolds`, `ContextSafeHolds`; `StateByQueueHolds`, `LifecycleImplemented`; `LowQueuesOnlyMLFQHolds`, `StrandedForeverHolds` |
| MachineProofs | `ProgramsSafe`, `OwnStepsHold`, `MachineImplemented`; `MTypeOKHolds` |
| ProdComProofs | `ProdComSafe`, `ProdComTyped`; `InOrderHolds`, `NoneLostHolds` |
| ForkDemoProofs | `PrintsOwnHolds`, `ForkDemoTyped` |
| MemoryProofs | `TypeCorrect`, `RightBeforeHaltHolds`, `StaleNeedsHaltHolds`, `EntriesMatchHolds`, `NoLeakHolds`, `MarksProtectHolds` |
| SystemProofs | `SystemInvariance`; `SchedulerImplemented`, `MemoryImplemented`; `LiveByStageHolds`, `AllReturnedHolds`, `StrandedKeepsMemoryHolds` |
| AccountingProofs | `OneAtATimeHolds`, `TimesAddUpHolds`, `ArrivalsOnTimeHolds`, `LogsInOrderHolds`, `FirstServedInOrderHolds`, `ChartCompleteHolds`; `AccountingImplemented` |
| ShellProofs | `TypeOKHolds`, `FailuresRecordedHolds`, `ExecByFormatHolds` |

**Assumptions.** In Scheduler: NULL is not a PCB, -1 is not a semaphore, a
`blockQueue` is none of the scheduler's queues, the algorithms are the three,
quanta and ratios are natural numbers, the demotion limit is positive. (A negative
quantum, which `sets` accepts, is outside the model.) In Memory: addresses and
sizes are natural numbers. In System: a process of the scheduler is the number of
its PCB. In Accounting: so are arrival times, and PCBs are
numbered. In Machine: addresses are integers. In ProdCom: there are two processes,
they run the two programs, and the block has its two words. In ForkDemo: the loaded
programs are finitely many, the three strings have different addresses, the
family (what is not loaded beside `fork.asm`) runs its text (`ForkProgram`), no
program arrives on the way, as after `load` and `run`, and the programs beside the
family are any that are well formed, print no string and do not fork
(`OtherPrograms`: a string of theirs could be one of the three, and a child of
theirs would not be of the family). In Shell: the script of `test` has two programs
to name, lines are sequences of tokens, `stoi` reads every numeral, and what it reads
without overflow is an integer.

**Scheduler.** None of the properties is inductive alone. `NotLost`
and `NoDuplicate` break if an interrupt could find another process at the head of
`waitingQueue` than the one it serves; so `InterruptPlace` says that queue is empty
outside an interrupt, holds exactly the running process when its service starts,
and that after it the process is still in a queue other than the ready ones.
(`Resume` pops and requeues on that basis, with no check in the code.) Creating a
process preserves `NoDuplicate` only because a PCB that was not created is
nowhere (`FreshUnplaced`). `NoNullDeref` needs that, when RR reaches its preemption
test with no running process, all ready queues are empty (`NothingToPreempt`):
`allQueuesEmpty` ignores blocked processes, so RR idles rather than dispatch
NULL. `ContextSafe` needs `ContextInv`, which tracks the CPU's owner through all
phases and says an interrupt leaves every process saved. `IInv` is their
conjunction with `TypeOK` and the properties. Lemmas first: what `Push`, `Pop` and
moving between queues do to membership and distinctness of a family of sequences,
and what the highest non-empty ready queue yields. Then `Init => IInv`, and one
lemma per action with a step per conjunct the action can disturb.

**Lifecycle.** Every step of Scheduler is shown to be of one of a few kinds: it
puts one process in one queue (`Places`), takes a ready process to the CPU
(`Takes`), exchanges the process on the CPU (`Switches`), logs what has ended, or
moves nobody. Since a process is in at most one place, its stage after the step
follows from the kind (`StageByPlace`), and each kind is one move of Lifecycle or
leaves it unchanged. `StateByQueue` follows from the same lemmas: `updateState` is
called with the state that belongs to the queue. That FCFS has marked what it runs
(`MarkedByFcfs`) is kept because `sets` changes the algorithm only when nobody is on the
CPU.

**Stranded.** Call a set of semaphores closed if every process linked to one of
them has ended or is blocked on one of them. Nobody can then release any of the
set, no new process is linked to it (`insm` links to a new semaphore only), and so
it stays closed (`ClosedStays`): whoever is blocked on it stays so. When a run ends
all processes are over, blocked or new, and no new process is linked to a semaphore
that has a waiter; the semaphores with waiters are then such a set
(`PromptStranded`). `LowQueuesOnlyMLFQ` is a consequence: a process that MLFQ left
on a lower level has ended or is stranded, and never comes to a ready queue again.

**Machine.** `MNextIsNext` shows each machine step to be a step of Scheduler,
`StartedInv` that `IInv` holds where the machine starts, so it holds throughout
(`ProgramsSafe`). `OwnStepsHold` is the action property `OwnSteps`: registers are
private to a process although there is one register file. It needs `CpuInv`, that
what the CPU still holds of a process which no longer runs is in its PCB too, and
that it holds nothing while an interrupt is served; `Shapes` says the images have a
register 0 to write results to. Nothing is assumed about `Code`, so jumps to any
address are covered. The hypothesis is that the initial queue names each process
once; `ProdComSafe` instantiates it with `test 2`, for every `Limit`.
`MTypeOKHolds` cannot do without a premise: vm.cpp checks no bound on PC, so it is
about sound programs, whose jumps and operands are in range and whose last
instruction does not fall through (`WellFormed`), and where a forked process has the
text of the one that forks. `AtCode` says each live process stands at an instruction of its
text, wherever its registers are; the step from there to the next uses `OwnStep`.
`Trapped`, that the interrupt served is the one of the SWI before the saved PC, is
not needed for it, but by the proofs about programs.

**Producer and consumer.** `PCInv` gives, for each PC of each program, what its
registers hold and what it may conclude of the flag: a producer between its test and
its store knows the flag is 0, a consumer between its test and its clearing that it
is 1. Neither is disturbed by the other's instructions in between, because the other
sees the same flag and is excluded by it; that is why the broken semaphore does not
matter. `Protocol` relates the counts: values sent and taken differ by what the flag
says, and the value in the block is the last sent, or the 0 the producer leaves.
`PrintedPart` says the integers printed are as many as the consumer counts. A step
of the machine is one instruction of either text, the service of its interrupt, its
end, or invisible to both (`ProgramSteps`), so each text is walked once,
instruction by instruction (`ProducerStep`, `ConsumerStep`), and never the scheduler.
`NoneLost` follows from the count and the order: among `Limit` integers every rank is
taken (`RankTaken`), and below the last each has its rank for value.

**Fork program.** Which PCB is the child is the choice of a step, so `FInv` says
there are two processes, or nobody yet, in the roles of child and grandchild
(`Roles`): the child exists from the moment the parent's fork is served, the
grandchild from the child's. `Knowledge` has what each knows at each PC: in the
parent Z is always 0; the child starts with Z = 1 and registers equal, so that its
`CMP R1 R2` clears Z before it forks itself, and only the grandchild takes the second
branch. `Spoken` says the strings in the output are those of the processes that are
past their print, each once. The other programs are handled by one lemma
(`OthersSame`), from `BystanderSame` of MachineProofs: a step that is not one's own
leaves one's registers, pending interrupt and end alone.

**Memory.** `IInv` has the types, without which a stale index could be anything;
`TableInv`, that until the first halt each live process is in `vMemoryLookup` at
its own index; `EntriesMatch`; `NoLeak`; and `Protected`, which adds to
`MarksProtect` that without forks every live process is still found under its
name, so that its halt unmarks its own cells. The delicate actions are the halt,
which erases an entry that need not be its own and unmarks an image that others
may share, and `oshm`, which closes the processes' old blocks before the new one
exists.

**System.** `SysInv` is the scheduler's invariants, the memory's, and `Linked`: the
PCBs of the table are those the scheduler has created, the halted ones those it has
terminated, each has a shared block in one module if it has in the other, and a
program ended by the table ends in both. `Linked` is not inductive without the
others. That a halt is of a live process (`RunningLive`) needs that the running
process has a state other than TERMINATED, and that in an interrupt it stands in
`waitingQueue` (`InterruptPlace`); this is what makes each step a step of Memory. That
a lookup ends the program only where Scheduler lets it needs the memory's
invariant: before a PCB has halted the table is right (`DiesStale` of MemoryProofs),
and by `Linked` a PCB that has halted is a terminated process (`DiesAfterHalt`). Each
action of `SysOther` moves processes between queues without ending or creating one
(`OtherKeepsLife`). `SystemProofs` reaches Memory under two names, its own instance
`M` and that of MemoryProofs; the first lemmas (`Same...`) say that both
have one meaning. `LiveByStage` follows from `SysInv` because the queue of a process
determines its state (`StageAlive`), `AllReturned` from it and `NoLeak`, and
`StrandedKeepsMemory` from `PromptStranded` of the scheduler, whose theorems apply
by the refinement. (There are blocks nobody closes: one opened by a
process with itself has a count of two and one process to decrement it.)

**Accounting.** Slices are disjoint because every one is recorded at a clock that
has just moved and none lies in the future (`NoFuture`); that a terminated process
has its last slice as end needs that the slice of an interrupt is still the present
when its service begins (`JustTrapped`, for `isrHalt`). `Elapsed` is the sum
`TimesAddUp` states, kept by each `captureTimeSlice`. `ArrivalsOnTime` follows from
`ArrivalInv`: inside the scheduler's call every arrival lies in the future, and
one call advances the clock by two at most. `LogsInOrder` needs `Cleared`: whatever
is logged ended before the arrival of every process that is created, not logged and
not blocked for ever. Processes are logged when a run ends, and by `PromptStranded`
everything else is then stranded, and never ends, or not yet created, and arrives
later. `FirstServedInOrder` rests on
`Line`: the processes that have not executed an instruction are in `newQueue`, on
the highest level or about to be served, and stand there in order of creation. To stay
so, no process may be preempted before its first instruction, which holds
because the quantum clock is 0 while nobody runs (`ClockZero`), and none may be
admitted between the choice of a process and its first instruction (`NewEmpty`).
`ChartComplete` is about the recursive walk of the chart. Slices are disjoint and lie
in the log's span (`Rising`), so a column holds one entry at most, and the walk has
passed `Before(log, i + 1)` entries after column i: that function solves the equation of
the walk (`WalkExists`), and by induction on the columns so does no other
(`WalkCounts`). That every process of a log has an entry needs `Unreached`: whoever
was not served is still in `newQueue` or on the highest level.

**Shell.** `TypeOK`,
`FailuresRecorded` and `ExecByFormat` are inductive together with the type of
`script`: what `test` leaves to run are non-empty lines of tokens, so a command finds
its arguments there as on a typed line. A command that calls the kernel several times
adds up what failed and what was recorded, and the two sums agree (`Accounted`).
`ExecByFormat` compares the loop
over the arguments of `exec`, a recursive function of the position, with the format
the usage line gives: its equation has a solution, built from the last position to the first
(`Solution`), and the programs it hands over are those of the format
(`FromRightly`), for lines of any length on which no name is read as a time: on those,
what stoi reads after a program and what the format calls a number are the same
(`Regular`).

Both recursive definitions are local functions over an interval of numbers, so the
inductions above are over a set of natural numbers: the positions where the claim
fails would have a least one (WellFoundedInduction). The induction theorems of the
library, whose parameter is an operator, are not used.

## 5. Only model-checked

- Liveness (`RRServed`, `MLFQServed`, `AllArrive`, `BothEnd`, `AllEnd`): the prover has no
  rule for fairness or ENABLED. `StrandedForever` needs neither, and is proved.
- The violations of section 3, which are counterexamples.
- That every constant of a configuration meets the assumptions of section 4.

No module declares a RECURSIVE operator.

## 6. Not modelled

- *Memory under programs.* System's programs are arbitrary, and the words Machine
  reads and writes are not cells of Memory: what a program computes in a cell that
  another one holds too is not modelled.
- *Machine and Accounting in one specification*: arbitrary programs take all
  the times the shipped ones can.
- A zero divisor, a byte load outside the words of Machine, unknown opcodes and
  interrupts; 32-bit overflow; negative quanta and
  arrival times in the scheduler's modules; bytes of the program images (a program
  is its address and size, or its instructions).
- The averages of a log (quotients of modelled times, accumulated in members that are
  never initialised), the text of every dump, the per-process chart, colours.
- The characters of a line: tokens are given, and what `stoi` reads is a table.
- The assembler is an executable without source; `build/` is generated; `kernel/\` is
  a stale copy of a header. `PROJECT.json` gives the reason per component and
  hazard.

## 7. Plan

Done: all modules above, and the proofs of section 4. What a continuation would add:

1. *System under Accounting*: times of processes whose loads fail for lack of memory.
2. *Identifiers*: the two hazards of ids and of `insm` names, properties first.
3. *Overflow* in Machine, once a program of the repository comes to it.
