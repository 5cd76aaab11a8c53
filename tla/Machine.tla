------------------------------ MODULE Machine ------------------------------
(***************************************************************************)
(* The virtual machine under the scheduler (src/src/hardware/vm.cpp): each *)
(* step of module Scheduler, with the registers, the memory words and the  *)
(* output of real programs in place of arbitrary instructions.             *)
(*                                                                         *)
(* One instruction takes one cell of Code[p], so PC counts instructions    *)
(* where the code counts bytes by six.  memory holds the words the programs *)
(* may touch; an address outside it is one whose allocation mark is 0.  A   *)
(* word of a program's own image stays in it when the program ends, since   *)
(* no other program touches it.                                            *)
(***************************************************************************)
EXTENDS Scheduler, FiniteSets, Functions

CONSTANTS
    Code,     \* [Proc -> Seq(Instruction)], the loaded program images
    Base,     \* load address of the shared memory block
    Words,    \* addresses of the words in it, or in the image of a program
    Strings   \* address of a string in memory -> address of its closing quote

ASSUME AddressAssumption == Base \in Int /\ \A a \in DOMAIN Strings : Strings[a] \in Int

\* An instruction: operation and operands, as the assembler writes them.
Op(op, a, b, c) == [op |-> op, a |-> a, b |-> b, c |-> c]
SWI(n) == Op("SWI", n, 0, 0)

VARIABLES
    cpu,      \* the registers of the VirtualMachine
    image,    \* the registers saved in each Pcb
    memory,   \* allocated address -> word
    output    \* what was printed: <<interrupt, content of register 0>>

machineVars == <<cpu, image, memory, output>>
mVars == <<vars, machineVars>>

Registers == 0..5
Contexts == [Reg : [Registers -> Int], PC : Int, Z : Int]
Cleared == [Reg |-> [r \in Registers |-> 0], PC |-> 0, Z |-> 0]
FirstInstruction == [Cleared EXCEPT !.PC = 1]

----------------------------------------------------------------------------
(* fetchDecodeExecute, as functions of the registers c. *)

SetReg(c, r, value) == [c EXCEPT !.Reg[r] = value, !.PC = @ + 1]
BranchM(c, taken, target) ==   \* incrementPC left true
    [c EXCEPT !.PC = IF taken THEN target + 1 ELSE @ + 1]
Branch(c, taken, target) == [c EXCEPT !.PC = IF taken THEN target ELSE @ + 1]

\* C++ division: towards zero.
Magnitude(x) == IF x < 0 THEN -x ELSE x
Quotient(x, y) ==
    LET q == Magnitude(x) \div Magnitude(y) IN IF (x < 0) = (y < 0) THEN q ELSE -q

\* The byte at the address of a word is its lowest, loaded as an unsigned char.
LowByte(word) == word % 256

\* ADR loads an address the assembler computed; AND, ORR, EOR, STRB do nothing.
AfterOp(i, c, mem) ==
    CASE i.op = "ADD" -> SetReg(c, i.a, c.Reg[i.b] + c.Reg[i.c])
      [] i.op = "SUB" -> SetReg(c, i.a, c.Reg[i.b] - c.Reg[i.c])
      [] i.op = "MUL" -> SetReg(c, i.a, c.Reg[i.b] * c.Reg[i.c])
      [] i.op = "DIV" -> SetReg(c, i.a, Quotient(c.Reg[i.b], c.Reg[i.c]))
      [] i.op = "MOV" -> SetReg(c, i.a, c.Reg[i.b])
      [] i.op \in {"MVI", "ADR"} -> SetReg(c, i.a, i.b)
      [] i.op = "LDR" -> SetReg(c, i.a, mem[c.Reg[i.b]])
      [] i.op = "LDRB" -> SetReg(c, i.a, LowByte(mem[c.Reg[i.b]]))
      [] i.op = "CMP" -> [c EXCEPT !.Z = c.Reg[i.a] - c.Reg[i.b], !.PC = @ + 1]
      [] i.op \in {"B", "BL"} -> Branch(c, TRUE, i.a)
      [] i.op = "BEQ" -> Branch(c, c.Z = 0, i.a)
      [] i.op = "BNE" -> Branch(c, c.Z # 0, i.a)
      [] i.op = "BGT" -> Branch(c, c.Z > 0, i.a)
      [] i.op = "BLT" -> Branch(c, c.Z < 0, i.a)
      [] OTHER -> [c EXCEPT !.PC = @ + 1]

AfterStore(i, c, mem) ==
    IF i.op = "STR" THEN [mem EXCEPT ![c.Reg[i.b]] = c.Reg[i.a]] ELSE mem

\* LDR and STR test the allocation mark of the address, and nothing else.
Segfault(i, c, mem) == i.op \in {"LDR", "STR"} /\ c.Reg[i.b] \notin DOMAIN mem

\* Two instructions have no step here: a division by zero, which ends the simulator, and
\* a load of a byte outside memory (LDRB tests no mark: it loads what is left there).  A
\* program that comes to one shows as a deadlock.
Defined(i, c, mem) ==
    /\ i.op = "DIV" => c.Reg[i.c] # 0
    /\ i.op = "LDRB" => c.Reg[i.b] \in DOMAIN mem

\* The code each software interrupt returns; 10 ends the process.
ReturnCode(n) == IF n = 10 THEN HALT ELSE 20 + n

Fetched == Code[pRunningPcb][cpu.PC]

----------------------------------------------------------------------------
(* The steps of the scheduler, with their effect on the registers. *)

\* Both processes stay linked to the block until they end.
AfterDeallocation(p) ==
    IF sharedMemory[p] /\ \A q \in Proc \ {p} : sharedMemory[q] => pState[q] = TERMINATED
    THEN [a \in {} |-> 0] ELSE memory

MDispatch ==
    /\ Dispatch
    /\ cpu' = image[NextReady(queue)]
    /\ UNCHANGED <<image, memory, output>>

\* contextToPcb of the old process, contextToCpu of the new one.
MPreemptM ==   \* contextToCpu first
    /\ PreemptRR \/ PreemptMLFQ
    /\ cpu' = image[pRunningPcb']
    /\ image' = [image EXCEPT ![pRunningPcb] = cpu']
    /\ UNCHANGED <<memory, output>>
MPreemptShortM ==   \* contextToPcb stops after register 3
    /\ PreemptRR \/ PreemptMLFQ
    /\ image' = [image EXCEPT ![pRunningPcb] =
                   [cpu EXCEPT !.Reg[4] = image[pRunningPcb].Reg[4],
                               !.Reg[5] = image[pRunningPcb].Reg[5]]]
    /\ cpu' = image'[pRunningPcb']
    /\ UNCHANGED <<memory, output>>
MPreempt ==
    /\ PreemptRR \/ PreemptMLFQ
    /\ image' = [image EXCEPT ![pRunningPcb] = cpu]
    /\ cpu' = image'[pRunningPcb']
    /\ UNCHANGED <<memory, output>>

MInstruction ==
    /\ Instruction
    /\ Fetched.op # "SWI" /\ ~Segfault(Fetched, cpu, memory) /\ Defined(Fetched, cpu, memory)
    /\ cpu' = AfterOp(Fetched, cpu, memory)
    /\ memory' = AfterStore(Fetched, cpu, memory)
    /\ UNCHANGED <<image, output>>

MTrap ==
    /\ phase = "execute" /\ pRunningPcb # NoProc
    /\ Fetched.op = "SWI" /\ Fetched.a # 10
    /\ \E code \in Swis : code = ReturnCode(Fetched.a) /\ Trap(code)
    /\ image' = [image EXCEPT ![pRunningPcb] = AfterOp(Fetched, cpu, memory)]
    /\ cpu' = Cleared
    /\ UNCHANGED <<memory, output>>

MHalt ==
    /\ Halt
    /\ Fetched = SWI(10) \/ Segfault(Fetched, cpu, memory)
    /\ cpu' = IF Fetched = SWI(10) THEN [cpu EXCEPT !.PC = @ + 1] ELSE cpu
    /\ image' = [image EXCEPT ![pRunningPcb] = cpu']
    /\ memory' = AfterDeallocation(pRunningPcb)
    /\ UNCHANGED output

\* Register 0 of the saved image holds the integer or the address to print; it
\* is left at the closing quote of a string.
MIsrPrint ==
    /\ IsrPrint
    /\ LET value == image[pRunningPcb].Reg[0] IN
         /\ output' = IF returnCode = INPUT THEN output ELSE Append(output, <<returnCode, value>>)
         /\ image' = IF returnCode = PRINT /\ value \in DOMAIN Strings
                     THEN [image EXCEPT ![pRunningPcb].Reg[0] = Strings[value]] ELSE image
    /\ UNCHANGED <<cpu, memory>>

\* The child starts where its parent stands, with Z set and its registers zero.
ForkedM(parent) == image[parent]   \* a full copy: Z too
Forked(parent) == [Cleared EXCEPT !.PC = image[parent].PC, !.Z = 1]

MIsrVFork ==
    /\ IsrVFork
    /\ image' = [p \in Proc |-> IF pState'[p] # pState[p] THEN Forked(pRunningPcb) ELSE image[p]]
    /\ UNCHANGED <<cpu, memory, output>>

MIsrReturnSharedMemPtr ==
    /\ IsrReturnSharedMemPtr
    /\ IF sharedMemory[pRunningPcb]
       THEN image' = [image EXCEPT ![pRunningPcb].Reg[0] = Base] /\ UNCHANGED memory
       ELSE UNCHANGED <<image, memory>>
    /\ UNCHANGED <<cpu, output>>

\* These leave the registers alone.
MOther ==
    /\ \/ Arrive \/ CallScheduler \/ EndRun
       \/ AdmitNew \/ KeepRunning \/ NoPreemption \/ Idle
       \/ IsrSemaphoreAquire \/ IsrSemaphoreRelease \/ IsrSemaphoreWait \/ Resume
    /\ UNCHANGED machineVars

MKernelStep ==
    \/ MDispatch \/ MPreempt \/ MInstruction \/ MTrap \/ MHalt
    \/ MIsrPrint \/ MIsrVFork \/ MIsrReturnSharedMemPtr \/ MOther

\* The programs in loaded are in memory, in that order, and those in linked were
\* given a shared block and a semaphore of value 1 by oshm and insm.
Started(loaded, linked) ==
    /\ phase = "shell"
    /\ schedulerAlgo \in Algos /\ schedulerQuantum \in Quanta /\ mlfqRatio \in Ratios
    /\ argMap = 0
    /\ queue = [id \in QueueId |-> IF id = "newQueue" THEN loaded ELSE <<>>]
    /\ pRunningPcb = NoProc /\ quantumClock = 0 /\ returnCode = 0
    /\ pState = [p \in Proc |-> IF p \in Range(loaded) THEN NEWLY ELSE CREATED]
    /\ pPriority = [p \in Proc |-> 0]
    /\ pQuantumCount = [p \in Proc |-> 0]
    /\ semaphoreTable = IF linked = {} THEN {} ELSE Sem
    /\ \E owner \in [linked -> Sem] :
         semId = [p \in Proc |-> IF p \in linked THEN owner[p] ELSE NoSem]
    /\ semValue = [s \in Sem |-> IF s \in semaphoreTable THEN 1 ELSE 0]
    /\ sharedMemory = [p \in Proc |-> p \in linked]
    /\ cpuOwner = NoProc /\ unsaved = {} /\ logged = {}
    /\ cpu = Cleared
    /\ image = [p \in Proc |-> FirstInstruction]
    /\ memory = [a \in Words |-> 0]
    /\ output = <<>>

\* One run command; afterwards, or after a crash, nothing more happens.
Run == phase = "shell" /\ logged = {} /\ StartRun /\ UNCHANGED machineVars
Finished ==
    /\ (phase = "shell" /\ logged # {}) \/ phase \in Faults
    /\ UNCHANGED mVars

MNext == Run \/ MKernelStep \/ Finished
MFairness == WF_mVars(MNext)

----------------------------------------------------------------------------
\* Where the registers of p are: in the CPU from its dispatch to its preemption,
\* trap or halt, in its PCB otherwise.
Context(p) == IF cpuOwner = p THEN cpu ELSE image[p]

\* Registers, memory and output hold integers, and a process that can still run
\* stands at an instruction of its program (vm.cpp checks no bound on PC).
MTypeOK ==
    /\ cpu \in Contexts /\ image \in [Proc -> Contexts]
    /\ DOMAIN memory \subseteq Words /\ \A a \in DOMAIN memory : memory[a] \in Int
    /\ output \in Seq({PRINT_INT, PRINT} \X Int)
    /\ \A p \in Proc : pState[p] # TERMINATED => Context(p).PC \in DOMAIN Code[p]

\* What MTypeOK takes for granted of a program, and neither the assembler nor the
\* virtual machine checks: its operands are what its operations expect, and it neither
\* jumps nor runs out of itself.
Operands(i) ==
    /\ i.op \in {"ADD", "SUB", "MUL", "DIV"} => {i.a, i.b, i.c} \subseteq Registers
    /\ i.op \in {"MOV", "LDR", "LDRB", "CMP", "STR"} => {i.a, i.b} \subseteq Registers
    /\ i.op \in {"MVI", "ADR"} => i.a \in Registers /\ i.b \in Int
    /\ i.op = "SWI" => i.a \in Int
Successors(i, k) ==
    CASE i.op \in {"B", "BL"} -> {i.a}
      [] i.op \in {"BEQ", "BNE", "BGT", "BLT"} -> {i.a, k + 1}
      [] i = SWI(10) -> {}
      [] OTHER -> {k + 1}
WellFormed(code) ==
    /\ 1 \in DOMAIN code /\ DOMAIN code \subseteq Int
    /\ \A k \in DOMAIN code : Operands(code[k]) /\ Successors(code[k], k) \subseteq DOMAIN code

Forks(p) == \E k \in DOMAIN Code[p] : Code[p][k].op = "SWI" /\ Code[p][k].a = 3

\* Every program is well formed, and a process that is not loaded but forked is a
\* copy of the program that forks.
SoundPrograms(loaded) ==
    /\ \A p \in Proc : WellFormed(Code[p])
    /\ \A p, child \in Proc : Forks(p) /\ child \notin Range(loaded) => Code[child] = Code[p]

\* Processes share one set of registers and do not notice: whatever is admitted,
\* preempted, interrupted or halted in between, the registers of a process move
\* only by its own next instruction, on the memory at that moment, or, while its
\* interrupt is served, in register 0.
OwnStep(p) ==
    LET c == Context(p) IN
      \/ Context(p)' = c
      \/ phase = "execute" /\ pRunningPcb = p /\ Context(p)' = AfterOp(Code[p][c.PC], c, memory)
      \/ phase = "isr" /\ pRunningPcb = p /\ Context(p)' = [c EXCEPT !.Reg[0] = Context(p)'.Reg[0]]
OwnSteps == [][\A p \in Proc : pState[p] # CREATED => OwnStep(p)]_mVars

=============================================================================
