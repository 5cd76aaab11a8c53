--------------------------- MODULE ForkDemoProofs ---------------------------
(***************************************************************************)
(* The fork program, beside any other programs, for any quantum and any      *)
(* algorithm: parent, child and grandchild each print their own string once. *)
(*                                                                         *)
(* The inductive invariant FInv names the child and the grandchild, if they  *)
(* exist, says for every PC what the three know of themselves (Z and         *)
(* register 0), and which of the strings are in the output. A step is one    *)
(* instruction of the text, a print, a fork, or invisible to the family      *)
(* (FamilySteps).                                                           *)
(***************************************************************************)
EXTENDS ForkDemo, MachineProofs, FiniteSetTheorems

----------------------------------------------------------------------------
(* The text of the program.                                                *)

LEMMA ForkText ==
    /\ ForkCode[1] = SWI(3)
    /\ ForkCode[2] = Op("BNE", CPR, 0, 0)
    /\ ForkCode[3] = Op("ADR", 0, PSTR, 0)
    /\ ForkCode[4] = SWI(1)
    /\ ForkCode[5] = Op("B", HaltLabel, 0, 0)
    /\ ForkCode[6] = Op("ADR", 0, CSTR, 0)
    /\ ForkCode[7] = Op("CMP", 1, 2, 0)
    /\ ForkCode[8] = SWI(3)
    /\ ForkCode[9] = Op("BNE", GPR, 0, 0)
    /\ ForkCode[10] = SWI(1)
    /\ ForkCode[11] = Op("B", HaltLabel, 0, 0)
    /\ ForkCode[12] = Op("ADR", 0, GSTR, 0)
    /\ ForkCode[13] = SWI(1)
    /\ ForkCode[14] = Op("B", HaltLabel, 0, 0)
    /\ ForkCode[15] = SWI(10)
BY DEF ForkCode

LEMMA ForkDomain == DOMAIN ForkCode = 1..15
BY DEF ForkCode

LEMMA ForkSound == WellFormed(ForkCode)
<1> DEFINE Good(k) == Fits(ForkCode[k], k, 15)
<1>a. {PSTR, CSTR, GSTR} \subseteq Int BY ForkDemoAssumption
<1>1. \A k \in {1, 4, 8, 10, 13, 15} : Good(k)
  BY ForkText, InterruptFits
<1>2. \A k \in {2, 5, 9, 11, 14} : Good(k)
  BY ForkText, JumpFits DEF CPR, GPR, HaltLabel
<1>3. \A k \in {3, 6, 12} : Good(k)
  <2>a. 0 \in Registers BY DEF Registers
  <2>b. /\ PSTR \in Int /\ CSTR \in Int /\ GSTR \in Int
        /\ 3 + 1 \in 1..15 /\ 6 + 1 \in 1..15 /\ 12 + 1 \in 1..15
    BY <1>a
  <2>1. Good(3) BY <2>a, <2>b, ForkText, SetFits, Zenon
  <2>2. Good(6) BY <2>a, <2>b, ForkText, SetFits, Zenon
  <2>3. Good(12) BY <2>a, <2>b, ForkText, SetFits, Zenon
  <2> HIDE DEF Good
  <2> QED BY <2>1, <2>2, <2>3
<1>4. Good(7)
  BY ForkText, MoveFits DEF Registers
<1>5. \A k \in 1..15 : k \in {1, 4, 8, 10, 13, 15} \cup {2, 5, 9, 11, 14} \cup {3, 6, 12} \cup {7}
  OBVIOUS
<1> HIDE DEF Good
<1>6. \A k \in 1..15 : Good(k) BY <1>1, <1>2, <1>3, <1>4, <1>5
<1> QED BY <1>6, ForkDomain DEF WellFormed, Good, Fits

\* The interrupts of the program are forks, prints and its end.
LEMMA ForkInterrupts ==
    ASSUME NEW k \in 1..15, ForkCode[k].op = "SWI"
    PROVE  \/ k \in {1, 8} /\ ForkCode[k].a = 3
           \/ k \in {4, 10, 13} /\ ForkCode[k].a = 1
           \/ k = 15 /\ ForkCode[k].a = 10
<1>1. \A k2 \in {2, 3, 5, 6, 7, 9, 11, 12, 14} : ForkCode[k2].op # "SWI"
  BY ForkText DEF Op
<1>2. \A n : SWI(n).a = n BY DEF SWI, Op
<1> QED BY <1>1, <1>2, ForkText

----------------------------------------------------------------------------
(* The programs in memory.                                                 *)

Order == CHOOSE loaded \in Orders : TRUE

LEMMA OrderLoads ==
    ASSUME NEW loaded \in Orders
    PROVE  loaded \in Seq(Proc) /\ IsInjective(loaded) /\ Range(loaded) = Others \cup {Root}
<1>1. Cardinality(Others) + 1 \in Nat BY ForkDemoAssumption, FS_CardinalityType
<1>2. Others \cup {Root} \subseteq Proc BY ForkDemoAssumption
<1>3. /\ loaded \in [1..(Cardinality(Others) + 1) -> Others \cup {Root}] /\ IsInjective(loaded)
      /\ \A t \in Others \cup {Root} : \E s \in 1..(Cardinality(Others) + 1) : loaded[s] = t
  BY DEF Orders, Bijection, Injection, Surjection
<1>4. loaded \in Seq(Proc) BY <1>1, <1>2, <1>3
<1>5. Range(loaded) = Others \cup {Root} BY <1>3 DEF Range
<1> QED BY <1>3, <1>4, <1>5

LEMMA OthersQuiet ==
    ASSUME NEW p \in Others, NEW k \in DOMAIN Code[p], Code[p][k].op = "SWI"
    PROVE  Code[p][k].a \in Int /\ Code[p][k].a # 1 /\ Code[p][k].a # 3
<1>1. Operands(Code[p][k]) BY OtherPrograms DEF WellFormed
<1> QED BY <1>1, OtherPrograms DEF Operands

LEMMA ForkDemoSound ==
    ASSUME NEW loaded \in Orders
    PROVE  SoundPrograms(loaded) /\ \A p \in Proc : WellFormed(Code[p])
<1>1. \A p \in Proc : WellFormed(Code[p])
  BY ForkProgram, OtherPrograms, ForkSound DEF Family
<1>2. ASSUME NEW p \in Proc, NEW child \in Proc, Forks(p), child \notin Range(loaded)
      PROVE  Code[child] = Code[p]
  <2>1. p \in Family BY <1>2, OtherPrograms DEF Forks, Family
  <2>2. child \in Family BY <1>2, OrderLoads DEF Family
  <2> QED BY <2>1, <2>2, ForkProgram
<1> QED BY <1>1, <1>2 DEF SoundPrograms

----------------------------------------------------------------------------
(* What parent, child and grandchild know of themselves.                   *)

RootInv(c, pending) ==
    /\ c.PC \in 1..5 \cup {15, 16} /\ c.Z = 0
    /\ pending => c.PC \in {2, 5}
    /\ c.PC = 4 \/ (c.PC = 5 /\ pending) => c.Reg[0] = PSTR

\* The child starts with Z set, and clears it before it forks itself.
ChildInv(c, pending) ==
    /\ c.PC \in {2} \cup 6..11 \cup {15, 16} /\ c.Reg[1] = c.Reg[2]
    /\ c.PC = 2 => c.Z = 1
    /\ c.PC >= 8 => c.Z = 0
    /\ pending => c.PC \in {9, 11}
    /\ c.PC \in 7..10 \/ (c.PC = 11 /\ pending) => c.Reg[0] = CSTR

GrandchildInv(c, pending) ==
    /\ c.PC \in {9} \cup 12..16
    /\ c.PC = 9 => c.Z = 1
    /\ pending => c.PC = 14
    /\ c.PC = 13 \/ (c.PC = 14 /\ pending) => c.Reg[0] = GSTR

\* The interrupt before place k is served; it is, and its string was printed.
Passed(c, pending, k) == c.PC > k \/ (c.PC = k /\ ~pending)
Said(c, pending, k) == c.PC >= 15 \/ (c.PC = k /\ ~pending)

\* The instruction at the PC raises an interrupt that is served later.
Raises(c) == ForkCode[c.PC].op = "SWI" /\ ForkCode[c.PC] # SWI(10)

LEMMA Goings ==
    ASSUME NEW c \in Contexts, NEW mem, c.PC \in 1..15
    PROVE  LET d == AfterOp(ForkCode[c.PC], c, mem)
           IN  /\ c.PC \in {1, 4, 8, 10, 13} => Raises(c) /\ Goes(d, c, c.PC + 1)
               /\ c.PC \notin {1, 4, 8, 10, 13} => ~Raises(c)
               /\ c.PC = 15 => Goes(d, c, 16)
               /\ c.PC = 2 => Goes(d, c, IF c.Z # 0 THEN 6 ELSE 3)
               /\ c.PC = 9 => Goes(d, c, IF c.Z # 0 THEN 12 ELSE 10)
               /\ c.PC \in {5, 11, 14} => Goes(d, c, 15)
               /\ c.PC = 3 => Writes(d, c, 0, PSTR)
               /\ c.PC = 6 => Writes(d, c, 0, CSTR)
               /\ c.PC = 12 => Writes(d, c, 0, GSTR)
               /\ c.PC = 7 => Compares(d, c, c.Reg[1] - c.Reg[2])
<1> DEFINE d == AfterOp(ForkCode[c.PC], c, mem)
<1>a. 0 \in Registers BY DEF Registers
<1>1. ASSUME c.PC \in {1, 4, 8, 10, 13} PROVE Raises(c) /\ Goes(d, c, c.PC + 1)
  <2>1. PICK n \in {1, 3} : ForkCode[c.PC] = SWI(n) BY <1>1, ForkText
  <2>2. SWI(n).op = "SWI" /\ SWI(n) # SWI(10) BY DEF SWI, Op
  <2> QED BY <2>1, <2>2, AfterSkip DEF Raises
<1>2. ASSUME c.PC \notin {1, 4, 8, 10, 13} PROVE ~Raises(c)
  BY <1>2, ForkText DEF Raises, Op
<1>3. ASSUME c.PC = 15 PROVE Goes(d, c, 16) BY <1>3, ForkText, AfterSkip
<1>4. ASSUME c.PC = 2 PROVE Goes(d, c, IF c.Z # 0 THEN 6 ELSE 3)
  BY <1>4, ForkText, AfterJump DEF CPR
<1>5. ASSUME c.PC = 9 PROVE Goes(d, c, IF c.Z # 0 THEN 12 ELSE 10)
  BY <1>5, ForkText, AfterJump DEF GPR
<1>6. ASSUME c.PC \in {5, 11, 14} PROVE Goes(d, c, 15)
  BY <1>6, ForkText, AfterJump DEF HaltLabel
<1>7. ASSUME c.PC = 3 PROVE Writes(d, c, 0, PSTR) BY <1>7, <1>a, ForkText, AfterAssign
<1>8. ASSUME c.PC = 6 PROVE Writes(d, c, 0, CSTR) BY <1>8, <1>a, ForkText, AfterAssign
<1>9. ASSUME c.PC = 12 PROVE Writes(d, c, 0, GSTR) BY <1>9, <1>a, ForkText, AfterAssign
<1>10. ASSUME c.PC = 7 PROVE Compares(d, c, c.Reg[1] - c.Reg[2]) BY <1>10, ForkText, AfterCompare
<1> HIDE DEF d
<1>11. d = AfterOp(ForkCode[c.PC], c, mem) BY DEF d
<1> QED BY <1>1, <1>2, <1>3, <1>4, <1>5, <1>6, <1>7, <1>8, <1>9, <1>10, <1>11

\* One instruction of each: it keeps the invariant, and neither prints nor forks yet.
LEMMA RootRuns ==
    ASSUME NEW c \in Contexts, NEW mem, NEW d, d = AfterOp(ForkCode[c.PC], c, mem),
           RootInv(c, FALSE), c.PC \in 1..15
    PROVE  /\ RootInv(d, Raises(c)) /\ (d.PC = 16 <=> c.PC = 15)
           /\ (Passed(d, Raises(c), 2) <=> Passed(c, FALSE, 2))
           /\ (Said(d, Raises(c), 5) <=> Said(c, FALSE, 5))
<1>1. 0 \in Registers BY DEF Registers
<1> QED BY <1>1, Goings DEF RootInv, Passed, Said, Goes, Writes

LEMMA ChildRuns ==
    ASSUME NEW c \in Contexts, NEW mem, NEW d, d = AfterOp(ForkCode[c.PC], c, mem),
           ChildInv(c, FALSE), c.PC \in 1..15
    PROVE  /\ ChildInv(d, Raises(c)) /\ (d.PC = 16 <=> c.PC = 15)
           /\ (Passed(d, Raises(c), 9) <=> Passed(c, FALSE, 9))
           /\ (Said(d, Raises(c), 11) <=> Said(c, FALSE, 11))
<1>1. {0, 1, 2} \subseteq Registers /\ c.Reg[1] \in Int BY DEF Registers, Contexts
<1> QED BY <1>1, Goings DEF ChildInv, Passed, Said, Goes, Writes, Compares

LEMMA GrandchildRuns ==
    ASSUME NEW c \in Contexts, NEW mem, NEW d, d = AfterOp(ForkCode[c.PC], c, mem),
           GrandchildInv(c, FALSE), c.PC \in 1..15
    PROVE  /\ GrandchildInv(d, Raises(c)) /\ (d.PC = 16 <=> c.PC = 15)
           /\ (Said(d, Raises(c), 14) <=> Said(c, FALSE, 14))
<1>1. 0 \in Registers BY DEF Registers
<1> QED BY <1>1, Goings DEF GrandchildInv, Said, Goes, Writes

----------------------------------------------------------------------------
(* What a step of the machine does to the family.                          *)

Absent(p) == pState[p] = CREATED

Same(p) == /\ Context(p)' = Context(p) /\ (Pending(p)' <=> Pending(p))
           /\ (Gone(p)' <=> Gone(p)) /\ (Absent(p)' <=> Absent(p))

Silent == output' = output \/ \E v : output' = Append(output, <<PRINT_INT, v>>)
Quiet == Silent /\ \A p \in Family : Same(p)

\* p executes the instruction at its PC.
Runs(p) ==
    LET c == Context(p)
    IN  /\ ~Absent(p) /\ ~Gone(p) /\ ~Pending(p)
        /\ Context(p)' = AfterOp(ForkCode[c.PC], c, memory)
        /\ (Pending(p)' <=> Raises(c)) /\ (Gone(p)' <=> c.PC = 15)
        /\ ~Absent(p)' /\ output' = output /\ \A q \in Family \ {p} : Same(q)

\* p waits for the interrupt of its last instruction, which is served.
IsServed(p) ==
    LET c == Context(p)
        d == Context(p)'
    IN  /\ ~Absent(p) /\ ~Gone(p) /\ Pending(p)
        /\ d.PC = c.PC /\ d.Z = c.Z /\ \A r \in Registers \ {0} : d.Reg[r] = c.Reg[r]
        /\ ~Absent(p)' /\ ~Gone(p)' /\ ~Pending(p)'
Speaks(p) ==
    /\ IsServed(p) /\ Context(p).PC \in {5, 11, 14}
    /\ output' = Append(output, <<PRINT, Context(p).Reg[0]>>)
    /\ \A q \in Family \ {p} : Same(q)

\* k starts where p stands.
Bears(p, k) ==
    /\ IsServed(p) /\ Context(p).PC \in {2, 9} /\ Context(p)' = Context(p)
    /\ Absent(k) /\ ~Absent(k)' /\ ~Pending(k)' /\ ~Gone(k)'
    /\ Context(k)' = [Cleared EXCEPT !.PC = Context(p).PC, !.Z = 1]
    /\ output' = output /\ \A q \in Family \ {p, k} : Same(q)

FTyped == Order \in Orders /\ TInv(Order)

LEMMA Facts ==
    ASSUME FTyped
    PROVE  /\ MInv /\ SInv /\ Types /\ AtCode /\ Trapped /\ argMap = 0
           /\ \A p \in Proc : WellFormed(Code[p])
           /\ \A p \in Proc : Absent(p) => p \in Family /\ p # Root
<1>1. argMap \in 0..0 BY ForkDemoAssumption DEF FTyped, TInv, MInv, IInv, TypeOK
<1>2. Range(Order) = Others \cup {Root} BY OrderLoads DEF FTyped
<1> QED BY <1>1, <1>2, ForkDemoSound DEF FTyped, TInv, Loaded, Absent, Family

LEMMA AbsentKept ==
    ASSUME FTyped, [MNext]_mVars, ~MIsrVFork, NEW p \in Proc
    PROVE  Absent(p)' <=> Absent(p)
<1>1. Absent(p)' => Absent(p) BY Facts, MNextMoves DEF Absent
<1>2. ASSUME Absent(p) PROVE Absent(p)'
  <2>1. CASE phase = "shell"
    <3>1. ~MKernelStep
      BY <2>1 DEF MKernelStep, MDispatch, Dispatch, MPreempt, PreemptRR, PreemptMLFQ,
         MInstruction, Instruction, MTrap, MHalt, Halt, HaltTo, MIsrPrint, IsrPrint, MIsrVFork,
         IsrVFork, MIsrReturnSharedMemPtr, IsrReturnSharedMemPtr, ReturnTo, MOther, Arrive,
         CallScheduler, EndRun, AdmitNew, KeepRunning, NoPreemption, Idle, IsrSemaphoreAquire,
         IsrSemaphoreRelease, IsrSemaphoreWait, Resume
    <3>2. UNCHANGED pState
      BY <3>1 DEF MNext, Run, StartRun, Finished, mVars, vars
    <3> QED BY <1>2, <3>2 DEF Absent
  <2>2. CASE IsrVFork
    <3>1. phase = "isr" /\ returnCode = FORK BY <2>2 DEF IsrVFork
    <3>2. ~MKernelStep /\ ~Run /\ ~Finished
      BY <3>1 DEF MKernelStep, MDispatch, Dispatch, MPreempt, PreemptRR, PreemptMLFQ,
         MInstruction, Instruction, MTrap, MHalt, Halt, HaltTo, MIsrPrint, IsrPrint,
         MIsrReturnSharedMemPtr, IsrReturnSharedMemPtr, ReturnTo, MOther, Arrive, CallScheduler,
         EndRun, AdmitNew, KeepRunning, NoPreemption, Idle, IsrSemaphoreAquire,
         IsrSemaphoreRelease, IsrSemaphoreWait, Resume, Run, Finished, Faults, FORK, PRINT,
         PRINT_INT, INPUT, RET_SMRP, SEM_AQ, SEM_RE, SEM_WAIT
    <3>3. UNCHANGED pState
      BY <3>2 DEF MNext, mVars, vars
    <3> QED BY <1>2, <3>3 DEF Absent
  <2>3. CASE phase # "shell" /\ ~IsrVFork
    <3>1. ~LoadProgram /\ ~Arrive BY <2>3, Facts DEF LoadProgram, Arrive
    <3>2. [Next]_vars BY MNextIsNext DEF mVars
    <3> QED BY <1>2, <2>3, <3>1, <3>2, Facts, CreatedKept DEF Absent, MInv
  <2> QED BY <2>1, <2>2, <2>3
<1> QED BY <1>1, <1>2

\* Whoever is not running sees nothing of an instruction, nor of an interrupt.
LEMMA OthersSame ==
    ASSUME FTyped, [MNext]_mVars, ~MIsrVFork, NEW p \in Family, p # pRunningPcb,
           phase' = "isr" => pRunningPcb' = pRunningPcb
    PROVE  Same(p)
<1>1. p \in Proc BY DEF Family
<1>2. (Absent(p)' <=> Absent(p)) BY <1>1, AbsentKept
<1>3. Context(p)' = Context(p) /\ Pending(p)' = Pending(p) /\ Gone(p)' = Gone(p)
  BY <1>1, Facts, BystanderSame
<1> QED BY <1>2, <1>3 DEF Same

\* Between the instructions the family sees nothing.
LEMMA QuietStep ==
    ASSUME FTyped, [MNext]_mVars, phase \notin {"execute", "isr"}
    PROVE  Quiet
<1>1. ~MInstruction /\ ~MTrap /\ ~MHalt /\ ~MIsrPrint /\ ~MIsrVFork /\ ~MIsrReturnSharedMemPtr
  BY DEF MInstruction, Instruction, MTrap, MHalt, Halt, HaltTo, MIsrPrint, IsrPrint, MIsrVFork,
         IsrVFork, MIsrReturnSharedMemPtr, IsrReturnSharedMemPtr, ReturnTo
<1>2. UNCHANGED output
  BY <1>1 DEF MNext, MKernelStep, MDispatch, MPreempt, MOther, Run, Finished, mVars, machineVars
<1>3. phase' # "isr" BY <1>1, Facts, OnlyTrapRaises
<1>4. ASSUME NEW p \in Family PROVE Same(p)
  <2>0. p \in Proc BY DEF Family
  <2>1. Context(p)' = Context(p) BY <1>1, <2>0, Facts, MNextMoves DEF Kept, Born, OwnStep
  <2>2. Gone(p)' = Gone(p) BY <1>1, <2>0, Facts, OnlyHaltEnds
  <2>3. Absent(p)' <=> Absent(p) BY <1>1, <2>0, AbsentKept
  <2> QED BY <1>3, <2>1, <2>2, <2>3 DEF Same, Pending
<1> QED BY <1>2, <1>4 DEF Quiet, Silent

\* An idle CPU executes nothing.
LEMMA ExecuteIdle ==
    ASSUME FTyped, [MNext]_mVars, phase = "execute", ~MInstruction, ~MTrap, ~MHalt
    PROVE  Quiet
<1>1. ~MDispatch /\ ~MPreempt /\ ~MIsrPrint /\ ~MIsrVFork /\ ~MIsrReturnSharedMemPtr /\ ~Run
      /\ ~Finished
  BY DEF MDispatch, Dispatch, MPreempt, PreemptRR, PreemptMLFQ, MIsrPrint, IsrPrint, MIsrVFork,
         IsrVFork, MIsrReturnSharedMemPtr, IsrReturnSharedMemPtr, ReturnTo, Run, Finished, Faults
<1>2. UNCHANGED <<machineVars, cpuOwner>> /\ phase' # "isr"
  <2>1. CASE UNCHANGED mVars BY <2>1 DEF mVars, vars, cpuVars
  <2>2. CASE MOther
    BY <2>2 DEF MOther, Arrive, CallScheduler, EndRun, AdmitNew, KeepRunning, NoPreemption, Idle,
              IsrSemaphoreAquire, IsrSemaphoreRelease, IsrSemaphoreWait, Resume, cpuVars
  <2> QED BY <1>1, <2>1, <2>2 DEF MNext, MKernelStep
<1>3. ASSUME NEW p \in Family PROVE Same(p)
  <2>0. p \in Proc BY DEF Family
  <2>1. Gone(p)' = Gone(p) BY <1>1, <2>0, Facts, OnlyHaltEnds
  <2>2. Absent(p)' <=> Absent(p) BY <1>1, <2>0, AbsentKept
  <2> QED BY <1>2, <2>1, <2>2 DEF Same, Pending, Context, machineVars
<1> QED BY <1>2, <1>3 DEF Quiet, Silent, machineVars

\* One program has a single exit, and no load or store.
LEMMA ForkExit ==
    ASSUME NEW k \in 1..15
    PROVE  /\ ForkCode[k] = SWI(10) <=> k = 15
           /\ ForkCode[k].op \notin {"LDR", "STR"}
           /\ k = 15 => ForkCode[k].op = "SWI" /\ ForkCode[k].a = 10
<1>1. \A n : SWI(n).a = n /\ SWI(n).op = "SWI" BY DEF SWI, Op
<1>2. \A k2 \in {2, 3, 5, 6, 7, 9, 11, 12, 14} : ForkCode[k2].op \notin {"SWI", "LDR", "STR"}
  BY ForkText DEF Op
<1>3. \A k2 \in {1, 4, 8, 10, 13} : ForkCode[k2].a # 10 /\ ForkCode[k2].op = "SWI"
  BY <1>1, ForkText
<1> QED BY <1>1, <1>2, <1>3, ForkText

LEMMA Executes ==
    ASSUME FTyped, [MNext]_mVars, MInstruction \/ MTrap \/ MHalt,
           NEW p \in Proc, p = pRunningPcb
    PROVE  Quiet \/ (p \in Family /\ Runs(p))
<1>1. /\ phase = "execute" /\ p # NoProc /\ output' = output /\ ~MIsrVFork
      /\ phase' = "isr" => pRunningPcb' = pRunningPcb
  BY DEF MInstruction, Instruction, MTrap, Trap, MHalt, Halt, HaltTo, MIsrVFork, IsrVFork
<1>2. \A q \in Family \ {p} : Same(q) BY <1>1, OthersSame
<1>3. CASE p \notin Family BY <1>1, <1>2, <1>3 DEF Quiet, Silent
<1>4. CASE p \in Family
  <2> DEFINE c == Context(p)
             i == ForkCode[c.PC]
  <2>1. /\ cpuOwner = p /\ c = cpu /\ ~Gone(p) /\ c \in Contexts
        /\ Code[p] = ForkCode /\ c.PC \in 1..15 /\ Fetched = i
    <3>1. Code[p] = ForkCode BY <1>4, ForkProgram
    <3>2. /\ cpuOwner = p /\ Context(p) = cpu /\ pState[p] # TERMINATED
          /\ cpu \in Contexts /\ cpu.PC \in DOMAIN Code[p]
      BY <1>1, Facts, ExecutingInstruction
    <3> QED BY <3>1, <3>2, ForkDomain DEF Fetched, Gone
  <2>2. ~Absent(p) BY Facts DEF MInv, IInv, FreshUnplaced, Absent
  <2>3. ~Absent(p)' BY <1>1, <2>2, AbsentKept
  <2>4. ~Pending(p) BY <1>1 DEF Pending
  <2>5. SUFFICES /\ Context(p)' = AfterOp(i, c, memory)
                 /\ (Pending(p)' <=> Raises(c)) /\ (Gone(p)' <=> c.PC = 15)
    BY <1>1, <1>2, <1>4, <2>1, <2>2, <2>3, <2>4 DEF Runs
  <2>6. (i = SWI(10) <=> c.PC = 15) /\ i.op \notin {"LDR", "STR"}
    BY <2>1, ForkExit
  <2>7. c.PC = 15 => i.op = "SWI" /\ i.a = 10 BY <2>1, ForkExit
  <2> HIDE DEF c, i
  <2>8. CASE MInstruction
    <3>1. /\ phase' = "loop" /\ UNCHANGED <<pState, cpuOwner>> /\ i.op # "SWI"
          /\ cpu' = AfterOp(i, c, memory)
      BY <2>1, <2>8 DEF MInstruction, Instruction
    <3>2. Context(p)' = cpu' BY <2>1, <3>1 DEF Context
    <3>3. ~Pending(p)' /\ ~Raises(c) BY <3>1 DEF Pending, Raises, i
    <3>4. ~Gone(p)' /\ c.PC # 15 BY <2>1, <2>7, <3>1 DEF Gone
    <3> QED BY <3>1, <3>2, <3>3, <3>4 DEF i
  <2>9. CASE MTrap
    <3>1. /\ phase' = "isr" /\ pRunningPcb' = p /\ cpuOwner' = NoProc /\ i.op = "SWI" /\ i.a # 10
          /\ image' = [image EXCEPT ![p] = AfterOp(i, c, memory)]
      BY <2>1, <2>9 DEF MTrap, Trap
    <3>2. Context(p)' = AfterOp(i, c, memory)
      <4>1. image'[p] = AfterOp(i, c, memory) BY <3>1, Facts DEF Types
      <4> QED BY <3>1, <4>1, ProcAssumption DEF Context
    <3>3. i # SWI(10) BY <3>1 DEF SWI, Op
    <3>4. Pending(p)' /\ Raises(c) BY <3>1, <3>3 DEF Pending, Raises, i
    <3>5. ~MHalt BY <2>1, <2>6, <3>3 DEF MHalt, Segfault
    <3>6. Gone(p)' = Gone(p) BY <1>1, <3>5, Facts, OnlyHaltEnds
                             DEF MIsrReturnSharedMemPtr, IsrReturnSharedMemPtr, ReturnTo
    <3> QED BY <2>1, <2>6, <3>2, <3>3, <3>4, <3>6 DEF i
  <2>10. CASE MHalt
    <3>1. /\ phase' \in {"loop", "badTable"} /\ UNCHANGED cpuOwner
          /\ pState' = [pState EXCEPT ![p] = TERMINATED]
          /\ i = SWI(10) \/ Segfault(i, c, memory)
          /\ i = SWI(10) => cpu' = [c EXCEPT !.PC = @ + 1]
      BY <2>1, <2>10 DEF MHalt, Halt, HaltTo
    <3>2. i = SWI(10) BY <2>6, <3>1 DEF Segfault
    <3>3. Context(p)' = AfterOp(i, c, memory)
      <4>1. AfterOp(SWI(10), c, memory) = [c EXCEPT !.PC = @ + 1] BY DEF AfterOp, SWI, Op
      <4>2. Context(p)' = cpu' BY <2>1, <3>1 DEF Context
      <4> QED BY <3>1, <3>2, <4>1, <4>2
    <3>4. ~Pending(p)' /\ ~Raises(c) BY <3>1, <3>2 DEF Pending, Raises, i
    <3>5. Gone(p)' BY <3>1, Facts DEF Gone, MInv, IInv, TypeOK
    <3> QED BY <2>6, <3>2, <3>3, <3>4, <3>5 DEF i
  <2> QED BY <2>8, <2>9, <2>10
<1> QED BY <1>3, <1>4

\* The interrupt being served says where its process stands.
LEMMA IsrReason ==
    ASSUME FTyped, phase = "isr", NEW p \in Proc, p = pRunningPcb
    PROVE  IF p \in Family THEN \/ returnCode = FORK /\ image[p].PC \in {2, 9}
                                \/ returnCode = PRINT /\ image[p].PC \in {5, 11, 14}
                           ELSE returnCode \notin {FORK, PRINT}
<1>1. PICK k \in DOMAIN Code[p] : /\ k + 1 = image[p].PC
                                  /\ Code[p][k].op = "SWI" /\ Code[p][k].a # 10
                                  /\ returnCode = ReturnCode(Code[p][k].a)
  BY Facts DEF Trapped
<1>2. \A n : n # 10 => ReturnCode(n) = 20 + n BY DEF ReturnCode
<1>3. CASE p \in Family
  <2>1. Code[p] = ForkCode /\ k \in 1..15 BY <1>3, ForkProgram, ForkDomain
  <2>2. (k \in {1, 8} /\ ForkCode[k].a = 3) \/ (k \in {4, 10, 13} /\ ForkCode[k].a = 1)
    BY <1>1, <2>1, ForkInterrupts
  <2> QED BY <1>1, <1>2, <1>3, <2>1, <2>2 DEF FORK, PRINT
<1>4. CASE p \notin Family
  <2>1. p \in Others BY <1>4 DEF Family
  <2>2. Code[p][k].a \in Int /\ Code[p][k].a # 1 /\ Code[p][k].a # 3
    BY <1>1, <2>1, OthersQuiet
  <2> QED BY <1>1, <1>2, <1>4, <2>2 DEF FORK, PRINT
<1> QED BY <1>3, <1>4

\* A print in the family says the string in register 0; a fork starts one more.
LEMMA ServesPrint ==
    ASSUME FTyped, [MNext]_mVars, NEW p \in Family, p = pRunningPcb,
           MIsrPrint, returnCode = PRINT, image[p].PC \in {5, 11, 14}
    PROVE  Speaks(p)
<1>a. p \in Proc BY DEF Family
<1>0. PRINT # INPUT BY DEF PRINT, INPUT
<1>1. /\ phase = "isr" /\ phase' = "resume" /\ UNCHANGED <<pState, cpuOwner>>
      /\ output' = Append(output, <<PRINT, image[p].Reg[0]>>)
      /\ image' = image \/ \E value : image' = [image EXCEPT ![p].Reg[0] = value]
  <2>1. /\ phase = "isr" /\ phase' = "resume" /\ UNCHANGED <<pState, cpuOwner>>
        /\ output' = Append(output, <<PRINT, image[p].Reg[0]>>)
    BY <1>0 DEF MIsrPrint, IsrPrint, cpuVars
  <2>2. image' = image \/ \E value : image' = [image EXCEPT ![p].Reg[0] = value]
    BY DEF MIsrPrint
  <2> QED BY <2>1, <2>2
<1>2. /\ Context(p) = image[p] /\ cpuOwner = NoProc /\ pState[p] = WAITING
      /\ image \in [Proc -> Contexts] /\ image[p] \in Contexts
  BY <1>a, <1>1, Facts, Waiting DEF Types
<1>3. Context(p)' = image'[p] BY <1>a, <1>1, <1>2, ProcAssumption DEF Context
<1>4. image'[p] = image[p] \/ \E value : image'[p] = [image[p] EXCEPT !.Reg[0] = value]
  BY <1>a, <1>1, <1>2
<1>5. /\ image'[p].PC = image[p].PC /\ image'[p].Z = image[p].Z
      /\ \A r \in Registers \ {0} : image'[p].Reg[r] = image[p].Reg[r]
  BY <1>2, <1>4 DEF Contexts
<1>6. /\ ~Absent(p) /\ ~Gone(p) /\ Pending(p) /\ ~Absent(p)' /\ ~Gone(p)' /\ ~Pending(p)'
  BY <1>1, <1>2 DEF Absent, Gone, Pending, WAITING, CREATED, TERMINATED
<1>7. ~MIsrVFork BY DEF MIsrVFork, IsrVFork, PRINT, FORK
<1>8. \A q \in Family \ {p} : Same(q) BY <1>1, <1>7, OthersSame
<1> QED BY <1>1, <1>2, <1>3, <1>5, <1>6, <1>8 DEF Speaks, IsServed

LEMMA ServesFork ==
    ASSUME FTyped, [MNext]_mVars, NEW p \in Family, p = pRunningPcb,
           MIsrVFork, image[p].PC \in {2, 9}
    PROVE  \E k \in Family : Bears(p, k)
<1>a. p \in Proc BY DEF Family
<1>1. PICK child \in Proc :
        /\ phase = "isr" /\ phase' = "resume" /\ UNCHANGED <<cpuOwner, output>>
        /\ pState[child] = CREATED /\ pState' = [pState EXCEPT ![child] = READY]
  BY DEF MIsrVFork, IsrVFork, cpuVars
<1>2. /\ \A q \in Proc : Context(q) = image[q]
      /\ cpuOwner = NoProc /\ pState[p] = WAITING /\ DOMAIN pState = Proc
  BY <1>a, <1>1, Facts, Waiting DEF MInv, IInv, TypeOK
<1>3. /\ pState'[child] = READY /\ \A q \in Proc \ {child} : pState'[q] = pState[q]
      /\ child # p
  BY <1>a, <1>1, <1>2 DEF WAITING, CREATED
<1>4. \A q \in Proc : image'[q] = IF pState'[q] # pState[q] THEN Forked(p) ELSE image[q]
  BY DEF MIsrVFork
<1>5. image'[child] = Forked(p) /\ \A q \in Proc \ {child} : image'[q] = image[q]
  BY <1>1, <1>3, <1>4 DEF READY, CREATED
<1>6. \A q \in Proc : Context(q)' = image'[q]
  BY <1>1, <1>2, ProcAssumption DEF Context
<1>7. child \in Family BY <1>1, Facts DEF Absent
<1>8. ASSUME NEW q \in Family \ {p, child} PROVE Same(q)
  <2>1. q \in Proc /\ q # pRunningPcb BY DEF Family
  <2>2. Context(q)' = Context(q) BY <1>2, <1>5, <1>6, <2>1
  <2> QED BY <1>1, <1>3, <2>1, <2>2 DEF Same, Pending, Gone, Absent
<1>9. /\ ~Absent(p) /\ ~Gone(p) /\ Pending(p) /\ ~Absent(p)' /\ ~Gone(p)' /\ ~Pending(p)'
  BY <1>a, <1>1, <1>2, <1>3 DEF Absent, Gone, Pending, WAITING, CREATED, TERMINATED
<1>10. Context(p)' = Context(p) BY <1>a, <1>2, <1>3, <1>5, <1>6
<1>11. Absent(child) /\ ~Absent(child)' /\ ~Pending(child)' /\ ~Gone(child)'
  BY <1>1, <1>3 DEF Absent, Pending, Gone, READY, CREATED, TERMINATED
<1>12. Context(child)' = [Cleared EXCEPT !.PC = Context(p).PC, !.Z = 1]
  BY <1>a, <1>2, <1>5, <1>6 DEF Forked
<1>13. Context(p).PC \in {2, 9} BY <1>a, <1>2
<1> QED BY <1>1, <1>7, <1>8, <1>9, <1>10, <1>11, <1>12, <1>13 DEF Bears, IsServed

LEMMA Serves ==
    ASSUME FTyped, [MNext]_mVars, phase = "isr", NEW p \in Proc, p = pRunningPcb
    PROVE  Quiet \/ (p \in Family /\ (Speaks(p) \/ \E k \in Family : Bears(p, k)))
<1>1. ~MInstruction /\ ~MTrap /\ ~MHalt /\ ~MDispatch /\ ~MPreempt /\ ~Run /\ ~Finished
  BY DEF MInstruction, Instruction, MTrap, MHalt, Halt, HaltTo, MDispatch, Dispatch, MPreempt,
         PreemptRR, PreemptMLFQ, Run, Finished, Faults
<1>2. CASE UNCHANGED mVars
  BY <1>2 DEF mVars, machineVars, vars, runVars, cpuVars, Quiet, Silent, Same, Context, Pending,
              Gone, Absent
<1>3. MIsrReturnSharedMemPtr => returnCode = RET_SMRP BY DEF MIsrReturnSharedMemPtr,
     IsrReturnSharedMemPtr, ReturnTo
<1>4. ASSUME MOther
      PROVE  /\ returnCode \in {SEM_AQ, SEM_RE, SEM_WAIT} /\ phase' \in {"resume", "badSemId"}
             /\ output' = output
  BY <1>4 DEF MOther, machineVars, Arrive, CallScheduler, EndRun, AdmitNew, KeepRunning,
              NoPreemption, Idle, IsrSemaphoreAquire, IsrSemaphoreRelease, IsrSemaphoreWait, Resume
<1>5. MIsrVFork => returnCode = FORK BY DEF MIsrVFork, IsrVFork
<1>6. MIsrPrint => returnCode \in {PRINT_INT, PRINT, INPUT} BY DEF MIsrPrint, IsrPrint
<1>7. MIsrPrint \/ MIsrVFork \/ MIsrReturnSharedMemPtr \/ MOther \/ UNCHANGED mVars
  BY <1>1 DEF MNext, MKernelStep
<1>8. CASE p \in Family /\ ~UNCHANGED mVars
  <2>1. \/ returnCode = FORK /\ image[p].PC \in {2, 9}
        \/ returnCode = PRINT /\ image[p].PC \in {5, 11, 14}
    BY <1>8, IsrReason
  <2>2. \/ MIsrVFork /\ image[p].PC \in {2, 9}
        \/ MIsrPrint /\ returnCode = PRINT /\ image[p].PC \in {5, 11, 14}
    BY <1>3, <1>4, <1>5, <1>6, <1>7, <1>8, <2>1
       DEF FORK, PRINT, PRINT_INT, INPUT, RET_SMRP, SEM_AQ, SEM_RE, SEM_WAIT
  <2> QED BY <1>8, <2>2, ServesPrint, ServesFork
<1>9. CASE p \notin Family /\ ~UNCHANGED mVars
  <2>1. returnCode \notin {FORK, PRINT} BY <1>9, IsrReason
  <2>2. ~MIsrVFork BY <1>5, <2>1
  <2>3. phase' # "isr" /\ Silent
    <3>1. CASE MIsrPrint
      <4>1. phase' = "resume" /\ output' = IF returnCode = INPUT THEN output
                                           ELSE Append(output, <<returnCode, image[p].Reg[0]>>)
        BY <3>1 DEF MIsrPrint, IsrPrint
      <4> QED BY <1>6, <2>1, <3>1, <4>1 DEF Silent
    <3>2. CASE MIsrReturnSharedMemPtr
      BY <3>2 DEF MIsrReturnSharedMemPtr, IsrReturnSharedMemPtr, ReturnTo, Silent
    <3>3. CASE MOther BY <1>4, <3>3 DEF Silent
    <3> QED BY <1>7, <1>9, <2>2, <3>1, <3>2, <3>3
  <2>4. \A q \in Family : Same(q) BY <1>9, <2>2, <2>3, OthersSame
  <2> QED BY <2>3, <2>4 DEF Quiet
<1> QED BY <1>2, <1>8, <1>9

\* These are all the steps of the machine.
LEMMA FamilySteps ==
    ASSUME FTyped, [MNext]_mVars
    PROVE  Quiet \/ \E p \in Family : Runs(p) \/ Speaks(p) \/ \E k \in Family : Bears(p, k)
<1>1. CASE phase \notin {"execute", "isr"} BY <1>1, QuietStep
<1>2. CASE phase = "isr"
  <2>1. pRunningPcb \in Proc BY <1>2, Facts, Waiting
  <2>2. PICK p \in Proc : p = pRunningPcb BY <2>1
  <2> QED BY <1>2, <2>2, Serves
<1>3. CASE phase = "execute"
  <2>1. CASE ~MInstruction /\ ~MTrap /\ ~MHalt BY <1>3, <2>1, ExecuteIdle
  <2>2. CASE MInstruction \/ MTrap \/ MHalt
    <3>1. pRunningPcb # NoProc BY <2>2 DEF MInstruction, Instruction, MTrap, MHalt, Halt, HaltTo
    <3>2. PICK p \in Proc : p = pRunningPcb BY <1>3, <3>1, Facts, Executing
    <3> QED BY <2>2, <3>2, Executes
  <2> QED BY <2>1, <2>2
<1> QED BY <1>1, <1>2, <1>3

----------------------------------------------------------------------------
(* What is printed.                                                        *)

Heard(s) == \E k \in Printed : output[k][2] = s
SaidOnce == \A i, j \in Printed : output[i] = output[j] => i = j

LEMMA Appended ==
    ASSUME FTyped, NEW n, NEW v, output' = Append(output, <<n, v>>), NEW m, m = Len(output) + 1
    PROVE  /\ DOMAIN output' = DOMAIN output \cup {m} /\ m \notin DOMAIN output
           /\ \A k \in DOMAIN output : output'[k] = output[k]
           /\ output'[m] = <<n, v>>
<1>1. output \in Seq({PRINT_INT, PRINT} \X Int) BY Facts DEF Types
<1>2. Len(output) \in Nat /\ DOMAIN output = 1..Len(output) BY <1>1
<1>3. /\ DOMAIN output' = 1..m /\ \A k \in 1..Len(output) : output'[k] = output[k]
      /\ output'[m] = <<n, v>>
  BY <1>1, <1>2
<1>4. 1..m = 1..Len(output) \cup {m} /\ m \notin 1..Len(output) BY <1>2
<1> QED BY <1>2, <1>3, <1>4

\* An integer printed is no string.
LEMMA SilentKeeps ==
    ASSUME FTyped, Silent
    PROVE  (SaidOnce => SaidOnce') /\ \A s : (Heard(s)' <=> Heard(s))
<1>1. Printed' = Printed /\ \A k \in Printed : output'[k] = output[k]
  <2>1. CASE output' = output BY <2>1 DEF Printed
  <2>2. ASSUME NEW v, output' = Append(output, <<PRINT_INT, v>>)
        PROVE  Printed' = Printed /\ \A k \in Printed : output'[k] = output[k]
    <3>1. PICK m : m = Len(output) + 1 OBVIOUS
    <3>2. /\ DOMAIN output' = DOMAIN output \cup {m} /\ m \notin DOMAIN output
          /\ \A k \in DOMAIN output : output'[k] = output[k]
          /\ output'[m] = <<PRINT_INT, v>>
      BY <2>2, <3>1, Appended
    <3>3. PRINT_INT # PRINT BY DEF PRINT_INT, PRINT
    <3>4. output'[m][1] = PRINT_INT BY <3>2
    <3> QED BY <3>2, <3>3, <3>4 DEF Printed
  <2> QED BY <2>1, <2>2 DEF Silent
<1> QED BY <1>1 DEF Heard, SaidOnce

\* A string that was not there yet is printed.
LEMMA NewString ==
    ASSUME FTyped, NEW v, output' = Append(output, <<PRINT, v>>), SaidOnce, ~Heard(v)
    PROVE  SaidOnce' /\ \A s : (Heard(s)' <=> Heard(s) \/ s = v)
<1>1. PICK m : m = Len(output) + 1 OBVIOUS
<1>2. /\ DOMAIN output' = DOMAIN output \cup {m} /\ m \notin DOMAIN output
      /\ \A k \in DOMAIN output : output'[k] = output[k]
      /\ output'[m] = <<PRINT, v>>
  BY <1>1, Appended
<1>3. output'[m][1] = PRINT /\ output'[m][2] = v BY <1>2
<1>4. Printed' = Printed \cup {m} /\ m \notin Printed
      /\ \A k \in Printed : output'[k] = output[k]
  BY <1>2, <1>3 DEF Printed
<1>5. ASSUME NEW s PROVE Heard(s)' <=> Heard(s) \/ s = v
  BY <1>3, <1>4 DEF Heard
<1>6. \A k \in Printed : output[k] # output'[m] BY <1>3 DEF Heard
<1>7. SaidOnce'
  <2>1. ASSUME NEW i \in Printed', NEW j \in Printed', output'[i] = output'[j] PROVE i = j
    <3>1. CASE i \in Printed /\ j \in Printed BY <1>4, <2>1, <3>1 DEF SaidOnce
    <3> QED BY <1>4, <1>6, <2>1, <3>1
  <2> QED BY <2>1 DEF SaidOnce
<1> QED BY <1>5, <1>7

----------------------------------------------------------------------------
(* The inductive invariant.                                                *)

Roles(child, grandchild) ==
    /\ {child, grandchild} \subseteq (Family \cup {NoProc}) \ {Root}
    /\ child = grandchild => child = NoProc
    /\ \A p \in Family : Absent(p) <=> p \notin {Root, child, grandchild}
    /\ \A p \in Family : Gone(p) => Context(p).PC = 16

Knowledge(child, grandchild) ==
    /\ RootInv(Context(Root), Pending(Root))
    /\ child # NoProc <=> Passed(Context(Root), Pending(Root), 2)
    /\ child # NoProc => ChildInv(Context(child), Pending(child))
    /\ grandchild # NoProc <=> child # NoProc /\ Passed(Context(child), Pending(child), 9)
    /\ grandchild # NoProc => GrandchildInv(Context(grandchild), Pending(grandchild))

\* The strings in the output are those of the processes that have said theirs.
Spoken(child, grandchild) ==
    /\ SaidOnce
    /\ \A s : Heard(s) <=>
         \/ s = PSTR /\ Said(Context(Root), Pending(Root), 5)
         \/ s = CSTR /\ child # NoProc /\ Said(Context(child), Pending(child), 11)
         \/ s = GSTR /\ grandchild # NoProc /\ Said(Context(grandchild), Pending(grandchild), 14)

Lineage(child, grandchild) ==
    Roles(child, grandchild) /\ Knowledge(child, grandchild) /\ Spoken(child, grandchild)
FInv == \E child, grandchild \in Family \cup {NoProc} : Lineage(child, grandchild)

LEMMA RootFamily == Root \in Family /\ Root # NoProc /\ NoProc \notin Family
BY ForkDemoAssumption, ProcAssumption DEF Family

LEMMA Stands ==
    ASSUME FTyped, NEW p \in Family
    PROVE  Context(p) \in Contexts /\ (~Gone(p) => Context(p).PC \in 1..15)
<1>1. p \in Proc /\ Code[p] = ForkCode BY ForkProgram DEF Family
<1>2. cpu \in Contexts /\ image[p] \in Contexts BY <1>1, Facts DEF Types
<1>3. ~Gone(p) => Context(p).PC \in DOMAIN Code[p] BY <1>1, Facts DEF AtCode, Gone
<1> QED BY <1>1, <1>2, <1>3, ForkDomain DEF Context

\* Nobody else knows or says anything new.
LEMMA SameKnows ==
    ASSUME NEW p, Same(p)
    PROVE  /\ RootInv(Context(p), Pending(p))' <=> RootInv(Context(p), Pending(p))
           /\ ChildInv(Context(p), Pending(p))' <=> ChildInv(Context(p), Pending(p))
           /\ GrandchildInv(Context(p), Pending(p))' <=> GrandchildInv(Context(p), Pending(p))
<1>1. Context(p)' = Context(p) /\ (Pending(p)' <=> Pending(p)) BY DEF Same
<1>2. RootInv(Context(p), Pending(p))' <=> RootInv(Context(p), Pending(p))
  BY <1>1 DEF RootInv
<1>3. ChildInv(Context(p), Pending(p))' <=> ChildInv(Context(p), Pending(p))
  BY <1>1 DEF ChildInv
<1>4. GrandchildInv(Context(p), Pending(p))' <=> GrandchildInv(Context(p), Pending(p))
  BY <1>1 DEF GrandchildInv
<1> QED BY <1>2, <1>3, <1>4

LEMMA SameSays ==
    ASSUME NEW p, Same(p), NEW k
    PROVE  /\ Passed(Context(p), Pending(p), k)' <=> Passed(Context(p), Pending(p), k)
           /\ Said(Context(p), Pending(p), k)' <=> Said(Context(p), Pending(p), k)
<1>1. Context(p)' = Context(p) /\ (Pending(p)' <=> Pending(p)) BY DEF Same
<1>2. Passed(Context(p), Pending(p), k)' <=> Passed(Context(p), Pending(p), k)
  BY <1>1 DEF Passed
<1>3. Said(Context(p), Pending(p), k)' <=> Said(Context(p), Pending(p), k)
  BY <1>1 DEF Said
<1> QED BY <1>2, <1>3

LEMMA QuietKeeps ==
    ASSUME FTyped, Quiet, NEW child, NEW grandchild, Lineage(child, grandchild)
    PROVE  Lineage(child, grandchild)'
<1>1. /\ Root \in Family
      /\ child # NoProc => child \in Family
      /\ grandchild # NoProc => grandchild \in Family
  BY RootFamily DEF Lineage, Roles
<1>2. Same(Root) /\ (child # NoProc => Same(child)) /\ (grandchild # NoProc => Same(grandchild))
  BY <1>1 DEF Quiet
<1>3. Roles(child, grandchild)' BY DEF Quiet, Same, Lineage, Roles
<1>4. Knowledge(child, grandchild)' BY <1>2, SameKnows, SameSays DEF Lineage, Knowledge
<1>5. Spoken(child, grandchild)' BY <1>2, SameSays, SilentKeeps DEF Quiet, Lineage, Spoken
<1> QED BY <1>3, <1>4, <1>5 DEF Lineage

\* An instruction changes what one process knows, and nothing of what it has done.
LEMMA RootMoves ==
    ASSUME FTyped, NEW p \in Family, Runs(p), RootInv(Context(p), Pending(p))
    PROVE  /\ RootInv(Context(p), Pending(p))' /\ (Gone(p)' => Context(p)'.PC = 16)
           /\ Passed(Context(p), Pending(p), 2)' <=> Passed(Context(p), Pending(p), 2)
           /\ Said(Context(p), Pending(p), 5)' <=> Said(Context(p), Pending(p), 5)
<1>1. PICK c \in Contexts : c = Context(p) /\ c.PC \in 1..15
  BY Stands DEF Runs
<1>2. PICK d : d = Context(p)' OBVIOUS
<1>3. d = AfterOp(ForkCode[c.PC], c, memory) BY <1>1, <1>2 DEF Runs
<1>4. Pending(p) = FALSE /\ Pending(p)' = Raises(c) /\ (Gone(p)' <=> c.PC = 15)
  BY <1>1 DEF Runs, Pending, Raises
<1>5. RootInv(c, FALSE) BY <1>1, <1>4
<1>6. /\ RootInv(d, Raises(c)) /\ (d.PC = 16 <=> c.PC = 15)
      /\ Passed(d, Raises(c), 2) <=> Passed(c, FALSE, 2)
      /\ Said(d, Raises(c), 5) <=> Said(c, FALSE, 5)
  BY <1>1, <1>3, <1>5, RootRuns
<1> QED BY <1>1, <1>2, <1>4, <1>6

LEMMA ChildMoves ==
    ASSUME FTyped, NEW p \in Family, Runs(p), ChildInv(Context(p), Pending(p))
    PROVE  /\ ChildInv(Context(p), Pending(p))' /\ (Gone(p)' => Context(p)'.PC = 16)
           /\ Passed(Context(p), Pending(p), 9)' <=> Passed(Context(p), Pending(p), 9)
           /\ Said(Context(p), Pending(p), 11)' <=> Said(Context(p), Pending(p), 11)
<1>1. PICK c \in Contexts : c = Context(p) /\ c.PC \in 1..15
  BY Stands DEF Runs
<1>2. PICK d : d = Context(p)' OBVIOUS
<1>3. d = AfterOp(ForkCode[c.PC], c, memory) BY <1>1, <1>2 DEF Runs
<1>4. Pending(p) = FALSE /\ Pending(p)' = Raises(c) /\ (Gone(p)' <=> c.PC = 15)
  BY <1>1 DEF Runs, Pending, Raises
<1>5. ChildInv(c, FALSE) BY <1>1, <1>4
<1>6. /\ ChildInv(d, Raises(c)) /\ (d.PC = 16 <=> c.PC = 15)
      /\ Passed(d, Raises(c), 9) <=> Passed(c, FALSE, 9)
      /\ Said(d, Raises(c), 11) <=> Said(c, FALSE, 11)
  BY <1>1, <1>3, <1>5, ChildRuns
<1> QED BY <1>1, <1>2, <1>4, <1>6

LEMMA GrandchildMoves ==
    ASSUME FTyped, NEW p \in Family, Runs(p), GrandchildInv(Context(p), Pending(p))
    PROVE  /\ GrandchildInv(Context(p), Pending(p))' /\ (Gone(p)' => Context(p)'.PC = 16)
           /\ Said(Context(p), Pending(p), 14)' <=> Said(Context(p), Pending(p), 14)
<1>1. PICK c \in Contexts : c = Context(p) /\ c.PC \in 1..15
  BY Stands DEF Runs
<1>2. PICK d : d = Context(p)' OBVIOUS
<1>3. d = AfterOp(ForkCode[c.PC], c, memory) BY <1>1, <1>2 DEF Runs
<1>4. Pending(p) = FALSE /\ Pending(p)' = Raises(c) /\ (Gone(p)' <=> c.PC = 15)
  BY <1>1 DEF Runs, Pending, Raises
<1>5. GrandchildInv(c, FALSE) BY <1>1, <1>4
<1>6. /\ GrandchildInv(d, Raises(c)) /\ (d.PC = 16 <=> c.PC = 15)
      /\ Said(d, Raises(c), 14) <=> Said(c, FALSE, 14)
  BY <1>1, <1>3, <1>5, GrandchildRuns
<1> QED BY <1>1, <1>2, <1>4, <1>6

LEMMA RunsKeeps ==
    ASSUME FTyped, NEW p \in Family, Runs(p), NEW child, NEW grandchild, Lineage(child, grandchild)
    PROVE  Lineage(child, grandchild)'
<1>1. /\ Root \in Family
      /\ child # NoProc => child \in Family /\ child # Root
      /\ grandchild # NoProc => grandchild \in Family /\ grandchild # Root /\ grandchild # child
      /\ p \in {Root, child, grandchild} /\ p # NoProc
  BY RootFamily DEF Lineage, Roles, Runs
<1>2. \A q \in Family \ {p} : Same(q) BY DEF Runs
<1>3. Silent BY DEF Runs, Silent
<1>4. ~Absent(p) /\ ~Absent(p)' BY DEF Runs
<1>5. ASSUME Gone(p)' => Context(p)'.PC = 16 PROVE Roles(child, grandchild)'
  BY <1>1, <1>2, <1>4, <1>5 DEF Lineage, Roles, Same
<1>6. SaidOnce' /\ \A s : (Heard(s)' <=> Heard(s)) BY <1>3, SilentKeeps DEF Lineage, Spoken
<1>7. CASE p = Root
  <2>1. (child # NoProc => Same(child)) /\ (grandchild # NoProc => Same(grandchild))
    BY <1>1, <1>2, <1>7
  <2>2. /\ RootInv(Context(Root), Pending(Root))' /\ (Gone(Root)' => Context(Root)'.PC = 16)
        /\ Passed(Context(Root), Pending(Root), 2)' <=> Passed(Context(Root), Pending(Root), 2)
        /\ Said(Context(Root), Pending(Root), 5)' <=> Said(Context(Root), Pending(Root), 5)
    BY <1>7, RootMoves DEF Lineage, Knowledge
  <2>3. Knowledge(child, grandchild)' BY <2>1, <2>2, SameKnows, SameSays DEF Lineage, Knowledge
  <2>4. Spoken(child, grandchild)' BY <1>6, <2>1, <2>2, SameSays DEF Lineage, Spoken
  <2> QED BY <1>5, <1>7, <2>2, <2>3, <2>4 DEF Lineage
<1>8. CASE p = child
  <2>1. Same(Root) /\ (grandchild # NoProc => Same(grandchild)) /\ child # NoProc
    BY <1>1, <1>2, <1>8
  <2>2. /\ ChildInv(Context(child), Pending(child))' /\ (Gone(child)' => Context(child)'.PC = 16)
        /\ Passed(Context(child), Pending(child), 9)' <=> Passed(Context(child), Pending(child), 9)
        /\ Said(Context(child), Pending(child), 11)' <=> Said(Context(child), Pending(child), 11)
    BY <1>8, <2>1, ChildMoves DEF Lineage, Knowledge
  <2>3. Knowledge(child, grandchild)' BY <2>1, <2>2, SameKnows, SameSays DEF Lineage, Knowledge
  <2>4. Spoken(child, grandchild)' BY <1>6, <2>1, <2>2, SameSays DEF Lineage, Spoken
  <2> QED BY <1>5, <1>8, <2>2, <2>3, <2>4 DEF Lineage
<1>9. CASE p = grandchild
  <2>1. Same(Root) /\ (child # NoProc => Same(child)) /\ grandchild # NoProc
    BY <1>1, <1>2, <1>9
  <2>2. /\ GrandchildInv(Context(grandchild), Pending(grandchild))'
        /\ Gone(grandchild)' => Context(grandchild)'.PC = 16
        /\ Said(Context(grandchild), Pending(grandchild), 14)'
             <=> Said(Context(grandchild), Pending(grandchild), 14)
    BY <1>9, <2>1, GrandchildMoves DEF Lineage, Knowledge
  <2>3. Knowledge(child, grandchild)' BY <2>1, <2>2, SameKnows, SameSays DEF Lineage, Knowledge
  <2>4. Spoken(child, grandchild)' BY <1>6, <2>1, <2>2, SameSays DEF Lineage, Spoken
  <2> QED BY <1>5, <1>9, <2>2, <2>3, <2>4 DEF Lineage
<1> QED BY <1>1, <1>7, <1>8, <1>9

\* A print says the string of its process, which was not said before.
LEMMA RootSpeaks ==
    ASSUME FTyped, NEW p \in Family, Speaks(p), RootInv(Context(p), Pending(p))
    PROVE  /\ output' = Append(output, <<PRINT, PSTR>>) /\ RootInv(Context(p), Pending(p))'
           /\ ~Said(Context(p), Pending(p), 5) /\ Said(Context(p), Pending(p), 5)'
           /\ Passed(Context(p), Pending(p), 2)' <=> Passed(Context(p), Pending(p), 2)
<1>1. PICK c \in Contexts : c = Context(p) BY Stands
<1>2. PICK d : d = Context(p)' OBVIOUS
<1>3. /\ d.PC = c.PC /\ d.Z = c.Z /\ \A r \in Registers \ {0} : d.Reg[r] = c.Reg[r]
      /\ c.PC \in {5, 11, 14} /\ output' = Append(output, <<PRINT, c.Reg[0]>>)
  BY <1>1, <1>2 DEF Speaks, IsServed
<1>4. Pending(p) = TRUE /\ Pending(p)' = FALSE BY DEF Speaks, IsServed, Pending
<1>5. RootInv(c, TRUE) BY <1>1, <1>4
<1>6. c.PC = 5 /\ c.Reg[0] = PSTR BY <1>1, <1>3, <1>5 DEF RootInv
<1>7. RootInv(d, FALSE) BY <1>3, <1>5, <1>6 DEF RootInv, Registers
<1>8. ~Said(c, TRUE, 5) /\ Said(d, FALSE, 5) BY <1>3, <1>6 DEF Said
<1>9. Passed(c, TRUE, 2) /\ Passed(d, FALSE, 2) BY <1>3, <1>6 DEF Passed
<1> QED BY <1>1, <1>2, <1>3, <1>4, <1>6, <1>7, <1>8, <1>9

LEMMA ChildSpeaks ==
    ASSUME FTyped, NEW p \in Family, Speaks(p), ChildInv(Context(p), Pending(p))
    PROVE  /\ output' = Append(output, <<PRINT, CSTR>>) /\ ChildInv(Context(p), Pending(p))'
           /\ ~Said(Context(p), Pending(p), 11) /\ Said(Context(p), Pending(p), 11)'
           /\ Passed(Context(p), Pending(p), 9)' <=> Passed(Context(p), Pending(p), 9)
<1>1. PICK c \in Contexts : c = Context(p) BY Stands
<1>2. PICK d : d = Context(p)' OBVIOUS
<1>3. /\ d.PC = c.PC /\ d.Z = c.Z /\ \A r \in Registers \ {0} : d.Reg[r] = c.Reg[r]
      /\ c.PC \in {5, 11, 14} /\ output' = Append(output, <<PRINT, c.Reg[0]>>)
  BY <1>1, <1>2 DEF Speaks, IsServed
<1>4. Pending(p) = TRUE /\ Pending(p)' = FALSE BY DEF Speaks, IsServed, Pending
<1>5. ChildInv(c, TRUE) BY <1>1, <1>4
<1>6. c.PC = 11 /\ c.Reg[0] = CSTR BY <1>1, <1>3, <1>5 DEF ChildInv
<1>7. ChildInv(d, FALSE) BY <1>3, <1>5, <1>6 DEF ChildInv, Registers
<1>8. ~Said(c, TRUE, 11) /\ Said(d, FALSE, 11) BY <1>3, <1>6 DEF Said
<1>9. Passed(c, TRUE, 9) /\ Passed(d, FALSE, 9) BY <1>3, <1>6 DEF Passed
<1> QED BY <1>1, <1>2, <1>3, <1>4, <1>6, <1>7, <1>8, <1>9

LEMMA GrandchildSpeaks ==
    ASSUME FTyped, NEW p \in Family, Speaks(p), GrandchildInv(Context(p), Pending(p))
    PROVE  /\ output' = Append(output, <<PRINT, GSTR>>) /\ GrandchildInv(Context(p), Pending(p))'
           /\ ~Said(Context(p), Pending(p), 14) /\ Said(Context(p), Pending(p), 14)'
<1>1. PICK c \in Contexts : c = Context(p) BY Stands
<1>2. PICK d : d = Context(p)' OBVIOUS
<1>3. /\ d.PC = c.PC /\ d.Z = c.Z /\ \A r \in Registers \ {0} : d.Reg[r] = c.Reg[r]
      /\ c.PC \in {5, 11, 14} /\ output' = Append(output, <<PRINT, c.Reg[0]>>)
  BY <1>1, <1>2 DEF Speaks, IsServed
<1>4. Pending(p) = TRUE /\ Pending(p)' = FALSE BY DEF Speaks, IsServed, Pending
<1>5. GrandchildInv(c, TRUE) BY <1>1, <1>4
<1>6. c.PC = 14 /\ c.Reg[0] = GSTR BY <1>1, <1>3, <1>5 DEF GrandchildInv
<1>7. GrandchildInv(d, FALSE) BY <1>3, <1>5, <1>6 DEF GrandchildInv, Registers
<1>8. ~Said(c, TRUE, 14) /\ Said(d, FALSE, 14) BY <1>3, <1>6 DEF Said
<1> QED BY <1>1, <1>2, <1>3, <1>4, <1>6, <1>7, <1>8

LEMMA SpeaksKeeps ==
    ASSUME FTyped, NEW p \in Family, Speaks(p), NEW child, NEW grandchild, Lineage(child, grandchild)
    PROVE  Lineage(child, grandchild)'
<1>1. /\ Root \in Family
      /\ child # NoProc => child \in Family /\ child # Root
      /\ grandchild # NoProc => grandchild \in Family /\ grandchild # Root /\ grandchild # child
      /\ p \in {Root, child, grandchild} /\ p # NoProc
  BY RootFamily DEF Lineage, Roles, Speaks, IsServed
<1>2. \A q \in Family \ {p} : Same(q) BY DEF Speaks
<1>3. PSTR # CSTR /\ PSTR # GSTR /\ CSTR # GSTR BY ForkDemoAssumption
<1>4. ~Absent(p) /\ ~Absent(p)' /\ ~Gone(p)' BY DEF Speaks, IsServed
<1>5. Roles(child, grandchild)' BY <1>1, <1>2, <1>4 DEF Lineage, Roles, Same
<1>6. ASSUME NEW v, output' = Append(output, <<PRINT, v>>), ~Heard(v)
      PROVE  SaidOnce' /\ \A s : (Heard(s)' <=> Heard(s) \/ s = v)
  BY <1>6, NewString DEF Lineage, Spoken
<1>7. CASE p = Root
  <2>1. (child # NoProc => Same(child)) /\ (grandchild # NoProc => Same(grandchild))
    BY <1>1, <1>2, <1>7
  <2>2. /\ output' = Append(output, <<PRINT, PSTR>>) /\ RootInv(Context(Root), Pending(Root))'
        /\ ~Said(Context(Root), Pending(Root), 5) /\ Said(Context(Root), Pending(Root), 5)'
        /\ Passed(Context(Root), Pending(Root), 2)' <=> Passed(Context(Root), Pending(Root), 2)
    BY <1>7, RootSpeaks DEF Lineage, Knowledge
  <2>3. Knowledge(child, grandchild)' BY <2>1, <2>2, SameKnows, SameSays DEF Lineage, Knowledge
  <2>4. ~Heard(PSTR) BY <1>3, <2>2 DEF Lineage, Spoken
  <2>5. SaidOnce' /\ \A s : (Heard(s)' <=> Heard(s) \/ s = PSTR) BY <1>6, <2>2, <2>4
  <2>6. Spoken(child, grandchild)' BY <2>1, <2>2, <2>5, SameSays DEF Lineage, Spoken
  <2> QED BY <1>5, <2>3, <2>6 DEF Lineage
<1>8. CASE p = child
  <2>1. Same(Root) /\ (grandchild # NoProc => Same(grandchild)) /\ child # NoProc
    BY <1>1, <1>2, <1>8
  <2>2. /\ output' = Append(output, <<PRINT, CSTR>>) /\ ChildInv(Context(child), Pending(child))'
        /\ ~Said(Context(child), Pending(child), 11) /\ Said(Context(child), Pending(child), 11)'
        /\ Passed(Context(child), Pending(child), 9)' <=> Passed(Context(child), Pending(child), 9)
    BY <1>8, <2>1, ChildSpeaks DEF Lineage, Knowledge
  <2>3. Knowledge(child, grandchild)' BY <2>1, <2>2, SameKnows, SameSays DEF Lineage, Knowledge
  <2>4. ~Heard(CSTR) BY <1>3, <2>2 DEF Lineage, Spoken
  <2>5. SaidOnce' /\ \A s : (Heard(s)' <=> Heard(s) \/ s = CSTR) BY <1>6, <2>2, <2>4
  <2>6. Spoken(child, grandchild)' BY <2>1, <2>2, <2>5, SameSays DEF Lineage, Spoken
  <2> QED BY <1>5, <2>3, <2>6 DEF Lineage
<1>9. CASE p = grandchild
  <2>1. Same(Root) /\ (child # NoProc => Same(child)) /\ grandchild # NoProc
    BY <1>1, <1>2, <1>9
  <2>2. /\ output' = Append(output, <<PRINT, GSTR>>)
        /\ GrandchildInv(Context(grandchild), Pending(grandchild))'
        /\ ~Said(Context(grandchild), Pending(grandchild), 14)
        /\ Said(Context(grandchild), Pending(grandchild), 14)'
    BY <1>9, <2>1, GrandchildSpeaks DEF Lineage, Knowledge
  <2>3. Knowledge(child, grandchild)' BY <2>1, <2>2, SameKnows, SameSays DEF Lineage, Knowledge
  <2>4. ~Heard(GSTR) BY <1>3, <2>2 DEF Lineage, Spoken
  <2>5. SaidOnce' /\ \A s : (Heard(s)' <=> Heard(s) \/ s = GSTR) BY <1>6, <2>2, <2>4
  <2>6. Spoken(child, grandchild)' BY <2>1, <2>2, <2>5, SameSays DEF Lineage, Spoken
  <2> QED BY <1>5, <2>3, <2>6 DEF Lineage
<1> QED BY <1>1, <1>7, <1>8, <1>9

\* The root bears the child, and the child the grandchild.
LEMMA BearsKeeps ==
    ASSUME FTyped, NEW p \in Family, NEW k \in Family, Bears(p, k),
           NEW child, NEW grandchild, Lineage(child, grandchild)
    PROVE  \/ p = Root /\ child = NoProc /\ grandchild = NoProc /\ Lineage(k, NoProc)'
           \/ p = child /\ grandchild = NoProc /\ Lineage(child, k)'
<1>1. /\ Root \in Family
      /\ child # NoProc => child \in Family /\ child # Root
      /\ grandchild # NoProc => grandchild \in Family /\ grandchild # Root /\ grandchild # child
      /\ p \in {Root, child, grandchild} /\ p # NoProc
      /\ k \notin {Root, child, grandchild} /\ k # NoProc
  BY RootFamily DEF Lineage, Roles, Bears, IsServed
<1>2. \A q \in Family \ {p, k} : Same(q) BY DEF Bears
<1>3. SaidOnce' /\ \A s : (Heard(s)' <=> Heard(s)) BY SilentKeeps DEF Bears, Silent, Lineage, Spoken
<1>4. PICK c \in Contexts : c = Context(p) BY Stands
<1>5. Pending(p) = TRUE /\ Pending(p)' = FALSE /\ Context(p)' = c /\ c.PC \in {2, 9}
  BY <1>4 DEF Bears, IsServed, Pending
<1>6. PICK d : d = Context(k)' OBVIOUS
<1>7. /\ d.PC = c.PC /\ d.Z = 1 /\ d.Reg[1] = d.Reg[2]
      /\ Pending(k)' = FALSE /\ ~Absent(k)' /\ ~Gone(k)'
  <2>1. d = [Cleared EXCEPT !.PC = c.PC, !.Z = 1] BY <1>4, <1>6 DEF Bears
  <2>2. {1, 2} \subseteq Registers BY DEF Registers
  <2> QED BY <2>1, <2>2 DEF Cleared, Bears, Pending
<1>8. ~Absent(p) /\ ~Absent(p)' /\ ~Gone(p)' BY DEF Bears, IsServed
<1>9. CASE p = Root
  <2>1. RootInv(c, TRUE) BY <1>4, <1>5, <1>9 DEF Lineage, Knowledge
  <2>2. c.PC = 2 /\ RootInv(c, FALSE) BY <1>5, <2>1 DEF RootInv
  <2>3. ~Passed(c, TRUE, 2) /\ Passed(c, FALSE, 2) /\ ~Said(c, TRUE, 5) /\ ~Said(c, FALSE, 5)
    BY <2>2 DEF Passed, Said
  <2>4. child = NoProc /\ grandchild = NoProc BY <1>4, <1>5, <1>9, <2>3 DEF Lineage, Knowledge
  <2>5. ChildInv(d, FALSE) /\ ~Passed(d, FALSE, 9) /\ ~Said(d, FALSE, 11)
    BY <1>7, <2>2 DEF ChildInv, Passed, Said
  <2>6. Roles(k, NoProc)'
    BY <1>1, <1>2, <1>7, <1>8, <1>9, <2>4, RootFamily DEF Lineage, Roles, Same
  <2>7. Knowledge(k, NoProc)' BY <1>1, <1>5, <1>6, <1>7, <1>9, <2>2, <2>3, <2>5 DEF Knowledge
  <2>8. Spoken(k, NoProc)'
    BY <1>3, <1>4, <1>5, <1>6, <1>7, <1>9, <2>3, <2>4, <2>5 DEF Lineage, Spoken
  <2> QED BY <1>9, <2>4, <2>6, <2>7, <2>8 DEF Lineage
<1>10. CASE p = child
  <2>1. ChildInv(c, TRUE) /\ Same(Root) BY <1>1, <1>2, <1>4, <1>5, <1>10 DEF Lineage, Knowledge
  <2>2. c.PC = 9 /\ ChildInv(c, FALSE) BY <1>5, <2>1 DEF ChildInv
  <2>3. ~Passed(c, TRUE, 9) /\ Passed(c, FALSE, 9) /\ ~Said(c, TRUE, 11) /\ ~Said(c, FALSE, 11)
    BY <2>2 DEF Passed, Said
  <2>4. grandchild = NoProc BY <1>4, <1>5, <1>10, <2>3 DEF Lineage, Knowledge
  <2>5. GrandchildInv(d, FALSE) /\ ~Said(d, FALSE, 14) BY <1>7, <2>2 DEF GrandchildInv, Said
  <2>6. Roles(child, k)'
    BY <1>1, <1>2, <1>7, <1>8, <1>10, <2>4, RootFamily DEF Lineage, Roles, Same
  <2>7. Knowledge(child, k)'
    BY <1>1, <1>5, <1>6, <1>7, <1>10, <2>1, <2>2, <2>3, <2>5, SameKnows, SameSays
       DEF Lineage, Knowledge
  <2>8. Spoken(child, k)'
    BY <1>3, <1>4, <1>5, <1>6, <1>7, <1>10, <2>1, <2>3, <2>4, <2>5, SameSays DEF Lineage, Spoken
  <2> QED BY <1>10, <2>4, <2>6, <2>7, <2>8 DEF Lineage
<1>11. CASE p = grandchild
  <2>1. GrandchildInv(c, TRUE) BY <1>1, <1>4, <1>5, <1>11 DEF Lineage, Knowledge
  <2> QED BY <1>5, <2>1 DEF GrandchildInv
<1> QED BY <1>1, <1>9, <1>10, <1>11

LEMMA FInvStep == FTyped /\ FInv /\ [MNext]_mVars => FTyped' /\ FInv'
<1> SUFFICES ASSUME FTyped, FInv, [MNext]_mVars PROVE FTyped' /\ FInv' OBVIOUS
<1>1. FTyped' BY ForkDemoSound, TInvStep DEF FTyped
<1>2. PICK child \in Family \cup {NoProc}, grandchild \in Family \cup {NoProc} :
        Lineage(child, grandchild)
  BY DEF FInv
<1>3. ASSUME Quiet PROVE FInv'
  <2>1. Lineage(child, grandchild)' BY <1>2, <1>3, QuietKeeps
  <2> QED BY <2>1 DEF FInv
<1>4. ASSUME NEW p \in Family, Runs(p) PROVE FInv' BY <1>2, <1>4, RunsKeeps DEF FInv
<1>5. ASSUME NEW p \in Family, Speaks(p) PROVE FInv' BY <1>2, <1>5, SpeaksKeeps DEF FInv
<1>6. ASSUME NEW p \in Family, NEW k \in Family, Bears(p, k) PROVE FInv'
  BY <1>2, <1>6, BearsKeeps DEF FInv
<1> QED BY <1>1, <1>3, <1>4, <1>5, <1>6, FamilySteps

LEMMA FInvStart == ASSUME NEW loaded \in Orders, Started(loaded, {}) PROVE FTyped /\ FInv
<1>1. /\ loaded \in Seq(Proc) /\ IsInjective(loaded) /\ Range(loaded) = Others \cup {Root}
      /\ SoundPrograms(loaded)
  BY OrderLoads, ForkDemoSound
<1>2. FTyped
  <2>1. TInv(loaded) BY <1>1, StartedTypes
  <2>2. Order \in Orders BY DEF Order
  <2>3. Range(Order) = Range(loaded) BY <1>1, <2>2, OrderLoads
  <2> QED BY <2>1, <2>2, <2>3 DEF FTyped, TInv, Loaded
<1>3. /\ image = [p \in Proc |-> FirstInstruction] /\ cpuOwner = NoProc /\ phase = "shell"
      /\ pState = [p \in Proc |-> IF p \in Range(loaded) THEN NEWLY ELSE CREATED]
      /\ output = <<>>
  BY DEF Started
<1>4. ASSUME NEW p \in Family
      PROVE  /\ Context(p) = FirstInstruction /\ Pending(p) = FALSE /\ ~Gone(p)
             /\ Absent(p) <=> p # Root
  <2>1. p \in Proc /\ (p \in Range(loaded) <=> p = Root) BY <1>1 DEF Family
  <2>2. pState[p] = IF p = Root THEN NEWLY ELSE CREATED BY <1>3, <2>1
  <2>3. Context(p) = FirstInstruction /\ Pending(p) = FALSE
    BY <1>3, <2>1, ProcAssumption DEF Context, Pending
  <2> QED BY <2>2, <2>3 DEF Gone, Absent, NEWLY, CREATED, TERMINATED
<1>5. FirstInstruction.PC = 1 /\ FirstInstruction.Z = 0 BY DEF FirstInstruction, Cleared
<1>6. Roles(NoProc, NoProc)
  <2>1. \A p \in Family : ~Gone(p) /\ (Absent(p) <=> p # Root) BY <1>4
  <2>2. \A p \in Family : Absent(p) <=> p \notin {Root, NoProc} BY <2>1, RootFamily
  <2> QED BY <2>1, <2>2, RootFamily DEF Roles
<1>7. RootInv(FirstInstruction, FALSE) /\ ~Passed(FirstInstruction, FALSE, 2)
      /\ ~Said(FirstInstruction, FALSE, 5)
  BY <1>5 DEF RootInv, Passed, Said
<1>8. Knowledge(NoProc, NoProc) BY <1>4, <1>7, RootFamily DEF Knowledge
<1>9. Printed = {} BY <1>3 DEF Printed
<1>10. Spoken(NoProc, NoProc) BY <1>4, <1>7, <1>9, RootFamily DEF Spoken, SaidOnce, Heard
<1> QED BY <1>2, <1>6, <1>8, <1>10 DEF FInv, Lineage

LEMMA FInvPrints == FInv => PrintsOwn
<1> SUFFICES ASSUME FInv PROVE PrintsOwn OBVIOUS
<1>1. PICK child \in Family \cup {NoProc}, grandchild \in Family \cup {NoProc} :
        Lineage(child, grandchild)
  BY DEF FInv
<1>2. \A i, j \in Printed : output[i] = output[j] => i = j BY <1>1 DEF Lineage, Spoken, SaidOnce
<1>3. ASSUME \A p \in Family : pState[p] = TERMINATED
      PROVE  {output[k][2] : k \in Printed} = {PSTR, CSTR, GSTR}
  <2>1. \A p \in Family : Context(p).PC = 16 BY <1>1, <1>3 DEF Lineage, Roles, Gone
  <2>2. \A c, pending : c.PC = 16 => /\ Passed(c, pending, 2) /\ Passed(c, pending, 9)
                                    /\ Said(c, pending, 5) /\ Said(c, pending, 11)
                                    /\ Said(c, pending, 14)
    BY DEF Passed, Said
  <2>3. child # NoProc BY <1>1, <2>1, <2>2, RootFamily DEF Lineage, Knowledge
  <2>4. grandchild # NoProc BY <1>1, <2>1, <2>2, <2>3 DEF Lineage, Knowledge
  <2>5. \A s : Heard(s) <=> s \in {PSTR, CSTR, GSTR}
    BY <1>1, <2>1, <2>2, <2>3, <2>4, RootFamily DEF Lineage, Spoken
  <2> QED BY <2>5 DEF Heard
<1> QED BY <1>2, <1>3 DEF PrintsOwn

\* Parent, child and grandchild print each its own string and no other, once,
\* although they run the same text and differ only in what vFork leaves in Z:
\* for any quantum, algorithm and load order, and any programs beside them.
THEOREM PrintsOwnHolds == FDSpec => []PrintsOwn
<1>1. (\E loaded \in Orders : Started(loaded, {})) => FTyped /\ FInv BY FInvStart
<1>2. (FTyped /\ FInv) /\ [MNext]_mVars => (FTyped /\ FInv)' BY FInvStep
<1>3. FTyped /\ FInv => PrintsOwn BY FInvPrints
<1> QED BY <1>1, <1>2, <1>3, PTL DEF FDSpec

\* A forked process too stays in the text it was copied from.
THEOREM ForkDemoTyped == FDSpec => []MTypeOK
<1>1. (\E loaded \in Orders : Started(loaded, {})) => FTyped /\ FInv BY FInvStart
<1>2. (FTyped /\ FInv) /\ [MNext]_mVars => (FTyped /\ FInv)' BY FInvStep
<1>3. FTyped => MTypeOK BY TInvTypes DEF FTyped
<1> QED BY <1>1, <1>2, <1>3, PTL DEF FDSpec

=============================================================================
