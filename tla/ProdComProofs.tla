---------------------------- MODULE ProdComProofs ----------------------------
(***************************************************************************)
(* The producer and consumer, for any number of values, any quantum and any *)
(* algorithm: what MachineProofs shows of all programs, and that the flag    *)
(* keeps the values in order and loses none before the last.                *)
(*                                                                         *)
(* The inductive invariant PCInv says, for every PC, what the registers of   *)
(* each program hold and what it knows of the flag, and relates through the  *)
(* flag what was sent, taken and printed. A step of either program is then   *)
(* one instruction of its text (ProducerStep, ConsumerStep), the answer to   *)
(* one interrupt, or its end; every other step of the machine is invisible   *)
(* to both (ProgramSteps).                                                  *)
(***************************************************************************)
EXTENDS ProdCom, MachineProofs, FiniteSetTheorems, WellFoundedInduction

LEMMA LoadOrder ==
    ASSUME NEW first \in {<<Producer, Consumer>>, <<Consumer, Producer>>}
    PROVE  first \in Seq(Proc) /\ IsInjective(first)
<1>1. ASSUME NEW p \in Proc, NEW c \in Proc, p # c
      PROVE  <<p, c>> \in Seq(Proc) /\ IsInjective(<<p, c>>)
  BY <1>1 DEF IsInjective
<1>2. Producer \in Proc /\ Consumer \in Proc /\ Producer # Consumer
  BY ProdComAssumption
<1> QED BY <1>1, <1>2

\* The producer and the consumer are never lost, duplicated or misfiled by the
\* semaphore, and compute on their own registers, although the semaphore does
\* not exclude them.
THEOREM ProdComSafe == PCSpec => []MInv /\ OwnSteps
<1>1. (\E first \in {<<Producer, Consumer>>, <<Consumer, Producer>>} : Started(first, Proc)) => MInv
  BY LoadOrder, StartedInv, StartedShapes DEF MInv
<1>2. MInv /\ [MNext]_mVars => MInv' BY StepKept
<1>3. MInv /\ [MNext]_mVars => [\A p \in Proc : pState[p] # CREATED => OwnStep(p)]_mVars
  BY StepKept DEF Kept, Born
<1> QED BY <1>1, <1>2, <1>3, PTL DEF PCSpec, OwnSteps

----------------------------------------------------------------------------
(* The inductive invariant.                                                *)

\* c are the registers of one of the two programs, mem the memory; pending, that
\* the interrupt of the instruction before its PC is still to be served.
Flag(mem) == mem[Base]
Value(mem) == mem[Base + 4]

\* What the first six instructions of both programs prepare.
Setup(c, pending) ==
    /\ c.PC >= 1
    /\ c.PC = 2 /\ ~pending => c.Reg[0] = Base
    /\ c.PC >= 3 => c.Reg[1] = Base
    /\ c.PC >= 4 => c.Reg[2] = 4
    /\ c.PC >= 5 => c.Reg[3] = 1
    /\ c.PC <= 6 => c.Reg[4] = 0
    /\ c.PC >= 7 => c.Reg[5] = Limit

\* Register 4 of the producer counts the values, and between its test of the flag
\* and its own store the flag stays empty.
ProducerInv(c, mem) ==
    /\ c.PC <= 27
    /\ c.PC \in 1..11 \cup 17..18 \cup 25..27 => 0 <= c.Reg[4] /\ c.Reg[4] < Limit
    /\ c.PC \in 12..16 => 1 <= c.Reg[4] /\ c.Reg[4] <= Limit
    /\ c.PC \in 19..20 => c.Reg[4] = Limit
    /\ c.PC \in 21..24 => c.Reg[4] = 0
    /\ c.PC \in {13, 22} => c.Reg[0] = Base + 4
    /\ c.PC = 16 => c.Z = c.Reg[4] - Limit
    /\ c.PC = 9 => c.Reg[0] = 1 \/ Flag(mem) = 0
    /\ c.PC = 10 => c.Z = 0 \/ Flag(mem) = 0
    /\ c.PC \in 11..14 => Flag(mem) = 0
    /\ c.PC = 14 => Value(mem) = c.Reg[4]

\* The consumer has counted them all, unless the only value was replaced by 0.
Finishes(c) == c.Reg[4] = Limit \/ (Limit = 1 /\ c.Reg[4] = 0)

\* The consumer's register 4 counts too, and it holds the next value from its
\* load to its print.
ConsumerInv(c, pending, mem) ==
    /\ c.PC <= 28
    /\ 0 <= c.Reg[4] /\ c.Reg[4] <= Limit
    /\ c.PC \in 1..18 \cup {24, 27, 28} => c.Reg[4] < Limit
    /\ c.PC \in {25, 26} => Finishes(c)
    /\ c.PC = 14 => c.Z = c.Reg[0] - c.Reg[4]
    /\ c.PC \in {23, 24} => c.Z = c.Reg[4] - Limit
    /\ c.PC = 12 => c.Reg[0] = Base + 4
    /\ c.PC \in 13..15 \/ (c.PC = 16 /\ pending) =>
         c.Reg[0] = c.Reg[4] + 1 \/ (c.Reg[4] + 1 = Limit /\ c.Reg[0] = 0)
    /\ c.PC = 17 => c.Reg[0] = 0
    /\ c.PC = 9 /\ c.Reg[0] = 1 => Flag(mem) = 1
    /\ c.PC = 10 /\ c.Z = 0 => Flag(mem) = 1
    /\ c.PC \in 11..17 => Flag(mem) = 1

\* How many values the producer has put in the block, how many the consumer has
\* taken out, and how many it has printed.
Sent(c, over) == IF over \/ c.PC \in 21..24 THEN Limit
                 ELSE IF c.PC \in 12..14 THEN c.Reg[4] - 1 ELSE c.Reg[4]
Taken(c) == IF c.PC = 18 THEN c.Reg[4] + 1 ELSE c.Reg[4]
Shown(c, pending) ==
    IF c.PC \in 17..18 \/ (c.PC = 16 /\ ~pending) THEN c.Reg[4] + 1 ELSE c.Reg[4]

\* The flag says whether the value sent last is still there. The producer ends by
\* putting a 0 there, taken or not: if not, it replaces the last value.
Protocol(p, over, c, mem) ==
    /\ Flag(mem) \in {0, 1}
    /\ IF over \/ p.PC \in 23..24
       THEN \/ Flag(mem) = 1 /\ Taken(c) = Limit - 1 /\ Value(mem) = 0
            \/ Taken(c) = Limit
       ELSE \/ Flag(mem) = 1 /\ Sent(p, over) = Taken(c) + 1 /\ Value(mem) = Sent(p, over)
            \/ Flag(mem) = 0 /\ Sent(p, over) = Taken(c)

ProducerPart ==
    ~Gone(Producer) => /\ Setup(Context(Producer), Pending(Producer))
                       /\ ProducerInv(Context(Producer), memory)
ConsumerPart ==
    IF Gone(Consumer) THEN Context(Consumer).PC = 27 /\ Finishes(Context(Consumer))
    ELSE /\ Setup(Context(Consumer), Pending(Consumer))
         /\ ConsumerInv(Context(Consumer), Pending(Consumer), memory)
SharedPart ==
    ~Ended => /\ DOMAIN memory = Words
              /\ Protocol(Context(Producer), Gone(Producer), Context(Consumer), memory)
PrintedPart ==
    /\ Cardinality(Printed) = Shown(Context(Consumer), Pending(Consumer))
    /\ InOrder

Linked == \A p \in Proc : sharedMemory[p]

PCInv == Linked /\ ProducerPart /\ ConsumerPart /\ SharedPart /\ PrintedPart

----------------------------------------------------------------------------
(* The texts of the programs, instruction by instruction.                  *)

LEMMA ProducerText ==
    /\ ProducerCode[1] = SWI(4)
    /\ ProducerCode[2] = Op("MOV", 1, 0, 0)
    /\ ProducerCode[3] = Op("MVI", 2, 4, 0)
    /\ ProducerCode[4] = Op("MVI", 3, 1, 0)
    /\ ProducerCode[5] = Op("MVI", 4, 0, 0)
    /\ ProducerCode[6] = Op("MVI", 5, Limit, 0)
    /\ ProducerCode[7] = SWI(5)
    /\ ProducerCode[8] = Op("LDR", 0, 1, 0)
    /\ ProducerCode[9] = Op("CMP", 0, 3, 0)
    /\ ProducerCode[10] = Op("BEQ", PFULL, 0, 0)
    /\ ProducerCode[11] = Op("ADD", 4, 4, 3)
    /\ ProducerCode[12] = Op("ADD", 0, 1, 2)
    /\ ProducerCode[13] = Op("STR", 4, 0, 0)
    /\ ProducerCode[14] = Op("STR", 3, 1, 0)
    /\ ProducerCode[15] = Op("CMP", 4, 5, 0)
    /\ ProducerCode[16] = Op("BEQ", PDONE, 0, 0)
    /\ ProducerCode[17] = SWI(6)
    /\ ProducerCode[18] = Op("B", LOOP, 0, 0)
    /\ ProducerCode[19] = SWI(6)
    /\ ProducerCode[20] = Op("MVI", 4, 0, 0)
    /\ ProducerCode[21] = Op("ADD", 0, 1, 2)
    /\ ProducerCode[22] = Op("STR", 4, 0, 0)
    /\ ProducerCode[23] = Op("STR", 3, 1, 0)
    /\ ProducerCode[24] = SWI(10)
    /\ ProducerCode[25] = SWI(6)
    /\ ProducerCode[26] = SWI(7)
    /\ ProducerCode[27] = Op("B", LOOP, 0, 0)
<1>1. /\ ProducerCode[1] = SWI(4)
      /\ ProducerCode[2] = Op("MOV", 1, 0, 0)
      /\ ProducerCode[3] = Op("MVI", 2, 4, 0)
      /\ ProducerCode[4] = Op("MVI", 3, 1, 0)
      /\ ProducerCode[5] = Op("MVI", 4, 0, 0)
      /\ ProducerCode[6] = Op("MVI", 5, Limit, 0)
      /\ ProducerCode[7] = SWI(5)
  BY DEF ProducerCode
<1>2. /\ ProducerCode[8] = Op("LDR", 0, 1, 0)
      /\ ProducerCode[9] = Op("CMP", 0, 3, 0)
      /\ ProducerCode[10] = Op("BEQ", PFULL, 0, 0)
      /\ ProducerCode[11] = Op("ADD", 4, 4, 3)
      /\ ProducerCode[12] = Op("ADD", 0, 1, 2)
      /\ ProducerCode[13] = Op("STR", 4, 0, 0)
      /\ ProducerCode[14] = Op("STR", 3, 1, 0)
  BY DEF ProducerCode
<1>3. /\ ProducerCode[15] = Op("CMP", 4, 5, 0)
      /\ ProducerCode[16] = Op("BEQ", PDONE, 0, 0)
      /\ ProducerCode[17] = SWI(6)
      /\ ProducerCode[18] = Op("B", LOOP, 0, 0)
      /\ ProducerCode[19] = SWI(6)
      /\ ProducerCode[20] = Op("MVI", 4, 0, 0)
      /\ ProducerCode[21] = Op("ADD", 0, 1, 2)
  BY DEF ProducerCode
<1>4. /\ ProducerCode[22] = Op("STR", 4, 0, 0)
      /\ ProducerCode[23] = Op("STR", 3, 1, 0)
      /\ ProducerCode[24] = SWI(10)
      /\ ProducerCode[25] = SWI(6)
      /\ ProducerCode[26] = SWI(7)
      /\ ProducerCode[27] = Op("B", LOOP, 0, 0)
  BY DEF ProducerCode
<1> QED BY <1>1, <1>2, <1>3, <1>4

LEMMA ConsumerText ==
    /\ ConsumerCode[1] = SWI(4)
    /\ ConsumerCode[2] = Op("MOV", 1, 0, 0)
    /\ ConsumerCode[3] = Op("MVI", 2, 4, 0)
    /\ ConsumerCode[4] = Op("MVI", 3, 1, 0)
    /\ ConsumerCode[5] = Op("MVI", 4, 0, 0)
    /\ ConsumerCode[6] = Op("MVI", 5, Limit, 0)
    /\ ConsumerCode[7] = SWI(5)
    /\ ConsumerCode[8] = Op("LDR", 0, 1, 0)
    /\ ConsumerCode[9] = Op("CMP", 0, 3, 0)
    /\ ConsumerCode[10] = Op("BNE", CEMPTY, 0, 0)
    /\ ConsumerCode[11] = Op("ADD", 0, 1, 2)
    /\ ConsumerCode[12] = Op("LDR", 0, 0, 0)
    /\ ConsumerCode[13] = Op("CMP", 0, 4, 0)
    /\ ConsumerCode[14] = Op("BEQ", CDONE, 0, 0)
    /\ ConsumerCode[15] = SWI(0)
    /\ ConsumerCode[16] = Op("MVI", 0, 0, 0)
    /\ ConsumerCode[17] = Op("STR", 0, 1, 0)
    /\ ConsumerCode[18] = Op("ADD", 4, 4, 3)
    /\ ConsumerCode[19] = SWI(6)
    /\ ConsumerCode[20] = Op("ADR", 0, NEWLINE, 0)
    /\ ConsumerCode[21] = SWI(1)
    /\ ConsumerCode[22] = Op("CMP", 4, 5, 0)
    /\ ConsumerCode[23] = Op("BEQ", CDONE, 0, 0)
    /\ ConsumerCode[24] = Op("BLT", LOOP, 0, 0)
    /\ ConsumerCode[25] = SWI(6)
    /\ ConsumerCode[26] = SWI(10)
    /\ ConsumerCode[27] = SWI(6)
    /\ ConsumerCode[28] = Op("B", LOOP, 0, 0)
<1>1. /\ ConsumerCode[1] = SWI(4)
      /\ ConsumerCode[2] = Op("MOV", 1, 0, 0)
      /\ ConsumerCode[3] = Op("MVI", 2, 4, 0)
      /\ ConsumerCode[4] = Op("MVI", 3, 1, 0)
      /\ ConsumerCode[5] = Op("MVI", 4, 0, 0)
      /\ ConsumerCode[6] = Op("MVI", 5, Limit, 0)
      /\ ConsumerCode[7] = SWI(5)
  BY DEF ConsumerCode, AMOUNT
<1>2. /\ ConsumerCode[8] = Op("LDR", 0, 1, 0)
      /\ ConsumerCode[9] = Op("CMP", 0, 3, 0)
      /\ ConsumerCode[10] = Op("BNE", CEMPTY, 0, 0)
      /\ ConsumerCode[11] = Op("ADD", 0, 1, 2)
      /\ ConsumerCode[12] = Op("LDR", 0, 0, 0)
      /\ ConsumerCode[13] = Op("CMP", 0, 4, 0)
      /\ ConsumerCode[14] = Op("BEQ", CDONE, 0, 0)
  BY DEF ConsumerCode, AMOUNT
<1>3. /\ ConsumerCode[15] = SWI(0)
      /\ ConsumerCode[16] = Op("MVI", 0, 0, 0)
      /\ ConsumerCode[17] = Op("STR", 0, 1, 0)
      /\ ConsumerCode[18] = Op("ADD", 4, 4, 3)
      /\ ConsumerCode[19] = SWI(6)
      /\ ConsumerCode[20] = Op("ADR", 0, NEWLINE, 0)
      /\ ConsumerCode[21] = SWI(1)
  BY DEF ConsumerCode, AMOUNT
<1>4. /\ ConsumerCode[22] = Op("CMP", 4, 5, 0)
      /\ ConsumerCode[23] = Op("BEQ", CDONE, 0, 0)
      /\ ConsumerCode[24] = Op("BLT", LOOP, 0, 0)
      /\ ConsumerCode[25] = SWI(6)
      /\ ConsumerCode[26] = SWI(10)
      /\ ConsumerCode[27] = SWI(6)
      /\ ConsumerCode[28] = Op("B", LOOP, 0, 0)
  BY DEF ConsumerCode, AMOUNT
<1> QED BY <1>1, <1>2, <1>3, <1>4

----------------------------------------------------------------------------
(* One instruction of the producer.                                        *)

\* The instruction stays inside the block, the producer keeps its own invariant
\* and the protocol, and the flag is left alone or set.
ProducerDoes(p, c, mem) ==
    LET i == ProducerCode[p.PC]
        d == AfterOp(i, p, mem)
        m == AfterStore(i, p, mem)
    IN  /\ ~Segfault(i, p, mem) /\ DOMAIN m = DOMAIN mem
        /\ Setup(d, i.op = "SWI") /\ ProducerInv(d, m) /\ Protocol(d, FALSE, c, m)
        /\ Flag(m) \in {Flag(mem), 1}

LEMMA ProducerStep ==
    ASSUME NEW p \in Contexts, NEW c \in Contexts, NEW mem, DOMAIN mem = Words,
           \A x \in Words : mem[x] \in Int,
           Setup(p, FALSE), ProducerInv(p, mem), Protocol(p, FALSE, c, mem), p.PC # 24
    PROVE  ProducerDoes(p, c, mem)
<1> DEFINE i == ProducerCode[p.PC]
           d == AfterOp(i, p, mem)
           m == AfterStore(i, p, mem)
<1>a. /\ p.PC \in Int /\ p.Z \in Int /\ \A r \in Registers : p.Reg[r] \in Int
      /\ c.PC \in Int /\ \A r \in Registers : c.Reg[r] \in Int
      /\ {0, 1, 2, 3, 4, 5} \subseteq Registers
  BY DEF Contexts, Registers
<1>b. /\ Words = {Base, Base + 4} /\ Base \in Int /\ Limit \in Nat \ {0}
      /\ Flag(mem) = mem[Base] /\ Value(mem) = mem[Base + 4]
      /\ mem[Base] \in Int /\ mem[Base + 4] \in Int
  BY ProdComAssumption, AddressAssumption DEF Flag, Value
<1>c. p.PC \in 1..27 BY <1>a DEF Setup, ProducerInv
<1> DEFINE Done == /\ ~Segfault(i, p, mem) /\ DOMAIN m = DOMAIN mem
                   /\ Setup(d, i.op = "SWI") /\ ProducerInv(d, m) /\ Protocol(d, FALSE, c, m)
                   /\ Flag(m) \in {Flag(mem), 1}
<1> SUFFICES Done BY DEF ProducerDoes
<1> HIDE DEF i, d, m, Plain, Done
<1>1. CASE p.PC \in {1, 7, 17, 19, 25, 26}
  <2>0. PICK n : i = SWI(n) BY <1>1, ProducerText DEF i
  <2>1. i.op = "SWI" /\ Goes(d, p, p.PC + 1) /\ m = mem /\ ~Segfault(i, p, mem)
    BY <2>0, AfterSkip, InwardOps, InwardStep DEF d, m, Plain
  <2> QED BY <1>1, <1>a, <1>b, <2>1 DEF Done, Plain, Setup, ProducerInv, Protocol, Sent, Taken, Goes
<1>2. CASE p.PC = 2
  <2>1. Plain(i) /\ m = mem /\ ~Segfault(i, p, mem) /\ Writes(d, p, 1, p.Reg[0])
    BY <1>2, <1>a, ProducerText, AfterAssign, InwardOps, InwardStep DEF i, d, m, Plain
  <2> QED BY <1>2, <1>a, <1>b, <2>1 DEF Done, Plain, Setup, ProducerInv, Protocol, Sent, Taken, Writes
<1>3. CASE p.PC = 3
  <2>1. Plain(i) /\ m = mem /\ ~Segfault(i, p, mem) /\ Writes(d, p, 2, 4)
    BY <1>3, <1>a, ProducerText, AfterAssign, InwardOps, InwardStep DEF i, d, m, Plain
  <2> QED BY <1>3, <1>a, <1>b, <2>1 DEF Done, Plain, Setup, ProducerInv, Protocol, Sent, Taken, Writes
<1>4. CASE p.PC = 4
  <2>1. Plain(i) /\ m = mem /\ ~Segfault(i, p, mem) /\ Writes(d, p, 3, 1)
    BY <1>4, <1>a, ProducerText, AfterAssign, InwardOps, InwardStep DEF i, d, m, Plain
  <2> QED BY <1>4, <1>a, <1>b, <2>1 DEF Done, Plain, Setup, ProducerInv, Protocol, Sent, Taken, Writes
<1>5. CASE p.PC = 5
  <2>1. Plain(i) /\ m = mem /\ ~Segfault(i, p, mem) /\ Writes(d, p, 4, 0)
    BY <1>5, <1>a, ProducerText, AfterAssign, InwardOps, InwardStep DEF i, d, m, Plain
  <2> QED BY <1>5, <1>a, <1>b, <2>1 DEF Done, Plain, Setup, ProducerInv, Protocol, Sent, Taken, Writes
<1>6. CASE p.PC = 6
  <2>1. Plain(i) /\ m = mem /\ ~Segfault(i, p, mem) /\ Writes(d, p, 5, Limit)
    BY <1>6, <1>a, ProducerText, AfterAssign, InwardOps, InwardStep DEF i, d, m, Plain
  <2> QED BY <1>6, <1>a, <1>b, <2>1 DEF Done, Plain, Setup, ProducerInv, Protocol, Sent, Taken, Writes
<1>8. CASE p.PC = 8
  <2>1. i = Op("LDR", 0, 1, 0) BY <1>8, ProducerText DEF i
  <2>2. i.op # "SWI" /\ m = mem /\ Writes(d, p, 0, mem[p.Reg[1]])
    BY <2>1, <1>a, AfterAssign, InwardOps DEF d, m, AfterStore
  <2>3. p.Reg[1] = Base BY <1>8 DEF Setup
  <2>4. ~Segfault(i, p, mem) BY <1>b, <2>1, <2>3, InwardOps DEF Segfault
  <2> QED BY <1>8, <1>a, <1>b, <2>2, <2>3, <2>4 DEF Done, Plain, Setup, ProducerInv, Protocol, Sent, Taken, Writes
<1>9. CASE p.PC = 9
  <2>0. i = Op("CMP", 0, 3, 0) BY <1>9, ProducerText DEF i
  <2>1. Plain(i) /\ m = mem /\ ~Segfault(i, p, mem) /\ Compares(d, p, p.Reg[0] - p.Reg[3])
    BY <1>9, <2>0, AfterCompare, InwardOps, InwardStep DEF d, m, Plain
  <2> QED BY <1>9, <1>a, <1>b, <2>1 DEF Done, Plain, Setup, ProducerInv, Protocol, Sent, Taken, Compares, Flag
<1>10. CASE p.PC = 10
  <2>1. Plain(i) /\ m = mem /\ ~Segfault(i, p, mem) /\ Goes(d, p, IF p.Z = 0 THEN 25 ELSE 11)
    BY <1>10, <1>a, ProducerText, AfterJump, InwardOps, InwardStep DEF i, d, m, Plain, Jumps, LOOP, PFULL, PDONE
  <2> QED BY <1>10, <1>a, <1>b, <2>1 DEF Done, Plain, Setup, ProducerInv, Protocol, Sent, Taken, Goes
<1>11. CASE p.PC = 11
  <2>1. Plain(i) /\ m = mem /\ ~Segfault(i, p, mem) /\ Writes(d, p, 4, p.Reg[4] + p.Reg[3])
    BY <1>11, <1>a, ProducerText, AfterAssign, InwardOps, InwardStep DEF i, d, m, Plain
  <2> QED BY <1>11, <1>a, <1>b, <2>1 DEF Done, Plain, Setup, ProducerInv, Protocol, Sent, Taken, Writes
<1>12. CASE p.PC \in {12, 21}
  <2>1. Plain(i) /\ m = mem /\ ~Segfault(i, p, mem) /\ Writes(d, p, 0, p.Reg[1] + p.Reg[2])
    BY <1>12, <1>a, ProducerText, AfterAssign, InwardOps, InwardStep DEF i, d, m, Plain
  <2> QED BY <1>12, <1>a, <1>b, <2>1 DEF Done, Plain, Setup, ProducerInv, Protocol, Sent, Taken, Writes
<1>13. CASE p.PC \in {13, 22}
  <2>1. i = Op("STR", 4, 0, 0) BY <1>13, ProducerText DEF i
  <2>2. i.op # "SWI" /\ Goes(d, p, p.PC + 1) BY <2>1, AfterSkip, InwardOps DEF d
  <2>3. p.Reg[0] = Base + 4 BY <1>13 DEF ProducerInv
  <2>4. ~Segfault(i, p, mem) BY <1>b, <2>1, <2>3, InwardOps DEF Segfault
  <2>5. DOMAIN m = DOMAIN mem /\ m[Base] = mem[Base] /\ m[Base + 4] = p.Reg[4]
    BY <1>b, <2>1, <2>3, AfterStoring DEF m
  <2> QED BY <1>13, <1>a, <1>b, <2>2, <2>3, <2>4, <2>5
          DEF Done, Plain, Setup, ProducerInv, Protocol, Sent, Taken, Goes, Flag, Value
<1>14. CASE p.PC \in {14, 23}
  <2>1. i = Op("STR", 3, 1, 0) BY <1>14, ProducerText DEF i
  <2>2. i.op # "SWI" /\ Goes(d, p, p.PC + 1) BY <2>1, AfterSkip, InwardOps DEF d
  <2>3. p.Reg[1] = Base /\ p.Reg[3] = 1 BY <1>14 DEF Setup
  <2>4. ~Segfault(i, p, mem) BY <1>b, <2>1, <2>3, InwardOps DEF Segfault
  <2>5. DOMAIN m = DOMAIN mem /\ m[Base] = 1 /\ m[Base + 4] = mem[Base + 4]
    BY <1>b, <2>1, <2>3, AfterStoring DEF m
  <2> QED BY <1>14, <1>a, <1>b, <2>2, <2>3, <2>4, <2>5
          DEF Done, Plain, Setup, ProducerInv, Protocol, Sent, Taken, Goes, Flag, Value
<1>15. CASE p.PC = 15
  <2>0. i = Op("CMP", 4, 5, 0) BY <1>15, ProducerText DEF i
  <2>1. Plain(i) /\ m = mem /\ ~Segfault(i, p, mem) /\ Compares(d, p, p.Reg[4] - p.Reg[5])
    BY <1>15, <2>0, AfterCompare, InwardOps, InwardStep DEF d, m, Plain
  <2> QED BY <1>15, <1>a, <1>b, <2>1 DEF Done, Plain, Setup, ProducerInv, Protocol, Sent, Taken, Compares, Flag
<1>16. CASE p.PC = 16
  <2>1. Plain(i) /\ m = mem /\ ~Segfault(i, p, mem) /\ Goes(d, p, IF p.Z = 0 THEN 19 ELSE 17)
    BY <1>16, <1>a, ProducerText, AfterJump, InwardOps, InwardStep DEF i, d, m, Plain, Jumps, LOOP, PFULL, PDONE
  <2> QED BY <1>16, <1>a, <1>b, <2>1 DEF Done, Plain, Setup, ProducerInv, Protocol, Sent, Taken, Goes
<1>18. CASE p.PC \in {18, 27}
  <2>1. Plain(i) /\ m = mem /\ ~Segfault(i, p, mem) /\ Goes(d, p, 7)
    BY <1>18, <1>a, ProducerText, AfterJump, InwardOps, InwardStep DEF i, d, m, Plain, Jumps, LOOP, PFULL, PDONE
  <2> QED BY <1>18, <1>a, <1>b, <2>1 DEF Done, Plain, Setup, ProducerInv, Protocol, Sent, Taken, Goes
<1>20. CASE p.PC = 20
  <2>1. Plain(i) /\ m = mem /\ ~Segfault(i, p, mem) /\ Writes(d, p, 4, 0)
    BY <1>20, <1>a, ProducerText, AfterAssign, InwardOps, InwardStep DEF i, d, m, Plain
  <2> QED BY <1>20, <1>a, <1>b, <2>1 DEF Done, Plain, Setup, ProducerInv, Protocol, Sent, Taken, Writes
<1> QED
  BY <1>c, <1>1, <1>2, <1>3, <1>4, <1>5, <1>6, <1>8, <1>9, <1>10, <1>11, <1>12, <1>13, <1>14,
     <1>15, <1>16, <1>18, <1>20

----------------------------------------------------------------------------
(* One instruction of the consumer.                                        *)

\* The instruction stays inside the block, the consumer keeps its own invariant
\* and the protocol, the value is left alone, and the flag is left alone or cleared.
ConsumerDoes(p, over, c, mem) ==
    LET i == ConsumerCode[c.PC]
        d == AfterOp(i, c, mem)
        m == AfterStore(i, c, mem)
    IN  /\ ~Segfault(i, c, mem) /\ DOMAIN m = DOMAIN mem
        /\ Setup(d, i.op = "SWI") /\ ConsumerInv(d, i.op = "SWI", m) /\ Protocol(p, over, d, m)
        /\ Flag(m) \in {Flag(mem), 0} /\ Value(m) = Value(mem)
        /\ Shown(d, i.op = "SWI") = Shown(c, FALSE)

LEMMA ConsumerStep ==
    ASSUME NEW p \in Contexts, NEW over \in BOOLEAN, NEW c \in Contexts, NEW mem,
           DOMAIN mem = Words, \A x \in Words : mem[x] \in Int,
           Setup(c, FALSE), ConsumerInv(c, FALSE, mem), Protocol(p, over, c, mem), c.PC # 26
    PROVE  ConsumerDoes(p, over, c, mem)
<1> DEFINE i == ConsumerCode[c.PC]
           d == AfterOp(i, c, mem)
           m == AfterStore(i, c, mem)
<1>a. /\ p.PC \in Int /\ \A r \in Registers : p.Reg[r] \in Int
      /\ c.PC \in Int /\ c.Z \in Int /\ \A r \in Registers : c.Reg[r] \in Int
      /\ {0, 1, 2, 3, 4, 5} \subseteq Registers
  BY DEF Contexts, Registers
<1>b. /\ Words = {Base, Base + 4} /\ Base \in Int /\ Limit \in Nat \ {0}
      /\ Flag(mem) = mem[Base] /\ Value(mem) = mem[Base + 4]
      /\ mem[Base] \in Int /\ mem[Base + 4] \in Int
  BY ProdComAssumption, AddressAssumption DEF Flag, Value
<1>c. c.PC \in 1..28 BY <1>a DEF Setup, ConsumerInv
<1> DEFINE Done == /\ ~Segfault(i, c, mem) /\ DOMAIN m = DOMAIN mem
                   /\ Setup(d, i.op = "SWI") /\ ConsumerInv(d, i.op = "SWI", m)
                   /\ Protocol(p, over, d, m)
                   /\ Flag(m) \in {Flag(mem), 0} /\ Value(m) = Value(mem)
                   /\ Shown(d, i.op = "SWI") = Shown(c, FALSE)
<1> SUFFICES Done BY DEF ConsumerDoes
<1> HIDE DEF i, d, m, Done
<1>1. CASE c.PC \in {1, 7, 15, 19, 21, 25, 27}
  <2>1. PICK n : i = SWI(n) BY <1>1, ConsumerText DEF i
  <2>2. i.op = "SWI" /\ Goes(d, c, c.PC + 1) /\ m = mem /\ ~Segfault(i, c, mem)
    BY <2>1, AfterSkip, InwardOps, InwardStep DEF d, m
  <2> QED BY <1>1, <1>a, <1>b, <2>2 DEF Done, Plain, Setup, ConsumerInv, Finishes, Protocol, Sent, Taken, Shown, Goes
<1>2. CASE c.PC = 2
  <2>1. Plain(i) /\ m = mem /\ ~Segfault(i, c, mem) /\ Writes(d, c, 1, c.Reg[0])
    BY <1>2, <1>a, ConsumerText, AfterAssign, InwardOps, InwardStep DEF i, d, m, Plain
  <2> QED BY <1>2, <1>a, <1>b, <2>1 DEF Done, Plain, Setup, ConsumerInv, Finishes, Protocol, Sent, Taken, Shown, Writes
<1>3. CASE c.PC = 3
  <2>1. Plain(i) /\ m = mem /\ ~Segfault(i, c, mem) /\ Writes(d, c, 2, 4)
    BY <1>3, <1>a, ConsumerText, AfterAssign, InwardOps, InwardStep DEF i, d, m, Plain
  <2> QED BY <1>3, <1>a, <1>b, <2>1 DEF Done, Plain, Setup, ConsumerInv, Finishes, Protocol, Sent, Taken, Shown, Writes
<1>4. CASE c.PC = 4
  <2>1. Plain(i) /\ m = mem /\ ~Segfault(i, c, mem) /\ Writes(d, c, 3, 1)
    BY <1>4, <1>a, ConsumerText, AfterAssign, InwardOps, InwardStep DEF i, d, m, Plain
  <2> QED BY <1>4, <1>a, <1>b, <2>1 DEF Done, Plain, Setup, ConsumerInv, Finishes, Protocol, Sent, Taken, Shown, Writes
<1>5. CASE c.PC = 5
  <2>1. Plain(i) /\ m = mem /\ ~Segfault(i, c, mem) /\ Writes(d, c, 4, 0)
    BY <1>5, <1>a, ConsumerText, AfterAssign, InwardOps, InwardStep DEF i, d, m, Plain
  <2> QED BY <1>5, <1>a, <1>b, <2>1 DEF Done, Plain, Setup, ConsumerInv, Finishes, Protocol, Sent, Taken, Shown, Writes
<1>6. CASE c.PC = 6
  <2>1. Plain(i) /\ m = mem /\ ~Segfault(i, c, mem) /\ Writes(d, c, 5, Limit)
    BY <1>6, <1>a, ConsumerText, AfterAssign, InwardOps, InwardStep DEF i, d, m, Plain
  <2> QED BY <1>6, <1>a, <1>b, <2>1 DEF Done, Plain, Setup, ConsumerInv, Finishes, Protocol, Sent, Taken, Shown, Writes
<1>8. CASE c.PC = 8
  <2>1. i = Op("LDR", 0, 1, 0) BY <1>8, ConsumerText DEF i
  <2>2. i.op # "SWI" /\ m = mem /\ Writes(d, c, 0, mem[c.Reg[1]])
    BY <2>1, <1>a, AfterAssign, InwardOps DEF d, m, AfterStore
  <2>3. c.Reg[1] = Base BY <1>8 DEF Setup
  <2>4. ~Segfault(i, c, mem) BY <1>b, <2>1, <2>3, InwardOps DEF Segfault
  <2> QED BY <1>8, <1>a, <1>b, <2>2, <2>3, <2>4 DEF Done, Plain, Setup, ConsumerInv, Finishes, Protocol, Sent, Taken, Shown, Writes
<1>9. CASE c.PC = 9
  <2>1. i = Op("CMP", 0, 3, 0) BY <1>9, ConsumerText DEF i
  <2>2. Plain(i) /\ m = mem /\ ~Segfault(i, c, mem) /\ Compares(d, c, c.Reg[0] - c.Reg[3])
    BY <2>1, AfterCompare, InwardOps, InwardStep DEF d, m, Plain
  <2> QED BY <1>9, <1>a, <1>b, <2>2 DEF Done, Plain, Setup, ConsumerInv, Finishes, Protocol, Sent, Taken, Shown, Compares
<1>10. CASE c.PC = 10
  <2>1. Plain(i) /\ m = mem /\ ~Segfault(i, c, mem) /\ Goes(d, c, IF c.Z # 0 THEN 27 ELSE 11)
    BY <1>10, <1>a, ConsumerText, AfterJump, InwardOps, InwardStep DEF i, d, m, Plain, LOOP, CDONE, CEMPTY
  <2> QED BY <1>10, <1>a, <1>b, <2>1 DEF Done, Plain, Setup, ConsumerInv, Finishes, Protocol, Sent, Taken, Shown, Goes
<1>11. CASE c.PC = 11
  <2>1. Plain(i) /\ m = mem /\ ~Segfault(i, c, mem) /\ Writes(d, c, 0, c.Reg[1] + c.Reg[2])
    BY <1>11, <1>a, ConsumerText, AfterAssign, InwardOps, InwardStep DEF i, d, m, Plain
  <2> QED BY <1>11, <1>a, <1>b, <2>1 DEF Done, Plain, Setup, ConsumerInv, Finishes, Protocol, Sent, Taken, Shown, Writes
<1>12. CASE c.PC = 12
  <2>1. i = Op("LDR", 0, 0, 0) BY <1>12, ConsumerText DEF i
  <2>2. i.op # "SWI" /\ m = mem /\ Writes(d, c, 0, mem[c.Reg[0]])
    BY <2>1, <1>a, AfterAssign, InwardOps DEF d, m, AfterStore
  <2>3. c.Reg[0] = Base + 4 BY <1>12 DEF ConsumerInv
  <2>4. ~Segfault(i, c, mem) BY <1>b, <2>1, <2>3, InwardOps DEF Segfault
  <2> QED BY <1>12, <1>a, <1>b, <2>2, <2>3, <2>4 DEF Done, Plain, Setup, ConsumerInv, Finishes, Protocol, Sent, Taken, Shown, Writes
<1>13. CASE c.PC = 13
  <2>1. i = Op("CMP", 0, 4, 0) BY <1>13, ConsumerText DEF i
  <2>2. Plain(i) /\ m = mem /\ ~Segfault(i, c, mem) /\ Compares(d, c, c.Reg[0] - c.Reg[4])
    BY <2>1, AfterCompare, InwardOps, InwardStep DEF d, m, Plain
  <2> QED BY <1>13, <1>a, <1>b, <2>2 DEF Done, Plain, Setup, ConsumerInv, Finishes, Protocol, Sent, Taken, Shown, Compares
<1>14. CASE c.PC = 14
  <2>1. Plain(i) /\ m = mem /\ ~Segfault(i, c, mem) /\ Goes(d, c, IF c.Z = 0 THEN 25 ELSE 15)
    BY <1>14, <1>a, ConsumerText, AfterJump, InwardOps, InwardStep DEF i, d, m, Plain, LOOP, CDONE, CEMPTY
  <2> QED BY <1>14, <1>a, <1>b, <2>1 DEF Done, Plain, Setup, ConsumerInv, Finishes, Protocol, Sent, Taken, Shown, Goes
<1>16. CASE c.PC = 16
  <2>1. Plain(i) /\ m = mem /\ ~Segfault(i, c, mem) /\ Writes(d, c, 0, 0)
    BY <1>16, <1>a, ConsumerText, AfterAssign, InwardOps, InwardStep DEF i, d, m, Plain
  <2> QED BY <1>16, <1>a, <1>b, <2>1 DEF Done, Plain, Setup, ConsumerInv, Finishes, Protocol, Sent, Taken, Shown, Writes
<1>17. CASE c.PC = 17
  <2>1. i = Op("STR", 0, 1, 0) BY <1>17, ConsumerText DEF i
  <2>2. i.op # "SWI" /\ Goes(d, c, c.PC + 1) BY <2>1, AfterSkip, InwardOps DEF d
  <2>3. c.Reg[1] = Base /\ c.Reg[0] = 0 BY <1>17 DEF Setup, ConsumerInv
  <2>4. ~Segfault(i, c, mem) BY <1>b, <2>1, <2>3, InwardOps DEF Segfault
  <2>5. DOMAIN m = DOMAIN mem /\ m[Base] = 0 /\ m[Base + 4] = mem[Base + 4]
    BY <1>b, <2>1, <2>3, AfterStoring DEF m
  <2> QED BY <1>17, <1>a, <1>b, <2>2, <2>3, <2>4, <2>5 DEF Done, Plain, Setup, ConsumerInv, Finishes, Protocol, Sent, Taken, Shown, Goes,
             Flag, Value
<1>18. CASE c.PC = 18
  <2>1. Plain(i) /\ m = mem /\ ~Segfault(i, c, mem) /\ Writes(d, c, 4, c.Reg[4] + c.Reg[3])
    BY <1>18, <1>a, ConsumerText, AfterAssign, InwardOps, InwardStep DEF i, d, m, Plain
  <2> QED BY <1>18, <1>a, <1>b, <2>1 DEF Done, Plain, Setup, ConsumerInv, Finishes, Protocol, Sent, Taken, Shown, Writes
<1>20. CASE c.PC = 20
  <2>1. Plain(i) /\ m = mem /\ ~Segfault(i, c, mem) /\ Writes(d, c, 0, NEWLINE)
    BY <1>20, <1>a, ConsumerText, AfterAssign, InwardOps, InwardStep DEF i, d, m, Plain
  <2> QED BY <1>20, <1>a, <1>b, <2>1 DEF Done, Plain, Setup, ConsumerInv, Finishes, Protocol, Sent, Taken, Shown, Writes
<1>22. CASE c.PC = 22
  <2>1. i = Op("CMP", 4, 5, 0) BY <1>22, ConsumerText DEF i
  <2>2. Plain(i) /\ m = mem /\ ~Segfault(i, c, mem) /\ Compares(d, c, c.Reg[4] - c.Reg[5])
    BY <2>1, AfterCompare, InwardOps, InwardStep DEF d, m, Plain
  <2> QED BY <1>22, <1>a, <1>b, <2>2 DEF Done, Plain, Setup, ConsumerInv, Finishes, Protocol, Sent, Taken, Shown, Compares
<1>23. CASE c.PC = 23
  <2>1. Plain(i) /\ m = mem /\ ~Segfault(i, c, mem) /\ Goes(d, c, IF c.Z = 0 THEN 25 ELSE 24)
    BY <1>23, <1>a, ConsumerText, AfterJump, InwardOps, InwardStep DEF i, d, m, Plain, LOOP, CDONE, CEMPTY
  <2> QED BY <1>23, <1>a, <1>b, <2>1 DEF Done, Plain, Setup, ConsumerInv, Finishes, Protocol, Sent, Taken, Shown, Goes
<1>24. CASE c.PC = 24
  <2>1. Plain(i) /\ m = mem /\ ~Segfault(i, c, mem) /\ Goes(d, c, IF c.Z < 0 THEN 7 ELSE 25)
    BY <1>24, <1>a, ConsumerText, AfterJump, InwardOps, InwardStep DEF i, d, m, Plain, LOOP, CDONE, CEMPTY
  <2> QED BY <1>24, <1>a, <1>b, <2>1 DEF Done, Plain, Setup, ConsumerInv, Finishes, Protocol, Sent, Taken, Shown, Goes
<1>28. CASE c.PC = 28
  <2>1. Plain(i) /\ m = mem /\ ~Segfault(i, c, mem) /\ Goes(d, c, 7)
    BY <1>28, <1>a, ConsumerText, AfterJump, InwardOps, InwardStep DEF i, d, m, Plain, LOOP, CDONE, CEMPTY
  <2> QED BY <1>28, <1>a, <1>b, <2>1 DEF Done, Plain, Setup, ConsumerInv, Finishes, Protocol, Sent, Taken, Shown, Goes
<1> QED
  BY <1>c, <1>1, <1>2, <1>3, <1>4, <1>5, <1>6, <1>8, <1>9, <1>10, <1>11, <1>12, <1>13,
     <1>14, <1>16, <1>17, <1>18, <1>20, <1>22, <1>23, <1>24, <1>28

\* The same as SetFits, of an instruction that is only known to set a register.
LEMMA SetsFit ==
    ASSUME NEW i, \E a \in Registers, v \in Int : i = Op("MVI", a, v, 0) \/ i = Op("ADR", a, v, 0),
           NEW k \in Int, NEW n \in Int, 1 <= k /\ k < n
    PROVE  Fits(i, k, n)
<1>1. PICK a \in Registers, v \in Int : i = Op("MVI", a, v, 0) \/ i = Op("ADR", a, v, 0)
  OBVIOUS
<1>2. k + 1 \in 1..n OBVIOUS
<1> QED BY <1>1, <1>2, SetFits

----------------------------------------------------------------------------
(* Neither program jumps out of itself.                                     *)

LEMMA ProducerDomain == DOMAIN ProducerCode = 1..27
BY DEF ProducerCode
LEMMA ConsumerDomain == DOMAIN ConsumerCode = 1..28
BY DEF ConsumerCode

LEMMA ProducerSound == WellFormed(ProducerCode)
<1> DEFINE Good(k) == Fits(ProducerCode[k], k, 27)
<1>a. Limit \in Int BY ProdComAssumption
<1>1. \A k \in {1, 7, 17, 19, 24, 25, 26} : Good(k)
  BY ProducerText, InterruptFits
<1>2. \A k \in {11, 12, 21} : Good(k)
  BY ProducerText, AddFits DEF Registers
<1>3. \A k \in {2, 8, 9, 13, 14, 15, 22, 23} : Good(k)
  BY ProducerText, MoveFits DEF Registers
<1>4. ASSUME NEW k \in {3, 4, 5, 6, 20} PROVE Good(k)
  <2>1. \E a \in Registers, v \in Int :
          ProducerCode[k] = Op("MVI", a, v, 0) \/ ProducerCode[k] = Op("ADR", a, v, 0)
    BY <1>a, ProducerText DEF Registers
  <2>2. k \in Int /\ 1 <= k /\ k < 27 OBVIOUS
  <2> QED BY <2>1, <2>2, SetsFit
<1>5. \A k \in {10, 16, 18, 27} : Good(k)
  BY ProducerText, JumpFits DEF LOOP, PFULL, PDONE
<1>6. \A k \in 1..27 : k \in {1, 7, 17, 19, 24, 25, 26} \cup {11, 12, 21}
           \cup {2, 8, 9, 13, 14, 15, 22, 23} \cup {3, 4, 5, 6, 20} \cup {10, 16, 18, 27}
  OBVIOUS
<1> HIDE DEF Good
<1>7. \A k \in 1..27 : Good(k) BY <1>1, <1>2, <1>3, <1>4, <1>5, <1>6
<1> QED BY <1>7, ProducerDomain DEF WellFormed, Good, Fits

LEMMA ConsumerSound == WellFormed(ConsumerCode)
<1> DEFINE Good(k) == Fits(ConsumerCode[k], k, 28)
<1>a. Limit \in Int BY ProdComAssumption
<1>1. \A k \in {1, 7, 15, 19, 21, 25, 26, 27} : Good(k)
  BY ConsumerText, InterruptFits
<1>2. \A k \in {11, 18} : Good(k)
  BY ConsumerText, AddFits DEF Registers
<1>3. \A k \in {2, 8, 9, 12, 13, 17, 22} : Good(k)
  BY ConsumerText, MoveFits DEF Registers
<1>4. ASSUME NEW k \in {3, 4, 5, 6, 16, 20} PROVE Good(k)
  <2>1. \E a \in Registers, v \in Int :
          ConsumerCode[k] = Op("MVI", a, v, 0) \/ ConsumerCode[k] = Op("ADR", a, v, 0)
    BY <1>a, ConsumerText DEF Registers, NEWLINE
  <2>2. k \in Int /\ 1 <= k /\ k < 28 OBVIOUS
  <2> QED BY <2>1, <2>2, SetsFit
<1>5. \A k \in {10, 14, 23, 24, 28} : Good(k)
  BY ConsumerText, JumpFits DEF LOOP, CDONE, CEMPTY
<1>6. \A k \in 1..28 : k \in {1, 7, 15, 19, 21, 25, 26, 27} \cup {11, 18}
           \cup {2, 8, 9, 12, 13, 17, 22} \cup {3, 4, 5, 6, 16, 20} \cup {10, 14, 23, 24, 28}
  OBVIOUS
<1> HIDE DEF Good
<1>7. \A k \in 1..28 : Good(k) BY <1>1, <1>2, <1>3, <1>4, <1>5, <1>6
<1> QED BY <1>7, ConsumerDomain DEF WellFormed, Good, Fits


\* Both are loaded, in one order or the other.
Both == <<Producer, Consumer>>

LEMMA BothLoaded ==
    /\ Range(Both) = Proc
    /\ \A first \in {<<Producer, Consumer>>, <<Consumer, Producer>>} : Range(first) = Proc
<1>1. \A p, c : Range(<<p, c>>) = {p, c}
  <2> TAKE p, c
  <2>1. DOMAIN <<p, c>> = {1, 2} OBVIOUS
  <2> QED BY <2>1 DEF Range
<1>2. Proc = {Producer, Consumer} BY ProdComAssumption
<1> QED BY <1>1, <1>2 DEF Both

LEMMA BothSound == SoundPrograms(Both) /\ \A p \in Proc : WellFormed(Code[p])
<1>1. \A p \in Proc : Code[p] = IF p = Producer THEN ProducerCode ELSE ConsumerCode
  BY ProgramAssumption DEF ProgramOf
<1> QED BY <1>1, ProducerSound, ConsumerSound, BothLoaded DEF SoundPrograms

----------------------------------------------------------------------------
(* What a step of the machine does to the two programs.                    *)

Same(p) == /\ Context(p)' = Context(p)
           /\ Pending(p)' = Pending(p) /\ Gone(p)' = Gone(p)

\* Nothing the programs can see.
Quiet == UNCHANGED <<memory, output>> /\ \A p \in Proc : Same(p)

\* p executes the instruction at its PC.
Runs(p) ==
    LET c == Context(p)
        i == Code[p][c.PC]
    IN  /\ ~Gone(p) /\ ~Pending(p) /\ i # SWI(10) /\ ~Segfault(i, c, memory)
        /\ Context(p)' = AfterOp(i, c, memory) /\ memory' = AfterStore(i, c, memory)
        /\ Pending(p)' = (i.op = "SWI") /\ ~Gone(p)' /\ UNCHANGED output
        /\ \A q \in Proc \ {p} : Same(q)

\* p ends, and the block goes with the last of the two.
Ends(p) ==
    LET c == Context(p)
        i == Code[p][c.PC]
    IN  /\ ~Gone(p) /\ ~Pending(p)
        /\ i = SWI(10) \/ Segfault(i, c, memory)
        /\ i = SWI(10) => Context(p)' = AfterOp(i, c, memory)
        /\ ~Pending(p)' /\ Gone(p)' /\ UNCHANGED output
        /\ memory' = memory \/ Ended'
        /\ \A q \in Proc \ {p} : Same(q)

\* The interrupt of p is served.
Serves(p) ==
    LET c == Context(p)
        d == Context(p)'
    IN  /\ ~Gone(p) /\ Pending(p) /\ ~Pending(p)' /\ ~Gone(p)' /\ UNCHANGED memory
        /\ d.PC = c.PC /\ d.Z = c.Z /\ \A s \in Registers \ {0} : d.Reg[s] = c.Reg[s]
        /\ returnCode = RET_SMRP => d.Reg[0] = Base
        /\ output' = IF returnCode \in {PRINT_INT, PRINT}
                     THEN Append(output, <<returnCode, c.Reg[0]>>) ELSE output
        /\ \A q \in Proc \ {p} : Same(q)

LEMMA LinkedStays == ASSUME [MNext]_mVars, Linked PROVE Linked'
<1>1. UNCHANGED sharedMemory
  BY DEF MNext, Run, StartRun, MKernelStep, MDispatch, Dispatch, MPreempt, PreemptRR, PreemptMLFQ,
         MInstruction, Instruction, MTrap, Trap, MHalt, Halt, HaltTo, MIsrPrint, IsrPrint,
         MIsrVFork, IsrVFork, MIsrReturnSharedMemPtr, IsrReturnSharedMemPtr, ReturnTo, MOther,
         Arrive, CallScheduler, EndRun, AdmitNew, KeepRunning, NoPreemption, Idle,
         IsrSemaphoreAquire, IsrSemaphoreRelease, IsrSemaphoreWait, Resume, Finished, Fault,
         mVars, vars, pcbVars
<1> QED BY <1>1 DEF Linked

\* Only SWI 10 and a segmentation fault end a process that has shared memory.
LEMMA OnlyHaltEndsLinked ==
    ASSUME TInv(Both), [MNext]_mVars, Linked, ~MHalt, NEW p \in Proc
    PROVE  Gone(p)' = Gone(p)
BY OnlyHaltEnds DEF TInv, Linked

\* No process is created later, so its registers move only by its own steps.
LEMMA OwnRegisters ==
    ASSUME TInv(Both), [MNext]_mVars, NEW p \in Proc
    PROVE  OwnStep(p) /\ pState[p] # CREATED
<1>1. pState[p] # CREATED BY BothLoaded DEF TInv, Loaded
<1>2. OwnStep(p) \/ Born(p) BY MNextMoves DEF TInv, Kept
<1> QED BY <1>1, <1>2 DEF Born

\* Between the instructions the programs see nothing.
LEMMA QuietStep ==
    ASSUME TInv(Both), [MNext]_mVars, Linked, phase \notin {"execute", "isr"}
    PROVE  Quiet
<1>1. ~MInstruction /\ ~MTrap /\ ~MHalt /\ ~MIsrPrint /\ ~MIsrVFork /\ ~MIsrReturnSharedMemPtr
  BY DEF MInstruction, Instruction, MTrap, MHalt, Halt, HaltTo, MIsrPrint, IsrPrint, MIsrVFork,
         IsrVFork, MIsrReturnSharedMemPtr, IsrReturnSharedMemPtr, ReturnTo
<1>2. UNCHANGED <<memory, output>>
  BY <1>1 DEF MNext, MKernelStep, MDispatch, MPreempt, MOther, Run, Finished, mVars, machineVars
<1>3. phase' # "isr" BY <1>1, OnlyTrapRaises DEF TInv
<1>4. ASSUME NEW p \in Proc PROVE Same(p)
  <2>1. Context(p)' = Context(p) BY OwnRegisters DEF OwnStep
  <2>2. Gone(p)' = Gone(p) BY <1>1, OnlyHaltEndsLinked
  <2> QED BY <1>3, <2>1, <2>2 DEF Same, Pending
<1> QED BY <1>2, <1>4 DEF Quiet

\* Whoever is not running sees nothing of an instruction, nor of an interrupt.
LEMMA OthersSame ==
    ASSUME TInv(Both), [MNext]_mVars, Linked, NEW p \in Proc, p # pRunningPcb,
           phase' = "isr" => pRunningPcb' = pRunningPcb
    PROVE  Same(p)
<1>1. pState[p] # CREATED BY OwnRegisters
<1> QED BY <1>1, BystanderSame DEF TInv, Same

\* An idle CPU executes nothing.
LEMMA ExecuteIdle ==
    ASSUME TInv(Both), [MNext]_mVars, Linked, phase = "execute",
           ~MInstruction, ~MTrap, ~MHalt
    PROVE  Quiet
<1>1. ~MDispatch /\ ~MPreempt /\ ~MIsrPrint /\ ~MIsrVFork /\ ~MIsrReturnSharedMemPtr /\ ~Run
      /\ ~Finished
  BY DEF MDispatch, Dispatch, MPreempt, PreemptRR, PreemptMLFQ, MIsrPrint, IsrPrint, MIsrVFork,
         IsrVFork, MIsrReturnSharedMemPtr, IsrReturnSharedMemPtr, ReturnTo, Run, Finished, Faults
<1>2. UNCHANGED <<machineVars, cpuOwner>> /\ phase' # "isr"
  <2>1. CASE UNCHANGED mVars BY <2>1 DEF mVars, vars, cpuVars
  <2>2. CASE MOther
    BY <2>2 DEF MOther, Arrive, CallScheduler, EndRun, AdmitNew, KeepRunning, NoPreemption, Idle,
              IsrSemaphoreAquire, IsrSemaphoreRelease, IsrSemaphoreWait, Resume, cpuVars
  <2> QED BY <1>1, <2>1, <2>2 DEF MNext, MKernelStep
<1>3. ASSUME NEW p \in Proc PROVE Same(p)
  <2>1. Gone(p)' = Gone(p) BY OnlyHaltEndsLinked
  <2> QED BY <1>2, <2>1 DEF Same, Pending, Context, machineVars
<1> QED BY <1>2, <1>3 DEF Quiet, machineVars

LEMMA InstructionRuns ==
    ASSUME TInv(Both), [MNext]_mVars, Linked, MInstruction, NEW p \in Proc, p = pRunningPcb
    PROVE  Runs(p)
<1>1. /\ phase = "execute" /\ p # NoProc /\ phase' = "loop" /\ UNCHANGED <<output, pState, cpuOwner>>
      /\ Fetched.op # "SWI" /\ ~Segfault(Fetched, cpu, memory)
      /\ cpu' = AfterOp(Fetched, cpu, memory) /\ memory' = AfterStore(Fetched, cpu, memory)
  BY DEF MInstruction, Instruction
<1>2. p \in Proc /\ cpuOwner = p /\ Context(p) = cpu /\ pState[p] # TERMINATED
  BY <1>1, BothSound, ExecutingInstruction DEF TInv
<1>3. Fetched = Code[p][Context(p).PC] BY <1>2 DEF Fetched
<1>4. Context(p)' = cpu' BY <1>1, <1>2 DEF Context
<1>5. \A q \in Proc \ {p} : Same(q) BY <1>1, OthersSame
<1>6. Fetched # SWI(10) BY <1>1 DEF SWI, Op
<1>7. ~Pending(p) /\ ~Pending(p)' BY <1>1 DEF Pending
<1>8. ~Gone(p) /\ ~Gone(p)' BY <1>1, <1>2 DEF Gone
<1>9. Pending(p)' = (Fetched.op = "SWI") BY <1>1 DEF Pending
<1> QED BY <1>1, <1>2, <1>3, <1>4, <1>5, <1>6, <1>7, <1>8, <1>9, Zenon DEF Runs

LEMMA TrapRuns ==
    ASSUME TInv(Both), [MNext]_mVars, Linked, MTrap, NEW p \in Proc, p = pRunningPcb
    PROVE  Runs(p)
<1>1. /\ phase = "execute" /\ p # NoProc /\ phase' = "isr" /\ UNCHANGED <<output, memory, pRunningPcb>>
      /\ Fetched.op = "SWI" /\ Fetched.a # 10 /\ cpuOwner' = NoProc
      /\ image' = [image EXCEPT ![p] = AfterOp(Fetched, cpu, memory)]
  BY DEF MTrap, Trap
<1>2. p \in Proc /\ cpuOwner = p /\ Context(p) = cpu /\ pState[p] # TERMINATED
  BY <1>1, BothSound, ExecutingInstruction DEF TInv
<1>3. Fetched = Code[p][Context(p).PC] BY <1>2 DEF Fetched
<1>4. Context(p)' = AfterOp(Fetched, cpu, memory)
  <2>1. image'[p] = AfterOp(Fetched, cpu, memory) BY <1>1, <1>2 DEF TInv, Types
  <2> QED BY <1>1, <1>2, <2>1, ProcAssumption DEF Context
<1>5. \A q \in Proc \ {p} : Same(q) BY <1>1, OthersSame
<1>6. Fetched # SWI(10) /\ ~Segfault(Fetched, cpu, memory) /\ AfterStore(Fetched, cpu, memory) = memory
  BY <1>1 DEF SWI, Op, Segfault, AfterStore
<1>7. ~Pending(p) /\ Pending(p)' BY <1>1 DEF Pending
<1>8. ~Gone(p) /\ ~Gone(p)'
  <2>1. ~MHalt
    <3>1. Fetched # SWI(10) /\ ~Segfault(Fetched, cpu, memory) BY <1>6
    <3> QED BY <3>1 DEF MHalt
  <2> QED BY <1>2, <2>1, OnlyHaltEndsLinked DEF Gone
<1>9. Pending(p)' = (Fetched.op = "SWI") BY <1>1 DEF Pending
<1> QED BY <1>1, <1>2, <1>3, <1>4, <1>5, <1>6, <1>7, <1>8, <1>9, Zenon DEF Runs

LEMMA HaltEnds ==
    ASSUME TInv(Both), [MNext]_mVars, Linked, MHalt, NEW p \in Proc, p = pRunningPcb
    PROVE  Ends(p)
<1>1. /\ phase = "execute" /\ p # NoProc /\ phase' \in {"loop", "badTable"} /\ UNCHANGED <<output, cpuOwner>>
      /\ Fetched = SWI(10) \/ Segfault(Fetched, cpu, memory)
      /\ Fetched = SWI(10) => cpu' = [cpu EXCEPT !.PC = @ + 1]
      /\ pState' = [pState EXCEPT ![p] = TERMINATED]
      /\ memory' = AfterDeallocation(p)
  BY DEF MHalt, Halt, HaltTo
<1>2. p \in Proc /\ cpuOwner = p /\ Context(p) = cpu /\ pState[p] # TERMINATED
  BY <1>1, BothSound, ExecutingInstruction DEF TInv
<1>3. Fetched = Code[p][Context(p).PC] BY <1>2 DEF Fetched
<1>4. Fetched = SWI(10) => Context(p)' = AfterOp(Fetched, cpu, memory)
  <2>1. AfterOp(SWI(10), cpu, memory) = [cpu EXCEPT !.PC = @ + 1] BY DEF AfterOp, SWI, Op
  <2>2. Context(p)' = cpu' BY <1>1, <1>2 DEF Context
  <2> QED BY <1>1, <2>1, <2>2
<1>5. \A q \in Proc \ {p} : Same(q) BY <1>1, OthersSame
<1>6. pState'[p] = TERMINATED /\ \A q \in Proc \ {p} : pState'[q] = pState[q]
  BY <1>1, <1>2 DEF TInv, MInv, IInv, TypeOK
<1>7. memory' = memory \/ Ended'
  <2>1. SUFFICES ASSUME memory' # memory PROVE Ended' OBVIOUS
  <2>2. \A q \in Proc \ {p} : pState[q] = TERMINATED
    BY <1>1, <2>1 DEF AfterDeallocation, Linked
  <2> QED BY <1>6, <2>2 DEF Ended
<1>8. ~Pending(p) /\ ~Pending(p)' BY <1>1 DEF Pending
<1>9. ~Gone(p) /\ Gone(p)' BY <1>2, <1>6 DEF Gone
<1> QED BY <1>1, <1>2, <1>3, <1>4, <1>5, <1>7, <1>8, <1>9 DEF Ends

LEMMA IsrServes ==
    ASSUME TInv(Both), [MNext]_mVars, Linked, phase = "isr", NEW p \in Proc, p = pRunningPcb
    PROVE  Serves(p) \/ Quiet
<1>0. /\ \A q \in Proc : Context(q) = image[q]
      /\ cpuOwner = NoProc /\ image[p] \in Contexts /\ image \in [Proc -> Contexts]
      /\ pState[p] = WAITING
  BY Waiting DEF TInv, Types
<1>1. ~MInstruction /\ ~MTrap /\ ~MHalt /\ ~MDispatch /\ ~MPreempt /\ ~Run /\ ~Finished
  BY DEF MInstruction, Instruction, MTrap, MHalt, Halt, HaltTo, MDispatch, Dispatch, MPreempt,
         PreemptRR, PreemptMLFQ, Run, Finished, Faults
<1>2. ~MIsrVFork
  <2>1. \A q \in Proc : pState[q] # CREATED BY OwnRegisters
  <2> QED BY <2>1 DEF MIsrVFork, IsrVFork
<1>3. ~Gone(p) /\ ~Gone(p)'
  BY <1>0, <1>1, OnlyHaltEndsLinked DEF Gone, WAITING, TERMINATED
<1>4. Pending(p) BY DEF Pending
<1>5. \A q \in Proc \ {p} : phase' # "isr" => Same(q) BY OthersSame
\* What is left to show of each interrupt.
<1> DEFINE
      Changed == image'[p] = image[p] \/ \E value : image'[p] = [image[p] EXCEPT !.Reg[0] = value]
      Result ==
      /\ phase' # "isr" /\ UNCHANGED memory /\ Changed
      /\ returnCode = RET_SMRP => image'[p].Reg[0] = Base
      /\ output' = IF returnCode \in {PRINT_INT, PRINT}
                   THEN Append(output, <<returnCode, image[p].Reg[0]>>) ELSE output
      /\ cpuOwner' = cpuOwner
<1>6. ASSUME Result PROVE Serves(p)
  <2>1. Context(p) = image[p] /\ Context(p)' = image'[p]
    BY <1>0, <1>6, ProcAssumption DEF Context
  <2>2. /\ image'[p].PC = image[p].PC /\ image'[p].Z = image[p].Z
        /\ \A s \in Registers \ {0} : image'[p].Reg[s] = image[p].Reg[s]
    <3>1. /\ image[p].Reg \in [Registers -> Int] /\ DOMAIN image[p] = {"PC", "Z", "Reg"}
      BY <1>0 DEF Contexts
    <3> QED BY <1>6, <3>1
  <2>3. ~Pending(p)' BY <1>6 DEF Pending
  <2> QED BY <1>3, <1>4, <1>5, <1>6, <2>1, <2>2, <2>3 DEF Serves
<1>7. CASE MIsrPrint
  <2>1. /\ returnCode \in {PRINT_INT, PRINT, INPUT} /\ phase' = "resume" /\ UNCHANGED <<memory, cpuOwner>>
        /\ output' = IF returnCode = INPUT THEN output
                     ELSE Append(output, <<returnCode, image[p].Reg[0]>>)
        /\ image' = image \/ \E value : image' = [image EXCEPT ![p].Reg[0] = value]
    BY <1>7 DEF MIsrPrint, IsrPrint, cpuVars
  <2>2. Changed BY <1>0, <2>1
  <2> HIDE DEF Changed
  <2>3. Result BY <2>1, <2>2 DEF PRINT_INT, PRINT, INPUT, RET_SMRP
  <2> QED BY <1>6, <2>3
<1>8. CASE MIsrReturnSharedMemPtr
  <2>1. /\ returnCode = RET_SMRP /\ phase' = "resume" /\ UNCHANGED <<memory, cpuOwner, output>>
        /\ image' = [image EXCEPT ![p].Reg[0] = Base]
    BY <1>8 DEF MIsrReturnSharedMemPtr, IsrReturnSharedMemPtr, ReturnTo, cpuVars, Linked
  <2>2. image'[p] = [image[p] EXCEPT !.Reg[0] = Base]
    BY <1>0, <2>1
  <2>3. image'[p].Reg[0] = Base BY <1>0, <2>2 DEF Contexts, Registers
  <2>4. Changed BY <2>2
  <2> HIDE DEF Changed
  <2>5. Result BY <2>1, <2>3, <2>4 DEF PRINT_INT, PRINT, RET_SMRP
  <2> QED BY <1>6, <2>5
<1>9. CASE MOther
  <2>1. /\ returnCode \in {SEM_AQ, SEM_RE, SEM_WAIT} /\ phase' \in {"resume", "badSemId"}
        /\ UNCHANGED <<memory, output, image, cpuOwner>>
    BY <1>9 DEF MOther, machineVars, cpuVars, Arrive, CallScheduler, EndRun, AdmitNew, KeepRunning,
                NoPreemption, Idle, IsrSemaphoreAquire, IsrSemaphoreRelease, IsrSemaphoreWait, Resume
  <2>2. Result BY <2>1 DEF PRINT_INT, PRINT, RET_SMRP, SEM_AQ, SEM_RE, SEM_WAIT
  <2> QED BY <1>6, <2>2
<1>10. CASE UNCHANGED mVars
  <2>1. UNCHANGED <<memory, output, cpu, image, cpuOwner, phase, pRunningPcb, pState>>
    BY <1>10 DEF mVars, machineVars, vars, runVars, cpuVars
  <2> QED BY <2>1 DEF Quiet, Same, Context, Pending, Gone
<1> QED BY <1>1, <1>2, <1>7, <1>8, <1>9, <1>10 DEF MNext, MKernelStep

\* These are all the steps of the machine.
LEMMA ProgramSteps ==
    ASSUME TInv(Both), [MNext]_mVars, Linked
    PROVE  Quiet \/ \E p \in Proc : Runs(p) \/ Ends(p) \/ Serves(p)
<1>1. CASE phase \notin {"execute", "isr"} BY <1>1, QuietStep
<1>2. CASE phase = "isr"
  <2>1. pRunningPcb \in Proc BY <1>2, Waiting DEF TInv
  <2>2. PICK p \in Proc : p = pRunningPcb BY <2>1
  <2> QED BY <1>2, <2>2, IsrServes
<1>3. CASE phase = "execute"
  <2>1. CASE ~MInstruction /\ ~MTrap /\ ~MHalt BY <1>3, <2>1, ExecuteIdle
  <2>2. CASE MInstruction \/ MTrap \/ MHalt
    <3>1. pRunningPcb # NoProc BY <2>2 DEF MInstruction, Instruction, MTrap, MHalt, Halt, HaltTo
    <3>2. PICK p \in Proc : p = pRunningPcb BY <1>3, <3>1, Executing DEF TInv
    <3> QED BY <2>2, <3>2, InstructionRuns, TrapRuns, HaltEnds
  <2> QED BY <2>1, <2>2
<1> QED BY <1>1, <1>2, <1>3

----------------------------------------------------------------------------
(* What is printed.                                                        *)

LEMMA PrintedType ==
    ASSUME TInv(Both)
    PROVE  /\ Len(output) \in Nat /\ Printed \subseteq 1..Len(output) /\ IsFiniteSet(Printed)
           /\ DOMAIN output = 1..Len(output)
<1>1. output \in Seq({PRINT_INT, PRINT} \X Int) BY DEF TInv, Types
<1>2. Len(output) \in Nat /\ DOMAIN output = 1..Len(output) BY <1>1
<1>3. Printed \subseteq 1..Len(output) BY <1>2 DEF Printed
<1>4. IsFiniteSet(1..Len(output)) BY <1>2, FS_Interval
<1> QED BY <1>2, <1>3, <1>4, FS_Subset

LEMMA PrintedSame == ASSUME UNCHANGED output PROVE Printed' = Printed /\ (InOrder => InOrder')
<1>1. Printed' = Printed BY DEF Printed
<1>2. \A k : Rank(k)' = Rank(k) BY <1>1 DEF Rank
<1> QED BY <1>1, <1>2 DEF InOrder

LEMMA Appended ==
    ASSUME TInv(Both), NEW n, NEW v, output' = Append(output, <<n, v>>)
    PROVE  /\ DOMAIN output' = 1..(Len(output) + 1)
           /\ \A k \in 1..Len(output) : output'[k] = output[k]
           /\ output'[Len(output) + 1] = <<n, v>>
<1>1. output \in Seq({PRINT_INT, PRINT} \X Int) BY DEF TInv, Types
<1>2. Len(output) \in Nat /\ DOMAIN output = 1..Len(output) BY <1>1
<1> QED BY <1>1, <1>2

\* A string printed is no integer.
LEMMA StringPrinted ==
    ASSUME TInv(Both), NEW v, output' = Append(output, <<PRINT, v>>)
    PROVE  Printed' = Printed /\ (InOrder => InOrder')
<1>1. PRINT # PRINT_INT BY DEF PRINT, PRINT_INT
<1>2. /\ DOMAIN output = 1..Len(output) /\ Len(output) \in Nat
      /\ DOMAIN output' = 1..(Len(output) + 1)
      /\ \A k \in 1..Len(output) : output'[k] = output[k]
      /\ output'[Len(output) + 1] = <<PRINT, v>>
  BY Appended, PrintedType
<1>3. 1..(Len(output) + 1) = 1..Len(output) \cup {Len(output) + 1} BY <1>2
<1>4. Printed' = Printed BY <1>1, <1>2, <1>3 DEF Printed
<1>5. \A k : Rank(k)' = Rank(k) BY <1>4 DEF Rank
<1> QED BY <1>2, <1>4, <1>5 DEF InOrder, Printed

\* An integer printed is the last, in the output and among the integers.
LEMMA IntegerPrinted ==
    ASSUME TInv(Both), NEW v, output' = Append(output, <<PRINT_INT, v>>)
    PROVE  /\ Cardinality(Printed)' = Cardinality(Printed) + 1
           /\ LET rank == Cardinality(Printed) + 1
              IN  InOrder /\ (v = rank \/ (rank = Limit /\ v = 0)) => InOrder'
<1>0. PICK n : n = Len(output) + 1 OBVIOUS
<1>1. /\ DOMAIN output = 1..Len(output) /\ Len(output) \in Nat
      /\ DOMAIN output' = 1..n
      /\ \A k \in 1..Len(output) : output'[k] = output[k]
      /\ output'[n] = <<PRINT_INT, v>>
  BY <1>0, Appended, PrintedType
<1>2. 1..n = 1..Len(output) \cup {n} /\ n \notin 1..Len(output) BY <1>0, <1>1
<1>3. Printed' = Printed \cup {n} BY <1>1, <1>2 DEF Printed
<1>4. n \notin Printed /\ IsFiniteSet(Printed) /\ \A k \in Printed : k \in Int /\ k < n
  BY <1>0, <1>1, PrintedType
<1>5. Cardinality(Printed)' = Cardinality(Printed) + 1
  BY <1>3, <1>4, FS_AddElement
<1>6. \A k \in Printed : Rank(k)' = Rank(k)
  <2> TAKE k \in Printed
  <2>1. {j \in Printed' : j <= k} = {j \in Printed : j <= k}
    BY <1>0, <1>1, <1>3, <1>4
  <2> QED BY <2>1 DEF Rank
<1>7. Rank(n)' = Cardinality(Printed) + 1
  <2>1. {j \in Printed' : j <= n} = Printed' BY <1>0, <1>3, <1>4, <1>1
  <2>2. Rank(n)' = Cardinality({j \in Printed' : j <= n})
    BY <1>1 DEF Rank
  <2> QED BY <1>5, <2>1, <2>2
<1>8. \A k \in Printed : output'[k] = output[k] BY <1>1, PrintedType
<1>9. output'[n][2] = v
  <2>1. \A x : <<PRINT_INT, x>>[2] = x OBVIOUS
  <2> QED BY <1>1, <2>1
<1>10. ASSUME InOrder, v = Cardinality(Printed) + 1 \/ (Cardinality(Printed) + 1 = Limit /\ v = 0)
       PROVE  InOrder'
  <2>1. ASSUME NEW k \in Printed'
        PROVE  output'[k][2] = Rank(k)' \/ (Rank(k)' = Limit /\ output'[k][2] = 0)
    <3>1. CASE k \in Printed BY <1>6, <1>8, <1>10, <3>1 DEF InOrder
    <3>2. CASE k = n BY <1>7, <1>9, <1>10, <3>2
    <3> QED BY <1>3, <2>1, <3>1, <3>2
  <2> QED BY <2>1 DEF InOrder
<1> QED BY <1>5, <1>10

----------------------------------------------------------------------------
(* The steps of the producer and of the consumer.                          *)

\* What a step may assume.
LEMMA Given ==
    ASSUME TInv(Both), PCInv
    PROVE  LET P == Context(Producer)
               C == Context(Consumer)
           IN  /\ P \in Contexts /\ C \in Contexts
               /\ ~Ended => \A x \in Words : memory[x] \in Int
               /\ ~Gone(Producer) \/ ~Gone(Consumer) => ~Ended
               /\ Producer \in Proc /\ Consumer \in Proc /\ Producer # Consumer
               /\ Proc \ {Producer} = {Consumer} /\ Proc \ {Consumer} = {Producer}
               /\ Code[Producer] = ProducerCode /\ Code[Consumer] = ConsumerCode
<1>1. \A p \in Proc : Context(p) \in Contexts BY DEF TInv, Types, Context
<1>2. ~Ended => \A x \in Words : memory[x] \in Int BY DEF TInv, Types, PCInv, SharedPart
<1>3. Proc = {Producer, Consumer} /\ Producer # Consumer BY ProdComAssumption
<1>4. Code[Producer] = ProducerCode /\ Code[Consumer] = ConsumerCode
  BY <1>3, ProgramAssumption DEF ProgramOf
<1> QED BY <1>1, <1>2, <1>3, <1>4 DEF Ended, Gone

\* Neither program minds what the other does to the block.
LEMMA ConsumerUndisturbed ==
    ASSUME NEW c, NEW pending, NEW mem, NEW m, ConsumerInv(c, pending, mem), Flag(m) \in {Flag(mem), 1}
    PROVE  ConsumerInv(c, pending, m)
BY DEF ConsumerInv
LEMMA ProducerUndisturbed ==
    ASSUME NEW p, NEW mem, NEW m, ProducerInv(p, mem), Flag(m) \in {Flag(mem), 0}, Value(m) = Value(mem)
    PROVE  ProducerInv(p, m)
BY DEF ProducerInv

\* The end of the programs is at these places.
LEMMA Exits ==
    /\ \A k \in 1..27 : ProducerCode[k] = SWI(10) <=> k = 24
    /\ \A k \in 1..28 : ConsumerCode[k] = SWI(10) <=> k = 26
<1>1. \A k \in 1..27 : ProducerCode[k] = SWI(10) <=> k = 24 BY ProducerText DEF SWI, Op
<1>2. \A k \in 1..28 : ConsumerCode[k] = SWI(10) <=> k = 26 BY ConsumerText DEF SWI, Op
<1> QED BY <1>1, <1>2

LEMMA QuietKeeps == ASSUME TInv(Both), PCInv, Linked', Quiet PROVE PCInv'
<1>1. UNCHANGED <<memory, output>> /\ Same(Producer) /\ Same(Consumer) /\ Ended' = Ended
  <2>1. \A p \in Proc : Same(p) BY DEF Quiet
  <2>2. Ended' = Ended BY <2>1 DEF Ended, Same, Gone
  <2> QED BY <2>1, <2>2, Given DEF Quiet
<1>2. ProducerPart' BY <1>1 DEF PCInv, ProducerPart, Same
<1>3. ConsumerPart' BY <1>1 DEF PCInv, ConsumerPart, Same
<1>4. SharedPart' BY <1>1 DEF PCInv, SharedPart, Same
<1>5. PrintedPart' BY <1>1, PrintedSame DEF PCInv, PrintedPart, Same
<1> QED BY <1>2, <1>3, <1>4, <1>5 DEF PCInv

LEMMA ProducerRuns == ASSUME TInv(Both), PCInv, Linked', Runs(Producer) PROVE PCInv'
<1> DEFINE P == Context(Producer)
           C == Context(Consumer)
           i == ProducerCode[P.PC]
<1>1. /\ P \in Contexts /\ C \in Contexts /\ \A x \in Words : memory[x] \in Int
      /\ ~Ended /\ ~Gone(Producer) /\ ~Gone(Producer)' /\ ~Pending(Producer)
      /\ Pending(Producer)' = (i.op = "SWI")
      /\ P' = AfterOp(i, P, memory) /\ memory' = AfterStore(i, P, memory) /\ UNCHANGED output
      /\ Same(Consumer) /\ i # SWI(10)
  BY Given DEF Runs
<1>0. Gone(Producer) = FALSE /\ Gone(Producer)' = FALSE /\ Pending(Producer) = FALSE
  BY <1>1 DEF Gone, Pending
<1>2. /\ Setup(P, FALSE) /\ ProducerInv(P, memory) /\ DOMAIN memory = Words
      /\ Protocol(P, FALSE, C, memory)
  BY <1>0, <1>1 DEF PCInv, ProducerPart, SharedPart
<1>3. P.PC # 24
  <2>1. P.PC \in 1..27 BY <1>1, <1>2 DEF Contexts, Setup, ProducerInv
  <2> QED BY <1>1, <2>1, Exits
<1>4. ProducerDoes(P, C, memory) BY <1>1, <1>2, <1>3, ProducerStep
<1>5. /\ DOMAIN memory' = DOMAIN memory /\ Setup(P', Pending(Producer)') /\ ProducerInv(P', memory')
      /\ Protocol(P', FALSE, C, memory') /\ Flag(memory') \in {Flag(memory), 1}
  BY <1>1, <1>4 DEF ProducerDoes
<1>6. ProducerPart' BY <1>5 DEF ProducerPart
<1>7. ConsumerPart' BY <1>1, <1>5, ConsumerUndisturbed DEF PCInv, ConsumerPart, Same
<1>8. SharedPart' BY <1>0, <1>1, <1>2, <1>5 DEF SharedPart, Same
<1>9. PrintedPart' BY <1>1, PrintedSame DEF PCInv, PrintedPart, Same
<1> QED BY <1>6, <1>7, <1>8, <1>9 DEF PCInv

LEMMA ConsumerRuns == ASSUME TInv(Both), PCInv, Linked', Runs(Consumer) PROVE PCInv'
<1> DEFINE P == Context(Producer)
           C == Context(Consumer)
           i == ConsumerCode[C.PC]
<1>1. /\ P \in Contexts /\ C \in Contexts /\ \A x \in Words : memory[x] \in Int
      /\ ~Ended /\ ~Gone(Consumer) /\ ~Gone(Consumer)' /\ ~Pending(Consumer)
      /\ Pending(Consumer)' = (i.op = "SWI")
      /\ C' = AfterOp(i, C, memory) /\ memory' = AfterStore(i, C, memory) /\ UNCHANGED output
      /\ Same(Producer) /\ i # SWI(10)
  BY Given DEF Runs
<1>0. Gone(Producer) \in BOOLEAN /\ Pending(Consumer) = FALSE BY <1>1 DEF Gone, Pending
<1>2. /\ Setup(C, FALSE) /\ ConsumerInv(C, FALSE, memory) /\ DOMAIN memory = Words
      /\ Protocol(P, Gone(Producer), C, memory)
  BY <1>0, <1>1 DEF PCInv, ConsumerPart, SharedPart
<1>3. C.PC # 26
  <2>1. C.PC \in 1..28 BY <1>1, <1>2 DEF Contexts, Setup, ConsumerInv
  <2> QED BY <1>1, <2>1, Exits
<1>4. ConsumerDoes(P, Gone(Producer), C, memory) BY <1>0, <1>1, <1>2, <1>3, ConsumerStep
<1>5. /\ DOMAIN memory' = DOMAIN memory /\ Setup(C', Pending(Consumer)')
      /\ ConsumerInv(C', Pending(Consumer)', memory')
      /\ Protocol(P, Gone(Producer), C', memory') /\ Flag(memory') \in {Flag(memory), 0}
      /\ Value(memory') = Value(memory)
      /\ Shown(C', Pending(Consumer)') = Shown(C, FALSE)
  BY <1>1, <1>4 DEF ConsumerDoes
<1>6. ConsumerPart' BY <1>1, <1>5 DEF ConsumerPart
<1>7. ProducerPart' BY <1>1, <1>5, ProducerUndisturbed DEF PCInv, ProducerPart, Same
<1>8. SharedPart' BY <1>1, <1>2, <1>5 DEF SharedPart, Same
<1>9. PrintedPart' BY <1>0, <1>1, <1>5, PrintedSame DEF PCInv, PrintedPart
<1> QED BY <1>6, <1>7, <1>8, <1>9 DEF PCInv

LEMMA Programs == Code[Producer] = ProducerCode /\ Code[Consumer] = ConsumerCode
BY ProdComAssumption, ProgramAssumption DEF ProgramOf

LEMMA ProducerEnds == ASSUME TInv(Both), PCInv, Linked', Ends(Producer) PROVE PCInv'
<1> DEFINE P == Context(Producer)
           C == Context(Consumer)
           i == ProducerCode[P.PC]
<1>1. /\ P \in Contexts /\ C \in Contexts /\ \A x \in Words : memory[x] \in Int
      /\ ~Ended /\ Gone(Producer)' /\ UNCHANGED output
      /\ i = SWI(10) \/ Segfault(i, P, memory)
      /\ memory' = memory \/ Ended'
      /\ Same(Consumer)
  BY Given DEF Ends
<1>0. Gone(Producer) = FALSE /\ Gone(Producer)' = TRUE /\ Pending(Producer) = FALSE
  BY <1>1 DEF Ends, Gone, Pending
<1>2. /\ Setup(P, FALSE) /\ ProducerInv(P, memory) /\ DOMAIN memory = Words
      /\ Protocol(P, FALSE, C, memory)
  BY <1>0, <1>1 DEF PCInv, ProducerPart, SharedPart
<1>3. P.PC = 24
  <2>1. P.PC \in 1..27 BY <1>1, <1>2 DEF Contexts, Setup, ProducerInv
  <2>2. CASE i = SWI(10) BY <2>1, <2>2, Exits
  <2>3. CASE P.PC # 24 /\ Segfault(i, P, memory)
    <3>1. ProducerDoes(P, C, memory) BY <1>1, <1>2, <2>3, ProducerStep
    <3> QED BY <2>3, <3>1 DEF ProducerDoes
  <2> QED BY <1>1, <2>2, <2>3
<1>4. Protocol(P', TRUE, C, memory) BY <1>2, <1>3 DEF Protocol, Sent
<1>5. ProducerPart' BY <1>1 DEF ProducerPart
<1>6. ConsumerPart'
  <2>1. CASE memory' = memory BY <1>1, <2>1 DEF PCInv, ConsumerPart, Same
  <2>2. CASE Ended'
    <3>1. Gone(Consumer)' BY <2>2, Given DEF Ended, Gone
    <3> QED BY <1>1, <3>1 DEF PCInv, ConsumerPart, Same
  <2> QED BY <1>1, <2>1, <2>2
<1>7. SharedPart' BY <1>0, <1>1, <1>2, <1>4 DEF SharedPart, Same
<1>8. PrintedPart' BY <1>1, PrintedSame DEF PCInv, PrintedPart, Same
<1> QED BY <1>5, <1>6, <1>7, <1>8 DEF PCInv

LEMMA ConsumerEnds == ASSUME TInv(Both), PCInv, Linked', Ends(Consumer) PROVE PCInv'
<1> DEFINE P == Context(Producer)
           C == Context(Consumer)
           i == ConsumerCode[C.PC]
<1>1. /\ P \in Contexts /\ C \in Contexts /\ \A x \in Words : memory[x] \in Int
      /\ ~Ended /\ Gone(Consumer)' /\ UNCHANGED output
      /\ i = SWI(10) \/ Segfault(i, C, memory)
      /\ i = SWI(10) => C' = AfterOp(i, C, memory)
      /\ memory' = memory \/ Ended'
      /\ Same(Producer)
  BY Given DEF Ends
<1>0. /\ Gone(Producer) \in BOOLEAN /\ Gone(Consumer) = FALSE /\ Pending(Consumer) = FALSE
      /\ Gone(Consumer)' = TRUE /\ Pending(Consumer)' = FALSE
  BY <1>1 DEF Ends, Gone, Pending
<1>2. /\ Setup(C, FALSE) /\ ConsumerInv(C, FALSE, memory) /\ DOMAIN memory = Words
      /\ Protocol(P, Gone(Producer), C, memory)
  BY <1>0, <1>1 DEF PCInv, ConsumerPart, SharedPart
<1>3. C.PC = 26
  <2>1. C.PC \in 1..28 BY <1>1, <1>2 DEF Contexts, Setup, ConsumerInv
  <2>2. CASE i = SWI(10) BY <2>1, <2>2, Exits
  <2>3. CASE C.PC # 26 /\ Segfault(i, C, memory)
    <3>1. ConsumerDoes(P, Gone(Producer), C, memory) BY <1>0, <1>1, <1>2, <2>3, ConsumerStep
    <3> QED BY <2>3, <3>1 DEF ConsumerDoes
  <2> QED BY <1>1, <2>2, <2>3
<1>4. C'.PC = 27 /\ C'.Reg = C.Reg
  <2>1. i = SWI(10) BY <1>3, Exits
  <2>2. Goes(C', C, C.PC + 1) BY <1>1, <2>1, AfterSkip
  <2> QED BY <1>3, <2>2 DEF Goes
<1>5. ConsumerPart' BY <1>0, <1>2, <1>3, <1>4 DEF ConsumerPart, ConsumerInv, Finishes
<1>6. ProducerPart'
  <2>1. CASE memory' = memory BY <1>1, <2>1 DEF PCInv, ProducerPart, Same
  <2>2. CASE Ended'
    <3>1. Gone(Producer)' BY <2>2, Given DEF Ended, Gone
    <3> QED BY <3>1 DEF ProducerPart
  <2> QED BY <1>1, <2>1, <2>2
<1>7. SharedPart'
  <2>1. Protocol(P, Gone(Producer), C', memory) BY <1>2, <1>3, <1>4 DEF Protocol, Taken
  <2> QED BY <1>1, <1>2, <2>1 DEF SharedPart, Same
<1>8. PrintedPart'
  <2>1. Shown(C', FALSE) = Shown(C, FALSE) BY <1>3, <1>4 DEF Shown
  <2> QED BY <1>0, <1>1, <2>1, PrintedSame DEF PCInv, PrintedPart
<1> QED BY <1>5, <1>6, <1>7, <1>8 DEF PCInv

\* Where the interrupts are, and what they are.
LEMMA ProducerTraps ==
    ASSUME TInv(Both), Pending(Producer), Context(Producer) = image[Producer]
    PROVE  /\ Context(Producer).PC \in {2, 8, 18, 20, 26, 27}
           /\ returnCode \notin {PRINT_INT, PRINT}
           /\ Context(Producer).PC = 2 => returnCode = RET_SMRP
<1>1. PICK k \in DOMAIN ProducerCode :
        /\ k + 1 = Context(Producer).PC
        /\ ProducerCode[k].op = "SWI" /\ ProducerCode[k].a # 10
        /\ returnCode = ReturnCode(ProducerCode[k].a)
  BY Programs DEF TInv, Trapped, Pending
<1>2. k \in 1..27 BY ProducerDomain
<1>3. k \in {1, 7, 17, 19, 25, 26}
      /\ ProducerCode[k] \in {SWI(4), SWI(5), SWI(6), SWI(7)} /\ (k = 1 => ProducerCode[k] = SWI(4))
  BY <1>1, <1>2, ProducerText DEF SWI, Op
<1>4. /\ ReturnCode(SWI(4).a) = RET_SMRP /\ ReturnCode(SWI(5).a) = 25
      /\ ReturnCode(SWI(6).a) = 26 /\ ReturnCode(SWI(7).a) = 27
  BY DEF ReturnCode, SWI, Op, RET_SMRP
<1> QED BY <1>1, <1>3, <1>4 DEF PRINT_INT, PRINT, RET_SMRP

LEMMA ConsumerTraps ==
    ASSUME TInv(Both), Pending(Consumer), Context(Consumer) = image[Consumer]
    PROVE  /\ Context(Consumer).PC \in {2, 8, 16, 20, 22, 26, 28}
           /\ returnCode = PRINT_INT <=> Context(Consumer).PC = 16
           /\ Context(Consumer).PC = 2 => returnCode = RET_SMRP
<1>1. PICK k \in DOMAIN ConsumerCode :
        /\ k + 1 = Context(Consumer).PC
        /\ ConsumerCode[k].op = "SWI" /\ ConsumerCode[k].a # 10
        /\ returnCode = ReturnCode(ConsumerCode[k].a)
  BY Programs DEF TInv, Trapped, Pending
<1>2. k \in 1..28 BY ConsumerDomain
<1>3. /\ k \in {1, 7, 15, 19, 21, 25, 27}
      /\ ConsumerCode[k] = SWI(IF k = 1 THEN 4 ELSE IF k = 7 THEN 5 ELSE IF k = 15 THEN 0
                              ELSE IF k = 21 THEN 1 ELSE 6)
  BY <1>1, <1>2, ConsumerText DEF SWI, Op
<1>4. /\ ReturnCode(SWI(4).a) = RET_SMRP /\ ReturnCode(SWI(5).a) = 25
      /\ ReturnCode(SWI(6).a) = 26 /\ ReturnCode(SWI(0).a) = PRINT_INT
      /\ ReturnCode(SWI(1).a) = PRINT
  BY DEF ReturnCode, SWI, Op, RET_SMRP, PRINT_INT, PRINT
<1> QED BY <1>1, <1>3, <1>4 DEF PRINT_INT, PRINT, RET_SMRP

\* While its interrupt is served, a process has its registers in its PCB.
LEMMA PendingImage ==
    ASSUME TInv(Both), NEW p \in Proc, Pending(p)
    PROVE  Context(p) = image[p]
BY Waiting DEF TInv, Pending

LEMMA ProducerServed == ASSUME TInv(Both), PCInv, Linked', Serves(Producer) PROVE PCInv'
<1> DEFINE P == Context(Producer)
           C == Context(Consumer)
<1>1. /\ P \in Contexts /\ Pending(Producer) /\ Same(Consumer) /\ UNCHANGED memory
      /\ P'.PC = P.PC /\ P'.Z = P.Z /\ \A s \in Registers \ {0} : P'.Reg[s] = P.Reg[s]
      /\ ~Gone(Producer) /\ ~Gone(Producer)'
  BY Given DEF Serves
<1>0. /\ Gone(Producer) = FALSE /\ Gone(Producer)' = FALSE
      /\ Pending(Producer) = TRUE /\ Pending(Producer)' = FALSE
  BY <1>1 DEF Serves, Gone, Pending
<1>2. /\ P.PC \in {2, 8, 18, 20, 26, 27} /\ returnCode \notin {PRINT_INT, PRINT}
      /\ P.PC = 2 => returnCode = RET_SMRP
  BY <1>1, Given, PendingImage, ProducerTraps
<1>3. UNCHANGED output /\ (P.PC = 2 => P'.Reg[0] = Base) BY <1>2 DEF Serves
<1>4. {1, 2, 3, 4, 5} \subseteq Registers \ {0} BY DEF Registers
<1>5. Setup(P, TRUE) /\ ProducerInv(P, memory) BY <1>0 DEF PCInv, ProducerPart
<1>6. Setup(P', FALSE) /\ ProducerInv(P', memory)
  BY <1>1, <1>2, <1>3, <1>4, <1>5 DEF Setup, ProducerInv
<1>7. ProducerPart' BY <1>0, <1>1, <1>6 DEF ProducerPart
<1>8. ConsumerPart' BY <1>1 DEF PCInv, ConsumerPart, Same
<1>9. SharedPart'
  <2>1. ~Ended BY <1>1, Given
  <2>2. DOMAIN memory = Words /\ Protocol(P, FALSE, C, memory) BY <1>0, <2>1 DEF PCInv, SharedPart
  <2>3. Protocol(P', FALSE, C, memory) BY <1>1, <1>2, <1>4, <2>2 DEF Protocol, Sent
  <2> QED BY <1>0, <1>1, <2>2, <2>3 DEF SharedPart, Same
<1>10. PrintedPart' BY <1>1, <1>3, PrintedSame DEF PCInv, PrintedPart, Same
<1> QED BY <1>7, <1>8, <1>9, <1>10 DEF PCInv

LEMMA ConsumerServed == ASSUME TInv(Both), PCInv, Linked', Serves(Consumer) PROVE PCInv'
<1> DEFINE P == Context(Producer)
           C == Context(Consumer)
<1>1. /\ C \in Contexts /\ Pending(Consumer) /\ Same(Producer) /\ UNCHANGED memory
      /\ C'.PC = C.PC /\ C'.Z = C.Z /\ \A s \in Registers \ {0} : C'.Reg[s] = C.Reg[s]
      /\ ~Gone(Consumer) /\ ~Gone(Consumer)'
  BY Given DEF Serves
<1>0. /\ Gone(Consumer) = FALSE /\ Gone(Consumer)' = FALSE
      /\ Pending(Consumer) = TRUE /\ Pending(Consumer)' = FALSE
  BY <1>1 DEF Serves, Gone, Pending
<1>2. /\ C.PC \in {2, 8, 16, 20, 22, 26, 28}
      /\ returnCode = PRINT_INT <=> C.PC = 16
      /\ C.PC = 2 => returnCode = RET_SMRP
  BY <1>1, Given, PendingImage, ConsumerTraps
<1>3. C.PC = 2 => C'.Reg[0] = Base BY <1>2 DEF Serves
<1>4. {1, 2, 3, 4, 5} \subseteq Registers \ {0} BY DEF Registers
<1>5. Setup(C, TRUE) /\ ConsumerInv(C, TRUE, memory) BY <1>0 DEF PCInv, ConsumerPart
<1>6. Setup(C', FALSE) /\ ConsumerInv(C', FALSE, memory)
  BY <1>1, <1>2, <1>3, <1>4, <1>5 DEF Setup, ConsumerInv, Finishes
<1>7. ConsumerPart' BY <1>0, <1>1, <1>6 DEF ConsumerPart
<1>8. ProducerPart' BY <1>1 DEF PCInv, ProducerPart, Same
<1>9. SharedPart'
  <2>1. ~Ended BY <1>1, Given
  <2>2. DOMAIN memory = Words /\ Protocol(P, Gone(Producer), C, memory) BY <2>1 DEF PCInv, SharedPart
  <2>3. Protocol(P, Gone(Producer), C', memory) BY <1>1, <1>2, <1>4, <2>2 DEF Protocol, Taken
  <2> QED BY <1>1, <2>2, <2>3 DEF SharedPart, Same
<1>10. Cardinality(Printed) = Shown(C, TRUE) /\ InOrder BY <1>0 DEF PCInv, PrintedPart
<1>11. CASE C.PC = 16
  <2>1. output' = Append(output, <<PRINT_INT, C.Reg[0]>>) BY <1>2, <1>11 DEF Serves
  <2>2. /\ Cardinality(Printed) = C.Reg[4] /\ C.Reg[4] \in Int
        /\ C.Reg[0] = C.Reg[4] + 1 \/ (C.Reg[4] + 1 = Limit /\ C.Reg[0] = 0)
    BY <1>1, <1>5, <1>10, <1>11 DEF Shown, ConsumerInv, Contexts, Registers
  <2>3. Cardinality(Printed)' = Cardinality(Printed) + 1 /\ InOrder'
    BY <1>10, <2>1, <2>2, IntegerPrinted
  <2>4. Shown(C', FALSE) = C.Reg[4] + 1 BY <1>1, <1>4, <1>11 DEF Shown
  <2> QED BY <1>0, <2>2, <2>3, <2>4, <1>7, <1>8, <1>9 DEF PCInv, PrintedPart
<1>12. CASE C.PC # 16
  <2>1. output' = output \/ output' = Append(output, <<PRINT, C.Reg[0]>>)
    BY <1>2, <1>12 DEF Serves
  <2>2. Printed' = Printed /\ InOrder' BY <1>10, <2>1, PrintedSame, StringPrinted
  <2>3. Shown(C', FALSE) = Shown(C, TRUE) BY <1>1, <1>2, <1>4, <1>12 DEF Shown
  <2> QED BY <1>0, <1>10, <2>2, <2>3, <1>7, <1>8, <1>9 DEF PCInv, PrintedPart
<1> QED BY <1>11, <1>12

LEMMA PCInvStep == TInv(Both) /\ PCInv /\ [MNext]_mVars => PCInv'
<1> SUFFICES ASSUME TInv(Both), PCInv, [MNext]_mVars PROVE PCInv' OBVIOUS
<1>1. Linked' BY LinkedStays DEF PCInv
<1>2. Quiet \/ \E p \in {Producer, Consumer} : Runs(p) \/ Ends(p) \/ Serves(p)
  BY ProgramSteps, ProdComAssumption DEF PCInv
<1> QED
  BY <1>1, <1>2, QuietKeeps, ProducerRuns, ConsumerRuns, ProducerEnds, ConsumerEnds,
     ProducerServed, ConsumerServed

LEMMA PCInvStart ==
    ASSUME NEW first \in {<<Producer, Consumer>>, <<Consumer, Producer>>}, Started(first, Proc)
    PROVE  TInv(Both) /\ PCInv
<1>1. Range(first) = Range(Both) BY BothLoaded
<1>2. TInv(Both)
  <2>1. SoundPrograms(first) BY <1>1, BothSound DEF SoundPrograms
  <2>2. TInv(first) BY <2>1, LoadOrder, StartedTypes
  <2> QED BY <1>1, <2>2 DEF TInv, Loaded
<1>3. /\ \A p \in Proc : Context(p) = FirstInstruction /\ pState[p] = NEWLY /\ ~Pending(p)
      /\ Linked /\ memory = [a \in Words |-> 0] /\ output = <<>>
  <2>1. /\ image = [p \in Proc |-> FirstInstruction] /\ cpuOwner = NoProc /\ phase = "shell"
        /\ pState = [p \in Proc |-> IF p \in Range(first) THEN NEWLY ELSE CREATED]
        /\ sharedMemory = [p \in Proc |-> p \in Proc]
        /\ memory = [a \in Words |-> 0] /\ output = <<>>
    BY DEF Started
  <2> QED BY <1>1, <2>1, BothLoaded, ProcAssumption DEF Context, Pending, Linked
<1>4. Producer \in Proc /\ Consumer \in Proc BY ProdComAssumption
<1>5. /\ FirstInstruction.PC = 1 /\ \A r \in Registers : FirstInstruction.Reg[r] = 0
      /\ {0, 1, 2, 3, 4, 5} \subseteq Registers
  BY DEF FirstInstruction, Cleared, Registers
<1>6. /\ Words = {Base, Base + 4} /\ Limit \in Nat \ {0} /\ Base \in Int
      /\ Flag(memory) = 0 /\ Value(memory) = 0
  BY <1>3, ProdComAssumption, AddressAssumption DEF Flag, Value
<1>7. ~Gone(Producer) /\ ~Gone(Consumer) BY <1>3, <1>4 DEF Gone, NEWLY, TERMINATED
<1>8. ProducerPart BY <1>3, <1>4, <1>5, <1>6 DEF ProducerPart, Setup, ProducerInv
<1>9. ConsumerPart
  <2>1. Pending(Consumer) = FALSE /\ Gone(Consumer) = FALSE BY <1>3, <1>4, <1>7 DEF Pending, Gone
  <2>2. ConsumerInv(FirstInstruction, FALSE, memory) /\ Setup(FirstInstruction, FALSE)
    BY <1>5, <1>6 DEF Setup, ConsumerInv
  <2> QED BY <1>3, <1>4, <2>1, <2>2 DEF ConsumerPart
<1>10. SharedPart
  <2>1. Protocol(FirstInstruction, Gone(Producer), FirstInstruction, memory)
    BY <1>5, <1>6, <1>7 DEF Protocol, Sent, Taken
  <2> QED BY <1>3, <1>4, <2>1 DEF SharedPart
<1>11. PrintedPart
  <2>1. Printed = {} BY <1>3 DEF Printed
  <2>2. Shown(FirstInstruction, Pending(Consumer)) = 0 BY <1>5 DEF Shown
  <2> QED BY <1>3, <1>4, <2>1, <2>2, FS_EmptySet DEF PrintedPart, InOrder
<1> QED BY <1>2, <1>3, <1>8, <1>9, <1>10, <1>11 DEF PCInv

\* Whatever the quantum, the algorithm and the load order, and although the
\* semaphore does not exclude the two programs, the flag alone keeps the values in
\* order: the consumer prints 1, 2, 3 ... without repeating or skipping one, except
\* that it may find 0 in place of the last.
THEOREM InOrderHolds == PCSpec => []InOrder
<1>1. (\E first \in {<<Producer, Consumer>>, <<Consumer, Producer>>} : Started(first, Proc))
        => TInv(Both) /\ PCInv
  BY PCInvStart
<1>2. (TInv(Both) /\ PCInv) /\ [MNext]_mVars => (TInv(Both) /\ PCInv)'
  BY BothSound, TInvStep, PCInvStep
<1>3. TInv(Both) /\ PCInv => InOrder BY DEF PCInv, PrintedPart
<1> QED BY <1>1, <1>2, <1>3, PTL DEF PCSpec

\* The members of a finite set of positive numbers have the ranks 1, 2, ... up to its size.
LEMMA RankTaken ==
    ASSUME NEW n \in Nat, NEW S \in SUBSET (1..n), NEW v \in 1..Cardinality(S)
    PROVE  \E k \in S : Cardinality({j \in S : j <= k}) = v
<1> DEFINE Below(m) == {j \in S : j <= m}
           size(m) == Cardinality(Below(m))
           T == {m \in Nat : size(m) >= v}
           less == {ss \in Nat \X Nat : ss[1] < ss[2]}
<1>a. IsFiniteSet(S) /\ Cardinality(S) \in Nat
  <2>1. IsFiniteSet(1..n)
    BY FS_Interval
  <2>2. IsFiniteSet(S)
    BY <2>1, FS_Subset
  <2> QED
    BY <2>2, FS_CardinalityType
<1>0. IsFiniteSet(S) /\ v \in Nat /\ v >= 1 /\ \A j \in S : j \in Nat /\ 1 <= j /\ j <= n
  BY <1>a
<1>1. \A m \in Nat : IsFiniteSet(Below(m)) /\ size(m) \in Nat
  <2> TAKE m \in Nat
  <2>1. Below(m) \subseteq S
    OBVIOUS
  <2>2. IsFiniteSet(Below(m))
    BY <1>0, <2>1, FS_Subset
  <2> QED
    BY <2>2, FS_CardinalityType
<1>2. n \in T
  <2>1. Below(n) = S
    BY <1>0
  <2>2. size(n) = Cardinality(S)
    BY <2>1
  <2>3. size(n) >= v
    BY <1>a, <2>2
  <2> QED
    BY <2>3
<1>3. 0 \notin T
  <2>0. \A j \in S : ~(j <= 0)
    BY <1>0
  <2>1. Below(0) = {}
    BY <2>0
  <2>2. size(0) = 0
    BY <2>1, FS_EmptySet
  <2>3. ~(size(0) >= v)
    <3> HIDE DEF size
    <3> QED
      BY <1>0, <2>2
  <2> QED
    BY <2>3
<1>4. IsWellFoundedOn(less, Nat)
  BY NatLessThanWellFounded DEF OpToRel
<1>5. PICK m \in T : \A x \in T : <<x, m>> \notin less
  <2>1. T \subseteq Nat /\ T # {}
    BY <1>2
  <2> HIDE DEF T, less
  <2> QED
    BY <1>4, <2>1, WFMin
<1>6. m \in Nat /\ m - 1 \in Nat
  <2>1. m \in Nat /\ m # 0
    BY <1>3
  <2> QED
    BY <2>1
<1>7. m - 1 \notin T
  <2>1. <<m - 1, m>> \in less
    BY <1>6
  <2> QED
    BY <1>5, <2>1
<1>8. size(m) >= v /\ ~(size(m - 1) >= v)
  BY <1>6, <1>7
<1>9. m \in S
  <2>1. m \notin S => \A j \in S : j <= m <=> j <= m - 1
    BY <1>0, <1>6
  <2>2. m \notin S => Below(m) = Below(m - 1)
    BY <2>1
  <2> HIDE DEF Below
  <2> QED
    BY <2>2, <1>8
<1>10. Below(m) = Below(m - 1) \cup {m} /\ m \notin Below(m - 1)
  <2>1. m <= m /\ ~(m <= m - 1) /\ \A j \in S : j <= m <=> (j <= m - 1 \/ j = m)
    BY <1>0, <1>6
  <2> QED
    BY <1>9, <2>1
<1>11. size(m) = size(m - 1) + 1
  <2> HIDE DEF Below
  <2> QED
    BY <1>1, <1>6, <1>10, FS_AddElement
<1>12. size(m) = v
  <2>1. size(m - 1) \in Nat
    BY <1>1, <1>6
  <2> HIDE DEF size
  <2> QED
    BY <1>0, <1>8, <1>11, <2>1
<1> QED
  BY <1>9, <1>12

\* And none before the last is lost: once both programs have ended, each of the values
\* 1 .. Limit - 1 the producer sent has been printed.  The end marker does not count.
THEOREM NoneLostHolds == PCSpec => []NoneLost
<1>1. (\E first \in {<<Producer, Consumer>>, <<Consumer, Producer>>} : Started(first, Proc))
        => TInv(Both) /\ PCInv
  BY PCInvStart
<1>2. (TInv(Both) /\ PCInv) /\ [MNext]_mVars => (TInv(Both) /\ PCInv)'
  BY BothSound, TInvStep, PCInvStep
<1>3. TInv(Both) /\ PCInv => NoneLost
  <2> SUFFICES ASSUME TInv(Both), PCInv, Ended, NEW v \in 1..Limit - 1
               PROVE  \E k \in Printed : output[k][2] = v
    BY DEF NoneLost
  <2>0. Limit \in Nat /\ v \in 1..Limit /\ v # Limit
    BY ProdComAssumption
  <2>1. Gone(Consumer) BY ProdComAssumption DEF Ended, Gone
  <2>2. Limit > 1 => Context(Consumer).PC = 27 /\ Context(Consumer).Reg[4] = Limit
    BY <2>1 DEF PCInv, ConsumerPart, Finishes
  <2>3. Limit > 1 => Shown(Context(Consumer), Pending(Consumer)) = Limit BY <2>2 DEF Shown
  <2>4. Cardinality(Printed) = Limit BY <2>0, <2>3 DEF PCInv, PrintedPart
  <2>5. PICK k \in Printed : Rank(k) = v
    <3>1. Len(output) \in Nat /\ Printed \in SUBSET (1..Len(output)) BY PrintedType
    <3>2. v \in 1..Cardinality(Printed) BY <2>0, <2>4
    <3> QED BY <3>1, <3>2, RankTaken DEF Rank
  <2>6. InOrder BY DEF PCInv, PrintedPart
  <2> QED BY <2>0, <2>5, <2>6 DEF InOrder
<1> QED BY <1>1, <1>2, <1>3, PTL DEF PCSpec

\* Neither program leaves its instructions, nor computes on anything but integers.
THEOREM ProdComTyped == PCSpec => []MTypeOK
<1>1. (\E first \in {<<Producer, Consumer>>, <<Consumer, Producer>>} : Started(first, Proc))
        => TInv(Both) /\ PCInv
  BY PCInvStart
<1>2. TInv(Both) /\ [MNext]_mVars => TInv(Both)'
  BY BothSound, TInvStep
<1>3. TInv(Both) => MTypeOK BY TInvTypes
<1> QED BY <1>1, <1>2, <1>3, PTL DEF PCSpec

=============================================================================
