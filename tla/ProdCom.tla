------------------------------ MODULE ProdCom ------------------------------
(***************************************************************************)
(* The producer and consumer of prodCom/prod.asm and com.asm on the virtual *)
(* machine, set up as "test 2" of the shell does: both loaded, a shared     *)
(* block opened between them, and a semaphore of value 1 given to both.     *)
(* The first word of the block is a flag (1: full), the second the value.   *)
(***************************************************************************)
EXTENDS Machine

CONSTANTS
    Producer, Consumer,   \* the two members of Proc
    Limit                 \* values to pass (500 in the programs)

ASSUME ProdComAssumption ==
    /\ Proc = {Producer, Consumer} /\ Producer # Consumer
    /\ Limit \in Nat \ {0} /\ Words = {Base, Base + 4}

LOOP == 7
CRITICAL == LOOP + 1   \* both programs hold the semaphore from here ...

PDONE == 19
PFULLM == LOOP + 4   \* goes on although the flag is set
PFULL == 25
ProducerCode == <<
    SWI(4), Op("MOV", 1, 0, 0), Op("MVI", 2, 4, 0), Op("MVI", 3, 1, 0), Op("MVI", 4, 0, 0),
    Op("MVI", 5, Limit, 0),
    SWI(5),                                                               \* LOOP
    Op("LDR", 0, 1, 0), Op("CMP", 0, 3, 0), Op("BEQ", PFULL, 0, 0),
    Op("ADD", 4, 4, 3), Op("ADD", 0, 1, 2), Op("STR", 4, 0, 0), Op("STR", 3, 1, 0),
    Op("CMP", 4, 5, 0), Op("BEQ", PDONE, 0, 0), SWI(6), Op("B", LOOP, 0, 0),
    SWI(6),                                                               \* PDONE
    Op("MVI", 4, 0, 0), Op("ADD", 0, 1, 2), Op("STR", 4, 0, 0), Op("STR", 3, 1, 0), SWI(10),
    SWI(6), SWI(7), Op("B", LOOP, 0, 0) >>                                \* PFULL

CDONE == 25
CEMPTY == 27
NEWLINE == 0
AMOUNT == Limit   \* the consumer has its own copy of the number
ConsumerCode == <<
    SWI(4), Op("MOV", 1, 0, 0), Op("MVI", 2, 4, 0), Op("MVI", 3, 1, 0), Op("MVI", 4, 0, 0),
    Op("MVI", 5, AMOUNT, 0),
    SWI(5),                                                               \* LOOP
    Op("LDR", 0, 1, 0), Op("CMP", 0, 3, 0), Op("BNE", CEMPTY, 0, 0),
    Op("ADD", 0, 1, 2), Op("LDR", 0, 0, 0), Op("CMP", 0, 4, 0), Op("BEQ", CDONE, 0, 0),
    SWI(0), Op("MVI", 0, 0, 0), Op("STR", 0, 1, 0), Op("ADD", 4, 4, 3), SWI(6),
    Op("ADR", 0, NEWLINE, 0), SWI(1), Op("CMP", 4, 5, 0), Op("BEQ", CDONE, 0, 0),
    Op("BLT", LOOP, 0, 0),
    SWI(6), SWI(10),                                                      \* CDONE
    SWI(6), Op("B", LOOP, 0, 0) >>                                        \* CEMPTY

ProgramOf == [p \in Proc |-> IF p = Producer THEN ProducerCode ELSE ConsumerCode]
ASSUME ProgramAssumption == Code = ProgramOf

----------------------------------------------------------------------------
\* "test 2" of the shell, with either program loaded first.
PCSpec ==
    /\ \E first \in {<<Producer, Consumer>>, <<Consumer, Producer>>} : Started(first, Proc)
    /\ [][MNext]_mVars /\ MFairness

----------------------------------------------------------------------------
PcOf(p) == IF p = pRunningPcb THEN cpu.PC ELSE image[p].PC

\* The process has come back from its acquire and has not executed its release.
Inside(p) ==
    /\ ~Blocked(p)
    /\ PcOf(p) \in IF p = Producer THEN CRITICAL..17 \cup {PDONE, PFULL}
                   ELSE CRITICAL..19 \cup {CDONE, CEMPTY}

\* The instructions after ";CRITICAL" (prod.asm:13, com.asm:14) run in one
\* process at a time: that is what the semaphore of value 1 is for.
MutualExclusion == phase = "execute" => ~(Inside(Producer) /\ Inside(Consumer))

\* Where in the output the integers are, and which of them is at k.
Printed == {k \in DOMAIN output : output[k][1] = PRINT_INT}
Rank(k) == Cardinality({j \in Printed : j <= k})

Ended == \A p \in Proc : pState[p] = TERMINATED

\* "release so consumer reads last value" (prod.asm:27): once both programs
\* have ended, every value was printed.
LastValueRead ==
    Ended => Cardinality(Printed) = Limit /\ \A k \in Printed : output[k][2] = Rank(k)

\* Whatever the quantum does to the semaphore, the flag keeps the values in
\* order: none is printed twice or skipped before the last.
InOrder ==
    \A k \in Printed : output[k][2] = Rank(k) \/ (Rank(k) = Limit /\ output[k][2] = 0)

\* The flag loses none of the values before the last: once both programs have ended,
\* each was printed.  Of the last value LastValueRead speaks.  The end marker 0 that may
\* be found in its place counts for nothing here; the consumer prints it like a value,
\* since its "value == 0? sentinel check" (com.asm:21) compares with what it has read.
NoneLost == Ended => \A v \in 1..Limit - 1 : \E k \in Printed : output[k][2] = v

\* Both programs end: neither stays blocked on the semaphore for ever.
BothEnd == <>Ended
=============================================================================
