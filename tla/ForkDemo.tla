------------------------------ MODULE ForkDemo ------------------------------
(***************************************************************************)
(* asm/fork.asm on the virtual machine: a process forks a child, the child  *)
(* forks a grandchild, and each prints a string of its own.  Others are     *)
(* unrelated programs that share the CPU with them.                         *)
(***************************************************************************)
EXTENDS Machine

CONSTANTS
    Root,               \* the loaded fork.asm
    Others,             \* processes loaded beside it; the rest of Proc is forked
    PSTR, CSTR, GSTR    \* addresses of the three strings

\* They are started by run: exec would load more programs on the way.
ASSUME ForkDemoAssumption ==
    /\ Root \in Proc /\ Others \subseteq Proc \ {Root} /\ IsFiniteSet(Others)
    /\ {PSTR, CSTR, GSTR} \subseteq Int /\ PSTR # CSTR /\ PSTR # GSTR /\ CSTR # GSTR
    /\ MaxArrivals = 0

CPR == 6
GPR == 12
HaltLabel == 15
ForkCode == <<
    SWI(3), Op("BNE", CPR, 0, 0),
    Op("ADR", 0, PSTR, 0), SWI(1), Op("B", HaltLabel, 0, 0),
    Op("ADR", 0, CSTR, 0), Op("CMP", 1, 2, 0), SWI(3), Op("BNE", GPR, 0, 0),   \* CPR
    SWI(1), Op("B", HaltLabel, 0, 0),
    Op("ADR", 0, GSTR, 0), SWI(1), Op("B", HaltLabel, 0, 0),                   \* GPR
    SWI(10) >>                                                                 \* HALT

Family == Proc \ Others
ASSUME ForkProgram == \A p \in Family : Code[p] = ForkCode

\* The others are programs that print no string and do not fork.
ASSUME OtherPrograms ==
    \A p \in Others :
        /\ WellFormed(Code[p])
        /\ \A k \in DOMAIN Code[p] : Code[p][k].op = "SWI" => Code[p][k].a \notin {1, 3}

\* All the loaded programs, in any order.
Orders == Bijection(1..(Cardinality(Others) + 1), Others \cup {Root})
FDSpec ==
    /\ \E loaded \in Orders : Started(loaded, {})
    /\ [][MNext]_mVars /\ MFairness

----------------------------------------------------------------------------
Printed == {k \in DOMAIN output : output[k][1] = PRINT}   \* where in the output strings are

\* Each of the three processes prints its own string, once: the fork is told
\* apart by Z alone, in the parent, the child and the grandchild.
PrintsOwn ==
    /\ \A i, j \in Printed : output[i] = output[j] => i = j
    /\ (\A p \in Family : pState[p] = TERMINATED) =>
         {output[k][2] : k \in Printed} = {PSTR, CSTR, GSTR}

\* All processes end, unless a stale index of the process table stops the
\* program first.
AllEnd == <>((\A p \in Proc : pState[p] = TERMINATED) \/ phase = "badTable")
=============================================================================
