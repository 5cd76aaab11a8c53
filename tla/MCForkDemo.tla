---------------------------- MODULE MCForkDemo ----------------------------
(* Small instances of ForkDemo for TLC, beside three programs that use the  *)
(* rest of the instruction set.                                             *)
EXTENDS ForkDemo, TLC

CONSTANTS Squares, Crash, Unshared   \* the members of Others

MCStrings == 100 :> 110 @@ 120 :> 130 @@ 140 :> 155

\* Prints 5 * 5, 2 * 2, 1 * 1, halving.
SquaresCode == <<
    Op("MVI", 1, 5, 0), Op("MVI", 2, 2, 0), Op("MVI", 3, 0, 0),
    Op("MUL", 0, 1, 1), SWI(0), Op("DIV", 1, 1, 2), Op("CMP", 1, 3, 0), Op("BGT", 4, 0, 0),
    SWI(10) >>

\* Counts up to 2, then loads from an address that is not allocated.
CrashCode == <<
    Op("MVI", 2, 1, 0), Op("MVI", 3, 2, 0),
    Op("ADD", 1, 1, 2), Op("CMP", 1, 3, 0), Op("BLT", 3, 0, 0),
    SWI(2), Op("MOV", 0, 1, 0), SWI(0), Op("LDR", 5, 3, 0), SWI(10) >>

\* Stores a word of its own and prints one less than its first byte, as asm/ldrb.asm loads it; then
\* asks for shared memory it was never given.
Word == 8
UnsharedCode == <<
    Op("ADR", 2, Word, 0), Op("MVI", 1, 2034, 0), Op("STR", 1, 2, 0), Op("LDRB", 4, 2, 0),
    Op("MVI", 5, 1, 0), Op("SUB", 4, 4, 5), Op("BL", 9, 0, 0), SWI(10),
    Op("MOV", 0, 4, 0), SWI(0), SWI(4), SWI(10) >>

MCPrograms == [p \in Proc |-> CASE p = Squares -> SquaresCode
                                [] p = Crash -> CrashCode
                                [] p = Unshared -> UnsharedCode
                                [] OTHER -> ForkCode]
=============================================================================
