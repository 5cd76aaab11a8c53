------------------------------- MODULE Memory -------------------------------
(***************************************************************************)
(* RAM and its process table: allocation marks, loading, shared blocks, the *)
(* vector vMemory of PCB pointers and the map vMemoryLookup from a name to  *)
(* an index of it (src/src/hardware/ram.h, shm.h, pcb.h,                    *)
(* src/src/kernel/loader.cpp, kernel.cpp, scheduler.cpp).                   *)
(*                                                                         *)
(* Module Scheduler abstracts all of this to TableStale and Found; here the *)
(* table is modelled entry by entry, and the scheduler is abstracted to     *)
(* "any live process forks or halts at any time".                           *)
(***************************************************************************)
EXTENDS Integers, Sequences, FiniteSets, FiniteSetsExt, SequencesExt

CONSTANTS
    Capacity,    \* number of memory cells (12 * 1024 in the code)
    File,        \* program files
    Load, Size,  \* load address and size of each file, from its header
    ShmSizes,    \* sizes, in cells, the oshm command asks for
    MaxPcb,      \* bound: PCBs created
    MaxShm       \* bound: shared blocks created

ASSUME CapacityAssumption == Capacity \in Nat \ {0}
ASSUME FileAssumption == Load \in [File -> Nat] /\ Size \in [File -> Nat]
ASSUME ShmAssumption == ShmSizes \subseteq Nat
ASSUME BoundAssumption == MaxPcb \in Nat /\ MaxShm \in Nat

VARIABLES
    phase,          \* "up", or how the program died
    mark,           \* mem[i][1], see Cells
    pcbs,           \* every Pcb created, in order: name, shared block, halted
    vMemory,        \* sequence of indices of pcbs
    vMemoryLookup,  \* name -> index of vMemory, counted from 0
    shms            \* every Shm created: address, size, linked processes

vars == <<phase, mark, pcbs, vMemory, vMemoryLookup, shms>>

\* mem has Capacity cells.  The next two fall on the padding before vMemoryLookup
\* and are never initialised; a write beyond them damages the table.
Cells == 0..(Capacity + 1)
Free == 0
Used == 1
Garbage == 2   \* neither: only a padding cell can hold it

NoShm == 0
Died == {"badTable", "corrupt"}

\* A name is the file loaded and the number of ".child" suffixes.
Child(name) == [name EXCEPT !.forks = @ + 1]

Live == {id \in DOMAIN pcbs : ~pcbs[id].halted}
Image(id) == LET f == pcbs[id].name.file IN Load[f]..(Load[f] + Size[f])
Block(s) == shms[s].addr..(shms[s].addr + shms[s].size)

Marked(m, cells, value) == [i \in Cells |-> IF i \in cells THEN value ELSE m[i]]

Init ==
    /\ phase = "up"
    /\ \E padding \in {Free, Used, Garbage} :
         mark = [i \in Cells |-> IF i < Capacity THEN Free ELSE padding]
    /\ pcbs = <<>>
    /\ vMemory = <<>>
    /\ vMemoryLookup = [n \in {} |-> 0]
    /\ shms = <<>>

----------------------------------------------------------------------------
(* push_back of a new Pcb, and its entry in the lookup table. *)

EntryM == Len(vMemory) + 1   \* size() taken after the push_back, not reduced by 1
Entry == Len(vMemory)

Register(name) ==
    /\ Len(pcbs) < MaxPcb
    /\ pcbs' = Append(pcbs, [name |-> name, shm |-> NoShm, halted |-> FALSE])
    /\ vMemory' = Append(vMemory, Len(pcbs'))
    /\ vMemoryLookup' = [n \in DOMAIN vMemoryLookup \cup {name} |->
                           IF n = name THEN Entry ELSE vMemoryLookup[n]]

\* The checks, the copy and the marking all run to load address + size included.
Occupied(f) == \E i \in Load[f]..(Load[f] + Size[f]) : mark[i] = Used

ClaimedM(f) == Load[f]..(Load[f] + Size[f] - 1)
Claimed(f) == Load[f]..(Load[f] + Size[f])

LoadProgram(f) ==
    /\ phase = "up"
    /\ Load[f] + Size[f] <= Capacity
    /\ ~Occupied(f)
    /\ Register([file |-> f, forks |-> 0])
    /\ mark' = Marked(mark, Claimed(f), Used)
    /\ UNCHANGED <<phase, shms>>

\* The child shares its parent's memory, whose marks are not counted twice.
VFork(id) ==
    /\ phase = "up"
    /\ Register(Child(pcbs[id].name))
    /\ UNCHANGED <<phase, mark, shms>>

----------------------------------------------------------------------------
(* Shared memory.  A state of it is a record of marks and blocks. *)

Unlinked(st, s) ==   \* deallocateShMemory, nothing for a NULL block
    IF s = NoShm THEN st
    ELSE LET count == st.shms[s].count - 1 IN
         [mark |-> IF count <= 0 THEN Marked(st.mark, Block(s), Free) ELSE st.mark,
          shms |-> [st.shms EXCEPT ![s].count = count]]

\* The first run of size free cells; failing that, the free cells at the end are
\* handed out all the same, unless the padding cell reads as neither mark.
AllocateSharedMemory(m, size) ==
    LET fits == {l \in 0..(Capacity - size) : \A i \in l..(l + size - 1) : m[i] = Free}
        last == {l \in 0..Capacity : \A i \in l..(Capacity - 1) : m[i] = Free}
    IN  IF fits # {} THEN Min(fits)
        ELSE IF m[Capacity] = Garbage THEN -1
        ELSE Min(last)

FailedM(addr) == addr = 1   \* the error code of the other kernel calls
Failed(addr) == addr = -1

\* getPcb: no PCB for an unknown name; what an index past the end finds is the
\* stale pointer of any PCB, or no pointer at all.
GetPcb(name) ==
    IF name \notin DOMAIN vMemoryLookup THEN {}
    ELSE LET i == vMemoryLookup[name] + 1 IN
         IF i \in DOMAIN vMemory THEN {vMemory[i]} ELSE DOMAIN pcbs

OutOfTable(name) == name \in DOMAIN vMemoryLookup /\ vMemoryLookup[name] >= Len(vMemory)

OpenSharedMemory(one, two, size) ==
    /\ phase = "up"
    /\ Len(shms) < MaxShm
    /\ \E p \in GetPcb(one), q \in GetPcb(two) :
         LET closed == Unlinked(Unlinked([mark |-> mark, shms |-> shms], pcbs[p].shm), pcbs[q].shm)
             addr == AllocateSharedMemory(closed.mark, size)
             new == Len(shms) + 1
         IN  IF Failed(addr)
             THEN /\ mark' = closed.mark /\ shms' = closed.shms
                  /\ UNCHANGED <<phase, pcbs>>
             ELSE /\ phase' = IF addr + size \in Cells THEN "up" ELSE "corrupt"
                  /\ mark' = Marked(closed.mark, addr..(addr + size), Used)
                  /\ shms' = Append(closed.shms, [addr |-> addr, size |-> size, count |-> 2])
                  /\ pcbs' = [pcbs EXCEPT ![p].shm = new, ![q].shm = new]
    /\ UNCHANGED <<vMemory, vMemoryLookup>>

\* The other outcome of a stale index.
BadLookup(name) ==
    /\ phase = "up"
    /\ OutOfTable(name)
    /\ phase' = "badTable"
    /\ UNCHANGED <<mark, pcbs, vMemory, vMemoryLookup, shms>>

----------------------------------------------------------------------------
\* deallocateMemory erases the entry at the index of the name.  at() throws for a
\* name that is no longer there; erase past the end damages the heap or drops the
\* last pointer.  The later indices are not adjusted.
ErasedM(i) == vMemory   \* only the lookup table is updated
Erased(i) == IF i \in DOMAIN vMemory THEN RemoveAt(vMemory, i) ELSE Front(vMemory)

CellsFreedM(id) == Image(id) \ {Load[pcbs[id].name.file] + Size[pcbs[id].name.file]}
CellsFreed(id) == Image(id)

DeallocateMemory(id) ==
    /\ phase = "up"
    /\ LET name == pcbs[id].name
           freed == Unlinked([mark |-> mark, shms |-> shms], pcbs[id].shm)
       IN  /\ mark' = Marked(freed.mark, CellsFreed(id), Free)
           /\ shms' = freed.shms
           /\ IF name \notin DOMAIN vMemoryLookup
              THEN phase' = "badTable" /\ UNCHANGED <<vMemory, vMemoryLookup, pcbs>>
              ELSE /\ phase' \in IF OutOfTable(name) THEN {"up", "badTable"} ELSE {"up"}
                   /\ vMemory' = Erased(vMemoryLookup[name] + 1)
                   /\ vMemoryLookup' = [n \in DOMAIN vMemoryLookup \ {name} |-> vMemoryLookup[n]]
                   /\ pcbs' = [pcbs EXCEPT ![id].halted = TRUE]

----------------------------------------------------------------------------
Dead == phase \in Died /\ UNCHANGED vars

Next ==
    \/ \E f \in File : LoadProgram(f)
    \/ \E id \in Live : VFork(id) \/ DeallocateMemory(id)
    \/ \E one, two \in DOMAIN vMemoryLookup, size \in ShmSizes : OpenSharedMemory(one, two, size)
    \/ \E name \in DOMAIN vMemoryLookup : BadLookup(name)
    \/ Dead

Spec == Init /\ [][Next]_vars

----------------------------------------------------------------------------
MemTypeOK ==
    /\ phase \in {"up"} \cup Died
    /\ mark \in [Cells -> {Free, Used, Garbage}]
    /\ \A id \in DOMAIN pcbs :
         pcbs[id] \in [name : [file : File, forks : Nat], shm : 0..Len(shms), halted : BOOLEAN]
    /\ vMemory \in Seq(DOMAIN pcbs)
    /\ \A n \in DOMAIN vMemoryLookup : vMemoryLookup[n] \in Nat
    /\ \A s \in DOMAIN shms : shms[s].addr \in 0..Capacity /\ shms[s].count \in Int

\* "VMEM LOOKUP TABLE// name : index in vMemory" (ram.h:10): the PCB at the index
\* of a name has that name.
LookupIsIndex ==
    \A n \in DOMAIN vMemoryLookup :
        LET i == vMemoryLookup[n] + 1 IN i \in DOMAIN vMemory /\ pcbs[vMemory[i]].name = n

\* Until a process has halted the table is right, whatever was loaded and forked,
\* even when two children of one process got the same name.  Module Scheduler rests
\* on this.
RightBeforeHalt == Live = DOMAIN pcbs => LookupIsIndex

\* Every halt takes one pointer out, though not always its own: vMemory has as many
\* entries as there are live processes, so it never underflows.
EntriesMatch == phase = "up" => Len(vMemory) = Cardinality(Live)

\* A cell stays marked only for a live process or a block whose link count has
\* not reached 0: in whatever order programs fork, share, reopen and halt, the
\* inclusive bounds of marking and unmarking (loader.cpp:109, 159, scheduler.cpp:372,
\* 391) leave no cell behind.
NoLeak ==
    \A i \in 0..(Capacity - 1) : mark[i] = Used =>
        \/ \E id \in Live : i \in Image(id)
        \/ \E s \in DOMAIN shms : shms[s].count > 0 /\ i \in Block(s)

\* Without fork and shared memory the marks protect every live process: its cells
\* are marked, and no two processes have a cell in common.
MarksProtect ==
    shms = <<>> /\ (\A id \in DOMAIN pcbs : pcbs[id].name.forks = 0) =>
        \A p \in Live :
            /\ \A i \in Image(p) : mark[i] = Used
            /\ \A q \in Live \ {p} : Image(p) \cap Image(q) = {}

\* The cells a program or a block really uses.
Contents(id) == LET f == pcbs[id].name.file IN Load[f]..(Load[f] + Size[f] - 1)
BlockContents(s) == shms[s].addr..(shms[s].addr + shms[s].size - 1)

\* "OVERLAP IS NOT ALLOWED" (docs/notes/notes.3.txt:8): different programs and
\* open blocks have no cell in common.
NoOverlap ==
    \A p \in Live :
        /\ \A q \in Live : pcbs[p].name.file # pcbs[q].name.file => Contents(p) \cap Contents(q) = {}
        /\ \A s \in DOMAIN shms : shms[s].count > 0 => Contents(p) \cap BlockContents(s) = {}
=============================================================================
