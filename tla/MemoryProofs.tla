--------------------------- MODULE MemoryProofs ---------------------------
(***************************************************************************)
(* Proofs about module Memory, for any capacity, programs and sizes of     *)
(* shared blocks.                                                          *)
(***************************************************************************)
EXTENDS Memory, FiniteSetTheorems, SequenceTheorems, WellFoundedInduction, TLAPS

Marks == {Free, Used, Garbage}
PcbType == [name : [file : File, forks : Nat], shm : Nat, halted : BOOLEAN]
ShmType == [addr : 0..Capacity, size : ShmSizes, count : Int]
MarkState == [mark : [Cells -> Marks], shms : Seq(ShmType)]

\* MemTypeOK, with the domains it leaves open.
TypeInv ==
    /\ phase \in {"up"} \cup Died
    /\ mark \in [Cells -> Marks]
    /\ pcbs \in Seq(PcbType)
    /\ vMemory \in Seq(DOMAIN pcbs)
    /\ vMemoryLookup \in [DOMAIN vMemoryLookup -> Nat]
    /\ shms \in Seq(ShmType)
    /\ \A id \in DOMAIN pcbs : pcbs[id].shm \in 0..Len(shms)

\* Before the first halt the name of every process is in the lookup table.
Named == \A id \in DOMAIN pcbs : pcbs[id].name \in DOMAIN vMemoryLookup
TableInv == Live = DOMAIN pcbs => LookupIsIndex /\ Named

\* Without fork and shared memory every live process is found under its name.
Unshared == shms = <<>> /\ \A id \in DOMAIN pcbs : pcbs[id].name.forks = 0
Protected ==
    Unshared =>
        \A p \in Live :
            /\ Image(p) \subseteq Cells
            /\ \A i \in Image(p) : mark[i] = Used
            /\ \A q \in Live \ {p} : Image(p) \cap Image(q) = {}
            /\ pcbs[p].name \in DOMAIN vMemoryLookup

IInv == TypeInv /\ TableInv /\ EntriesMatch /\ NoLeak /\ Protected

----------------------------------------------------------------------------
(* What the helpers return. *)

\* A set of natural numbers has a smallest member.
LEMMA MinExists ==
    ASSUME NEW S \in SUBSET Nat, S # {}
    PROVE  Min(S) \in S
<1>1. PICK x \in S : \A y \in S : ~ (<<y, x>> \in OpToRel(<, Nat))
  BY NatLessThanWellFounded, WFMin
<1>2. \A y \in S : x =< y
  <2> SUFFICES ASSUME NEW y \in S, ~ (x =< y) PROVE FALSE
    OBVIOUS
  <2>1. y \in Nat /\ x \in Nat /\ y < x
    OBVIOUS
  <2>2. <<y, x>> \in OpToRel(<, Nat)
    BY <2>1 DEF OpToRel
  <2> QED
    BY <1>1, <2>2
<1> QED
  BY <1>2 DEF Min

\* An allocation that does not fail is at an address of the memory, or just after it.
LEMMA AllocationRange ==
    ASSUME NEW m, NEW size \in Nat, ~Failed(AllocateSharedMemory(m, size))
    PROVE  AllocateSharedMemory(m, size) \in 0..Capacity
<1> DEFINE fits == {l \in 0..(Capacity - size) : \A i \in l..(l + size - 1) : m[i] = Free}
           last == {l \in 0..Capacity : \A i \in l..(Capacity - 1) : m[i] = Free}
<1>1. Capacity \in Nat
  BY CapacityAssumption
<1>2. fits \subseteq 0..Capacity
  BY <1>1
<1>3. fits # {} => Min(fits) \in 0..Capacity
  <2>1. fits \in SUBSET Nat
    BY <1>1, <1>2
  <2> HIDE DEF fits
  <2> QED
    BY <2>1, <1>2, MinExists
<1>4. Capacity \in last
  BY <1>1
<1>5. Min(last) \in 0..Capacity
  <2>1. last \in SUBSET Nat /\ last # {}
    BY <1>4
  <2> QED
    BY <2>1, MinExists
<1>6. AllocateSharedMemory(m, size) \in {Min(fits), -1, Min(last)}
  BY DEF AllocateSharedMemory
<1> QED
  BY <1>3, <1>5 DEF AllocateSharedMemory, Failed

\* Between st and u blocks were closed: addresses and sizes are kept, no cell that
\* an open block has was freed, and none marked.
Closes(st, u) ==
    /\ Len(u.shms) = Len(st.shms)
    /\ \A t \in 1..Len(st.shms) :
         u.shms[t].addr = st.shms[t].addr /\ u.shms[t].size = st.shms[t].size
    /\ \A i \in Cells : u.mark[i] = Used =>
         /\ st.mark[i] = Used
         /\ \A t \in 1..Len(st.shms) : st.shms[t].count > 0 /\ i \in Block(t) => u.shms[t].count > 0

LEMMA ClosesTransitive ==
    ASSUME NEW st, NEW u, NEW v, Closes(st, u), Closes(u, v)
    PROVE  Closes(st, v)
BY DEF Closes

LEMMA UnlinkedProperties ==
    ASSUME NEW st \in MarkState, NEW s \in 0..Len(st.shms)
    PROVE  /\ Unlinked(st, s) \in MarkState
           /\ Closes(st, Unlinked(st, s))
           /\ s = NoShm => Unlinked(st, s) = st
<1> DEFINE u == Unlinked(st, s)
           m == st.mark
           b == st.shms
<1>0. /\ st = [mark |-> m, shms |-> b] /\ m \in [Cells -> Marks] /\ b \in Seq(ShmType)
      /\ s \in 0..Len(b)
  BY DEF MarkState
<1>1. CASE s = NoShm
  BY <1>0, <1>1 DEF Unlinked, Closes
<1>2. CASE s # NoShm
  <2> DEFINE count == b[s].count - 1
             freed == IF count <= 0 THEN Marked(m, Block(s), Free) ELSE m
             new == [b[s] EXCEPT !.count = count]
  <2>0. s \in 1..Len(b) /\ b[s] \in ShmType
    BY <1>0, <1>2, ElementOfSeq DEF NoShm
  <2>1. s \in 1..Len(b) /\ b[s] \in ShmType /\ count \in Int
    BY <2>0 DEF ShmType
  <2>2. u = [mark |-> freed, shms |-> [b EXCEPT ![s] = new]]
    BY <1>2 DEF Unlinked
  <2>3. new \in ShmType /\ new.addr = b[s].addr /\ new.size = b[s].size /\ new.count = count
    BY <2>1 DEF ShmType
  <2> HIDE DEF new
  <2>4. /\ [b EXCEPT ![s] = new] \in Seq(ShmType) /\ Len([b EXCEPT ![s] = new]) = Len(b)
        /\ \A t \in 1..Len(b) : [b EXCEPT ![s] = new][t] = IF t = s THEN new ELSE b[t]
    BY <1>0, <2>1, <2>3, ExceptSeq
  <2>5. freed \in [Cells -> Marks]
    BY <1>0 DEF Marked, Marks
  <2>6. \A i \in Cells : freed[i] = Used => m[i] = Used /\ (count <= 0 => i \notin Block(s))
    BY <1>0 DEF Marked, Free, Used
  <2> HIDE DEF freed, count, u
  <2>8. u.mark = freed /\ u.shms = [b EXCEPT ![s] = new]
    BY <2>2
  <2>9. \A t \in 1..Len(b) :
           /\ u.shms[t].addr = b[t].addr /\ u.shms[t].size = b[t].size
           /\ u.shms[t].count = IF t = s THEN count ELSE b[t].count
    BY <2>3, <2>4, <2>8
  <2>10. \A i \in Cells : u.mark[i] = Used =>
                  /\ m[i] = Used
                  /\ \A t \in 1..Len(b) : b[t].count > 0 /\ i \in Block(t) => u.shms[t].count > 0
    BY <2>1, <2>6, <2>8, <2>9
  <2> QED
    BY <1>2, <2>2, <2>4, <2>5, <2>8, <2>9, <2>10 DEF u, MarkState, Closes
<1> QED
  BY <1>1, <1>2

----------------------------------------------------------------------------
(* Each action preserves the invariant. *)

LEMMA LiveFinite ==
    ASSUME TypeInv
    PROVE  /\ DOMAIN pcbs = 1..Len(pcbs) /\ Len(pcbs) \in Nat
           /\ Live \subseteq DOMAIN pcbs
           /\ IsFiniteSet(Live) /\ Cardinality(Live) \in Nat
<1>1. DOMAIN pcbs = 1..Len(pcbs) /\ Len(pcbs) \in Nat
  BY LenProperties DEF TypeInv
<1>2. Live \in SUBSET (1..Len(pcbs))
  BY <1>1 DEF Live
<1>3. IsFiniteSet(1..Len(pcbs))
  BY <1>1, FS_Interval
<1> QED
  BY <1>1, <1>2, <1>3, FS_Subset, FS_CardinalityType

\* What Register leaves: one more live process, the last, with its entry.
LEMMA RegisterProperties ==
    ASSUME IInv, NEW name \in [file : File, forks : Nat], Register(name),
           phase' = phase, shms' = shms, mark' \in [Cells -> Marks]
    PROVE  LET new == Len(pcbs) + 1 IN
             /\ TypeInv' /\ TableInv' /\ EntriesMatch'
             /\ new \notin DOMAIN pcbs /\ DOMAIN pcbs' = DOMAIN pcbs \cup {new}
             /\ \A id \in DOMAIN pcbs : pcbs'[id] = pcbs[id]
             /\ pcbs'[new].name = name /\ Live' = Live \cup {new}
             /\ DOMAIN vMemoryLookup' = DOMAIN vMemoryLookup \cup {name}
<1> DEFINE new == Len(pcbs) + 1
           pcb == [name |-> name, shm |-> NoShm, halted |-> FALSE]
<1> USE DEF IInv
<1>1. DOMAIN pcbs = 1..Len(pcbs) /\ Len(pcbs) \in Nat /\ Live \subseteq DOMAIN pcbs
  BY LiveFinite
<1>2. pcbs \in Seq(PcbType) /\ pcb \in PcbType
  BY DEF TypeInv, PcbType, NoShm
<1>3. /\ pcbs' \in Seq(PcbType) /\ Len(pcbs') = new
      /\ \A id \in DOMAIN pcbs : pcbs'[id] = pcbs[id]
      /\ pcbs'[new] = pcb
  BY <1>1, <1>2, AppendProperties DEF Register
<1>4. DOMAIN pcbs' = DOMAIN pcbs \cup {new} /\ new \notin DOMAIN pcbs
  <2>1. DOMAIN pcbs' = 1..new
    BY <1>3, LenProperties
  <2> QED
    BY <1>1, <2>1
<1>5. Live' = Live \cup {new} /\ new \notin Live
  BY <1>1, <1>3, <1>4 DEF Live
<1>6. vMemory \in Seq(DOMAIN pcbs') /\ new \in DOMAIN pcbs'
  <2>1. vMemory \in Seq(DOMAIN pcbs) /\ DOMAIN pcbs \subseteq DOMAIN pcbs'
    BY <1>4 DEF TypeInv
  <2> QED
    BY <1>4, <2>1, SeqMonotonic
<1>7. /\ vMemory' \in Seq(DOMAIN pcbs') /\ Len(vMemory') = Len(vMemory) + 1
      /\ \A i \in 1..Len(vMemory) : vMemory'[i] = vMemory[i]
      /\ vMemory'[Len(vMemory) + 1] = new
  <2>1. vMemory' = Append(vMemory, new)
    BY <1>3 DEF Register
  <2> QED
    BY <1>6, <2>1, AppendProperties
<1>8. /\ Len(vMemory) \in Nat /\ DOMAIN vMemory = 1..Len(vMemory)
      /\ DOMAIN vMemory' = 1..(Len(vMemory) + 1)
  BY <1>6, <1>7, LenProperties
<1>9. /\ DOMAIN vMemoryLookup' = DOMAIN vMemoryLookup \cup {name}
      /\ vMemoryLookup' \in [DOMAIN vMemoryLookup' -> Nat]
      /\ vMemoryLookup'[name] = Len(vMemory)
      /\ \A n \in DOMAIN vMemoryLookup : n # name => vMemoryLookup'[n] = vMemoryLookup[n]
  <2>1. vMemoryLookup \in [DOMAIN vMemoryLookup -> Nat]
    BY DEF TypeInv
  <2> QED
    BY <1>8, <2>1 DEF Register, Entry
<1>10. TypeInv'
  <2>1. \A id \in DOMAIN pcbs' : pcbs'[id].shm \in 0..Len(shms')
    <3>1. Len(shms) \in Nat
      BY LenProperties DEF TypeInv
    <3>2. \A id \in DOMAIN pcbs : pcbs[id].shm \in 0..Len(shms)
      BY DEF TypeInv
    <3> QED
      BY <1>3, <1>4, <3>1, <3>2 DEF NoShm
  <2> QED
    BY <1>3, <1>7, <1>9, <2>1 DEF TypeInv
<1>11. EntriesMatch'
  <2>1. Cardinality(Live') = Cardinality(Live) + 1
    BY <1>5, LiveFinite, FS_AddElement
  <2> QED
    BY <1>7, <2>1 DEF EntriesMatch
<1>12. TableInv'
  <2> SUFFICES ASSUME Live' = DOMAIN pcbs' PROVE LookupIsIndex' /\ Named'
    BY DEF TableInv
  <2>1. LookupIsIndex /\ Named
    BY <1>1, <1>4, <1>5 DEF TableInv
  <2>2. Named'
    BY <1>3, <1>4, <1>9, <2>1 DEF Named
  <2>3. ASSUME NEW n \in DOMAIN vMemoryLookup'
        PROVE  LET i == vMemoryLookup'[n] + 1 IN i \in DOMAIN vMemory' /\ pcbs'[vMemory'[i]].name = n
    <3>1. CASE n = name
      BY <1>3, <1>7, <1>8, <1>9, <3>1
    <3>2. CASE n # name
      <4> DEFINE i == vMemoryLookup[n] + 1
      <4>1. n \in DOMAIN vMemoryLookup /\ vMemoryLookup'[n] = vMemoryLookup[n]
        BY <1>9, <3>2
      <4>2. i \in DOMAIN vMemory /\ pcbs[vMemory[i]].name = n
        BY <2>1, <4>1 DEF LookupIsIndex
      <4>3. vMemory[i] \in DOMAIN pcbs
        BY <4>2, <1>8, ElementOfSeq DEF TypeInv
      <4> QED
        BY <1>3, <1>7, <1>8, <4>1, <4>2, <4>3
    <3> QED
      BY <3>1, <3>2
  <2> QED
    BY <2>2, <2>3 DEF LookupIsIndex
<1> QED
  BY <1>3, <1>4, <1>5, <1>9, <1>10, <1>11, <1>12

LEMMA LoadProgramKeeps ==
    ASSUME IInv, NEW f \in File, LoadProgram(f) PROVE IInv'
<1>0. PICK new : new = Len(pcbs) + 1
  OBVIOUS
<1> DEFINE name == [file |-> f, forks |-> 0]
<1>1. phase' = phase /\ shms' = shms /\ Register(name) /\ name \in [file : File, forks : Nat]
  BY DEF LoadProgram
<1>2. Claimed(f) \subseteq Cells /\ Capacity \in Nat /\ Load[f] \in Nat /\ Size[f] \in Nat
  BY FileAssumption, CapacityAssumption DEF LoadProgram, Claimed, Cells
<1>3. /\ mark' \in [Cells -> Marks]
      /\ \A i \in Cells : mark'[i] = IF i \in Claimed(f) THEN Used ELSE mark[i]
  BY DEF LoadProgram, Marked, IInv, TypeInv, Marks
<1>4. /\ TypeInv' /\ TableInv' /\ EntriesMatch'
      /\ new \notin DOMAIN pcbs /\ DOMAIN pcbs' = DOMAIN pcbs \cup {new}
      /\ \A id \in DOMAIN pcbs : pcbs'[id] = pcbs[id]
      /\ pcbs'[new].name = name /\ Live' = Live \cup {new}
      /\ DOMAIN vMemoryLookup' = DOMAIN vMemoryLookup \cup {name}
  BY <1>0, <1>1, <1>3, RegisterProperties
<1>5. Image(new)' = Claimed(f)
  BY <1>4 DEF Image, Claimed
<1>6. \A id \in DOMAIN pcbs : Image(id)' = Image(id)
  BY <1>4 DEF Image
<1>7. Live \subseteq DOMAIN pcbs
  BY DEF Live
<1>8. NoLeak'
  <2> SUFFICES ASSUME NEW i \in 0..(Capacity - 1), mark'[i] = Used
               PROVE  \/ \E id \in Live' : i \in Image(id)'
                      \/ \E s \in DOMAIN shms' : shms'[s].count > 0 /\ i \in Block(s)'
    BY DEF NoLeak
  <2>1. i \in Cells
    BY <1>2 DEF Cells
  <2>2. CASE i \in Claimed(f)
    BY <1>2, <1>4, <1>5, <2>2
  <2>3. CASE i \notin Claimed(f)
    <3>1. \/ \E id \in Live : i \in Image(id)
          \/ \E s \in DOMAIN shms : shms[s].count > 0 /\ i \in Block(s)
      BY <1>3, <2>1, <2>3 DEF IInv, NoLeak
    <3> QED
      BY <1>1, <1>4, <1>6, <1>7, <3>1 DEF Block
  <2> QED
    BY <2>2, <2>3
<1>9. Protected'
  <2> SUFFICES ASSUME Unshared', NEW p \in Live'
               PROVE  /\ Image(p)' \subseteq Cells
                      /\ \A i \in Image(p)' : mark'[i] = Used
                      /\ \A q \in Live' \ {p} : Image(p)' \cap Image(q)' = {}
                      /\ pcbs'[p].name \in DOMAIN vMemoryLookup'
    BY DEF Protected
  <2>1. Unshared
    BY <1>1, <1>4 DEF Unshared
  <2>2. \A x \in Live : /\ Image(x) \subseteq Cells
                        /\ \A i \in Image(x) : mark[i] = Used
                        /\ \A q \in Live \ {x} : Image(x) \cap Image(q) = {}
                        /\ pcbs[x].name \in DOMAIN vMemoryLookup
    BY <2>1 DEF IInv, Protected
  <2>3. \A x \in Live : Image(x) \cap Claimed(f) = {}
    BY <2>2 DEF LoadProgram, Occupied, Claimed
  <2>4. CASE p = new
    BY <1>2, <1>3, <1>4, <1>5, <1>6, <1>7, <2>3, <2>4
  <2>5. CASE p # new
    BY <1>2, <1>3, <1>4, <1>5, <1>6, <1>7, <2>2, <2>3, <2>5
  <2> QED
    BY <2>4, <2>5
<1> QED
  BY <1>4, <1>8, <1>9 DEF IInv

LEMMA VForkKeeps ==
    ASSUME IInv, NEW id \in Live, VFork(id) PROVE IInv'
<1> DEFINE new == Len(pcbs) + 1
           name == Child(pcbs[id].name)
<1>0. id \in DOMAIN pcbs /\ pcbs[id] \in PcbType
  BY ElementOfSeq, LiveFinite DEF IInv, TypeInv
<1>1. /\ phase' = phase /\ shms' = shms /\ mark' = mark /\ Register(name)
      /\ name \in [file : File, forks : Nat] /\ name.forks # 0
  BY <1>0 DEF VFork, Child, PcbType
<1>2. /\ TypeInv' /\ TableInv' /\ EntriesMatch'
      /\ new \notin DOMAIN pcbs /\ DOMAIN pcbs' = DOMAIN pcbs \cup {new}
      /\ \A x \in DOMAIN pcbs : pcbs'[x] = pcbs[x]
      /\ pcbs'[new].name = name /\ Live' = Live \cup {new}
  <2>1. mark' \in [Cells -> Marks]
    BY <1>1 DEF IInv, TypeInv
  <2> HIDE DEF name
  <2> QED
    BY <1>1, <2>1, RegisterProperties
<1>3. \A x \in DOMAIN pcbs : Image(x)' = Image(x)
  BY <1>2 DEF Image
<1>4. NoLeak'
  <2>1. Live \subseteq DOMAIN pcbs
    BY DEF Live
  <2> QED
    BY <1>1, <1>2, <1>3, <2>1 DEF IInv, NoLeak, Block
<1>5. ~Unshared'
  BY <1>1, <1>2 DEF Unshared
<1> QED
  BY <1>2, <1>4, <1>5 DEF IInv, Protected

\* Giving two processes a block changes neither who they are nor who is live.
LEMMA LinkProperties ==
    ASSUME TypeInv, NEW p \in DOMAIN pcbs, NEW q \in DOMAIN pcbs, NEW block \in Nat,
           pcbs' = [pcbs EXCEPT ![p].shm = block, ![q].shm = block]
    PROVE  /\ pcbs' \in Seq(PcbType) /\ DOMAIN pcbs' = DOMAIN pcbs
           /\ \A x \in DOMAIN pcbs : /\ pcbs'[x].name = pcbs[x].name
                                     /\ pcbs'[x].halted = pcbs[x].halted
                                     /\ pcbs'[x].shm \in {block, pcbs[x].shm}
<1> DEFINE e1 == [pcbs[p] EXCEPT !.shm = block]
           s1 == [pcbs EXCEPT ![p] = e1]
           e2 == [s1[q] EXCEPT !.shm = block]
           s2 == [s1 EXCEPT ![q] = e2]
<1>1. DOMAIN pcbs = 1..Len(pcbs) /\ pcbs \in Seq(PcbType)
  BY LiveFinite DEF TypeInv
<1>2. \A x \in DOMAIN pcbs : pcbs[x] \in PcbType
  BY <1>1, ElementOfSeq
<1>3. /\ e1 \in PcbType /\ e1.name = pcbs[p].name /\ e1.halted = pcbs[p].halted
      /\ e1.shm = block
  BY <1>2 DEF PcbType
<1> HIDE DEF e1
<1>4. /\ s1 \in Seq(PcbType) /\ Len(s1) = Len(pcbs)
      /\ \A x \in 1..Len(pcbs) : s1[x] = IF x = p THEN e1 ELSE pcbs[x]
  BY <1>1, <1>3, ExceptSeq
<1>5. s1[q] \in PcbType
  BY <1>1, <1>2, <1>3, <1>4
<1>6. e2 \in PcbType /\ e2.name = s1[q].name /\ e2.halted = s1[q].halted /\ e2.shm = block
  BY <1>5 DEF PcbType
<1>7. s2 = pcbs'
  BY DEF e1
<1> HIDE DEF s1, e2
<1>8. /\ s2 \in Seq(PcbType) /\ Len(s2) = Len(s1)
      /\ \A x \in 1..Len(s1) : s2[x] = IF x = q THEN e2 ELSE s1[x]
  BY <1>1, <1>4, <1>6, ExceptSeq
<1>9. DOMAIN pcbs' = 1..Len(pcbs)
  <2> HIDE DEF s2
  <2> QED
    BY <1>4, <1>7, <1>8, LenProperties
<1> HIDE DEF s2
<1>10. \A x \in 1..Len(pcbs) : /\ s2[x].name = pcbs[x].name
                                /\ s2[x].halted = pcbs[x].halted
                                /\ s2[x].shm \in {block, pcbs[x].shm}
  <2>1. \A x \in 1..Len(pcbs) : /\ s1[x].name = pcbs[x].name
                                 /\ s1[x].halted = pcbs[x].halted
                                 /\ s1[x].shm \in {block, pcbs[x].shm}
    BY <1>3, <1>4
  <2>2. \A x \in 1..Len(pcbs) : (s2[x] = e2 /\ x = q) \/ s2[x] = s1[x]
    BY <1>4, <1>8
  <2> QED
    BY <1>1, <1>6, <2>1, <2>2
<1> QED
  BY <1>1, <1>7, <1>8, <1>9, <1>10, Zenon

LEMMA GetPcbRange ==
    ASSUME TypeInv, NEW name PROVE GetPcb(name) \subseteq DOMAIN pcbs
<1>1. \A i \in DOMAIN vMemory : vMemory[i] \in DOMAIN pcbs
  BY ElementOfSeq, LenProperties DEF TypeInv
<1> QED
  BY <1>1 DEF GetPcb

LEMMA OpenSharedMemoryKeeps ==
    ASSUME IInv, NEW one \in DOMAIN vMemoryLookup, NEW two \in DOMAIN vMemoryLookup,
           NEW size \in ShmSizes, OpenSharedMemory(one, two, size)
    PROVE  IInv'
<1>1. TypeInv /\ size \in Nat /\ Capacity \in Nat
  BY ShmAssumption, CapacityAssumption DEF IInv
<1>2. PICK p \in GetPcb(one), q \in GetPcb(two) :
         LET closed == Unlinked(Unlinked([mark |-> mark, shms |-> shms], pcbs[p].shm), pcbs[q].shm)
             addr == AllocateSharedMemory(closed.mark, size)
             new == Len(shms) + 1
         IN  IF Failed(addr)
             THEN /\ mark' = closed.mark /\ shms' = closed.shms
                  /\ UNCHANGED <<phase, pcbs>>
             ELSE /\ phase' = IF addr + size \in Cells THEN "up" ELSE "corrupt"
                  /\ mark' = Marked(closed.mark, addr..(addr + size), Used)
                  /\ shms' = Append(closed.shms, [addr |-> addr, size |-> size, count |-> 2])
                  /\ pcbs' = [pcbs EXCEPT ![p].shm = new, ![q].shm = new]
  BY DEF OpenSharedMemory
<1>3. p \in DOMAIN pcbs /\ q \in DOMAIN pcbs
  BY <1>1, GetPcbRange
<1>4. UNCHANGED <<vMemory, vMemoryLookup>> /\ phase = "up"
  BY DEF OpenSharedMemory
<1> DEFINE first == Unlinked([mark |-> mark, shms |-> shms], pcbs[p].shm)
           closed == Unlinked(first, pcbs[q].shm)
           addr == AllocateSharedMemory(closed.mark, size)
           new == Len(shms) + 1
<1>5. /\ mark \in [Cells -> Marks] /\ shms \in Seq(ShmType) /\ Len(shms) \in Nat
      /\ pcbs[p].shm \in 0..Len(shms) /\ pcbs[q].shm \in 0..Len(shms)
      /\ DOMAIN shms = 1..Len(shms)
  BY <1>1, <1>3, LenProperties DEF TypeInv
<1>6. PICK st : st = [mark |-> mark, shms |-> shms]
  OBVIOUS
<1>7. st \in MarkState /\ st.mark = mark /\ st.shms = shms
  BY <1>5, <1>6 DEF MarkState
<1>8. first = Unlinked(st, pcbs[p].shm)
  BY <1>6
<1> HIDE DEF first
<1>9. first \in MarkState /\ Closes(st, first) /\ (pcbs[p].shm = NoShm => first = st)
  BY <1>5, <1>7, <1>8, UnlinkedProperties
<1>10. /\ closed \in MarkState /\ Closes(st, closed)
       /\ pcbs[p].shm = NoShm /\ pcbs[q].shm = NoShm => closed = st
  <2>1. pcbs[q].shm \in 0..Len(first.shms)
    BY <1>5, <1>7, <1>9 DEF Closes
  <2>2. closed \in MarkState /\ Closes(first, closed) /\ (pcbs[q].shm = NoShm => closed = first)
    BY <1>9, <2>1, UnlinkedProperties
  <2> HIDE DEF closed
  <2> QED
    BY <1>9, <2>2, ClosesTransitive
<1>11. \/ Failed(addr) /\ mark' = closed.mark /\ shms' = closed.shms /\ UNCHANGED <<phase, pcbs>>
       \/ /\ ~Failed(addr)
          /\ phase' \in {"up", "corrupt"}
          /\ mark' = Marked(closed.mark, addr..(addr + size), Used)
          /\ shms' = Append(closed.shms, [addr |-> addr, size |-> size, count |-> 2])
          /\ pcbs' = [pcbs EXCEPT ![p].shm = new, ![q].shm = new]
  BY <1>2 DEF first
<1> HIDE DEF closed
<1>20. /\ closed.mark \in [Cells -> Marks]
       /\ closed.shms \in Seq(ShmType) /\ Len(closed.shms) = Len(shms)
       /\ \A t \in DOMAIN shms : closed.shms[t].addr = shms[t].addr /\ closed.shms[t].size = shms[t].size
       /\ \A i \in Cells : closed.mark[i] = Used =>
            /\ mark[i] = Used
            /\ \A t \in DOMAIN shms : shms[t].count > 0 /\ i \in Block(t) => closed.shms[t].count > 0
       /\ pcbs[p].shm = NoShm /\ pcbs[q].shm = NoShm => closed.mark = mark /\ closed.shms = shms
  BY <1>5, <1>7, <1>10 DEF MarkState, Closes
<1>12. ~Failed(addr) => addr \in 0..Capacity
  BY <1>1, AllocationRange
<1> HIDE DEF addr
<1>13. CASE Failed(addr) /\ mark' = closed.mark /\ shms' = closed.shms /\ UNCHANGED <<phase, pcbs>>
  <2>1. DOMAIN shms' = DOMAIN shms /\ Len(shms') = Len(shms)
    BY <1>5, <1>20, <1>13, LenProperties
  <2>2. Live' = Live /\ \A id \in DOMAIN pcbs : Image(id)' = Image(id)
    BY <1>13 DEF Live, Image
  <2>3. TypeInv'
    BY <1>1, <1>4, <1>20, <1>13, <2>1 DEF TypeInv
  <2>4. TableInv' /\ EntriesMatch'
    BY <1>4, <1>13, <2>2 DEF IInv, TableInv, LookupIsIndex, Named, EntriesMatch
  <2>5. \A t \in DOMAIN shms : Block(t)' = Block(t)
    BY <1>20, <1>13 DEF Block
  <2>6. NoLeak'
    <3>1. 0..(Capacity - 1) \subseteq Cells
      BY <1>1 DEF Cells
    <3>2. Live \subseteq DOMAIN pcbs
      BY DEF Live
    <3> QED
      BY <1>20, <1>13, <2>1, <2>2, <2>5, <3>1, <3>2 DEF IInv, NoLeak
  <2>7. Protected'
    <3> SUFFICES ASSUME Unshared' PROVE Protected'
      BY DEF Protected
    <3>1. Len(shms) = 0
      <4>1. shms' = <<>>
        BY DEF Unshared
      <4> QED
        BY <4>1, <2>1
    <3>2. shms = <<>> /\ pcbs[p].shm = NoShm /\ pcbs[q].shm = NoShm
      BY <1>5, <3>1, EmptySeq DEF NoShm
    <3>3. Unshared /\ mark' = mark
      BY <1>20, <1>13, <3>2 DEF Unshared
    <3> QED
      BY <1>4, <1>13, <2>2, <3>3 DEF IInv, Protected, Live
  <2> QED
    BY <2>3, <2>4, <2>6, <2>7 DEF IInv
<1>14. CASE /\ ~Failed(addr)
            /\ phase' \in {"up", "corrupt"}
            /\ mark' = Marked(closed.mark, addr..(addr + size), Used)
            /\ shms' = Append(closed.shms, [addr |-> addr, size |-> size, count |-> 2])
            /\ pcbs' = [pcbs EXCEPT ![p].shm = new, ![q].shm = new]
  <2> DEFINE block == [addr |-> addr, size |-> size, count |-> 2]
  <2>1. block \in ShmType
    BY <1>12, <1>14 DEF ShmType
  <2>2. /\ shms' \in Seq(ShmType) /\ Len(shms') = new /\ shms'[new] = block
        /\ \A t \in DOMAIN shms : shms'[t] = closed.shms[t]
    BY <1>5, <1>20, <1>14, <2>1, AppendProperties
  <2>3. DOMAIN shms' = DOMAIN shms \cup {new}
    <3>1. DOMAIN shms' = 1..new
      BY <2>2, LenProperties
    <3> QED
      BY <3>1, <1>5
  <2>4. /\ pcbs' \in Seq(PcbType) /\ DOMAIN pcbs' = DOMAIN pcbs
        /\ \A x \in DOMAIN pcbs : /\ pcbs'[x].name = pcbs[x].name
                                  /\ pcbs'[x].halted = pcbs[x].halted
                                  /\ pcbs'[x].shm \in {new, pcbs[x].shm}
    <3>1. new \in Nat
      BY <1>5
    <3> HIDE DEF new
    <3> QED
      BY <1>1, <1>3, <3>1, <1>14, LinkProperties
  <2>5. Live' = Live /\ \A id \in DOMAIN pcbs : Image(id)' = Image(id)
    BY <2>4 DEF Live, Image
  <2>6. /\ mark' \in [Cells -> Marks]
        /\ \A i \in Cells : mark'[i] = IF i \in addr..(addr + size) THEN Used ELSE closed.mark[i]
    BY <1>20, <1>14 DEF Marked, Marks
  <2>7. TypeInv'
    <3>1. \A x \in DOMAIN pcbs' : pcbs'[x].shm \in 0..Len(shms')
      <4>1. \A x \in DOMAIN pcbs : pcbs[x].shm \in 0..Len(shms)
        BY <1>1 DEF TypeInv
      <4>2. new \in 0..Len(shms') /\ \A k \in 0..Len(shms) : k \in 0..Len(shms')
        BY <1>5, <2>2
      <4> HIDE DEF new
      <4> QED
        BY <2>4, <4>1, <4>2
    <3>2. phase' \in {"up"} \cup Died
      BY <1>14 DEF Died
    <3> QED
      BY <1>1, <1>4, <2>2, <2>4, <2>6, <3>1, <3>2 DEF TypeInv
  <2>8. TableInv'
    <3>1. Named => Named'
      BY <1>4, <2>4 DEF Named
    <3>2. LookupIsIndex => LookupIsIndex'
      <4>1. \A i \in DOMAIN vMemory : vMemory[i] \in DOMAIN pcbs
        BY <1>1, ElementOfSeq, LenProperties DEF TypeInv
      <4> QED
        BY <1>4, <2>4, <4>1 DEF LookupIsIndex
    <3> QED
      BY <2>4, <2>5, <3>1, <3>2 DEF IInv, TableInv
  <2>9. EntriesMatch'
    BY <1>4, <2>5 DEF IInv, EntriesMatch
  <2>10. NoLeak'
    <3> SUFFICES ASSUME NEW i \in 0..(Capacity - 1), mark'[i] = Used
                 PROVE  \/ \E id \in Live' : i \in Image(id)'
                        \/ \E t \in DOMAIN shms' : shms'[t].count > 0 /\ i \in Block(t)'
      BY DEF NoLeak
    <3>1. i \in Cells
      BY <1>1 DEF Cells
    <3>2. CASE i \in addr..(addr + size)
      <4>1. PICK t : t = new
        OBVIOUS
      <4>2. i \in Block(t)' /\ shms'[t].count > 0 /\ t \in DOMAIN shms'
        BY <2>2, <2>3, <3>2, <4>1 DEF Block
      <4> QED
        BY <4>2
    <3>3. CASE i \notin addr..(addr + size)
      <4>1. closed.mark[i] = Used
        BY <2>6, <3>1, <3>3
      <4>2. CASE \E id \in Live : i \in Image(id)
        BY <2>5, <4>2 DEF Live
      <4>3. CASE \E t \in DOMAIN shms : shms[t].count > 0 /\ i \in Block(t)
        <5>1. PICK t \in DOMAIN shms : shms[t].count > 0 /\ i \in Block(t)
          BY <4>3
        <5>2. shms'[t].count > 0 /\ i \in Block(t)' /\ t \in DOMAIN shms'
          BY <1>20, <2>2, <2>3, <3>1, <4>1, <5>1 DEF Block
        <5> QED
          BY <5>2
      <4>4. mark[i] = Used
        BY <1>20, <3>1, <4>1
      <4> QED
        BY <4>2, <4>3, <4>4 DEF IInv, NoLeak
    <3> QED
      BY <3>2, <3>3
  <2>11. ~Unshared'
    <3>1. Len(shms') # 0
      BY <1>5, <2>2
    <3> QED
      BY <3>1 DEF Unshared
  <2> QED
    BY <2>7, <2>8, <2>9, <2>10, <2>11 DEF IInv, Protected
<1> QED
  BY <1>11, <1>13, <1>14

LEMMA BadLookupKeeps ==
    ASSUME IInv, NEW name \in DOMAIN vMemoryLookup, BadLookup(name) PROVE IInv'
<1>1. UNCHANGED <<mark, pcbs, vMemory, vMemoryLookup, shms>> /\ phase' = "badTable"
  BY DEF BadLookup
<1>2. Live' = Live /\ \A id : Image(id)' = Image(id) /\ Block(id)' = Block(id)
  BY <1>1 DEF Live, Image, Block
<1>3. TypeInv'
  BY <1>1 DEF IInv, TypeInv, Died
<1>4. TableInv' /\ EntriesMatch'
  BY <1>1, <1>2 DEF IInv, TableInv, LookupIsIndex, Named, EntriesMatch
<1>5. NoLeak'
  BY <1>1, <1>2 DEF IInv, NoLeak
<1>6. Protected'
  BY <1>1, <1>2 DEF IInv, Protected, Unshared
<1> QED
  BY <1>3, <1>4, <1>5, <1>6 DEF IInv

\* deallocateMemory takes one entry out of a table that has one, whichever it is.
LEMMA ErasedProperties ==
    ASSUME TypeInv, vMemory # <<>>, NEW i \in Nat \ {0}
    PROVE  Erased(i) \in Seq(DOMAIN pcbs) /\ Len(Erased(i)) = Len(vMemory) - 1
<1>1. /\ vMemory \in Seq(DOMAIN pcbs) /\ Len(vMemory) \in Nat /\ DOMAIN vMemory = 1..Len(vMemory)
      /\ \A j \in 1..Len(vMemory) : vMemory[j] \in DOMAIN pcbs
  <2>1. vMemory \in Seq(DOMAIN pcbs) BY DEF TypeInv
  <2> QED BY <2>1, LenProperties, ElementOfSeq
<1>2. Len(vMemory) >= 1
  <2>1. Len(vMemory) # 0
    BY <1>1, EmptySeq, Zenon
  <2> QED
    BY <1>1, <2>1
<1>3. CASE i \in DOMAIN vMemory
  <2>1. /\ SubSeq(vMemory, 1, i - 1) \in Seq(DOMAIN pcbs)
        /\ Len(SubSeq(vMemory, 1, i - 1)) = i - 1
    <3>1. \A j \in 1..(i - 1) : vMemory[j] \in DOMAIN pcbs
      BY <1>1, <1>3
    <3> QED
      BY <1>1, <1>3, <3>1, SubSeqProperties
  <2>2. /\ SubSeq(vMemory, i + 1, Len(vMemory)) \in Seq(DOMAIN pcbs)
        /\ Len(SubSeq(vMemory, i + 1, Len(vMemory))) = Len(vMemory) - i
    <3>1. PICK m : m = i + 1
      OBVIOUS
    <3>2. PICK n : n = Len(vMemory)
      OBVIOUS
    <3>3. m \in Int /\ n \in Int /\ \A j \in m..n : vMemory[j] \in DOMAIN pcbs
      BY <1>1, <1>3, <3>1, <3>2
    <3>4. /\ SubSeq(vMemory, m, n) \in Seq(DOMAIN pcbs)
          /\ Len(SubSeq(vMemory, m, n)) = IF m <= n THEN n - m + 1 ELSE 0
      BY <3>3, SubSeqProperties
    <3>5. i \in Int /\ n \in Int /\ 1 <= i /\ i <= n
      BY <1>1, <1>3, <3>2
    <3>6. IF m <= n THEN n - m + 1 = n - i ELSE 0 = n - i
      BY <3>1, <3>5
    <3> QED
      BY <3>1, <3>2, <3>4, <3>6, Zenon
  <2>3. Erased(i) = SubSeq(vMemory, 1, i - 1) \o SubSeq(vMemory, i + 1, Len(vMemory))
    BY <1>3 DEF Erased, RemoveAt
  <2>4. (i - 1) + (Len(vMemory) - i) = Len(vMemory) - 1
    BY <1>1, <1>3
  <2>5. /\ Erased(i) \in Seq(DOMAIN pcbs)
        /\ Len(Erased(i)) = Len(SubSeq(vMemory, 1, i - 1)) + Len(SubSeq(vMemory, i + 1, Len(vMemory)))
    BY <2>1, <2>2, <2>3, ConcatProperties
  <2> QED
    BY <2>1, <2>2, <2>4, <2>5, Zenon
<1>4. CASE i \notin DOMAIN vMemory
  <2>1. \A j \in 1..(Len(vMemory) - 1) : vMemory[j] \in DOMAIN pcbs
    BY <1>1
  <2>2. Erased(i) = SubSeq(vMemory, 1, Len(vMemory) - 1)
    BY <1>4 DEF Erased, Front
  <2> QED
    BY <1>1, <1>2, <2>1, <2>2, SubSeqProperties
<1> QED
  BY <1>3, <1>4

LEMMA MarkStateShms == ASSUME NEW st \in MarkState PROVE st.shms \in Seq(ShmType)
BY DEF MarkState

LEMMA DeallocateMemoryKeeps ==
    ASSUME IInv, NEW id \in Live, DeallocateMemory(id) PROVE IInv'
<1> DEFINE name == pcbs[id].name
           freed == Unlinked([mark |-> mark, shms |-> shms], pcbs[id].shm)
<1>1. /\ TypeInv /\ phase = "up" /\ Capacity \in Nat /\ Live \subseteq DOMAIN pcbs
      /\ DOMAIN pcbs = 1..Len(pcbs) /\ IsFiniteSet(Live) /\ Cardinality(Live) \in Nat
  BY CapacityAssumption, LiveFinite DEF IInv, DeallocateMemory
<1>2. /\ mark' = Marked(freed.mark, Image(id), Free) /\ shms' = freed.shms
      /\ \/ /\ name \notin DOMAIN vMemoryLookup
            /\ phase' = "badTable" /\ UNCHANGED <<vMemory, vMemoryLookup, pcbs>>
         \/ /\ name \in DOMAIN vMemoryLookup
            /\ phase' \in {"up", "badTable"}
            /\ vMemory' = Erased(vMemoryLookup[name] + 1)
            /\ vMemoryLookup' = [n \in DOMAIN vMemoryLookup \ {name} |-> vMemoryLookup[n]]
            /\ pcbs' = [pcbs EXCEPT ![id].halted = TRUE]
  BY DEF DeallocateMemory, CellsFreed
<1>3. /\ mark \in [Cells -> Marks] /\ shms \in Seq(ShmType) /\ Len(shms) \in Nat
      /\ DOMAIN shms = 1..Len(shms) /\ pcbs[id].shm \in 0..Len(shms)
  BY <1>1, LenProperties DEF TypeInv
<1>4. PICK st : st = [mark |-> mark, shms |-> shms]
  OBVIOUS
<1>5. st \in MarkState /\ st.mark = mark /\ st.shms = shms /\ freed = Unlinked(st, pcbs[id].shm)
  BY <1>3, <1>4 DEF MarkState
<1> HIDE DEF freed
<1>6. freed \in MarkState /\ Closes(st, freed) /\ (pcbs[id].shm = NoShm => freed = st)
  BY <1>3, <1>5, UnlinkedProperties
<1>7. /\ mark' \in [Cells -> Marks]
      /\ \A i \in Cells : mark'[i] = IF i \in Image(id) THEN Free ELSE freed.mark[i]
  BY <1>2, <1>6 DEF Marked, Marks, MarkState
<1>8. /\ shms' \in Seq(ShmType) /\ Len(shms') = Len(shms) /\ DOMAIN shms' = DOMAIN shms
      /\ \A t \in DOMAIN shms : shms'[t].addr = shms[t].addr /\ shms'[t].size = shms[t].size
  <2>1. shms' \in Seq(ShmType) /\ Len(shms') = Len(shms)
    <3>1. freed.shms \in Seq(ShmType)
      BY <1>6, MarkStateShms, Zenon
    <3>2. Len(freed.shms) = Len(st.shms)
      BY <1>6 DEF Closes
    <3> QED
      BY <1>2, <1>5, <3>1, <3>2, Zenon
  <2>2. DOMAIN shms' = DOMAIN shms
    BY <1>3, <2>1, LenProperties
  <2> QED
    BY <1>2, <1>3, <1>5, <1>6, <2>1, <2>2 DEF Closes
<1>9. \A i \in Cells : mark'[i] = Used =>
         /\ i \notin Image(id) /\ mark[i] = Used
         /\ \A t \in DOMAIN shms : shms[t].count > 0 /\ i \in Block(t) =>
              shms'[t].count > 0 /\ i \in Block(t)'
  <2> SUFFICES ASSUME NEW i \in Cells, mark'[i] = Used
               PROVE  /\ i \notin Image(id) /\ mark[i] = Used
                      /\ \A t \in DOMAIN shms : shms[t].count > 0 /\ i \in Block(t) =>
                           shms'[t].count > 0 /\ i \in Block(t)'
    OBVIOUS
  <2>1. i \notin Image(id) /\ freed.mark[i] = Used
    BY <1>7 DEF Free, Used
  <2>2. /\ mark[i] = Used
        /\ \A t \in 1..Len(shms) : shms[t].count > 0 /\ i \in Block(t) =>
              shms'[t].count > 0
    BY <1>2, <1>5, <1>6, <2>1 DEF Closes
  <2>3. \A t \in DOMAIN shms : (i \in Block(t)) = (i \in Block(t)')
    BY <1>8 DEF Block
  <2> QED
    BY <1>3, <2>1, <2>2, <2>3 DEF Block
<1>10. /\ pcbs' \in Seq(PcbType) /\ DOMAIN pcbs' = DOMAIN pcbs
       /\ \A x \in DOMAIN pcbs : pcbs'[x].name = pcbs[x].name /\ pcbs'[x].shm = pcbs[x].shm
       /\ \/ name \notin DOMAIN vMemoryLookup /\ Live' = Live /\ pcbs' = pcbs
          \/ name \in DOMAIN vMemoryLookup /\ Live' = Live \ {id}
  <2>1. CASE name \notin DOMAIN vMemoryLookup
    BY <1>1, <1>2, <2>1 DEF TypeInv, Live
  <2>2. CASE name \in DOMAIN vMemoryLookup
    <3> DEFINE e == [pcbs[id] EXCEPT !.halted = TRUE]
    <3>1. pcbs[id] \in PcbType
      BY <1>1, ElementOfSeq DEF TypeInv
    <3>2. e \in PcbType /\ e.name = pcbs[id].name /\ e.shm = pcbs[id].shm /\ e.halted = TRUE
      BY <3>1 DEF PcbType
    <3>3. pcbs' = [pcbs EXCEPT ![id] = e]
      BY <1>2, <2>2
    <3> HIDE DEF e
    <3>4. /\ pcbs' \in Seq(PcbType) /\ Len(pcbs') = Len(pcbs)
          /\ \A x \in 1..Len(pcbs) : pcbs'[x] = IF x = id THEN e ELSE pcbs[x]
      BY <1>1, <3>2, <3>3, ExceptSeq DEF TypeInv
    <3>5. DOMAIN pcbs' = DOMAIN pcbs
      BY <1>1, <3>4, LenProperties
    <3>6. Live' = Live \ {id}
      BY <1>1, <3>2, <3>4, <3>5 DEF Live
    <3> QED
      BY <1>1, <2>2, <3>2, <3>4, <3>5, <3>6
  <2> QED
    BY <2>1, <2>2
<1>11. Len(vMemory) = Cardinality(Live) /\ vMemory # <<>>
  <2>1. Len(vMemory) = Cardinality(Live)
    BY <1>1 DEF IInv, EntriesMatch
  <2>2. Cardinality(Live) # 0
    BY <1>1, FS_EmptySet
  <2> QED
    BY <2>1, <2>2
<1>12. \A x \in DOMAIN pcbs : Image(x)' = Image(x)
  BY <1>10 DEF Image
<1>13. /\ vMemory' \in Seq(DOMAIN pcbs)
       /\ vMemoryLookup' \in [DOMAIN vMemoryLookup' -> Nat]
       /\ name \in DOMAIN vMemoryLookup =>
            /\ Len(vMemory') = Len(vMemory) - 1
            /\ DOMAIN vMemoryLookup' = DOMAIN vMemoryLookup \ {name}
  <2>1. CASE name \notin DOMAIN vMemoryLookup
    BY <1>1, <1>2, <2>1 DEF TypeInv
  <2>2. CASE name \in DOMAIN vMemoryLookup
    <3>1. vMemoryLookup \in [DOMAIN vMemoryLookup -> Nat]
      BY <1>1 DEF TypeInv
    <3>2. vMemoryLookup[name] + 1 \in Nat \ {0}
      BY <2>2, <3>1
    <3>3. vMemory' \in Seq(DOMAIN pcbs) /\ Len(vMemory') = Len(vMemory) - 1
      BY <1>1, <1>2, <1>11, <2>2, <3>2, ErasedProperties
    <3> QED
      BY <1>2, <2>2, <3>1, <3>3
  <2> QED
    BY <2>1, <2>2
<1>14. TypeInv'
  <2>1. \A x \in DOMAIN pcbs' : pcbs'[x].shm \in 0..Len(shms')
    BY <1>1, <1>8, <1>10 DEF TypeInv
  <2>2. phase' \in {"up"} \cup Died
    BY <1>2 DEF Died
  <2> QED
    BY <1>7, <1>8, <1>10, <1>13, <2>1, <2>2 DEF TypeInv
<1>15. EntriesMatch'
  <2> SUFFICES ASSUME phase' = "up" PROVE Len(vMemory') = Cardinality(Live')
    BY DEF EntriesMatch
  <2>1. name \in DOMAIN vMemoryLookup
    BY <1>2
  <2>2. Cardinality(Live') = Cardinality(Live) - 1
    BY <1>1, <1>10, <2>1, FS_RemoveElement
  <2> QED
    BY <1>11, <1>13, <2>1, <2>2
<1>16. TableInv'
  <2>1. CASE name \notin DOMAIN vMemoryLookup
    BY <1>2, <1>10, <2>1 DEF IInv, TableInv, LookupIsIndex, Named
  <2>2. CASE name \in DOMAIN vMemoryLookup
    BY <1>1, <1>10, <2>2 DEF TableInv
  <2> QED
    BY <2>1, <2>2
<1>17. NoLeak'
  <2> SUFFICES ASSUME NEW i \in 0..(Capacity - 1), mark'[i] = Used
               PROVE  \/ \E x \in Live' : i \in Image(x)'
                      \/ \E t \in DOMAIN shms' : shms'[t].count > 0 /\ i \in Block(t)'
    BY DEF NoLeak
  <2>1. i \in Cells
    BY <1>1 DEF Cells
  <2>2. i \notin Image(id) /\ mark[i] = Used
    BY <1>9, <2>1
  <2>3. CASE \E x \in Live : i \in Image(x)
    BY <1>1, <1>10, <1>12, <2>2, <2>3
  <2>4. CASE \E t \in DOMAIN shms : shms[t].count > 0 /\ i \in Block(t)
    BY <1>8, <1>9, <2>1, <2>4
  <2> QED
    BY <2>2, <2>3, <2>4 DEF IInv, NoLeak
<1>18. Protected'
  <2> SUFFICES ASSUME Unshared', NEW p \in Live'
               PROVE  /\ Image(p)' \subseteq Cells
                      /\ \A i \in Image(p)' : mark'[i] = Used
                      /\ \A q \in Live' \ {p} : Image(p)' \cap Image(q)' = {}
                      /\ pcbs'[p].name \in DOMAIN vMemoryLookup'
    BY DEF Protected
  <2>1. Len(shms) = 0
    <3>1. shms' = <<>>
      BY DEF Unshared
    <3> QED
      BY <1>8, <3>1
  <2>2. shms = <<>> /\ pcbs[id].shm = NoShm
    BY <1>3, <2>1, EmptySeq DEF NoShm
  <2>3. Unshared
    BY <1>10, <2>2 DEF Unshared
  <2>4. \A x \in Live : /\ Image(x) \subseteq Cells
                        /\ \A i \in Image(x) : mark[i] = Used
                        /\ \A q \in Live \ {x} : Image(x) \cap Image(q) = {}
                        /\ pcbs[x].name \in DOMAIN vMemoryLookup
    BY <2>3 DEF IInv, Protected
  <2>5. name \in DOMAIN vMemoryLookup /\ Live' = Live \ {id}
    BY <1>10, <2>4
  <2>6. \A i \in Cells : i \notin Image(id) => mark'[i] = mark[i]
    BY <1>5, <1>6, <1>7, <2>2
  <2>7. p \in Live /\ p # id /\ Image(p) \cap Image(id) = {}
    BY <2>4, <2>5
  <2>8. pcbs[p].name # name
    <3> SUFFICES ASSUME pcbs[p].name = name PROVE FALSE
      OBVIOUS
    <3>1. Image(p) = Image(id)
      BY DEF Image
    <3>2. pcbs[id].name.file \in File
      <4>1. pcbs[id] \in PcbType
        BY <1>1, ElementOfSeq DEF TypeInv
      <4> QED
        BY <4>1 DEF PcbType
    <3>3. Load[pcbs[id].name.file] \in Image(id)
      BY <3>2, FileAssumption DEF Image
    <3> QED
      BY <2>7, <3>1, <3>3
  <2>9. pcbs'[p].name \in DOMAIN vMemoryLookup'
    BY <1>1, <1>10, <1>13, <2>4, <2>5, <2>7, <2>8
  <2> QED
    BY <1>1, <1>12, <2>4, <2>5, <2>6, <2>7, <2>9
<1> QED
  BY <1>14, <1>15, <1>16, <1>17, <1>18 DEF IInv

----------------------------------------------------------------------------
(* The theorems. *)

LEMMA InitIInv == Init => IInv
<1> SUFFICES ASSUME Init PROVE IInv
  OBVIOUS
<1> USE DEF Init
<1>1. Live = {} /\ DOMAIN pcbs = {}
  BY DEF Live
<1>2. mark \in [Cells -> Marks] /\ \A i \in 0..(Capacity - 1) : mark[i] # Used
  BY CapacityAssumption DEF Marks, Cells, Free, Used, Garbage
<1>3. TypeInv
  BY <1>1, <1>2 DEF TypeInv
<1>4. TableInv
  BY <1>1 DEF TableInv, LookupIsIndex, Named
<1>5. EntriesMatch
  BY <1>1, FS_EmptySet DEF EntriesMatch
<1>6. NoLeak /\ Protected
  BY <1>1, <1>2 DEF NoLeak, Protected
<1> QED
  BY <1>3, <1>4, <1>5, <1>6 DEF IInv

LEMMA NextKeeps == IInv /\ [Next]_vars => IInv'
<1> SUFFICES ASSUME IInv, [Next]_vars PROVE IInv'
  OBVIOUS
<1>1. ASSUME NEW f \in File, LoadProgram(f) PROVE IInv'
  BY <1>1, LoadProgramKeeps
<1>2. ASSUME NEW id \in Live, VFork(id) PROVE IInv'
  BY <1>2, VForkKeeps
<1>3. ASSUME NEW id \in Live, DeallocateMemory(id) PROVE IInv'
  BY <1>3, DeallocateMemoryKeeps
<1>4. ASSUME NEW one \in DOMAIN vMemoryLookup, NEW two \in DOMAIN vMemoryLookup,
             NEW size \in ShmSizes, OpenSharedMemory(one, two, size)
      PROVE  IInv'
  BY <1>4, OpenSharedMemoryKeeps
<1>5. ASSUME NEW name \in DOMAIN vMemoryLookup, BadLookup(name) PROVE IInv'
  BY <1>5, BadLookupKeeps
<1>6. CASE UNCHANGED vars
  <2>1. UNCHANGED <<phase, mark, pcbs, vMemory, vMemoryLookup, shms>>
    BY <1>6 DEF vars
  <2>2. Live' = Live /\ \A id : Image(id)' = Image(id) /\ Block(id)' = Block(id)
    BY <2>1 DEF Live, Image, Block
  <2>3. TypeInv' /\ TableInv' /\ EntriesMatch'
    BY <2>1, <2>2 DEF IInv, TypeInv, TableInv, LookupIsIndex, Named, EntriesMatch
  <2>4. NoLeak' /\ Protected'
    BY <2>1, <2>2 DEF IInv, NoLeak, Protected, Unshared
  <2> QED
    BY <2>3, <2>4 DEF IInv
<1> QED
  BY <1>1, <1>2, <1>3, <1>4, <1>5, <1>6 DEF Next, Dead

\* The inductive invariant holds in every reachable state.
THEOREM Invariance == Spec => []IInv
<1> QED
  BY InitIInv, NextKeeps, PTL DEF Spec

\* Marks, table and blocks have their types: no entry of the table, whether right
\* or stale, ever holds anything but a PCB, and every block begins in the memory.
THEOREM TypeCorrect == Spec => []MemTypeOK
<1>1. IInv => MemTypeOK
  <2> SUFFICES ASSUME TypeInv PROVE MemTypeOK
    BY DEF IInv
  <2>1. \A id \in DOMAIN pcbs :
          pcbs[id] \in [name : [file : File, forks : Nat], shm : 0..Len(shms), halted : BOOLEAN]
    <3> SUFFICES ASSUME NEW id \in DOMAIN pcbs
                 PROVE  pcbs[id] \in [name : [file : File, forks : Nat],
                                      shm : 0..Len(shms), halted : BOOLEAN]
      OBVIOUS
    <3>1. pcbs[id] \in PcbType /\ pcbs[id].shm \in 0..Len(shms)
      BY LiveFinite, ElementOfSeq DEF TypeInv
    <3> QED
      BY <3>1 DEF PcbType
  <2>2. \A s \in DOMAIN shms : shms[s] \in ShmType
    BY ElementOfSeq, LenProperties DEF TypeInv
  <2>3. \A s \in DOMAIN shms : shms[s].addr \in 0..Capacity /\ shms[s].count \in Int
    BY <2>2 DEF ShmType
  <2> QED
    BY <2>1, <2>3 DEF TypeInv, MemTypeOK, Marks
<1> QED
  BY <1>1, Invariance, PTL

\* Until a process has halted, every stored index is the index of its name.
THEOREM RightBeforeHaltHolds == Spec => []RightBeforeHalt
<1>1. IInv => RightBeforeHalt
  BY DEF IInv, TableInv, RightBeforeHalt
<1> QED
  BY <1>1, Invariance, PTL

\* The step that stops the program on the table comes after a halt.
LEMMA DiesStale ==
    ASSUME IInv, Next, vars' # vars, phase' = "badTable"
    PROVE  Live # DOMAIN pcbs
<1> SUFFICES ASSUME Live = DOMAIN pcbs PROVE FALSE
  OBVIOUS
<1>1. LookupIsIndex /\ Named
  BY DEF IInv, TableInv
<1>2. DOMAIN vMemory = 1..Len(vMemory) /\ Len(vMemory) \in Nat
  BY LenProperties DEF IInv, TypeInv
<1>3. \A n : ~OutOfTable(n)
  <2>1. \A n \in DOMAIN vMemoryLookup : vMemoryLookup[n] \in Nat
    BY DEF IInv, TypeInv
  <2> QED
    BY <1>1, <1>2, <2>1 DEF LookupIsIndex, OutOfTable
<1>4. ASSUME NEW f \in File, LoadProgram(f) PROVE FALSE
  BY <1>4 DEF LoadProgram
<1>5. ASSUME NEW id \in Live, VFork(id) PROVE FALSE
  BY <1>5 DEF VFork
<1>6. ASSUME NEW id \in Live, DeallocateMemory(id) PROVE FALSE
  BY <1>1, <1>3, <1>6 DEF DeallocateMemory, Named
<1>7. ASSUME NEW one \in DOMAIN vMemoryLookup, NEW two \in DOMAIN vMemoryLookup,
             NEW size \in ShmSizes, OpenSharedMemory(one, two, size)
      PROVE  FALSE
  BY <1>7 DEF OpenSharedMemory
<1>8. ASSUME NEW n \in DOMAIN vMemoryLookup, BadLookup(n) PROVE FALSE
  BY <1>3, <1>8 DEF BadLookup
<1> QED
  BY <1>4, <1>5, <1>6, <1>7, <1>8 DEF Next, Dead

\* The table stops the program, by at() or by an index past the end, only once some
\* process has halted: this is what module Scheduler assumes.
StaleNeedsHalt == [][phase' = "badTable" => Live # DOMAIN pcbs]_vars

\* at() throws, or an index is past the end, after a halt only.
THEOREM StaleNeedsHaltHolds == Spec => StaleNeedsHalt
<1>1. IInv /\ [Next]_vars => [phase' = "badTable" => Live # DOMAIN pcbs]_vars
  BY DiesStale
<1> QED
  BY <1>1, Invariance, PTL DEF Spec, StaleNeedsHalt

\* However stale the indices are, the table has one entry for each live process.
THEOREM EntriesMatchHolds == Spec => []EntriesMatch
<1>1. IInv => EntriesMatch
  BY DEF IInv
<1> QED
  BY <1>1, Invariance, PTL

\* No cell stays marked without a live process or an open block that has it.
THEOREM NoLeakHolds == Spec => []NoLeak
<1>1. IInv => NoLeak
  BY DEF IInv
<1> QED
  BY <1>1, Invariance, PTL

\* Without fork and shared memory, the marks keep live processes apart.
THEOREM MarksProtectHolds == Spec => []MarksProtect
<1>1. IInv => MarksProtect
  BY DEF IInv, Protected, Unshared, MarksProtect
<1> QED
  BY <1>1, Invariance, PTL
=============================================================================
