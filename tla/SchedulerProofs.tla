--------------------------- MODULE SchedulerProofs ---------------------------
(***************************************************************************)
(* For any number of processes and semaphores, any quanta and levels: the  *)
(* scheduler neither loses nor duplicates a process, files each one under  *)
(* its priority, restores its registers, and dereferences no NULL; the     *)
(* state in a PCB says where the process is, and the scheduler implements  *)
(* module Lifecycle; a process that is blocked when a run ends stays       *)
(* blocked, and so the levels an MLFQ run left it on never reach a run of  *)
(* another algorithm.                                                      *)
(***************************************************************************)
EXTENDS Scheduler, SequenceTheorems, TLAPS

Queues == [QueueId -> Seq(Proc)]

----------------------------------------------------------------------------
(* Lemmas about the queues.                                                *)

LEMMA QueueNames ==
    /\ ReadyIds \subseteq QueueId
    /\ {"newQueue", "waitingQueue", "terminatedQueue"} \subseteq QueueId \ ReadyIds
    /\ Sem \subseteq QueueId \ (ReadyIds \cup {"newQueue", "waitingQueue", "terminatedQueue"})
BY SemAssumption DEF QueueId, SchedulerQueues, ReadyIds

LEMMA ReadyQueueNames ==
    ASSUME NEW j \in 0..2, NEW k \in 0..2
    PROVE  /\ ReadyQueue(k) \in ReadyIds
           /\ ReadyQueue(j) = ReadyQueue(k) => j = k
BY DEF ReadyQueue, ReadyIds

LEMMA PushType ==
    ASSUME NEW q \in Queues, NEW a \in QueueId, NEW e \in Proc
    PROVE  /\ Push(q, a, e) \in Queues
           /\ \A id \in QueueId : id # a => Push(q, a, e)[id] = q[id]
           /\ Push(q, a, e)[a] = Append(q[a], e)
           /\ Push(q, a, e)[a] # <<>>
BY DEF Push, Queues

LEMMA PopType ==
    ASSUME NEW q \in Queues, NEW a \in QueueId, q[a] # <<>>
    PROVE  /\ Pop(q, a) \in Queues
           /\ \A id \in QueueId : id # a => Pop(q, a)[id] = q[id]
           /\ Pop(q, a)[a] = Tail(q[a])
           /\ Head(q[a]) \in Proc
           /\ In(q, Head(q[a]), a)
<1>1. q[a] \in Seq(Proc) /\ Len(q[a]) > 0
  BY EmptySeq DEF Queues
<1>2. Tail(q[a]) \in Seq(Proc) /\ Head(q[a]) \in Proc /\ Head(q[a]) = q[a][1]
  BY <1>1
<1>3. 1 \in DOMAIN q[a]
  BY <1>1
<1> QED
  BY <1>1, <1>2, <1>3 DEF Pop, Queues, In

\* Membership after a push.
LEMMA InPush ==
    ASSUME NEW q \in Queues, NEW a \in QueueId, NEW e \in Proc
    PROVE  \A id \in QueueId : \A p :
             In(Push(q, a, e), p, id) <=> In(q, p, id) \/ (id = a /\ p = e)
<1>1. q[a] \in Seq(Proc) BY DEF Queues
<1>2. /\ Append(q[a], e) \in Seq(Proc)
      /\ DOMAIN Append(q[a], e) = 1..(Len(q[a]) + 1)
      /\ DOMAIN q[a] = 1..Len(q[a])
      /\ Len(q[a]) \in Nat
      /\ \A i \in 1..Len(q[a]) : Append(q[a], e)[i] = q[a][i]
      /\ Append(q[a], e)[Len(q[a]) + 1] = e
  BY <1>1
<1>3. ASSUME NEW id \in QueueId, NEW p
      PROVE  In(Push(q, a, e), p, id) <=> In(q, p, id) \/ (id = a /\ p = e)
  <2>1. CASE id = a
    <3> DEFINE s == q[a]
               t == Push(q, a, e)[a]
    <3>1. t = Append(s, e) BY PushType
    <3>2. /\ DOMAIN t = 1..(Len(s) + 1)
          /\ DOMAIN s = 1..Len(s)
          /\ Len(s) \in Nat
          /\ \A i \in 1..Len(s) : t[i] = s[i]
          /\ t[Len(s) + 1] = e
      BY <3>1, <1>2
    <3> HIDE DEF s, t
    <3>3. (\E i \in DOMAIN t : t[i] = p) <=> (\E i \in DOMAIN s : s[i] = p) \/ p = e
      BY <3>2
    <3> QED BY <3>3, <2>1 DEF In, s, t
  <2>2. CASE id # a
    BY <2>2, PushType DEF In
  <2> QED BY <2>1, <2>2
<1> QED BY <1>3

\* Membership after a pop.
LEMMA InPop ==
    ASSUME NEW q \in Queues, Distinct(q), NEW a \in QueueId, q[a] # <<>>
    PROVE  \A id \in QueueId : \A p :
             In(Pop(q, a), p, id) <=> In(q, p, id) /\ ~(id = a /\ p = Head(q[a]))
<1>1. q[a] \in Seq(Proc) /\ Len(q[a]) \in Nat /\ Len(q[a]) > 0
  BY EmptySeq DEF Queues
<1>2. /\ Tail(q[a]) \in Seq(Proc)
      /\ DOMAIN Tail(q[a]) = 1..(Len(q[a]) - 1)
      /\ DOMAIN q[a] = 1..Len(q[a])
      /\ \A i \in 1..(Len(q[a]) - 1) : Tail(q[a])[i] = q[a][i + 1]
      /\ Head(q[a]) = q[a][1]
  BY <1>1
<1>3. \A i \in 2..Len(q[a]) : q[a][i] # q[a][1]
  BY <1>1, <1>2 DEF Distinct
<1>4. ASSUME NEW id \in QueueId, NEW p
      PROVE  In(Pop(q, a), p, id) <=> In(q, p, id) /\ ~(id = a /\ p = Head(q[a]))
  <2>1. CASE id = a
    <3>1. ASSUME In(Pop(q, a), p, a) PROVE In(q, p, a) /\ p # Head(q[a])
      <4>0. Pop(q, a)[a] = Tail(q[a]) BY PopType
      <4>1. PICK i \in 1..(Len(q[a]) - 1) : q[a][i + 1] = p
        BY <3>1, <1>2, <4>0 DEF In
      <4> QED BY <4>1, <1>1, <1>2, <1>3 DEF In
    <3>2. ASSUME In(q, p, a), p # Head(q[a]) PROVE In(Pop(q, a), p, a)
      <4>1. PICK i \in 1..Len(q[a]) : q[a][i] = p
        BY <3>2, <1>2 DEF In
      <4>2. i - 1 \in 1..(Len(q[a]) - 1) /\ Tail(q[a])[i - 1] = p
        BY <4>1, <3>2, <1>1, <1>2
      <4> QED BY <4>2, <1>2, PopType DEF In
    <3> QED BY <3>1, <3>2, <2>1
  <2>2. CASE id # a
    BY <2>2, PopType DEF In
  <2> QED BY <2>1, <2>2
<1> QED BY <1>4

LEMMA InUnique ==
    ASSUME NEW q \in Queues, Distinct(q), NEW a \in QueueId, NEW b \in QueueId, NEW p,
           In(q, p, a), In(q, p, b)
    PROVE  a = b
BY DEF Distinct, In

LEMMA DistinctPush ==
    ASSUME NEW q \in Queues, Distinct(q), NEW a \in QueueId, NEW e \in Proc, ~InQueue(q, e)
    PROVE  Distinct(Push(q, a, e))
<1>1. q[a] \in Seq(Proc) BY DEF Queues
<1>2. /\ DOMAIN Append(q[a], e) = 1..(Len(q[a]) + 1)
      /\ DOMAIN q[a] = 1..Len(q[a])
      /\ Len(q[a]) \in Nat
      /\ \A i \in 1..Len(q[a]) : Append(q[a], e)[i] = q[a][i]
      /\ Append(q[a], e)[Len(q[a]) + 1] = e
  BY <1>1
<1>3. \A id \in QueueId : \A i \in DOMAIN q[id] : q[id][i] # e
  BY DEF InQueue, In
<1> DEFINE r == Push(q, a, e)
<1>4. ASSUME NEW id \in QueueId, NEW i \in DOMAIN r[id]
      PROVE  \/ i \in DOMAIN q[id] /\ r[id][i] = q[id][i]
             \/ id = a /\ i = Len(q[a]) + 1 /\ r[id][i] = e
  <2>1. CASE id = a
    <3>1. r[a] = Append(q[a], e) BY PushType
    <3> HIDE DEF r
    <3>2. i \in 1..(Len(q[a]) + 1) BY <3>1, <2>1, <1>2
    <3>3. CASE i = Len(q[a]) + 1
      BY <3>1, <3>3, <2>1, <1>2
    <3>4. CASE i # Len(q[a]) + 1
      <4>1. i \in 1..Len(q[a]) BY <3>2, <3>4, <1>2
      <4>2. r[a][i] = q[a][i] BY <4>1, <3>1, <1>2
      <4> QED BY <4>1, <4>2, <2>1, <1>2
    <3> QED BY <3>3, <3>4
  <2>2. CASE id # a
    BY <2>2, PushType
  <2> QED BY <2>1, <2>2
<1> HIDE DEF r
<1>5. ASSUME NEW x \in QueueId, NEW y \in QueueId, NEW i \in DOMAIN r[x], NEW j \in DOMAIN r[y],
             r[x][i] = r[y][j]
      PROVE  x = y /\ i = j
  <2>1. CASE i \in DOMAIN q[x] /\ r[x][i] = q[x][i]
    <3>1. r[y][j] # e
      BY <2>1, <1>3, <1>5
    <3>2. j \in DOMAIN q[y] /\ r[y][j] = q[y][j]
      BY <3>1, <1>4
    <3>3. q[x][i] = q[y][j] BY <2>1, <3>2, <1>5
    <3>4. \A k \in DOMAIN q[x], l \in DOMAIN q[y] : q[x][k] = q[y][l] => x = y /\ k = l
      BY DEF Distinct
    <3> QED BY <2>1, <3>2, <3>3, <3>4
  <2>2. CASE x = a /\ i = Len(q[a]) + 1 /\ r[x][i] = e
    <3>1. ~(j \in DOMAIN q[y] /\ r[y][j] = q[y][j])
      BY <2>2, <1>3, <1>5
    <3> QED BY <2>2, <3>1, <1>4
  <2> QED BY <2>1, <2>2, <1>4
<1> QED BY <1>5 DEF Distinct, r

LEMMA DistinctPop ==
    ASSUME NEW q \in Queues, Distinct(q), NEW a \in QueueId, q[a] # <<>>
    PROVE  /\ Distinct(Pop(q, a))
           /\ ~InQueue(Pop(q, a), Head(q[a]))
<1>1. q[a] \in Seq(Proc) /\ Len(q[a]) \in Nat /\ Len(q[a]) > 0
  BY EmptySeq DEF Queues
<1>2. /\ DOMAIN Tail(q[a]) = 1..(Len(q[a]) - 1)
      /\ DOMAIN q[a] = 1..Len(q[a])
      /\ \A i \in 1..(Len(q[a]) - 1) : Tail(q[a])[i] = q[a][i + 1]
  BY <1>1
<1> DEFINE r == Pop(q, a)
           orig(id, i) == IF id = a THEN i + 1 ELSE i
<1>3. ASSUME NEW id \in QueueId, NEW i \in DOMAIN r[id]
      PROVE  i \in Int /\ orig(id, i) \in DOMAIN q[id] /\ r[id][i] = q[id][orig(id, i)]
  <2>1. CASE id = a
    <3>1. r[a] = Tail(q[a]) BY PopType
    <3> HIDE DEF r
    <3>2. i \in 1..(Len(q[a]) - 1) BY <3>1, <2>1, <1>2
    <3>3. i + 1 \in 1..Len(q[a]) BY <3>2, <1>1
    <3>4. r[a][i] = q[a][i + 1] BY <3>1, <3>2, <1>2
    <3> QED BY <3>2, <3>3, <3>4, <2>1, <1>2
  <2>2. CASE id # a
    <3>1. q[id] \in Seq(Proc) BY DEF Queues
    <3> QED BY <2>2, <3>1, PopType
  <2> QED BY <2>1, <2>2
<1>4. Distinct(r)
  <2> SUFFICES ASSUME NEW x \in QueueId, NEW y \in QueueId,
                      NEW i \in DOMAIN r[x], NEW j \in DOMAIN r[y], r[x][i] = r[y][j]
               PROVE  x = y /\ i = j
    BY DEF Distinct
  <2>1. x = y /\ orig(x, i) = orig(y, j)
    <3> HIDE DEF orig, r
    <3> QED BY <1>3 DEF Distinct
  <2> QED BY <2>1, <1>3
<1>5. ~InQueue(r, Head(q[a]))
  BY InPop, InUnique, PopType DEF InQueue
<1> QED BY <1>4, <1>5

\* A process that is in no queue joins one.
LEMMA PushNew ==
    ASSUME NEW q \in Queues, Distinct(q), NEW a \in QueueId, NEW e \in Proc, ~InQueue(q, e),
           NEW r, r = Push(q, a, e)
    PROVE  /\ r \in Queues /\ Distinct(r)
           /\ \A id \in QueueId : id # a => r[id] = q[id]
           /\ r[a] = Append(q[a], e) /\ r[a] # <<>>
           /\ \A id \in QueueId, p \in Proc : In(r, p, id) <=> In(q, p, id) \/ (id = a /\ p = e)
           /\ \A p \in Proc : InQueue(r, p) <=> InQueue(q, p) \/ p = e
<1>1. \A id \in QueueId, p \in Proc : In(r, p, id) <=> In(q, p, id) \/ (id = a /\ p = e)
  BY InPush
<1>2. \A p \in Proc : InQueue(r, p) <=> InQueue(q, p) \/ p = e
  BY <1>1 DEF InQueue
<1>3. Distinct(r)
  BY DistinctPush
<1> QED BY <1>1, <1>2, <1>3, PushType

\* The first process of one queue moves to another.
LEMMA MoveHead ==
    ASSUME NEW q \in Queues, Distinct(q), NEW a \in QueueId, NEW b \in QueueId, a # b,
           q[a] # <<>>, NEW r, r = Push(Pop(q, a), b, Head(q[a]))
    PROVE  /\ r \in Queues /\ Distinct(r) /\ Head(q[a]) \in Proc /\ In(q, Head(q[a]), a)
           /\ \A id \in QueueId : id \notin {a, b} => r[id] = q[id]
           /\ r[a] = Tail(q[a])
           /\ \A id \in QueueId, p \in Proc :
                In(r, p, id) <=> IF p = Head(q[a]) THEN id = b ELSE In(q, p, id)
           /\ \A p \in Proc : InQueue(r, p) <=> InQueue(q, p)
<1> DEFINE s == Pop(q, a)
           h == Head(q[a])
<1>1. /\ s \in Queues /\ h \in Proc /\ In(q, h, a)
      /\ \A id \in QueueId : id # a => s[id] = q[id]
      /\ s[a] = Tail(q[a])
  BY PopType
<1>2. Distinct(s) /\ ~InQueue(s, h)
  BY DistinctPop
<1>3. \A id \in QueueId, p \in Proc : In(s, p, id) <=> In(q, p, id) /\ ~(id = a /\ p = h)
  BY InPop
<1>4. \A id \in QueueId : In(q, h, id) => id = a
  BY <1>1, InUnique
<1> HIDE DEF s, h
<1>5. /\ r \in Queues /\ Distinct(r)
      /\ \A id \in QueueId : id # b => r[id] = s[id]
      /\ \A id \in QueueId, p \in Proc : In(r, p, id) <=> In(s, p, id) \/ (id = b /\ p = h)
  BY <1>1, <1>2, PushNew DEF s, h
<1>6. \A id \in QueueId, p \in Proc : In(r, p, id) <=> IF p = h THEN id = b ELSE In(q, p, id)
  BY <1>1, <1>3, <1>4, <1>5
<1>7. \A p \in Proc : InQueue(r, p) <=> InQueue(q, p)
  BY <1>1, <1>6 DEF InQueue
<1> QED BY <1>1, <1>5, <1>6, <1>7 DEF s, h

\* popQueue(READY) when some process is ready.
LEMMA PopTop ==
    ASSUME NEW q \in Queues, Distinct(q), ~ReadyQueuesEmpty(q)
    PROVE  /\ PopReady(q) \in Queues /\ Distinct(PopReady(q))
           /\ NextReady(q) \in Proc
           /\ \E id \in ReadyIds : In(q, NextReady(q), id)
           /\ \A id \in QueueId \ ReadyIds : PopReady(q)[id] = q[id]
           /\ \A id \in QueueId, p \in Proc :
                In(PopReady(q), p, id) <=> In(q, p, id) /\ p # NextReady(q)
           /\ \A p \in Proc : InQueue(PopReady(q), p) <=> InQueue(q, p) /\ p # NextReady(q)
<1> DEFINE a == TopQueue(q)
<1>1. a \in ReadyIds /\ a \in QueueId /\ q[a] # <<>>
  BY QueueNames DEF TopQueue, ReadyQueuesEmpty, ReadyIds
<1>2. PopReady(q) = Pop(q, a) /\ NextReady(q) = Head(q[a])
  BY DEF PopReady, NextReady
<1> HIDE DEF a
<1> DEFINE s == Pop(q, a)
           h == Head(q[a])
<1>3. /\ s \in Queues /\ h \in Proc /\ In(q, h, a)
      /\ \A id \in QueueId : id # a => s[id] = q[id]
  BY <1>1, PopType
<1>4. Distinct(s)
  BY <1>1, DistinctPop
<1>5. \A id \in QueueId, p \in Proc : In(s, p, id) <=> In(q, p, id) /\ ~(id = a /\ p = h)
  BY <1>1, InPop
<1>6. \A id \in QueueId : In(q, h, id) => id = a
  BY <1>1, <1>3, InUnique
<1> HIDE DEF s, h
<1>7. \A id \in QueueId, p \in Proc : In(s, p, id) <=> In(q, p, id) /\ p # h
  BY <1>1, <1>5, <1>6
<1>8. \A p \in Proc : InQueue(s, p) <=> InQueue(q, p) /\ p # h
  BY <1>7 DEF InQueue
<1> QED BY <1>1, <1>2, <1>3, <1>4, <1>7, <1>8 DEF s, h

----------------------------------------------------------------------------
(* The inductive invariant holds initially ...                             *)

LEMMA InitInv == Init => IInv
<1> SUFFICES ASSUME Init PROVE IInv OBVIOUS
<1> USE DEF Init
<1>1. \A id \in QueueId : queue[id] = <<>> /\ DOMAIN queue[id] = {}
  OBVIOUS
<1>2. \A id \in QueueId : \A p : ~In(queue, p, id)
  BY <1>1, Zenon DEF In
<1>3. \A p : ~InQueue(queue, p)
  BY <1>2 DEF InQueue
<1>4. TypeOK
  <2>1. queue \in [QueueId -> Seq(Proc)] OBVIOUS
  <2> QED BY <2>1, DemoteAssumption, ValuesAssumption DEF TypeOK, Phases
<1>5. NoDuplicate
  BY <1>1 DEF NoDuplicate, Distinct
<1>6. NotLost /\ Exclusive /\ FreshUnplaced /\ NoNullDeref /\ NothingToPreempt /\ ContextInv
  <2>1. NotLost BY DEF NotLost
  <2>2. Exclusive BY <1>3 DEF Exclusive
  <2>3. FreshUnplaced BY <1>3, ProcAssumption DEF FreshUnplaced
  <2>4. NoNullDeref /\ NothingToPreempt /\ ContextInv
    BY DEF NoNullDeref, NothingToPreempt, ContextInv
  <2> QED BY <2>1, <2>2, <2>3, <2>4
<1>7. ReadyByPriority
  BY <1>2, QueueNames, ReadyQueueNames DEF ReadyByPriority
<1>8. InterruptPlace
  BY <1>1, QueueNames DEF InterruptPlace
<1> QED BY <1>4, <1>5, <1>6, <1>7, <1>8 DEF IInv

----------------------------------------------------------------------------
(* ... and every step preserves it.                                        *)

\* Steps that touch neither the queues nor the running process.
LEMMA SamePlaces ==
    ASSUME IInv, UNCHANGED <<queue, pRunningPcb, pPriority, pState, logged>>
    PROVE  NoDuplicate' /\ NotLost' /\ ReadyByPriority' /\ FreshUnplaced'
BY DEF IInv, NoDuplicate, NotLost, ReadyByPriority, FreshUnplaced

LEMMA NullNotQueued == ASSUME TypeOK PROVE ~InQueue(queue, NoProc)
<1>1. ASSUME NEW id \in QueueId PROVE ~In(queue, NoProc, id)
  <2>1. queue[id] \in Seq(Proc) BY DEF TypeOK
  <2> QED BY <2>1, ProcAssumption DEF In
<1> QED BY <1>1 DEF InQueue

LEMMA SetSchedulerStep == ASSUME IInv, SetScheduler PROVE IInv'
<1> USE DEF SetScheduler, kernelVars, runVars, pcbVars, levelVars, semVars, cpuVars
<1>1. TypeOK' BY DEF IInv, TypeOK, Phases, Faults
<1>2. NoDuplicate' /\ NotLost' /\ ReadyByPriority' /\ FreshUnplaced'
  BY SamePlaces
<1>3. Exclusive' BY NullNotQueued DEF IInv, Exclusive, NothingToPreempt
<1>4. NoNullDeref' /\ InterruptPlace'
  BY DEF IInv, NoNullDeref, InterruptPlace
<1>5. NothingToPreempt' /\ ContextInv'
  BY DEF IInv, NothingToPreempt, ContextInv
<1> QED BY <1>1, <1>2, <1>3, <1>4, <1>5 DEF IInv

LEMMA InitSemaphoreStep == ASSUME IInv, InitSemaphore PROVE IInv'
<1> USE DEF InitSemaphore, LinkSemaphore, kernelVars, runVars, pcbVars, levelVars, semVars,
     cpuVars
<1>1. TypeOK'
  <2> USE DEF IInv, TypeOK
  <2>1. semaphoreTable' \subseteq Sem /\ semValue' \in [Sem -> Int]
    BY ValuesAssumption DEF FreshSemaphores
  <2>2. semId' \in [Proc -> semaphoreTable' \cup {NoSem}]
    <3>1. PICK one \in Found, two \in Found, s \in Sem :
             /\ semaphoreTable' = semaphoreTable \cup {s}
             /\ semId' = IF one = NoProc \/ two = NoProc THEN semId
                         ELSE [semId EXCEPT ![one] = s, ![two] = s]
      BY DEF FreshSemaphores
    <3>2. semId \in [Proc -> semaphoreTable' \cup {NoSem}]
      BY <3>1
    <3> QED BY <3>1, <3>2
  <2>3. phase' \in Phases
    BY DEF Phases, Faults
  <2>4. UNCHANGED <<kernelVars, queue, runVars, pState, levelVars, sharedMemory, cpuVars, logged>>
    OBVIOUS
  <2> HIDE DEF InitSemaphore, LinkSemaphore
  <2> QED BY <2>1, <2>2, <2>3, <2>4
<1>2. NoDuplicate' /\ NotLost' /\ ReadyByPriority' /\ FreshUnplaced'
  BY SamePlaces
<1>3. Exclusive' BY NullNotQueued DEF IInv, Exclusive, NothingToPreempt
<1>4. NoNullDeref' /\ InterruptPlace'
  BY DEF IInv, NoNullDeref, InterruptPlace
<1>5. NothingToPreempt' /\ ContextInv'
  BY DEF IInv, NothingToPreempt, ContextInv
<1> QED BY <1>1, <1>2, <1>3, <1>4, <1>5 DEF IInv

LEMMA OpenSharedMemoryStep == ASSUME IInv, OpenSharedMemory PROVE IInv'
<1> USE DEF OpenSharedMemory, kernelVars, runVars, pcbVars, levelVars, semVars, cpuVars
<1>1. TypeOK' BY DEF IInv, TypeOK, Phases, Faults, Found
<1>2. NoDuplicate' /\ NotLost' /\ ReadyByPriority' /\ FreshUnplaced'
  BY SamePlaces
<1>3. Exclusive' BY NullNotQueued DEF IInv, Exclusive, NothingToPreempt
<1>4. NoNullDeref' /\ InterruptPlace'
  BY DEF IInv, NoNullDeref, InterruptPlace
<1>5. NothingToPreempt' /\ ContextInv'
  BY DEF IInv, NothingToPreempt, ContextInv
<1> QED BY <1>1, <1>2, <1>3, <1>4, <1>5 DEF IInv

LEMMA StartRunStep == ASSUME IInv, StartRun PROVE IInv'
<1> USE DEF StartRun, kernelVars, runVars, pcbVars, levelVars, semVars, cpuVars
<1>1. TypeOK' BY DEF IInv, TypeOK, Phases, Faults
<1>2. NoDuplicate' /\ NotLost' /\ ReadyByPriority' /\ FreshUnplaced'
  BY SamePlaces
<1>3. Exclusive' BY NullNotQueued DEF IInv, Exclusive, NothingToPreempt
<1>4. NoNullDeref' /\ InterruptPlace'
  BY DEF IInv, NoNullDeref, InterruptPlace
<1>5. NothingToPreempt' /\ ContextInv'
  BY DEF IInv, NothingToPreempt, ContextInv
<1> QED BY <1>1, <1>2, <1>3, <1>4, <1>5 DEF IInv

LEMMA CallSchedulerStep == ASSUME IInv, CallScheduler PROVE IInv'
<1> USE DEF CallScheduler, kernelVars, runVars, pcbVars, levelVars, semVars, cpuVars
<1>1. TypeOK' BY DEF IInv, TypeOK, Phases, Faults
<1>2. NoDuplicate' /\ NotLost' /\ ReadyByPriority' /\ FreshUnplaced'
  BY SamePlaces
<1>3. Exclusive' BY NullNotQueued DEF IInv, Exclusive, NothingToPreempt
<1>4. NoNullDeref' /\ InterruptPlace'
  BY DEF IInv, NoNullDeref, InterruptPlace
<1>5. NothingToPreempt' /\ ContextInv'
  BY DEF IInv, NothingToPreempt, ContextInv
<1> QED BY <1>1, <1>2, <1>3, <1>4, <1>5 DEF IInv

LEMMA KeepRunningStep == ASSUME IInv, KeepRunning PROVE IInv'
<1> USE DEF KeepRunning, kernelVars, runVars, pcbVars, levelVars, semVars, cpuVars, AfterDispatch, DispatchNeeded, AllQueuesEmpty
<1>1. TypeOK' BY DEF IInv, TypeOK, Phases, Faults
<1>2. NoDuplicate' /\ NotLost' /\ ReadyByPriority' /\ FreshUnplaced'
  BY SamePlaces
<1>3. Exclusive' BY NullNotQueued DEF IInv, Exclusive, NothingToPreempt
<1>4. NoNullDeref' /\ InterruptPlace'
  BY DEF IInv, NoNullDeref, InterruptPlace
<1>5. NothingToPreempt' /\ ContextInv'
  BY DEF IInv, NothingToPreempt, ContextInv
<1> QED BY <1>1, <1>2, <1>3, <1>4, <1>5 DEF IInv

LEMMA NoPreemptionStep == ASSUME IInv, NoPreemption PROVE IInv'
<1> USE DEF NoPreemption, kernelVars, runVars, pcbVars, levelVars, semVars, cpuVars, Fault
<1>1. TypeOK' BY DEF IInv, TypeOK, Phases, Faults
<1>2. NoDuplicate' /\ NotLost' /\ ReadyByPriority' /\ FreshUnplaced'
  BY SamePlaces
<1>3. Exclusive' BY NullNotQueued DEF IInv, Exclusive, NothingToPreempt, DivisionByZero, QuantumUp
<1>4. NoNullDeref' /\ InterruptPlace'
  BY DEF IInv, NoNullDeref, InterruptPlace
<1>5. NothingToPreempt' /\ ContextInv'
  BY DEF IInv, NothingToPreempt, ContextInv
<1> QED BY <1>1, <1>2, <1>3, <1>4, <1>5 DEF IInv

LEMMA IdleStep == ASSUME IInv, Idle PROVE IInv'
<1> USE DEF Idle, kernelVars, runVars, pcbVars, levelVars, semVars, cpuVars
<1>1. TypeOK' BY DEF IInv, TypeOK, Phases, Faults
<1>2. NoDuplicate' /\ NotLost' /\ ReadyByPriority' /\ FreshUnplaced'
  BY SamePlaces
<1>3. Exclusive' BY NullNotQueued DEF IInv, Exclusive, NothingToPreempt
<1>4. NoNullDeref' /\ InterruptPlace'
  BY DEF IInv, NoNullDeref, InterruptPlace
<1>5. NothingToPreempt' /\ ContextInv'
  BY DEF IInv, NothingToPreempt, ContextInv
<1> QED BY <1>1, <1>2, <1>3, <1>4, <1>5 DEF IInv

LEMMA InstructionStep == ASSUME IInv, Instruction PROVE IInv'
<1> USE DEF Instruction, kernelVars, runVars, pcbVars, levelVars, semVars, cpuVars
<1>1. TypeOK' BY QuantaAssumption DEF IInv, TypeOK, Phases, Faults, ClockAfterInstruction, Tick
<1>2. NoDuplicate' /\ NotLost' /\ ReadyByPriority' /\ FreshUnplaced'
  BY SamePlaces
<1>3. Exclusive' BY NullNotQueued DEF IInv, Exclusive, NothingToPreempt
<1>4. NoNullDeref' /\ InterruptPlace'
  BY DEF IInv, NoNullDeref, InterruptPlace
<1>5. NothingToPreempt' /\ ContextInv'
  BY DEF IInv, NothingToPreempt, ContextInv
<1> QED BY <1>1, <1>2, <1>3, <1>4, <1>5 DEF IInv

\* While an interrupt is served the running process is alone in waitingQueue.
LEMMA InIsr ==
    ASSUME IInv, phase = "isr"
    PROVE  /\ pRunningPcb \in Proc
           /\ queue["waitingQueue"] # <<>>
           /\ Head(queue["waitingQueue"]) = pRunningPcb
           /\ Tail(queue["waitingQueue"]) = <<>>
           /\ In(queue, pRunningPcb, "waitingQueue")
           /\ \A id \in QueueId : In(queue, pRunningPcb, id) => id = "waitingQueue"
<1>1. pRunningPcb \in Proc /\ queue["waitingQueue"] = <<pRunningPcb>>
  BY DEF IInv, InterruptPlace
<1>2. queue \in Queues /\ Distinct(queue)
  BY DEF IInv, TypeOK, Queues, NoDuplicate
<1>3. In(queue, pRunningPcb, "waitingQueue")
  BY <1>1 DEF In
<1>4. \A id \in QueueId : In(queue, pRunningPcb, id) => id = "waitingQueue"
  BY <1>2, <1>3, InUnique, QueueNames
<1> QED BY <1>1, <1>3, <1>4

LEMMA IsrPrintStep == ASSUME IInv, IsrPrint PROVE IInv'
<1> USE DEF IsrPrint, kernelVars, runVars, pcbVars, levelVars, semVars, cpuVars
<1>1. TypeOK' BY DEF IInv, TypeOK, Phases, Faults
<1>2. NoDuplicate' /\ NotLost' /\ ReadyByPriority' /\ FreshUnplaced'
  BY SamePlaces
<1>3. Exclusive' BY DEF IInv, Exclusive
<1>4. NoNullDeref' /\ InterruptPlace'
  BY InIsr, QueueNames DEF IInv, NoNullDeref, InterruptPlace
<1>5. NothingToPreempt' /\ ContextInv'
  BY DEF IInv, NothingToPreempt, ContextInv
<1> QED BY <1>1, <1>2, <1>3, <1>4, <1>5 DEF IInv

\* A PCB is created and queued: what LoadProgram, Arrive and IsrVFork share.
LEMMA NewProcess ==
    ASSUME IInv, NEW p \in Proc, pState[p] = CREATED, NEW a \in {"newQueue"} \cup ReadyIds,
           a \in ReadyIds => a = ReadyQueue(pPriority[p]),
           NEW st \in {NEWLY, READY},
           queue' = Push(queue, a, p), pState' = [pState EXCEPT ![p] = st],
           UNCHANGED <<pRunningPcb, pPriority, logged>>
    PROVE  /\ queue' \in Queues /\ pState' \in [Proc -> {CREATED, NEWLY, READY, RUNNING, WAITING, TERMINATED}]
           /\ NoDuplicate' /\ NotLost' /\ ReadyByPriority' /\ FreshUnplaced'
           /\ queue'["waitingQueue"] = queue["waitingQueue"]
           /\ \A id \in QueueId : In(queue, pRunningPcb, id) => In(queue', pRunningPcb, id)
           /\ \A x \in Proc \cup {NoProc} : InQueue(queue', x) <=> InQueue(queue, x) \/ x = p
           /\ p # pRunningPcb /\ p \notin logged
<1>1. queue \in Queues /\ Distinct(queue) /\ a \in QueueId /\ a # "waitingQueue"
  BY QueueNames DEF IInv, TypeOK, Queues, NoDuplicate
<1>2. ~InQueue(queue, p) /\ p # pRunningPcb /\ p \notin logged
  BY DEF IInv, FreshUnplaced
<1>3. /\ queue' \in Queues /\ Distinct(queue')
      /\ \A id \in QueueId : id # a => queue'[id] = queue[id]
      /\ \A id \in QueueId, x \in Proc : In(queue', x, id) <=> In(queue, x, id) \/ (id = a /\ x = p)
      /\ \A x \in Proc : InQueue(queue', x) <=> InQueue(queue, x) \/ x = p
  BY <1>1, <1>2, PushNew
<1>4. pState \in [Proc -> {CREATED, NEWLY, READY, RUNNING, WAITING, TERMINATED}]
  BY DEF IInv, TypeOK
<1>5. st # CREATED BY DEF NEWLY, READY, CREATED
<1>6. NoDuplicate' BY <1>3 DEF NoDuplicate
<1>7. NotLost' BY <1>3, <1>4 DEF IInv, NotLost
<1>8. FreshUnplaced' BY <1>3, <1>4, <1>5 DEF IInv, FreshUnplaced
<1>9. ReadyByPriority'
  <2> SUFFICES ASSUME NEW x \in Proc, NEW k \in 0..2, In(queue', x, ReadyQueue(k))
               PROVE  pPriority[x] = k
    BY DEF ReadyByPriority
  <2>1. ReadyQueue(k) \in ReadyIds /\ ReadyQueue(k) \in QueueId
    BY ReadyQueueNames, QueueNames
  <2>2. In(queue, x, ReadyQueue(k)) \/ (ReadyQueue(k) = a /\ x = p)
    BY <1>3, <2>1
  <2>3. CASE In(queue, x, ReadyQueue(k))
    BY <2>3 DEF IInv, ReadyByPriority
  <2>4. CASE ReadyQueue(k) = a /\ x = p
    <3>1. ReadyQueue(k) = ReadyQueue(pPriority[p]) BY <2>1, <2>4
    <3>2. pPriority[p] \in 0..2 BY DEF IInv, TypeOK
    <3> QED BY <3>1, <3>2, <2>4, ReadyQueueNames
  <2> QED BY <2>2, <2>3, <2>4
<1>10. ~InQueue(queue, NoProc) /\ ~InQueue(queue', NoProc)
  <2>1. ASSUME NEW q \in Queues, NEW id \in QueueId PROVE ~In(q, NoProc, id)
    <3>1. q[id] \in Seq(Proc) BY DEF Queues
    <3> QED BY <3>1, ProcAssumption DEF In
  <2> QED BY <1>1, <1>3, <2>1 DEF InQueue
<1>11. pRunningPcb \in Proc \cup {NoProc} BY DEF IInv, TypeOK
<1>12. \A id \in QueueId : In(queue, pRunningPcb, id) => In(queue', pRunningPcb, id)
  BY <1>3, <1>10, <1>11 DEF InQueue
<1> QED BY <1>1, <1>2, <1>3, <1>4, <1>6, <1>7, <1>8, <1>9, <1>10, <1>12, ProcAssumption, QueueNames

LEMMA NewPcbPlaces ==
    ASSUME IInv, NEW p \in Proc, NewPcb(p), UNCHANGED <<pRunningPcb, pPriority, logged>>
    PROVE  /\ queue' \in Queues /\ pState' \in [Proc -> {CREATED, NEWLY, READY, RUNNING, WAITING, TERMINATED}]
           /\ NoDuplicate' /\ NotLost' /\ ReadyByPriority' /\ FreshUnplaced'
           /\ queue'["waitingQueue"] = queue["waitingQueue"]
           /\ \A x \in Proc \cup {NoProc} : InQueue(queue', x) <=> InQueue(queue, x) \/ x = p
           /\ p # pRunningPcb /\ p \notin logged
<1> DEFINE a == "newQueue"
           st == NEWLY
<1>1. a \in {"newQueue"} \cup ReadyIds /\ a \notin ReadyIds /\ st \in {NEWLY, READY}
  BY QueueNames
<1>2. /\ pState[p] = CREATED
      /\ queue' = Push(queue, a, p) /\ pState' = [pState EXCEPT ![p] = st]
  BY DEF NewPcb
<1> HIDE DEF a, st
<1> QED BY <1>1, <1>2, NewProcess

LEMMA LoadProgramStep == ASSUME IInv, LoadProgram PROVE IInv'
<1> USE DEF LoadProgram, kernelVars, runVars, pcbVars, levelVars, semVars, cpuVars
<1>1. PICK p \in Proc : NewPcb(p) OBVIOUS
<1>2. /\ queue' \in Queues /\ pState' \in [Proc -> {CREATED, NEWLY, READY, RUNNING, WAITING, TERMINATED}]
      /\ NoDuplicate' /\ NotLost' /\ ReadyByPriority' /\ FreshUnplaced'
      /\ queue'["waitingQueue"] = queue["waitingQueue"]
      /\ \A x \in Proc \cup {NoProc} : InQueue(queue', x) <=> InQueue(queue, x) \/ x = p
      /\ p # pRunningPcb /\ p \notin logged
  BY <1>1, NewPcbPlaces
<1>3. TypeOK' BY <1>2 DEF IInv, TypeOK, Queues
<1>4. Exclusive' BY <1>2 DEF IInv, Exclusive, TypeOK
<1>5. NoNullDeref' /\ InterruptPlace' /\ NothingToPreempt' /\ ContextInv'
  BY <1>2 DEF IInv, NoNullDeref, InterruptPlace, NothingToPreempt, ContextInv
<1> QED BY <1>2, <1>3, <1>4, <1>5 DEF IInv

LEMMA ArriveStep == ASSUME IInv, Arrive PROVE IInv'
<1> USE DEF Arrive, kernelVars, runVars, pcbVars, levelVars, semVars, cpuVars
<1>1. CASE \E p \in Proc : NewPcb(p)
  <2>1. PICK p \in Proc : NewPcb(p) BY <1>1
  <2>2. /\ queue' \in Queues /\ pState' \in [Proc -> {CREATED, NEWLY, READY, RUNNING, WAITING, TERMINATED}]
        /\ NoDuplicate' /\ NotLost' /\ ReadyByPriority' /\ FreshUnplaced'
        /\ queue'["waitingQueue"] = queue["waitingQueue"]
        /\ \A x \in Proc \cup {NoProc} : InQueue(queue', x) <=> InQueue(queue, x) \/ x = p
        /\ p # pRunningPcb /\ p \notin logged
    BY <2>1, NewPcbPlaces
  <2>3. TypeOK' BY <2>2, ValuesAssumption DEF IInv, TypeOK, Queues
  <2>4. Exclusive' BY <2>2 DEF IInv, Exclusive, TypeOK
  <2>5. NoNullDeref' /\ InterruptPlace' /\ NothingToPreempt' /\ ContextInv'
    BY <2>2 DEF IInv, NoNullDeref, InterruptPlace, NothingToPreempt, ContextInv
  <2> QED BY <2>2, <2>3, <2>4, <2>5 DEF IInv
<1>2. CASE UNCHANGED <<pState, queue>>
  <2>1. TypeOK' BY <1>2, ValuesAssumption DEF IInv, TypeOK
  <2>2. NoDuplicate' /\ NotLost' /\ ReadyByPriority' /\ FreshUnplaced'
    BY <1>2, SamePlaces
  <2>3. Exclusive' /\ NoNullDeref' /\ InterruptPlace' /\ NothingToPreempt' /\ ContextInv'
    BY <1>2 DEF IInv, Exclusive, NoNullDeref, InterruptPlace, NothingToPreempt, ContextInv
  <2> QED BY <2>1, <2>2, <2>3 DEF IInv
<1> QED BY <1>1, <1>2

LEMMA IsrVForkStep == ASSUME IInv, IsrVFork PROVE IInv'
<1> USE DEF IsrVFork, kernelVars, runVars, pcbVars, levelVars, semVars, cpuVars
<1>1. PICK c \in Proc : /\ pState[c] = CREATED
                        /\ pState' = [pState EXCEPT ![c] = READY]
                        /\ queue' = Push(queue, ReadyQueue(pPriority[c]), c)
  OBVIOUS
<1>2. ReadyQueue(pPriority[c]) \in ReadyIds
  BY ReadyQueueNames DEF IInv, TypeOK
<1>3. /\ queue' \in Queues /\ pState' \in [Proc -> {CREATED, NEWLY, READY, RUNNING, WAITING, TERMINATED}]
      /\ NoDuplicate' /\ NotLost' /\ ReadyByPriority' /\ FreshUnplaced'
      /\ queue'["waitingQueue"] = queue["waitingQueue"]
      /\ \A id \in QueueId : In(queue, pRunningPcb, id) => In(queue', pRunningPcb, id)
      /\ \A x \in Proc \cup {NoProc} : InQueue(queue', x) <=> InQueue(queue, x) \/ x = c
      /\ c # pRunningPcb /\ c \notin logged
  BY <1>1, <1>2, NewProcess
<1>4. TypeOK' BY <1>3 DEF IInv, TypeOK, Queues, Phases
<1>5. Exclusive' BY <1>3 DEF IInv, Exclusive, TypeOK
<1>6. InterruptPlace'
  BY <1>3, InIsr, QueueNames DEF IInv, InterruptPlace
<1>7. NoNullDeref' /\ NothingToPreempt' /\ ContextInv'
  BY DEF IInv, NoNullDeref, NothingToPreempt, ContextInv
<1> QED BY <1>3, <1>4, <1>5, <1>6, <1>7 DEF IInv

\* The head of one queue joins another, the running process staying the same.
LEMMA HeadMoves ==
    ASSUME IInv, NEW a \in QueueId, NEW b \in QueueId, a # b, queue[a] # <<>>,
           NEW h, h = Head(queue[a]), queue' = Push(Pop(queue, a), b, h),
           b \in ReadyIds => b = ReadyQueue(pPriority[h]),
           NEW st \in {READY, WAITING, TERMINATED}, pState' = [pState EXCEPT ![h] = st],
           UNCHANGED <<pRunningPcb, pPriority, logged>>
    PROVE  /\ h \in Proc
           /\ queue' \in Queues /\ pState' \in [Proc -> {CREATED, NEWLY, READY, RUNNING, WAITING, TERMINATED}]
           /\ NoDuplicate' /\ NotLost' /\ ReadyByPriority' /\ FreshUnplaced'
           /\ \A id \in QueueId : id \notin {a, b} => queue'[id] = queue[id]
           /\ queue'[a] = Tail(queue[a])
           /\ In(queue', h, b)
           /\ \A x \in Proc \cup {NoProc} : InQueue(queue', x) <=> InQueue(queue, x)
<1>1. queue \in Queues /\ Distinct(queue)
  BY DEF IInv, TypeOK, Queues, NoDuplicate
<1>2. /\ queue' \in Queues /\ Distinct(queue') /\ h \in Proc
      /\ \A id \in QueueId : id \notin {a, b} => queue'[id] = queue[id]
      /\ queue'[a] = Tail(queue[a])
      /\ \A id \in QueueId, x \in Proc : In(queue', x, id) <=> IF x = h THEN id = b ELSE In(queue, x, id)
      /\ \A x \in Proc : InQueue(queue', x) <=> InQueue(queue, x)
  BY <1>1, MoveHead
<1>3. pState \in [Proc -> {CREATED, NEWLY, READY, RUNNING, WAITING, TERMINATED}]
  BY DEF IInv, TypeOK
<1>4. st # CREATED /\ pState[h] # CREATED
  <2>1. InQueue(queue, h) BY <1>1, PopType DEF InQueue
  <2> QED BY <2>1, <1>2 DEF IInv, FreshUnplaced, READY, WAITING, TERMINATED, CREATED
<1>5. NoDuplicate' BY <1>2 DEF NoDuplicate
<1>6. NotLost' BY <1>2, <1>3, <1>4 DEF IInv, NotLost
<1>7. FreshUnplaced' BY <1>2, <1>3, <1>4 DEF IInv, FreshUnplaced
<1>8. ReadyByPriority'
  <2> SUFFICES ASSUME NEW x \in Proc, NEW k \in 0..2, In(queue', x, ReadyQueue(k))
               PROVE  pPriority[x] = k
    BY DEF ReadyByPriority
  <2>1. ReadyQueue(k) \in ReadyIds /\ ReadyQueue(k) \in QueueId
    BY ReadyQueueNames, QueueNames
  <2>2. CASE x = h
    <3>1. ReadyQueue(k) = ReadyQueue(pPriority[h]) BY <2>1, <2>2, <1>2
    <3>2. pPriority[h] \in 0..2 BY <1>2 DEF IInv, TypeOK
    <3> QED BY <3>1, <3>2, <2>2, ReadyQueueNames
  <2>3. CASE x # h
    BY <2>1, <2>3, <1>2 DEF IInv, ReadyByPriority
  <2> QED BY <2>2, <2>3
<1>9. ~InQueue(queue, NoProc) /\ ~InQueue(queue', NoProc)
  <2>1. ASSUME NEW q \in Queues, NEW id \in QueueId PROVE ~In(q, NoProc, id)
    <3>1. q[id] \in Seq(Proc) BY DEF Queues
    <3> QED BY <3>1, ProcAssumption DEF In
  <2> QED BY <1>1, <1>2, <2>1 DEF InQueue
<1>10. In(queue', h, b) BY <1>2
<1> QED BY <1>2, <1>3, <1>5, <1>6, <1>7, <1>8, <1>9, <1>10

\* The ready queue a process belongs to.
LEMMA OwnReadyQueue ==
    ASSUME IInv, NEW p \in Proc, NEW b, b = ReadyQueue(pPriority[p])
    PROVE  /\ b \in ReadyIds /\ b \in QueueId
           /\ b \notin {"newQueue", "waitingQueue", "terminatedQueue"} \cup Sem
<1>1. pPriority[p] \in 0..2 BY DEF IInv, TypeOK
<1>2. b \in ReadyIds BY <1>1, ReadyQueueNames
<1> QED BY <1>2, QueueNames

LEMMA AdmitNewStep == ASSUME IInv, AdmitNew PROVE IInv'
<1> USE DEF AdmitNew, kernelVars, runVars, pcbVars, levelVars, semVars, cpuVars
<1> DEFINE a == "newQueue"
           h == Head(queue[a])
           b == ReadyQueue(pPriority[h])
           st == READY
<1>1. a \in QueueId /\ queue[a] # <<>> /\ h \in Proc
  BY QueueNames, PopType DEF IInv, TypeOK, Queues
<1>2. /\ b \in ReadyIds /\ b \in QueueId /\ a # "waitingQueue"
      /\ b \notin {"newQueue", "waitingQueue", "terminatedQueue"} \cup Sem
  <2> HIDE DEF h
  <2> QED BY <1>1, OwnReadyQueue
<1>3. /\ queue' = Push(Pop(queue, a), b, h) /\ pState' = [pState EXCEPT ![h] = st]
      /\ st \in {READY, WAITING, TERMINATED}
  OBVIOUS
<1>a. a # b BY <1>2
<1>p. UNCHANGED <<pRunningPcb, pPriority, logged>> OBVIOUS
<1> HIDE DEF a, b, h, st
<1>4. h = Head(queue[a]) BY DEF h
<1>5. b \in ReadyIds => b = ReadyQueue(pPriority[h]) BY DEF b
<1>6. /\ queue' \in Queues /\ pState' \in [Proc -> {CREATED, NEWLY, READY, RUNNING, WAITING, TERMINATED}]
      /\ NoDuplicate' /\ NotLost' /\ ReadyByPriority' /\ FreshUnplaced'
      /\ \A id \in QueueId : id \notin {a, b} => queue'[id] = queue[id]
      /\ \A x \in Proc \cup {NoProc} : InQueue(queue', x) <=> InQueue(queue, x)
  BY ONLY IInv, <1>1, <1>2, <1>3, <1>4, <1>5, <1>a, <1>p, HeadMoves
<1>7. queue'["waitingQueue"] = queue["waitingQueue"]
  BY <1>2, <1>6, QueueNames
<1>8. TypeOK' BY <1>6 DEF IInv, TypeOK, Queues
<1>9. Exclusive' BY <1>6 DEF IInv, TypeOK, Exclusive
<1>10. InterruptPlace' /\ NoNullDeref' /\ NothingToPreempt' /\ ContextInv'
  BY <1>7 DEF IInv, InterruptPlace, NoNullDeref, NothingToPreempt, ContextInv
<1> QED BY <1>6, <1>8, <1>9, <1>10 DEF IInv

\* The interrupt takes the running process out of waitingQueue into queue b.
LEMMA WaitingMoves ==
    ASSUME IInv, phase = "isr", phase' \in {"resume"} \cup Faults, phase' # "nullDeref",
           NEW b \in {"terminatedQueue"} \cup Sem, NEW st \in {WAITING, TERMINATED},
           queue' = Push(Pop(queue, "waitingQueue"), b, pRunningPcb),
           pState' = [pState EXCEPT ![pRunningPcb] = st],
           UNCHANGED <<kernelVars, runVars, pcbVars, cpuVars, logged>>
    PROVE  IInv'
<1> USE DEF kernelVars, runVars, pcbVars, levelVars, semVars, cpuVars
<1> DEFINE a == "waitingQueue"
<1>1. a \in QueueId /\ b \in QueueId /\ b \notin ReadyIds /\ a # b
  BY QueueNames
<1>2. /\ queue[a] # <<>> /\ pRunningPcb = Head(queue[a]) /\ Tail(queue[a]) = <<>>
      /\ pRunningPcb \in Proc
  BY InIsr
<1>3. queue' = Push(Pop(queue, a), b, pRunningPcb) /\ st \in {READY, WAITING, TERMINATED}
  OBVIOUS
<1> HIDE DEF a
<1>4. /\ queue' \in Queues /\ pState' \in [Proc -> {CREATED, NEWLY, READY, RUNNING, WAITING, TERMINATED}]
      /\ NoDuplicate' /\ NotLost' /\ ReadyByPriority' /\ FreshUnplaced'
      /\ queue'[a] = <<>> /\ In(queue', pRunningPcb, b)
      /\ \A x \in Proc \cup {NoProc} : InQueue(queue', x) <=> InQueue(queue, x)
  BY <1>1, <1>2, <1>3, HeadMoves
<1>5. TypeOK' BY <1>4 DEF IInv, TypeOK, Queues, Phases
<1>6. Exclusive' BY <1>4 DEF IInv, TypeOK, Exclusive, Faults
<1>7. InterruptPlace' BY <1>1, <1>2, <1>4 DEF InterruptPlace, Faults, a
<1>8. NoNullDeref' /\ NothingToPreempt' /\ ContextInv'
  BY DEF IInv, NoNullDeref, NothingToPreempt, ContextInv, Faults
<1> QED BY <1>4, <1>5, <1>6, <1>7, <1>8 DEF IInv

\* The interrupt leaves the running process in waitingQueue.
LEMMA WaitingStays ==
    ASSUME IInv, phase = "isr", phase' \in {"resume"} \cup Faults, phase' # "nullDeref",
           semValue' \in [Sem -> Int],
           UNCHANGED <<kernelVars, queue, runVars, pState, levelVars, sharedMemory,
                       semaphoreTable, semId, cpuVars, logged>>
    PROVE  IInv'
<1> USE DEF kernelVars, runVars, levelVars, cpuVars
<1>1. TypeOK' BY DEF IInv, TypeOK, Phases
<1>2. NoDuplicate' /\ NotLost' /\ ReadyByPriority' /\ FreshUnplaced'
  BY SamePlaces
<1>3. Exclusive' BY DEF IInv, Exclusive, Faults
<1>4. NoNullDeref' /\ InterruptPlace'
  BY InIsr, QueueNames DEF IInv, NoNullDeref, InterruptPlace, Faults
<1>5. NothingToPreempt' /\ ContextInv'
  BY DEF IInv, NothingToPreempt, ContextInv, Faults
<1> QED BY <1>1, <1>2, <1>3, <1>4, <1>5 DEF IInv

LEMMA IsrReturnSharedMemPtrStep == ASSUME IInv, IsrReturnSharedMemPtr PROVE IInv'
<1> USE DEF IsrReturnSharedMemPtr, ReturnTo, kernelVars, runVars, pcbVars, levelVars, semVars,
     cpuVars
<1>1. semValue' \in [Sem -> Int] BY DEF IInv, TypeOK
<1>2. CASE sharedMemory[pRunningPcb]
  BY <1>1, <1>2, WaitingStays
<1>3. CASE ~sharedMemory[pRunningPcb]
  <2>1. phase' \in {"resume"} \cup Faults /\ phase' # "nullDeref"
    BY <1>3 DEF Faults
  <2>2. HaltWaiting(pRunningPcb) BY <1>3, InIsr
  <2> QED BY <2>1, <2>2, WaitingMoves DEF HaltWaiting
<1> QED BY <1>2, <1>3

LEMMA RunningSem ==
    ASSUME IInv, pRunningPcb \in Proc, semId[pRunningPcb] # NoSem
    PROVE  semId[pRunningPcb] \in Sem
BY DEF IInv, TypeOK

LEMMA BlockOnStep ==
    ASSUME IInv, phase = "isr", phase' = "resume", NEW s \in Sem, BlockOn(s),
           UNCHANGED <<kernelVars, runVars, pcbVars, cpuVars, logged>>
    PROVE  IInv'
<1>1. /\ queue' = Push(Pop(queue, "waitingQueue"), s, pRunningPcb)
      /\ pState' = [pState EXCEPT ![pRunningPcb] = WAITING]
  BY InIsr DEF BlockOn
<1> QED BY <1>1, WaitingMoves

LEMMA IsrSemaphoreAquireStep == ASSUME IInv, IsrSemaphoreAquire PROVE IInv'
<1> USE DEF IsrSemaphoreAquire, kernelVars, runVars, pcbVars, levelVars, semVars, cpuVars
<1> DEFINE s == semId[pRunningPcb]
<1>1. pRunningPcb \in Proc BY InIsr
<1>2. CASE s = NoSem
  <2>1. semValue' \in [Sem -> Int] BY <1>2 DEF IInv, TypeOK
  <2> QED BY <1>2, <2>1, WaitingStays
<1>3. CASE s # NoSem /\ semValue[s] = 0
  <2>1. s \in Sem /\ BlockOn(s) /\ UNCHANGED semValue BY <1>1, <1>3, RunningSem
  <2> HIDE DEF s
  <2> QED BY <2>1, BlockOnStep
<1>4. CASE s # NoSem /\ semValue[s] # 0
  <2>1. semValue' \in [Sem -> Int] BY <1>1, <1>4, RunningSem DEF IInv, TypeOK
  <2> QED BY <1>4, <2>1, WaitingStays
<1> QED BY <1>2, <1>3, <1>4

LEMMA IsrSemaphoreWaitStep == ASSUME IInv, IsrSemaphoreWait PROVE IInv'
<1> USE DEF IsrSemaphoreWait, kernelVars, runVars, pcbVars, levelVars, semVars, cpuVars
<1> DEFINE s == semId[pRunningPcb]
<1>1. pRunningPcb \in Proc BY InIsr
<1>2. CASE s = NoSem
  <2>1. semValue' \in [Sem -> Int] BY DEF IInv, TypeOK
  <2> QED BY <1>2, <2>1, WaitingStays DEF Faults
<1>3. CASE s # NoSem
  <2>1. s \in Sem /\ BlockOn(s) BY <1>1, <1>3, RunningSem
  <2>2. phase' = "resume" BY <1>3
  <2> HIDE DEF s
  <2> QED BY <2>1, <2>2, BlockOnStep
<1> QED BY <1>2, <1>3

LEMMA IsrSemaphoreReleaseStep == ASSUME IInv, IsrSemaphoreRelease PROVE IInv'
<1> USE DEF IsrSemaphoreRelease, kernelVars, runVars, pcbVars, levelVars, semVars, cpuVars
<1> DEFINE s == semId[pRunningPcb]
<1>1. pRunningPcb \in Proc BY InIsr
<1>2. CASE s = NoSem
  <2>1. semValue' \in [Sem -> Int] BY <1>2 DEF IInv, TypeOK
  <2> QED BY <1>2, <2>1, WaitingStays DEF Faults
<1>3. CASE s # NoSem
  <2>1. s \in Sem /\ s \in QueueId /\ s \notin ReadyIds /\ s # "waitingQueue"
    BY <1>1, <1>3, RunningSem, QueueNames
  <2>2. semValue' \in [Sem -> Int] BY <1>3, <2>1 DEF IInv, TypeOK
  <2>3. CASE queue[s] = <<>>
    BY <1>3, <2>2, <2>3, WaitingStays DEF Wake
  <2>4. CASE queue[s] # <<>>
    <3> DEFINE h == Head(queue[s])
               b == ReadyQueue(pPriority[h])
               st == READY
    <3>1. h \in Proc BY <2>1, <2>4, PopType DEF IInv, TypeOK, Queues
    <3>2. b \in ReadyIds /\ b \in QueueId /\ s # b /\ b # "waitingQueue"
      <4> HIDE DEF s, h
      <4> QED BY <2>1, <3>1, OwnReadyQueue
    <3>3. /\ queue' = Push(Pop(queue, s), b, h) /\ pState' = [pState EXCEPT ![h] = st]
          /\ st \in {READY, WAITING, TERMINATED}
      <4>1. Wake(s) BY <1>3
      <4> QED BY <2>4, <4>1 DEF Wake
    <3>4. phase' = "resume" BY <1>3
    <3> HIDE DEF s, b, h, st
    <3>5. h = Head(queue[s]) BY DEF h
    <3>6. b \in ReadyIds => b = ReadyQueue(pPriority[h]) BY DEF b
    <3>7. /\ queue' \in Queues /\ pState' \in [Proc -> {CREATED, NEWLY, READY, RUNNING, WAITING, TERMINATED}]
          /\ NoDuplicate' /\ NotLost' /\ ReadyByPriority' /\ FreshUnplaced'
          /\ \A id \in QueueId : id \notin {s, b} => queue'[id] = queue[id]
          /\ \A x \in Proc \cup {NoProc} : InQueue(queue', x) <=> InQueue(queue, x)
      BY <2>1, <2>4, <3>2, <3>3, <3>5, <3>6, HeadMoves
    <3>8. queue'["waitingQueue"] = queue["waitingQueue"]
      BY <2>1, <3>2, <3>7, QueueNames
    <3>9. In(queue', pRunningPcb, "waitingQueue")
      BY <3>8, InIsr DEF In
    <3>10. TypeOK' BY <2>2, <3>4, <3>7 DEF IInv, TypeOK, Queues, Phases
    <3>11. Exclusive' BY <3>4, <3>7 DEF IInv, TypeOK, Exclusive
    <3>12. InterruptPlace'
      BY <3>4, <3>8, <3>9, InIsr, QueueNames DEF IInv, InterruptPlace
    <3>13. NoNullDeref' /\ NothingToPreempt' /\ ContextInv'
      BY <3>4 DEF IInv, NoNullDeref, NothingToPreempt, ContextInv
    <3> QED BY <3>7, <3>10, <3>11, <3>12, <3>13 DEF IInv
  <2> QED BY <2>3, <2>4
<1> QED BY <1>2, <1>3

\* The NULL Pcb pointer is in no queue.
LEMMA NullNowhere == ASSUME NEW q \in Queues PROVE ~InQueue(q, NoProc)
<1>1. ASSUME NEW id \in QueueId PROVE ~In(q, NoProc, id)
  <2>1. q[id] \in Seq(Proc) BY DEF Queues
  <2> QED BY <2>1, ProcAssumption DEF In
<1> QED BY <1>1 DEF InQueue

LEMMA EndRunStep == ASSUME IInv, EndRun PROVE IInv'
<1> USE DEF EndRun, kernelVars, runVars, pcbVars, levelVars, semVars, cpuVars
<1> DEFINE t == "terminatedQueue"
           ended == {queue[t][i] : i \in DOMAIN queue[t]}
<1>1. queue \in Queues /\ t \in QueueId /\ t \notin ReadyIds /\ t # "waitingQueue"
  BY QueueNames DEF IInv, TypeOK, Queues
<1>2. queue' \in Queues /\ queue'[t] = <<>> /\ \A id \in QueueId : id # t => queue'[id] = queue[id]
  BY <1>1 DEF Queues
<1>3. \A x : x \in ended <=> In(queue, x, t)
  BY DEF In
<1>4. logged' = logged \cup ended /\ phase' = "shell" /\ pRunningPcb = NoProc
  BY DEF AllQueuesEmpty
<1>w. queue'["waitingQueue"] = queue["waitingQueue"]
  BY <1>1, <1>2, QueueNames
<1> HIDE DEF t, ended
<1>5. \A id \in QueueId, x \in Proc : In(queue', x, id) <=> In(queue, x, id) /\ id # t
  BY <1>2 DEF In
<1>6. \A x \in Proc : InQueue(queue, x) <=> InQueue(queue', x) \/ x \in ended
  BY <1>1, <1>3, <1>5 DEF InQueue
<1>7. \A x \in ended : x \in Proc /\ ~InQueue(queue', x)
  <2> SUFFICES ASSUME NEW x \in ended PROVE x \in Proc /\ ~InQueue(queue', x) OBVIOUS
  <2>1. In(queue, x, t) BY <1>3
  <2>2. queue[t] \in Seq(Proc) BY <1>1 DEF Queues
  <2>3. x \in Proc BY <2>1, <2>2 DEF In
  <2>4. \A id \in QueueId : In(queue, x, id) => id = t
    BY <1>1, <2>1, InUnique DEF IInv, NoDuplicate
  <2> QED BY <1>5, <2>3, <2>4 DEF InQueue
<1>8. TypeOK' BY <1>2, <1>4, <1>7 DEF IInv, TypeOK, Queues, Phases
<1>9. NoDuplicate' BY <1>2 DEF IInv, NoDuplicate, Distinct
<1>10. NotLost' BY <1>4, <1>6 DEF IInv, NotLost
<1>11. Exclusive'
  <2>1. \A x \in Proc : x \in logged => ~InQueue(queue', x) BY <1>6 DEF IInv, Exclusive
  <2>2. logged' \subseteq Proc BY <1>8 DEF TypeOK
  <2> QED BY <1>4, <1>7, <2>1, <2>2, ProcAssumption DEF Exclusive
<1>12. FreshUnplaced' BY <1>3, <1>4, <1>6, ProcAssumption DEF IInv, FreshUnplaced
<1>13. ReadyByPriority'
  BY <1>1, <1>5, ReadyQueueNames, QueueNames DEF IInv, ReadyByPriority
<1>14. InterruptPlace' /\ NoNullDeref' /\ NothingToPreempt' /\ ContextInv'
  BY <1>w DEF IInv, InterruptPlace, NoNullDeref, NothingToPreempt, ContextInv, AllQueuesEmpty
<1> QED BY <1>8, <1>9, <1>10, <1>11, <1>12, <1>13, <1>14 DEF IInv

\* The running process is queued, in no ready queue: what Trap and Halt share.
LEMMA RunningQueued ==
    ASSUME IInv, phase = "execute", pRunningPcb \in Proc, NEW a \in {"waitingQueue", "terminatedQueue"},
           NEW st \in {WAITING, TERMINATED},
           queue' = Push(queue, a, pRunningPcb), pState' = [pState EXCEPT ![pRunningPcb] = st],
           pRunningPcb' \in {pRunningPcb, NoProc}, UNCHANGED <<pPriority, logged>>
    PROVE  /\ queue' \in Queues
           /\ pState' \in [Proc -> {CREATED, NEWLY, READY, RUNNING, WAITING, TERMINATED}]
           /\ NoDuplicate' /\ NotLost' /\ ReadyByPriority' /\ FreshUnplaced'
           /\ \A id \in QueueId : id # a => queue'[id] = queue[id]
           /\ queue'[a] = Append(queue[a], pRunningPcb)
           /\ \A x \in Proc : InQueue(queue', x) <=> InQueue(queue, x) \/ x = pRunningPcb
           /\ pRunningPcb \notin logged
<1>1. queue \in Queues /\ Distinct(queue) /\ a \in QueueId /\ a \notin ReadyIds
  BY QueueNames DEF IInv, TypeOK, Queues, NoDuplicate
<1>2. ~InQueue(queue, pRunningPcb) /\ pRunningPcb \notin logged
  BY DEF IInv, Exclusive
<1>3. /\ queue' \in Queues /\ Distinct(queue')
      /\ \A id \in QueueId : id # a => queue'[id] = queue[id]
      /\ queue'[a] = Append(queue[a], pRunningPcb)
      /\ \A id \in QueueId, x \in Proc :
           In(queue', x, id) <=> In(queue, x, id) \/ (id = a /\ x = pRunningPcb)
      /\ \A x \in Proc : InQueue(queue', x) <=> InQueue(queue, x) \/ x = pRunningPcb
  BY <1>1, <1>2, PushNew
<1>4. pState \in [Proc -> {CREATED, NEWLY, READY, RUNNING, WAITING, TERMINATED}]
  BY DEF IInv, TypeOK
<1>5. st # CREATED /\ pState[pRunningPcb] # CREATED
  BY DEF IInv, FreshUnplaced, WAITING, TERMINATED, CREATED
<1>6. NoDuplicate' BY <1>3 DEF NoDuplicate
<1>7. NotLost' BY <1>3, <1>4, <1>5 DEF IInv, NotLost
<1>8. FreshUnplaced' BY <1>3, <1>4, <1>5, ProcAssumption DEF IInv, FreshUnplaced
<1>9. ReadyByPriority'
  <2> SUFFICES ASSUME NEW x \in Proc, NEW k \in 0..2, In(queue', x, ReadyQueue(k))
               PROVE  pPriority[x] = k
    BY DEF ReadyByPriority
  <2>1. ReadyQueue(k) \in ReadyIds /\ ReadyQueue(k) \in QueueId BY ReadyQueueNames, QueueNames
  <2>2. In(queue, x, ReadyQueue(k)) BY <1>1, <1>3, <2>1
  <2> QED BY <2>2 DEF IInv, ReadyByPriority
<1> QED BY <1>2, <1>3, <1>4, <1>6, <1>7, <1>8, <1>9

LEMMA TrapStep == ASSUME IInv, NEW code \in Swis, Trap(code) PROVE IInv'
<1> USE DEF Trap, kernelVars, runVars, pcbVars, levelVars, semVars, cpuVars
<1> DEFINE a == "waitingQueue"
           st == WAITING
<1>1. /\ pRunningPcb \in Proc /\ queue' = Push(queue, a, pRunningPcb)
      /\ pState' = [pState EXCEPT ![pRunningPcb] = st]
      /\ a \in {"waitingQueue", "terminatedQueue"} /\ st \in {WAITING, TERMINATED}
      /\ phase = "execute" /\ phase' = "isr"
  BY DEF IInv, TypeOK
<1>2. /\ pRunningPcb' \in {pRunningPcb, NoProc} /\ pRunningPcb' = pRunningPcb
      /\ UNCHANGED <<pPriority, logged>>
  OBVIOUS
<1> HIDE DEF a, st
<1>3. /\ queue' \in Queues
      /\ pState' \in [Proc -> {CREATED, NEWLY, READY, RUNNING, WAITING, TERMINATED}]
      /\ NoDuplicate' /\ NotLost' /\ ReadyByPriority' /\ FreshUnplaced'
      /\ queue'[a] = Append(queue[a], pRunningPcb)
      /\ \A x \in Proc : InQueue(queue', x) <=> InQueue(queue, x) \/ x = pRunningPcb
      /\ pRunningPcb \notin logged
  BY ONLY IInv, <1>1, <1>2, RunningQueued
<1>4. cpuOwner = pRunningPcb /\ unsaved' = {}
  BY <1>1 DEF IInv, ContextInv, AfterSave
<1>5. quantumClock' \in Nat
  BY QuantaAssumption DEF IInv, TypeOK, ClockAfterInstruction, Tick
<1>6. TypeOK' BY <1>3, <1>4, <1>5 DEF IInv, TypeOK, Queues, Phases
<1>7. Exclusive' BY <1>1, <1>3 DEF IInv, TypeOK, Exclusive
<1>8. InterruptPlace'
  <2>1. queue["waitingQueue"] = <<>> BY <1>1 DEF IInv, InterruptPlace
  <2>2. Append(<<>>, pRunningPcb) = <<pRunningPcb>> OBVIOUS
  <2> QED BY <1>1, <1>2, <1>3, <2>1, <2>2 DEF InterruptPlace, a
<1>9. NoNullDeref' /\ NothingToPreempt' /\ ContextInv'
  BY <1>4 DEF IInv, NoNullDeref, NothingToPreempt, ContextInv
<1> QED BY <1>3, <1>6, <1>7, <1>8, <1>9 DEF IInv

LEMMA HaltStep == ASSUME IInv, Halt PROVE IInv'
<1> USE DEF Halt, HaltTo, kernelVars, runVars, pcbVars, levelVars, semVars, cpuVars
<1> DEFINE a == "terminatedQueue"
           st == TERMINATED
<1>1. /\ pRunningPcb \in Proc /\ queue' = Push(queue, a, pRunningPcb)
      /\ pState' = [pState EXCEPT ![pRunningPcb] = st]
      /\ a \in {"waitingQueue", "terminatedQueue"} /\ st \in {WAITING, TERMINATED}
      /\ phase = "execute" /\ phase' \in {"loop", "badTable"} /\ a # "waitingQueue"
  BY DEF IInv, TypeOK
<1>2. /\ pRunningPcb' \in {pRunningPcb, NoProc} /\ pRunningPcb' = NoProc
      /\ UNCHANGED <<pPriority, logged>>
  OBVIOUS
<1> HIDE DEF a, st
<1>3. /\ queue' \in Queues
      /\ pState' \in [Proc -> {CREATED, NEWLY, READY, RUNNING, WAITING, TERMINATED}]
      /\ NoDuplicate' /\ NotLost' /\ ReadyByPriority' /\ FreshUnplaced'
      /\ \A id \in QueueId : id # a => queue'[id] = queue[id]
      /\ \A x \in Proc : InQueue(queue', x) <=> InQueue(queue, x) \/ x = pRunningPcb
      /\ pRunningPcb \notin logged
  BY ONLY IInv, <1>1, <1>2, RunningQueued
<1>4. unsaved' = {}
  BY <1>1 DEF IInv, ContextInv, AfterSave
<1>5. quantumClock' \in Nat BY DEF IInv, TypeOK, ClockReset
<1>6. TypeOK' BY <1>1, <1>3, <1>4, <1>5 DEF IInv, TypeOK, Queues, Phases, Faults
<1>7. Exclusive'
  BY <1>2, <1>3, NullNowhere, ProcAssumption DEF IInv, TypeOK, Exclusive
<1>8. InterruptPlace'
  <2>1. queue'["waitingQueue"] = queue["waitingQueue"] BY <1>1, <1>3, QueueNames
  <2> QED BY <1>1, <2>1 DEF IInv, InterruptPlace
<1>9. NoNullDeref' /\ NothingToPreempt' /\ ContextInv'
  BY <1>1, <1>2, <1>4 DEF NoNullDeref, NothingToPreempt, ContextInv
<1> QED BY <1>3, <1>6, <1>7, <1>8, <1>9 DEF IInv

\* A process is dispatched only when some process is ready.
LEMMA ReadyExists ==
    ASSUME IInv, phase = "admit", queue["newQueue"] = <<>>, DispatchNeeded
    PROVE  ~ReadyQueuesEmpty(queue)
BY DEF IInv, InterruptPlace, DispatchNeeded, AllQueuesEmpty

LEMMA DispatchStep == ASSUME IInv, Dispatch PROVE IInv'
<1> USE DEF Dispatch, kernelVars, runVars, pcbVars, levelVars, semVars, cpuVars
<1> DEFINE n == NextReady(queue)
<1>1. queue \in Queues /\ Distinct(queue) BY DEF IInv, TypeOK, Queues, NoDuplicate
<1>2. /\ queue' \in Queues /\ Distinct(queue') /\ n \in Proc
      /\ \E id \in ReadyIds : In(queue, n, id)
      /\ \A id \in QueueId \ ReadyIds : queue'[id] = queue[id]
      /\ \A id \in QueueId, p \in Proc : In(queue', p, id) <=> In(queue, p, id) /\ p # n
      /\ \A p \in Proc : InQueue(queue', p) <=> InQueue(queue, p) /\ p # n
  BY <1>1, ReadyExists, PopTop
<1>3. /\ n # NoProc /\ InQueue(queue, n)
      /\ queue'["waitingQueue"] = queue["waitingQueue"]
  BY <1>2, ProcAssumption, QueueNames DEF InQueue
<1>4. /\ phase = "admit" /\ phase' \in {"execute", "preempt"} /\ pRunningPcb' = n /\ cpuOwner' = n
      /\ pRunningPcb = NoProc
      /\ pState' \in {pState, [pState EXCEPT ![n] = RUNNING]}
  BY <1>3 DEF AfterDispatch, DispatchNeeded
<1> HIDE DEF n
<1>5. /\ pState' \in [Proc -> {CREATED, NEWLY, READY, RUNNING, WAITING, TERMINATED}]
      /\ \A p \in Proc : pState'[p] = CREATED <=> pState[p] = CREATED
  <2>1. pState[n] # CREATED /\ RUNNING # CREATED
    BY <1>2, <1>3 DEF IInv, FreshUnplaced, RUNNING, CREATED
  <2> QED BY <1>2, <1>4, <2>1 DEF IInv, TypeOK
<1>6. TypeOK' BY <1>2, <1>4, <1>5 DEF IInv, TypeOK, Queues, Phases
<1>7. NoDuplicate' BY <1>2 DEF NoDuplicate
<1>8. NotLost' BY <1>2, <1>4, <1>5, ProcAssumption DEF IInv, NotLost
<1>9. Exclusive' BY <1>2, <1>3, <1>4 DEF IInv, TypeOK, Exclusive
<1>10. ReadyByPriority'
  BY <1>2, ReadyQueueNames, QueueNames DEF IInv, ReadyByPriority
<1>11. FreshUnplaced' BY <1>2, <1>3, <1>4, <1>5 DEF IInv, FreshUnplaced
<1>12. InterruptPlace' BY <1>3, <1>4 DEF IInv, InterruptPlace
<1>13. unsaved = {} BY <1>4, ProcAssumption DEF IInv, TypeOK, ContextInv
<1>14. NoNullDeref' /\ NothingToPreempt' /\ ContextInv'
  BY <1>3, <1>4, <1>13 DEF NoNullDeref, NothingToPreempt, ContextInv
<1> QED BY <1>6, <1>7, <1>8, <1>9, <1>10, <1>11, <1>12, <1>14 DEF IInv

\* The context switch of both preemptive algorithms.
LEMMA SwitchContextStep ==
    ASSUME IInv, phase = "preempt", phase' = "execute", pRunningPcb \in Proc,
           NEW priority \in 0..2, SwitchContext(priority),
           pPriority' = [pPriority EXCEPT ![pRunningPcb] = priority],
           pQuantumCount' \in [Proc -> 0..(DemoteAfter - 1)], quantumClock' \in Nat,
           UNCHANGED <<kernelVars, returnCode, sharedMemory, semVars, logged>>
    PROVE  IInv'
<1> DEFINE old == pRunningPcb
           a == ReadyQueue(priority)
           q == Push(queue, a, old)
           n == NextReady(q)
<1>1. /\ queue \in Queues /\ Distinct(queue) /\ a \in ReadyIds /\ a \in QueueId
      /\ old \in Proc /\ ~InQueue(queue, old) /\ old \notin logged
  BY QueueNames, ReadyQueueNames DEF IInv, TypeOK, Queues, NoDuplicate, Exclusive
<1>2. /\ queue' = PopReady(q) /\ pRunningPcb' = n /\ cpuOwner' = n
      /\ pState' = [pState EXCEPT ![old] = READY, ![n] = RUNNING]
      /\ unsaved' = AfterSave(old)
  BY DEF SwitchContext
<1>u. UNCHANGED <<schedulerAlgo, schedulerQuantum, mlfqRatio, argMap, returnCode, sharedMemory,
                  semaphoreTable, semValue, semId, logged>>
  BY DEF kernelVars, semVars
<1>p. pPriority' = [pPriority EXCEPT ![old] = priority] OBVIOUS
<1>c. unsaved' = {} BY <1>2, ProcAssumption DEF IInv, ContextInv, AfterSave
<1> HIDE DEF old, a
<1>3. /\ q \in Queues /\ Distinct(q) /\ q[a] # <<>>
      /\ \A id \in QueueId : id # a => q[id] = queue[id]
      /\ \A id \in QueueId, p \in Proc : In(q, p, id) <=> In(queue, p, id) \/ (id = a /\ p = old)
      /\ \A p \in Proc : InQueue(q, p) <=> InQueue(queue, p) \/ p = old
  BY <1>1, PushNew
<1> HIDE DEF q
<1>4. ~ReadyQueuesEmpty(q) BY <1>1, <1>3 DEF ReadyQueuesEmpty
<1>5. /\ queue' \in Queues /\ Distinct(queue') /\ n \in Proc
      /\ \E id \in ReadyIds : In(q, n, id)
      /\ \A id \in QueueId \ ReadyIds : queue'[id] = q[id]
      /\ \A id \in QueueId, p \in Proc : In(queue', p, id) <=> In(q, p, id) /\ p # n
      /\ \A p \in Proc : InQueue(queue', p) <=> InQueue(q, p) /\ p # n
  BY <1>2, <1>3, <1>4, PopTop
<1> HIDE DEF n
<1>6. InQueue(q, n) /\ queue'["waitingQueue"] = queue["waitingQueue"]
  BY <1>1, <1>3, <1>5, QueueNames DEF InQueue
<1>7. InQueue(queue, n) \/ n = old BY <1>3, <1>5, <1>6
<1>8. n # NoProc BY <1>5, ProcAssumption
<1>9. /\ pState' \in [Proc -> {CREATED, NEWLY, READY, RUNNING, WAITING, TERMINATED}]
      /\ \A p \in Proc : pState'[p] = CREATED <=> pState[p] = CREATED
  <2>1. pState[n] # CREATED /\ pState[old] # CREATED /\ RUNNING # CREATED /\ READY # CREATED
    BY <1>1, <1>5, <1>7 DEF IInv, FreshUnplaced, RUNNING, READY, CREATED, old
  <2>2. pState \in [Proc -> {CREATED, NEWLY, READY, RUNNING, WAITING, TERMINATED}]
    BY DEF IInv, TypeOK
  <2> HIDE DEF IInv
  <2> QED BY <1>1, <1>2, <1>5, <2>1, <2>2
<1>10. pPriority' \in [Proc -> 0..2] BY <1>1, <1>p DEF IInv, TypeOK
<1>11. TypeOK'
  BY <1>2, <1>5, <1>9, <1>10, <1>u, <1>c DEF IInv, TypeOK, Queues, Phases
<1>12. NoDuplicate' BY <1>5 DEF NoDuplicate
<1>13. NotLost'
  BY <1>2, <1>3, <1>5, <1>9, <1>u DEF IInv, NotLost, old
<1>14. Exclusive' 
  <2>1. n \notin logged BY <1>1, <1>5, <1>7 DEF IInv, Exclusive
  <2> QED BY <1>1, <1>2, <1>3, <1>5, <1>u, <2>1 DEF IInv, TypeOK, Exclusive
<1>15. ReadyByPriority'
  <2> SUFFICES ASSUME NEW x \in Proc, NEW k \in 0..2, In(queue', x, ReadyQueue(k))
               PROVE  pPriority'[x] = k
    BY DEF ReadyByPriority
  <2>1. ReadyQueue(k) \in QueueId BY ReadyQueueNames, QueueNames
  <2>2. In(queue, x, ReadyQueue(k)) \/ (ReadyQueue(k) = a /\ x = old)
    BY <1>3, <1>5, <2>1
  <2>3. CASE In(queue, x, ReadyQueue(k))
    <3>1. x # old BY <1>1, <2>1, <2>3 DEF InQueue
    <3>2. pPriority[x] = k BY <2>3 DEF IInv, ReadyByPriority
    <3> QED BY <1>p, <3>1, <3>2 DEF IInv, TypeOK
  <2>4. CASE ReadyQueue(k) = a /\ x = old
    <3>1. k = priority BY <2>4, ReadyQueueNames DEF a
    <3> QED BY <1>p, <2>4, <3>1, <1>1 DEF IInv, TypeOK
  <2> QED BY <2>2, <2>3, <2>4
<1>16. FreshUnplaced'
  BY <1>2, <1>3, <1>5, <1>7, <1>9, <1>u DEF IInv, FreshUnplaced, old
<1>17. InterruptPlace' BY <1>6 DEF IInv, InterruptPlace
<1>18. NoNullDeref' /\ NothingToPreempt' /\ ContextInv'
  BY <1>2, <1>c, <1>8 DEF NoNullDeref, NothingToPreempt, ContextInv
<1> QED BY <1>11, <1>12, <1>13, <1>14, <1>15, <1>16, <1>17, <1>18 DEF IInv

LEMMA PreemptRRStep == ASSUME IInv, PreemptRR PROVE IInv'
<1> USE DEF PreemptRR, runVars, pcbVars, levelVars, semVars, cpuVars
<1>1. pRunningPcb # NoProc
  BY DEF IInv, NothingToPreempt, QuantumUp, ReadyQueuesEmpty, ReadyIds
<1> DEFINE priority == pPriority[pRunningPcb]
<1>2. pRunningPcb \in Proc /\ priority \in 0..2 /\ SwitchContext(priority) /\ phase' = "execute"
  BY <1>1 DEF IInv, TypeOK
<1>3. pPriority' = [pPriority EXCEPT ![pRunningPcb] = priority]
  BY <1>1 DEF IInv, TypeOK
<1>4. /\ pQuantumCount' \in [Proc -> 0..(DemoteAfter - 1)] /\ quantumClock' \in Nat
      /\ UNCHANGED <<kernelVars, returnCode, sharedMemory, semVars, logged>>
  BY <1>1 DEF IInv, TypeOK
<1> HIDE DEF priority
<1> QED BY <1>2, <1>3, <1>4, SwitchContextStep

LEMMA PreemptMLFQStep == ASSUME IInv, PreemptMLFQ PROVE IInv'
<1> USE DEF PreemptMLFQ
<1> DEFINE p == pRunningPcb
           priority == IF DemotionDue(p) /\ pPriority[p] < 2 THEN pPriority[p] + 1 ELSE pPriority[p]
<1>1. pRunningPcb # NoProc /\ pRunningPcb \in Proc BY DEF QuantumUp, IInv, TypeOK
<1>2. /\ priority \in 0..2 /\ SwitchContext(priority) /\ phase' = "execute"
      /\ pPriority' = [pPriority EXCEPT ![pRunningPcb] = priority]
  BY <1>1 DEF IInv, TypeOK
<1>3. pQuantumCount' \in [Proc -> 0..(DemoteAfter - 1)]
  BY <1>1, DemoteAssumption DEF IInv, TypeOK, DemotionDue
<1>4. /\ quantumClock' \in Nat
      /\ UNCHANGED <<kernelVars, returnCode, sharedMemory, semVars, logged>>
  OBVIOUS
<1> HIDE DEF priority
<1> QED BY <1>1, <1>2, <1>3, <1>4, SwitchContextStep

LEMMA ResumeStep == ASSUME IInv, Resume PROVE IInv'
<1> DEFINE p == pRunningPcb
           priority == IF schedulerAlgo = "MLFQ" /\ pPriority[p] > 0
                       THEN pPriority[p] - 1 ELSE pPriority[p]
           a == "waitingQueue"
           b == ReadyQueue(priority)
<1>1. /\ p \in Proc /\ queue[a] \in {<<>>, <<p>>} /\ a \in QueueId
      /\ \E id \in QueueId \ ReadyIds : In(queue, p, id)
      /\ unsaved = {}
  BY QueueNames DEF IInv, Resume, InterruptPlace, ContextInv
<1>2. /\ pPriority' = [pPriority EXCEPT ![p] = priority] /\ Requeue(p, priority)
      /\ phase' = "loop" /\ pRunningPcb' = NoProc /\ returnCode' = 0
      /\ UNCHANGED <<schedulerAlgo, schedulerQuantum, mlfqRatio, argMap, sharedMemory,
                     semaphoreTable, semValue, semId, cpuOwner, unsaved, logged>>
  BY DEF Resume, kernelVars, semVars, cpuVars
<1>3. /\ pQuantumCount' \in [Proc -> 0..(DemoteAfter - 1)] /\ quantumClock' \in Nat
  BY <1>1, DemoteAssumption DEF IInv, TypeOK, Resume, ClockReset
<1>4. pPriority \in [Proc -> 0..2] BY DEF IInv, TypeOK
<1>5. priority \in 0..2 BY <1>1, <1>4
<1>6. queue \in Queues /\ Distinct(queue) BY DEF IInv, TypeOK, Queues, NoDuplicate
<1>7. b \in ReadyIds /\ b \in QueueId /\ b # a BY <1>5, ReadyQueueNames, QueueNames
<1> HIDE DEF p, priority, a, b
<1>8. /\ InQueue(queue, p) /\ \A id \in ReadyIds : ~In(queue, p, id)
  BY <1>1, <1>6, InUnique, QueueNames DEF InQueue
<1>9. /\ queue' \in Queues /\ Distinct(queue') /\ queue'["waitingQueue"] = <<>>
      /\ pState' \in [Proc -> {CREATED, NEWLY, READY, RUNNING, WAITING, TERMINATED}]
      /\ \A x \in Proc : pState'[x] = CREATED <=> pState[x] = CREATED
      /\ \A x \in Proc : InQueue(queue', x) <=> InQueue(queue, x)
      /\ \A id \in ReadyIds, x \in Proc :
           In(queue', x, id) => In(queue, x, id) \/ (x = p /\ id = b)
  <2>1. CASE queue[a] = <<>>
    <3>1. UNCHANGED <<queue, pState>> BY <1>2, <2>1 DEF Requeue, a
    <3> QED BY <2>1, <3>1, <1>6 DEF IInv, TypeOK, a
  <2>2. CASE queue[a] = <<p>>
    <3>1. /\ queue[a] # <<>> /\ Head(queue[a]) = p /\ Tail(queue[a]) = <<>> BY <2>2
    <3>2. /\ queue' = Push(Pop(queue, a), b, p)
          /\ queue' = Push(Pop(queue, a), b, Head(queue[a])) /\ a # b
          /\ pState' = [pState EXCEPT ![p] = READY]
      BY <1>2, <1>7, <3>1 DEF Requeue, a, b
    <3>3. /\ queue' \in Queues /\ Distinct(queue') /\ queue'[a] = <<>>
          /\ \A id \in QueueId, x \in Proc :
               In(queue', x, id) <=> IF x = p THEN id = b ELSE In(queue, x, id)
          /\ \A x \in Proc : InQueue(queue', x) <=> InQueue(queue, x)
      <4>1. /\ a \in QueueId /\ b \in QueueId /\ a # b /\ queue[a] # <<>>
            /\ queue' = Push(Pop(queue, a), b, Head(queue[a]))
        BY <1>1, <1>7, <3>1, <3>2
      <4>2. /\ queue' \in Queues /\ Distinct(queue') /\ queue'[a] = Tail(queue[a])
            /\ \A id \in QueueId, x \in Proc :
                 In(queue', x, id) <=> IF x = Head(queue[a]) THEN id = b ELSE In(queue, x, id)
            /\ \A x \in Proc : InQueue(queue', x) <=> InQueue(queue, x)
        BY ONLY <1>6, <4>1, MoveHead
      <4> QED BY ONLY <3>1, <4>2
    <3>4. pState[p] # CREATED /\ READY # CREATED
      BY <1>1, <1>8 DEF IInv, FreshUnplaced, READY, CREATED
    <3>5. pState \in [Proc -> {CREATED, NEWLY, READY, RUNNING, WAITING, TERMINATED}]
      BY DEF IInv, TypeOK
    <3>6. /\ pState' \in [Proc -> {CREATED, NEWLY, READY, RUNNING, WAITING, TERMINATED}]
          /\ \A x \in Proc : pState'[x] = CREATED <=> pState[x] = CREATED
      BY <1>1, <3>2, <3>4, <3>5
    <3> QED BY <3>3, <3>6, QueueNames DEF a
  <2> QED BY <1>1, <2>1, <2>2
<1>10. TypeOK'
  BY <1>1, <1>2, <1>3, <1>4, <1>5, <1>9 DEF IInv, TypeOK, Queues, Phases
<1>11. NoDuplicate' BY <1>9 DEF NoDuplicate
<1>12. NotLost' BY <1>2, <1>8, <1>9 DEF IInv, NotLost, p
<1>13. Exclusive'
  BY <1>2, <1>9, NullNowhere, ProcAssumption DEF IInv, TypeOK, Exclusive
<1>14. ReadyByPriority'
  <2> SUFFICES ASSUME NEW x \in Proc, NEW k \in 0..2, In(queue', x, ReadyQueue(k))
               PROVE  pPriority'[x] = k
    BY DEF ReadyByPriority
  <2>1. ReadyQueue(k) \in ReadyIds BY ReadyQueueNames
  <2>2. CASE In(queue, x, ReadyQueue(k))
    <3>1. x # p BY <1>8, <2>1, <2>2
    <3>2. pPriority[x] = k BY <2>2 DEF IInv, ReadyByPriority
    <3> QED BY <1>2, <1>4, <3>1, <3>2
  <2>3. CASE x = p /\ ReadyQueue(k) = b
    <3>1. k = priority BY <1>5, <2>3, ReadyQueueNames DEF b
    <3> QED BY <1>1, <1>2, <1>4, <2>3, <3>1
  <2> QED BY <1>9, <2>1, <2>2, <2>3
<1>15. FreshUnplaced' BY <1>2, <1>9, ProcAssumption DEF IInv, FreshUnplaced
<1>16. InterruptPlace' BY <1>2, <1>9 DEF InterruptPlace
<1>17. NoNullDeref' /\ NothingToPreempt' /\ ContextInv'
  BY <1>1, <1>2 DEF NoNullDeref, NothingToPreempt, ContextInv
<1> QED BY <1>10, <1>11, <1>12, <1>13, <1>14, <1>15, <1>16, <1>17 DEF IInv

LEMMA StutterStep == ASSUME IInv, UNCHANGED vars PROVE IInv'
<1> USE DEF vars, kernelVars, runVars, pcbVars, levelVars, semVars, cpuVars
<1>1. TypeOK' BY DEF IInv, TypeOK
<1>2. NoDuplicate' /\ NotLost' /\ ReadyByPriority' /\ FreshUnplaced'
  BY SamePlaces
<1>3. Exclusive' /\ NoNullDeref' BY DEF IInv, Exclusive, NoNullDeref
<1>4. InterruptPlace' /\ NothingToPreempt' /\ ContextInv'
  BY DEF IInv, InterruptPlace, NothingToPreempt, ContextInv
<1> QED BY <1>1, <1>2, <1>3, <1>4 DEF IInv

LEMMA NextInv == IInv /\ [Next]_vars => IInv'
<1> SUFFICES ASSUME IInv, [Next]_vars PROVE IInv' OBVIOUS
<1>1. CASE ShellStep
  BY <1>1, SetSchedulerStep, LoadProgramStep, InitSemaphoreStep, OpenSharedMemoryStep,
     StartRunStep DEF ShellStep
<1>2. CASE Arrive \/ CallScheduler \/ EndRun
  BY <1>2, ArriveStep, CallSchedulerStep, EndRunStep
<1>3. CASE AdmitNew \/ Dispatch \/ KeepRunning
  BY <1>3, AdmitNewStep, DispatchStep, KeepRunningStep
<1>4. CASE PreemptRR \/ PreemptMLFQ \/ NoPreemption
  BY <1>4, PreemptRRStep, PreemptMLFQStep, NoPreemptionStep
<1>5. CASE Idle \/ Instruction \/ Halt \/ \E code \in Swis : Trap(code)
  BY <1>5, IdleStep, InstructionStep, HaltStep, TrapStep
<1>6. CASE IsrPrint \/ IsrVFork \/ IsrReturnSharedMemPtr
  BY <1>6, IsrPrintStep, IsrVForkStep, IsrReturnSharedMemPtrStep
<1>7. CASE IsrSemaphoreAquire \/ IsrSemaphoreRelease \/ IsrSemaphoreWait \/ Resume
  BY <1>7, IsrSemaphoreAquireStep, IsrSemaphoreReleaseStep, IsrSemaphoreWaitStep, ResumeStep
<1>8. CASE Faulted \/ UNCHANGED vars
  BY <1>8, StutterStep DEF Faulted
<1> QED BY <1>1, <1>2, <1>3, <1>4, <1>5, <1>6, <1>7, <1>8 DEF Next, KernelStep, SchedulerStep

----------------------------------------------------------------------------
(* The theorems.                                                           *)

\* The inductive invariant holds in every state the kernel reaches.
THEOREM Invariance == Spec => []IInv
BY InitInv, NextInv, PTL DEF Spec

\* Every variable stays in its range: a priority always names a ready queue,
\* and the preemption count stays below the demotion limit.
THEOREM TypeCorrect == Spec => []TypeOK
<1>1. IInv => TypeOK BY DEF IInv
<1> QED BY <1>1, Invariance, PTL

\* No process is queued twice by the hand-written moves between the deques.
THEOREM NoDuplicateHolds == Spec => []NoDuplicate
<1>1. IInv => NoDuplicate BY DEF IInv
<1> QED BY <1>1, Invariance, PTL

\* Whatever the interleaving of preemptions, interrupts and forks, a created
\* process is running, queued or logged.
THEOREM NotLostHolds == Spec => []NotLost
<1>1. IInv => NotLost BY DEF IInv
<1> QED BY <1>1, Invariance, PTL

\* The process on the CPU is in no queue, a logged one is never scheduled again.
THEOREM ExclusiveHolds == Spec => []Exclusive
<1>1. IInv => Exclusive BY DEF IInv
<1> QED BY <1>1, Invariance, PTL

\* A ready process is in the queue of its priority after every preemption,
\* promotion, wake-up and fork (scheduler.cpp:238).
THEOREM ReadyByPriorityHolds == Spec => []ReadyByPriority
<1>1. IInv => ReadyByPriority BY DEF IInv
<1> QED BY <1>1, Invariance, PTL

\* The NULL checks roundRobin leaves out are never needed (scheduler.cpp:100).
THEOREM NoNullDerefHolds == Spec => []NoNullDeref
<1>1. IInv => NoNullDeref BY DEF IInv
<1> QED BY <1>1, Invariance, PTL

\* The CPU executes a process on its own registers, and a process that does
\* not run has them saved in its PCB.
THEOREM ContextSafeHolds == Spec => []ContextSafe
<1>1. IInv => ContextSafe BY DEF IInv, ContextInv, ContextSafe
<1> QED BY <1>1, Invariance, PTL

----------------------------------------------------------------------------
(* Places.  Every step moves one process to one place, takes one process to *)
(* the CPU, exchanges the process on the CPU, or logs what has ended.  The  *)
(* lemmas named Places... say which; the theorems that follow rest on them. *)

\* The state of the processes in a queue.
StateOf(id) == CASE id = "newQueue" -> NEWLY
                 [] id \in ReadyIds -> READY
                 [] id = "terminatedQueue" -> TERMINATED
                 [] OTHER -> WAITING

\* p is in queue b of r and nowhere else; the others are where they were in q.
MovesTo(q, r, p, b) ==
    \A id \in QueueId, x \in Proc : In(r, x, id) <=> IF x = p THEN id = b ELSE In(q, x, id)

\* The step puts p in queue b and sets its state.
Places(p, b) ==
    /\ p \in Proc /\ p \notin logged /\ b \in QueueId
    /\ MovesTo(queue, queue', p, b)
    /\ pState' = [pState EXCEPT ![p] = StateOf(b)]
    /\ logged' = logged

\* The step takes the ready process n to the CPU.
Takes(n) ==
    /\ n \in Proc /\ n \notin logged
    /\ \E id \in ReadyIds : In(queue, n, id)
    /\ \A id \in QueueId, x \in Proc : In(queue', x, id) <=> In(queue, x, id) /\ x # n
    /\ \A id \in QueueId \ ReadyIds : queue'[id] = queue[id]
    /\ pRunningPcb' = n /\ pRunningPcb = NoProc
    /\ pState' \in {pState, [pState EXCEPT ![n] = RUNNING]}
    /\ phase' \in {"preempt", "execute"} /\ logged' = logged

\* The step takes n to the CPU after p was made ready; n may be p.
Switches(p, n) ==
    /\ p \in Proc /\ n \in Proc /\ p = pRunningPcb /\ pRunningPcb' = n
    /\ p \notin logged /\ n \notin logged
    /\ ~InQueue(queue, p)
    /\ n = p \/ \E id \in ReadyIds : In(queue, n, id)
    /\ \E b \in ReadyIds : \A id \in QueueId, x \in Proc :
         In(queue', x, id) <=> (In(queue, x, id) \/ (x = p /\ id = b)) /\ x # n
    /\ \A id \in QueueId \ ReadyIds : queue'[id] = queue[id]
    /\ pState' = [pState EXCEPT ![p] = READY, ![n] = RUNNING]
    /\ logged' = logged

----------------------------------------------------------------------------
(* What each step does to the places.                                      *)

LEMMA QueuesFromInv == ASSUME IInv PROVE queue \in Queues /\ Distinct(queue)
BY DEF IInv, TypeOK, Queues, NoDuplicate

LEMMA StateOfReady == \A k \in 0..2 : StateOf(ReadyQueue(k)) = READY
BY ReadyQueueNames DEF StateOf, ReadyIds

LEMMA StateOfNames ==
    /\ StateOf("newQueue") = NEWLY /\ StateOf("waitingQueue") = WAITING
    /\ StateOf("terminatedQueue") = TERMINATED
    /\ \A id \in ReadyIds : StateOf(id) = READY
    /\ \A s \in Sem : StateOf(s) = WAITING
BY QueueNames DEF StateOf, ReadyIds

\* A process that is in no queue joins queue b.
LEMMA PlacesNew ==
    ASSUME IInv, NEW p \in Proc, ~InQueue(queue, p), p \notin logged, NEW b \in QueueId,
           queue' = Push(queue, b, p), pState' = [pState EXCEPT ![p] = StateOf(b)],
           logged' = logged
    PROVE  /\ Places(p, b)
           /\ \A id \in QueueId : id # b => queue'[id] = queue[id]
           /\ queue'[b] = Append(queue[b], p)
<1>1. /\ \A id \in QueueId : id # b => queue'[id] = queue[id]
      /\ queue'[b] = Append(queue[b], p)
      /\ \A id \in QueueId, x \in Proc : In(queue', x, id) <=> In(queue, x, id) \/ (id = b /\ x = p)
  BY QueuesFromInv, PushNew
<1>2. MovesTo(queue, queue', p, b)
  BY <1>1 DEF MovesTo, InQueue
<1> QED BY <1>1, <1>2 DEF Places

\* The first process of queue a moves to queue b.
LEMMA PlacesHead ==
    ASSUME IInv, NEW a \in QueueId, NEW b \in QueueId, a # b, queue[a] # <<>>,
           NEW h, h = Head(queue[a]), queue' = Push(Pop(queue, a), b, h),
           pState' = [pState EXCEPT ![h] = StateOf(b)], logged' = logged
    PROVE  /\ Places(h, b) /\ In(queue, h, a)
           /\ \A id \in QueueId : id \notin {a, b} => queue'[id] = queue[id]
           /\ queue'[a] = Tail(queue[a])
           /\ queue'[b] = Append(queue[b], h)
<1>1. /\ h \in Proc /\ In(queue, h, a)
      /\ \A id \in QueueId : id \notin {a, b} => queue'[id] = queue[id]
      /\ queue'[a] = Tail(queue[a])
      /\ \A id \in QueueId, x \in Proc : In(queue', x, id) <=> IF x = h THEN id = b ELSE In(queue, x, id)
  BY QueuesFromInv, MoveHead
<1>2. h \notin logged BY <1>1 DEF IInv, Exclusive, InQueue
<1>3. MovesTo(queue, queue', h, b) BY <1>1 DEF MovesTo
<1>4. queue'[b] = Append(queue[b], h)
  <2>1. PICK r \in Queues : r = Pop(queue, a) /\ r[b] = queue[b]
    BY QueuesFromInv, PopType
  <2>2. queue' = Push(r, b, h) BY <2>1
  <2>3. Push(r, b, h)[b] = Append(r[b], h) BY <1>1, PushType
  <2> QED BY <2>1, <2>2, <2>3
<1> QED BY <1>1, <1>2, <1>3, <1>4 DEF Places

LEMMA PlacesCreated ==
    ASSUME IInv, NEW p \in Proc, NewPcb(p), logged' = logged
    PROVE  /\ Places(p, "newQueue") /\ pState[p] = CREATED
           /\ \A s \in Sem : queue'[s] = queue[s]
<1> DEFINE b == "newQueue"
<1>1. /\ ~InQueue(queue, p) /\ p \notin logged /\ pState[p] = CREATED /\ b \in QueueId
      /\ queue' = Push(queue, b, p) /\ pState' = [pState EXCEPT ![p] = StateOf(b)]
  BY QueueNames, StateOfNames DEF IInv, FreshUnplaced, NewPcb
<1> HIDE DEF b
<1>2. /\ Places(p, b) /\ \A id \in QueueId : id # b => queue'[id] = queue[id]
  BY <1>1, PlacesNew
<1> QED BY <1>1, <1>2, QueueNames DEF b

LEMMA PlacesFork ==
    ASSUME IInv, IsrVFork
    PROVE  /\ \E c \in Proc, b \in ReadyIds : Places(c, b) /\ pState[c] = CREATED
           /\ \A s \in Sem : queue'[s] = queue[s]
<1>1. PICK c \in Proc : /\ pState[c] = CREATED
                        /\ pState' = [pState EXCEPT ![c] = READY]
                        /\ queue' = Push(queue, ReadyQueue(pPriority[c]), c)
  BY DEF IsrVFork
<1> DEFINE b == ReadyQueue(pPriority[c])
<1>2. /\ b \in ReadyIds /\ b \in QueueId /\ b \notin Sem
  BY OwnReadyQueue
<1>3. ~InQueue(queue, c) /\ c \notin logged /\ logged' = logged
  BY <1>1 DEF IInv, FreshUnplaced, IsrVFork
<1>4. queue' = Push(queue, b, c) /\ pState' = [pState EXCEPT ![c] = StateOf(b)]
  BY <1>1, <1>2, StateOfNames
<1> HIDE DEF b
<1>5. Places(c, b) /\ \A id \in QueueId : id # b => queue'[id] = queue[id]
  BY <1>2, <1>3, <1>4, PlacesNew
<1> QED BY <1>1, <1>2, <1>5, QueueNames

LEMMA PlacesAdmitted ==
    ASSUME IInv, AdmitNew
    PROVE  /\ \E h \in Proc, b \in ReadyIds : Places(h, b) /\ In(queue, h, "newQueue")
           /\ \A s \in Sem : queue'[s] = queue[s]
<1> DEFINE a == "newQueue"
           h == Head(queue[a])
           b == ReadyQueue(pPriority[h])
<1>1. a \in QueueId /\ queue[a] # <<>> /\ h \in Proc /\ a \notin Sem
  BY QueueNames, QueuesFromInv, PopType DEF AdmitNew
<1>2. /\ b \in ReadyIds /\ b \in QueueId /\ b \notin Sem /\ a # b
  <2> HIDE DEF h
  <2> QED BY <1>1, OwnReadyQueue
<1>3. /\ queue' = Push(Pop(queue, a), b, h) /\ pState' = [pState EXCEPT ![h] = StateOf(b)]
      /\ logged' = logged
  <2>1. StateOf(b) = READY BY <1>2, StateOfNames
  <2> QED BY <2>1 DEF AdmitNew
<1>4. h = Head(queue[a]) OBVIOUS
<1> HIDE DEF a, h, b
<1>5. /\ Places(h, b) /\ In(queue, h, a)
      /\ \A id \in QueueId : id \notin {a, b} => queue'[id] = queue[id]
  BY ONLY IInv, <1>1, <1>2, <1>3, <1>4, PlacesHead
<1> QED BY <1>1, <1>2, <1>5, QueueNames DEF a

\* Trap and Halt queue the running process.
LEMMA PlacesRunning ==
    ASSUME IInv, phase = "execute", pRunningPcb \in Proc,
           NEW b \in {"waitingQueue", "terminatedQueue"},
           queue' = Push(queue, b, pRunningPcb),
           pState' = [pState EXCEPT ![pRunningPcb] = StateOf(b)], logged' = logged
    PROVE  /\ Places(pRunningPcb, b) /\ ~InQueue(queue, pRunningPcb)
           /\ \A s \in Sem : queue'[s] = queue[s]
<1>1. b \in QueueId /\ ~InQueue(queue, pRunningPcb) /\ pRunningPcb \notin logged
  BY QueueNames DEF IInv, Exclusive
<1> QED BY <1>1, PlacesNew, QueueNames

\* An interrupt takes the running process out of waitingQueue into queue b.
LEMMA PlacesWaiting ==
    ASSUME IInv, phase = "isr", NEW b \in {"terminatedQueue"} \cup Sem,
           queue' = Push(Pop(queue, "waitingQueue"), b, Head(queue["waitingQueue"])),
           pState' = [pState EXCEPT ![pRunningPcb] = StateOf(b)], logged' = logged
    PROVE  /\ Places(pRunningPcb, b)
           /\ \A s \in Sem : s # b => queue'[s] = queue[s]
           /\ queue'[b] = Append(queue[b], pRunningPcb)
<1> DEFINE a == "waitingQueue"
           h == Head(queue[a])
<1>1. /\ a \in QueueId /\ b \in QueueId /\ a # b /\ a \notin Sem
      /\ queue[a] # <<>> /\ h = pRunningPcb
  BY QueueNames, InIsr
<1>2. /\ queue' = Push(Pop(queue, a), b, h) /\ h = Head(queue[a])
      /\ pState' = [pState EXCEPT ![h] = StateOf(b)] /\ logged' = logged
  BY <1>1
<1> HIDE DEF a, h
<1>3. /\ Places(h, b) /\ \A id \in QueueId : id \notin {a, b} => queue'[id] = queue[id]
      /\ queue'[b] = Append(queue[b], h)
  BY ONLY IInv, <1>1, <1>2, PlacesHead
<1> QED BY <1>1, <1>3, QueueNames

\* A release wakes the first waiter.
LEMMA PlacesWoken ==
    ASSUME IInv, NEW s \in Sem, Wake(s), queue[s] # <<>>, logged' = logged
    PROVE  /\ \E b \in ReadyIds : Places(Head(queue[s]), b)
           /\ In(queue, Head(queue[s]), s)
           /\ \A t \in Sem : t # s => queue'[t] = queue[t]
           /\ queue'[s] = Tail(queue[s])
<1> DEFINE h == Head(queue[s])
           b == ReadyQueue(pPriority[h])
<1>1. s \in QueueId /\ h \in Proc
  BY QueueNames, QueuesFromInv, PopType
<1>2. b \in ReadyIds /\ b \in QueueId /\ b \notin Sem /\ s # b
  <2> HIDE DEF h
  <2> QED BY <1>1, OwnReadyQueue
<1>3. queue' = Push(Pop(queue, s), b, h) /\ pState' = [pState EXCEPT ![h] = StateOf(b)]
  <2>1. StateOf(b) = READY BY <1>2, StateOfNames
  <2> QED BY <2>1 DEF Wake
<1>4. h = Head(queue[s]) OBVIOUS
<1> HIDE DEF h, b
<1>5. /\ Places(h, b) /\ In(queue, h, s)
      /\ \A id \in QueueId : id \notin {s, b} => queue'[id] = queue[id]
      /\ queue'[s] = Tail(queue[s])
  BY <1>1, <1>2, <1>3, <1>4, PlacesHead
<1> QED BY <1>2, <1>4, <1>5, QueueNames

LEMMA TakesDispatched == ASSUME IInv, Dispatch PROVE \E n \in Proc : Takes(n)
<1> DEFINE n == NextReady(queue)
<1>1. /\ n \in Proc /\ \E id \in ReadyIds : In(queue, n, id)
      /\ \A id \in QueueId \ ReadyIds : queue'[id] = queue[id]
      /\ \A id \in QueueId, x \in Proc : In(queue', x, id) <=> In(queue, x, id) /\ x # n
  BY QueuesFromInv, ReadyExists, PopTop DEF Dispatch
<1>2. n \notin logged BY <1>1, QueueNames DEF IInv, Exclusive, InQueue
<1>3. /\ pRunningPcb' = n /\ pRunningPcb = NoProc /\ phase' \in {"preempt", "execute"}
      /\ pState' \in {pState, [pState EXCEPT ![n] = RUNNING]} /\ logged' = logged
  BY <1>1, ProcAssumption DEF Dispatch, DispatchNeeded, AfterDispatch
<1> HIDE DEF n
<1> QED BY <1>1, <1>2, <1>3 DEF Takes

LEMMA SwitchesContext ==
    ASSUME IInv, phase = "preempt", pRunningPcb \in Proc,
           NEW priority \in 0..2, SwitchContext(priority), logged' = logged
    PROVE  \E n \in Proc : Switches(pRunningPcb, n)
<1> DEFINE p == pRunningPcb
           b == ReadyQueue(priority)
           q == Push(queue, b, p)
           n == NextReady(q)
<1>1. /\ b \in ReadyIds /\ b \in QueueId
      /\ p \in Proc /\ ~InQueue(queue, p) /\ p \notin logged
  BY QueueNames, ReadyQueueNames DEF IInv, Exclusive
<1>2. /\ queue' = PopReady(q) /\ pRunningPcb' = n
      /\ pState' = [pState EXCEPT ![p] = READY, ![n] = RUNNING]
  BY DEF SwitchContext
<1> HIDE DEF p, b
<1>3. /\ q \in Queues /\ Distinct(q) /\ q[b] # <<>>
      /\ \A id \in QueueId : id # b => q[id] = queue[id]
      /\ \A id \in QueueId, x \in Proc : In(q, x, id) <=> In(queue, x, id) \/ (id = b /\ x = p)
  BY <1>1, PushNew, QueuesFromInv
<1> HIDE DEF q
<1>4. ~ReadyQueuesEmpty(q) BY <1>1, <1>3 DEF ReadyQueuesEmpty
<1>5. /\ n \in Proc /\ \E id \in ReadyIds : In(q, n, id)
      /\ \A id \in QueueId \ ReadyIds : queue'[id] = q[id]
      /\ \A id \in QueueId, x \in Proc : In(queue', x, id) <=> In(q, x, id) /\ x # n
  BY <1>2, <1>3, <1>4, PopTop
<1> HIDE DEF n
<1>6. n = p \/ \E id \in ReadyIds : In(queue, n, id)
  BY <1>3, <1>5, QueueNames
<1>7. n \notin logged BY <1>1, <1>6, QueueNames DEF IInv, Exclusive, InQueue
<1>8. \A id \in QueueId \ ReadyIds : queue'[id] = queue[id]
  BY <1>1, <1>3, <1>5
<1>9. \A id \in QueueId, x \in Proc :
        In(queue', x, id) <=> (In(queue, x, id) \/ (x = p /\ id = b)) /\ x # n
  BY <1>3, <1>5
<1> QED BY <1>1, <1>2, <1>5, <1>6, <1>7, <1>8, <1>9 DEF Switches, p

LEMMA PreemptSwitches ==
    ASSUME IInv, PreemptRR \/ PreemptMLFQ
    PROVE  \E n \in Proc : Switches(pRunningPcb, n)
<1>1. phase = "preempt" /\ pRunningPcb \in Proc /\ logged' = logged
  BY DEF PreemptRR, PreemptMLFQ, IInv, TypeOK, NothingToPreempt, QuantumUp, ReadyQueuesEmpty,
         ReadyIds
<1>2. pPriority \in [Proc -> 0..2] BY DEF IInv, TypeOK
<1>3. \E priority \in 0..2 : SwitchContext(priority)
  <2>1. CASE PreemptRR
    BY <1>1, <1>2, <2>1, ProcAssumption DEF PreemptRR
  <2>2. CASE PreemptMLFQ
    <3> DEFINE p == pRunningPcb
               priority == IF DemotionDue(p) /\ pPriority[p] < 2
                           THEN pPriority[p] + 1 ELSE pPriority[p]
    <3>1. SwitchContext(priority) BY <2>2 DEF PreemptMLFQ
    <3>2. pPriority[p] \in 0..2 BY <1>1, <1>2
    <3>3. priority \in 0..2 BY <3>2
    <3> QED BY <3>1, <3>3
  <2> QED BY <2>1, <2>2
<1> QED BY <1>1, <1>3, SwitchesContext

LEMMA TrapPlaces ==
    ASSUME IInv, NEW code \in Swis, Trap(code)
    PROVE  /\ Places(pRunningPcb, "waitingQueue") /\ ~InQueue(queue, pRunningPcb)
           /\ \A s \in Sem : queue'[s] = queue[s]
<1> DEFINE b == "waitingQueue"
<1>1. /\ phase = "execute" /\ pRunningPcb \in Proc /\ logged' = logged
      /\ b \in {"waitingQueue", "terminatedQueue"}
      /\ queue' = Push(queue, b, pRunningPcb)
      /\ pState' = [pState EXCEPT ![pRunningPcb] = StateOf(b)]
  BY StateOfNames DEF Trap, IInv, TypeOK
<1> HIDE DEF b
<1>2. /\ Places(pRunningPcb, b) /\ ~InQueue(queue, pRunningPcb)
      /\ \A s \in Sem : queue'[s] = queue[s]
  BY ONLY IInv, <1>1, PlacesRunning
<1> QED BY <1>2 DEF b

LEMMA HaltPlaces ==
    ASSUME IInv, Halt
    PROVE  /\ Places(pRunningPcb, "terminatedQueue") /\ ~InQueue(queue, pRunningPcb)
           /\ \A s \in Sem : queue'[s] = queue[s]
<1> DEFINE b == "terminatedQueue"
<1>1. /\ phase = "execute" /\ pRunningPcb \in Proc /\ logged' = logged
      /\ b \in {"waitingQueue", "terminatedQueue"}
      /\ queue' = Push(queue, b, pRunningPcb)
      /\ pState' = [pState EXCEPT ![pRunningPcb] = StateOf(b)]
  BY StateOfNames DEF Halt, HaltTo, IInv, TypeOK
<1> HIDE DEF b
<1>2. /\ Places(pRunningPcb, b) /\ ~InQueue(queue, pRunningPcb)
      /\ \A s \in Sem : queue'[s] = queue[s]
  BY ONLY IInv, <1>1, PlacesRunning
<1> QED BY <1>2 DEF b

LEMMA ReturnPlaces ==
    ASSUME IInv, IsrReturnSharedMemPtr
    PROVE  \/ UNCHANGED <<queue, pState, logged>>
           \/ /\ Places(pRunningPcb, "terminatedQueue")
              /\ \A s \in Sem : queue'[s] = queue[s]
<1> DEFINE b == "terminatedQueue"
<1>1. phase = "isr" /\ logged' = logged BY DEF IsrReturnSharedMemPtr, ReturnTo
<1>2. CASE sharedMemory[pRunningPcb] BY <1>1, <1>2 DEF IsrReturnSharedMemPtr, ReturnTo
<1>3. CASE ~sharedMemory[pRunningPcb]
  <2>1. /\ queue' = Push(Pop(queue, "waitingQueue"), b, Head(queue["waitingQueue"]))
        /\ pState' = [pState EXCEPT ![pRunningPcb] = StateOf(b)]
        /\ b \in {"terminatedQueue"} \cup Sem /\ b \notin Sem
    BY <1>1, <1>3, InIsr, StateOfNames, QueueNames DEF IsrReturnSharedMemPtr, ReturnTo,
         HaltWaiting
  <2> HIDE DEF b
  <2>2. Places(pRunningPcb, b) /\ \A s \in Sem : s # b => queue'[s] = queue[s]
    BY ONLY IInv, <1>1, <2>1, PlacesWaiting
  <2> QED BY <2>1, <2>2 DEF b
<1> QED BY <1>2, <1>3

LEMMA BlockPlaces ==
    ASSUME IInv, phase = "isr", NEW s \in Sem, BlockOn(s), logged' = logged
    PROVE  /\ Places(pRunningPcb, s)
           /\ \A t \in Sem : t # s => queue'[t] = queue[t]
           /\ queue'[s] = Append(queue[s], pRunningPcb)
<1>1. pState' = [pState EXCEPT ![pRunningPcb] = StateOf(s)]
  BY StateOfNames DEF BlockOn
<1> QED BY <1>1, PlacesWaiting DEF BlockOn

LEMMA AquirePlaces ==
    ASSUME IInv, IsrSemaphoreAquire
    PROVE  \/ UNCHANGED <<queue, pState, logged>>
           \/ \E s \in Sem :
                /\ Places(pRunningPcb, s)
                /\ \A t \in Sem : t # s => queue'[t] = queue[t]
                /\ queue'[s] = Append(queue[s], pRunningPcb)
<1>1. phase = "isr" /\ logged' = logged /\ pRunningPcb \in Proc
  BY InIsr DEF IsrSemaphoreAquire
<1>2. ASSUME NEW s, s = semId[pRunningPcb], s # NoSem, BlockOn(s)
      PROVE  s \in Sem
  BY <1>1, <1>2, RunningSem
<1> QED BY <1>1, <1>2, BlockPlaces DEF IsrSemaphoreAquire

LEMMA WaitPlaces ==
    ASSUME IInv, IsrSemaphoreWait
    PROVE  \/ UNCHANGED <<queue, pState, logged>>
           \/ \E s \in Sem :
                /\ Places(pRunningPcb, s)
                /\ \A t \in Sem : t # s => queue'[t] = queue[t]
                /\ queue'[s] = Append(queue[s], pRunningPcb)
<1>1. phase = "isr" /\ logged' = logged /\ pRunningPcb \in Proc
  BY InIsr DEF IsrSemaphoreWait
<1>2. ASSUME NEW s, s = semId[pRunningPcb], s # NoSem, BlockOn(s)
      PROVE  s \in Sem
  BY <1>1, <1>2, RunningSem
<1> QED BY <1>1, <1>2, BlockPlaces DEF IsrSemaphoreWait

LEMMA ReleasePlaces ==
    ASSUME IInv, IsrSemaphoreRelease
    PROVE  \/ UNCHANGED <<queue, pState, logged>>
           \/ \E s \in Sem :
                /\ queue[s] # <<>> /\ In(queue, Head(queue[s]), s)
                /\ \E b \in ReadyIds : Places(Head(queue[s]), b)
                /\ \A t \in Sem : t # s => queue'[t] = queue[t]
                /\ queue'[s] = Tail(queue[s])
<1>1. phase = "isr" /\ logged' = logged /\ pRunningPcb \in Proc
  BY InIsr DEF IsrSemaphoreRelease
<1>2. CASE semId[pRunningPcb] = NoSem BY <1>1, <1>2 DEF IsrSemaphoreRelease
<1>3. ASSUME NEW s, s = semId[pRunningPcb], s # NoSem
      PROVE  \/ UNCHANGED <<queue, pState, logged>>
             \/ s \in Sem /\ Wake(s) /\ queue[s] # <<>>
  BY <1>1, <1>3, RunningSem DEF IsrSemaphoreRelease, Wake
<1> QED BY <1>1, <1>2, <1>3, PlacesWoken

LEMMA ResumePlaces ==
    ASSUME IInv, Resume
    PROVE  \/ queue["waitingQueue"] = <<>> /\ UNCHANGED <<queue, pState, logged>>
           \/ /\ In(queue, pRunningPcb, "waitingQueue")
              /\ \E b \in ReadyIds : Places(pRunningPcb, b)
              /\ \A s \in Sem : queue'[s] = queue[s]
<1> DEFINE a == "waitingQueue"
           p == pRunningPcb
           priority == IF schedulerAlgo = "MLFQ" /\ pPriority[p] > 0
                       THEN pPriority[p] - 1 ELSE pPriority[p]
           b == ReadyQueue(priority)
<1>1. /\ p \in Proc /\ a \in QueueId /\ a \notin Sem /\ queue[a] \in {<<>>, <<p>>}
      /\ logged' = logged /\ Requeue(p, priority)
  BY QueueNames DEF IInv, InterruptPlace, Resume
<1>2. priority \in 0..2 BY <1>1 DEF IInv, TypeOK
<1>3. b \in ReadyIds /\ b \in QueueId /\ b # a /\ b \notin Sem
  BY <1>2, ReadyQueueNames, QueueNames
<1>4. CASE queue[a] = <<>> BY <1>1, <1>4 DEF Requeue
<1>5. CASE queue[a] = <<p>>
  <2>1. /\ queue[a] # <<>> /\ p = Head(queue[a])
        /\ queue' = Push(Pop(queue, a), b, p) /\ pState' = [pState EXCEPT ![p] = StateOf(b)]
    BY <1>1, <1>3, <1>5, StateOfNames DEF Requeue
  <2> HIDE DEF a, p, b
  <2>2. /\ Places(p, b) /\ In(queue, p, a)
        /\ \A id \in QueueId : id \notin {a, b} => queue'[id] = queue[id]
    BY ONLY IInv, <1>1, <1>3, <2>1, PlacesHead
  <2> QED BY <1>1, <1>3, <2>2, QueueNames DEF a, p
<1> QED BY <1>1, <1>4, <1>5

----------------------------------------------------------------------------
(* pState says where a process is.                                         *)

\* StateByQueue, made inductive, but for the mark of FCFS: the running process keeps the state it was
\* given when it left its ready queue.
Placed ==
    /\ \A id \in QueueId, p \in Proc : In(queue, p, id) => pState[p] = StateOf(id)
    /\ \A p \in logged : pState[p] = TERMINATED
RunningState ==
    phase \in {"loop", "admit", "preempt", "execute"} /\ pRunningPcb # NoProc =>
        pState[pRunningPcb] \in {READY, RUNNING}
SInv == Placed /\ RunningState

LEMMA PlacedByPlaces ==
    ASSUME IInv, Placed, NEW p, NEW b, Places(p, b)
    PROVE  Placed'
<1>1. pState \in [Proc -> {CREATED, NEWLY, READY, RUNNING, WAITING, TERMINATED}]
      /\ logged \subseteq Proc
  BY DEF IInv, TypeOK
<1> QED BY <1>1 DEF Placed, Places, MovesTo

LEMMA PlacedByTakes ==
    ASSUME IInv, Placed, NEW n, Takes(n)
    PROVE  SInv'
<1>1. pState \in [Proc -> {CREATED, NEWLY, READY, RUNNING, WAITING, TERMINATED}]
      /\ logged \subseteq Proc
  BY DEF IInv, TypeOK
<1>2. pState[n] = READY BY StateOfNames, QueueNames DEF Placed, Takes
<1>3. Placed' BY <1>1 DEF Placed, Takes
<1>4. RunningState' BY <1>1, <1>2 DEF RunningState, Takes
<1> QED BY <1>3, <1>4 DEF SInv

LEMMA PlacedBySwitches ==
    ASSUME IInv, Placed, NEW p, NEW n, Switches(p, n)
    PROVE  SInv'
<1>1. pState \in [Proc -> {CREATED, NEWLY, READY, RUNNING, WAITING, TERMINATED}]
      /\ logged \subseteq Proc
  BY DEF IInv, TypeOK
<1>2. Placed'
  <2>1. PICK b \in ReadyIds : \A id \in QueueId, x \in Proc :
          In(queue', x, id) <=> (In(queue, x, id) \/ (x = p /\ id = b)) /\ x # n
    BY DEF Switches
  <2>2. \A id \in QueueId : ~In(queue, p, id) BY DEF Switches, InQueue
  <2> QED BY <1>1, <2>1, <2>2, StateOfNames DEF Placed, Switches
<1>3. RunningState' BY <1>1 DEF RunningState, Switches
<1> QED BY <1>2, <1>3 DEF SInv

LEMMA InitPlaced == Init => SInv
<1> SUFFICES ASSUME Init PROVE SInv OBVIOUS
<1>1. \A id \in QueueId : DOMAIN queue[id] = {} BY DEF Init
<1>2. \A id \in QueueId : \A p : ~In(queue, p, id) BY <1>1, Zenon DEF In
<1> QED BY <1>2 DEF Init, SInv, Placed, RunningState

LEMMA NextPlaced == IInv /\ SInv /\ [Next]_vars => SInv'
<1> SUFFICES ASSUME IInv, SInv, [Next]_vars PROVE SInv' OBVIOUS
<1> USE DEF kernelVars, runVars, pcbVars, levelVars, semVars, cpuVars
<1>s. Placed /\ RunningState BY DEF SInv
<1>1. ASSUME UNCHANGED <<queue, pState, logged, pRunningPcb>>,
             phase' = phase \/ phase' \in Faults \/ phase' = "resume"
                \/ phase \in {"shell", "loop", "admit", "preempt", "execute"}
      PROVE  SInv'
  BY <1>1 DEF IInv, NothingToPreempt, SInv, Placed, RunningState, Faults
<1>2. CASE SetScheduler \/ InitSemaphore \/ OpenSharedMemory \/ StartRun \/ CallScheduler
           \/ KeepRunning \/ NoPreemption \/ Idle \/ Instruction \/ IsrPrint \/ Faulted
           \/ UNCHANGED vars
  BY <1>1, <1>2 DEF SetScheduler, InitSemaphore, LinkSemaphore, OpenSharedMemory, StartRun,
     CallScheduler, KeepRunning, NoPreemption, Fault, Idle, Instruction, IsrPrint, Faulted, vars
<1>3. ASSUME NEW p \in Proc, NewPcb(p), phase' = phase, UNCHANGED <<pRunningPcb, logged>>
      PROVE  SInv'
  <2>1. Places(p, "newQueue") BY <1>3, PlacesCreated
  <2>2. p # pRunningPcb BY <1>3 DEF IInv, FreshUnplaced, NewPcb
  <2>3. RunningState'
    <3>1. pRunningPcb \in Proc \cup {NoProc} BY DEF IInv, TypeOK
    <3>2. pRunningPcb \in Proc => pState'[pRunningPcb] = pState[pRunningPcb]
      BY <1>3, <2>2 DEF NewPcb, IInv, TypeOK
    <3> QED BY <1>3, <1>s, <3>1, <3>2 DEF RunningState
  <2> QED BY <1>s, <2>1, <2>3, PlacedByPlaces DEF SInv
<1>4. CASE LoadProgram
  BY <1>3, <1>4 DEF LoadProgram
<1>5. CASE Arrive
  <2>1. CASE UNCHANGED <<pState, queue>> BY <1>1, <1>5, <2>1 DEF Arrive
  <2>2. CASE \E p \in Proc : NewPcb(p) BY <1>3, <1>5, <2>2 DEF Arrive
  <2> QED BY <1>5, <2>1, <2>2 DEF Arrive
<1>6. CASE AdmitNew
  <2>1. PICK h \in Proc, b \in ReadyIds : Places(h, b) /\ In(queue, h, "newQueue")
    BY <1>6, PlacesAdmitted
  <2>2. h # pRunningPcb BY <1>6, <2>1, QueueNames DEF AdmitNew, IInv, Exclusive, InQueue
  <2>3. RunningState'
    <3>1. pRunningPcb \in Proc \cup {NoProc} /\ UNCHANGED <<phase, pRunningPcb>>
      BY <1>6 DEF IInv, TypeOK, AdmitNew
    <3>2. pRunningPcb \in Proc => pState'[pRunningPcb] = pState[pRunningPcb]
      BY <2>1, <2>2 DEF Places, IInv, TypeOK
    <3> QED BY <1>s, <3>1, <3>2 DEF RunningState
  <2> QED BY <1>s, <2>1, <2>3, PlacedByPlaces DEF SInv
<1>7. CASE Dispatch
  BY <1>s, <1>7, TakesDispatched, PlacedByTakes
<1>8. CASE PreemptRR \/ PreemptMLFQ
  <2>1. \E n \in Proc : Switches(pRunningPcb, n) BY <1>8, PreemptSwitches
  <2> QED BY <1>s, <2>1, PlacedBySwitches
<1>9. ASSUME NEW code \in Swis, Trap(code) PROVE SInv'
  <2>1. Places(pRunningPcb, "waitingQueue") BY <1>9, TrapPlaces
  <2>2. RunningState' BY <1>9 DEF Trap, RunningState
  <2> QED BY <1>s, <2>1, <2>2, PlacedByPlaces DEF SInv
<1>10. CASE Halt
  <2>1. Places(pRunningPcb, "terminatedQueue") BY <1>10, HaltPlaces
  <2>2. RunningState' BY <1>10 DEF Halt, HaltTo, RunningState
  <2> QED BY <1>s, <2>1, <2>2, PlacedByPlaces DEF SInv
<1>11. CASE IsrVFork
  <2>1. RunningState' BY <1>11 DEF IsrVFork, RunningState
  <2> QED BY <1>s, <1>11, <2>1, PlacesFork, PlacedByPlaces DEF SInv
<1>12. CASE IsrReturnSharedMemPtr \/ IsrSemaphoreAquire \/ IsrSemaphoreRelease \/ IsrSemaphoreWait
  <2>1. phase' \notin {"loop", "admit", "preempt", "execute"}
    BY <1>12 DEF IsrReturnSharedMemPtr, ReturnTo, IsrSemaphoreAquire, IsrSemaphoreRelease,
         IsrSemaphoreWait
  <2>2. RunningState' BY <2>1 DEF RunningState
  <2>3. UNCHANGED <<queue, pState, logged>> \/ \E p, b : Places(p, b)
    BY <1>12, ReturnPlaces, AquirePlaces, ReleasePlaces, WaitPlaces
  <2>4. Placed' BY <1>s, <2>3, PlacedByPlaces DEF Placed
  <2> QED BY <2>2, <2>4 DEF SInv
<1>13. CASE Resume
  <2>1. UNCHANGED <<queue, pState, logged>> \/ \E b : Places(pRunningPcb, b)
    BY <1>13, ResumePlaces
  <2>2. Placed' BY <1>s, <2>1, PlacedByPlaces DEF Placed
  <2>3. RunningState' BY <1>13 DEF Resume, RunningState
  <2> QED BY <2>2, <2>3 DEF SInv
<1>14. CASE EndRun
  <2>1. \A id \in QueueId, x \in Proc : In(queue', x, id) => In(queue, x, id)
    BY <1>14, QueuesFromInv DEF EndRun, Queues, In
  <2>2. \A x \in logged' : x \in logged \/ (In(queue, x, "terminatedQueue") /\ x \in Proc)
    <3> DEFINE t == queue["terminatedQueue"]
    <3>1. t \in Seq(Proc) BY QueuesFromInv, QueueNames DEF Queues
    <3>2. \A i \in DOMAIN t : t[i] \in Proc BY <3>1
    <3>3. logged' = logged \cup {t[i] : i \in DOMAIN t} BY <1>14 DEF EndRun
    <3>4. \A x : In(queue, x, "terminatedQueue") <=> \E i \in DOMAIN t : t[i] = x BY DEF In
    <3> HIDE DEF t
    <3> QED BY <3>2, <3>3, <3>4
  <2>3. Placed' BY <1>14, <1>s, <2>1, <2>2, StateOfNames, QueueNames DEF Placed, EndRun
  <2>4. RunningState' BY <1>14 DEF EndRun, RunningState
  <2> QED BY <2>3, <2>4 DEF SInv
<1> QED
  BY <1>2, <1>4, <1>5, <1>6, <1>7, <1>8, <1>9, <1>10, <1>11, <1>12, <1>13, <1>14
  DEF Next, ShellStep, KernelStep, SchedulerStep

\* Only FCFS marks what it dispatches, and it never preempts.
MarkedByFcfs ==
    schedulerAlgo = "FCFS" /\ phase \in {"loop", "admit", "preempt", "execute"}
        /\ pRunningPcb # NoProc => pState[pRunningPcb] = RUNNING

LEMMA NextMarked ==
    ASSUME IInv, SInv, MarkedByFcfs, [Next]_vars PROVE MarkedByFcfs'
<1> USE DEF kernelVars, runVars, pcbVars, levelVars, semVars, cpuVars
<1>t. /\ pState \in [Proc -> {CREATED, NEWLY, READY, RUNNING, WAITING, TERMINATED}]
      /\ pRunningPcb \in Proc \cup {NoProc}
  BY DEF IInv, TypeOK
<1>1. ASSUME UNCHANGED <<pState, pRunningPcb>>, phase = "shell" \/ UNCHANGED schedulerAlgo,
             phase' = phase \/ phase' \in Faults \/ phase' = "resume"
                \/ phase \in {"shell", "loop", "admit", "preempt", "execute"}
      PROVE  MarkedByFcfs'
  BY <1>1 DEF IInv, NothingToPreempt, MarkedByFcfs, Faults
<1>2. CASE SetScheduler \/ InitSemaphore \/ OpenSharedMemory \/ StartRun \/ CallScheduler
           \/ KeepRunning \/ NoPreemption \/ Idle \/ Instruction \/ IsrPrint \/ Faulted
           \/ UNCHANGED vars
  BY <1>1, <1>2 DEF SetScheduler, InitSemaphore, LinkSemaphore, OpenSharedMemory, StartRun,
     CallScheduler, KeepRunning, NoPreemption, Fault, Idle, Instruction, IsrPrint, Faulted, vars
<1>3. ASSUME NEW p \in Proc, NewPcb(p), UNCHANGED <<phase, pRunningPcb, schedulerAlgo>>
      PROVE  MarkedByFcfs'
  <2>1. p # pRunningPcb BY <1>3 DEF IInv, FreshUnplaced, NewPcb
  <2>2. pRunningPcb \in Proc => pState'[pRunningPcb] = pState[pRunningPcb]
    BY <1>3, <1>t, <2>1 DEF NewPcb
  <2> QED BY <1>3, <1>t, <2>2 DEF MarkedByFcfs
<1>4. CASE LoadProgram
  BY <1>3, <1>4 DEF LoadProgram
<1>5. CASE Arrive
  <2>1. CASE UNCHANGED <<pState, queue>> BY <1>1, <1>5, <2>1 DEF Arrive
  <2>2. CASE \E p \in Proc : NewPcb(p) BY <1>3, <1>5, <2>2 DEF Arrive
  <2> QED BY <1>5, <2>1, <2>2 DEF Arrive
<1>6. CASE AdmitNew
  <2>1. PICK h \in Proc, b \in ReadyIds : Places(h, b) /\ In(queue, h, "newQueue")
    BY <1>6, PlacesAdmitted
  <2>2. h # pRunningPcb BY <1>6, <2>1, QueueNames DEF AdmitNew, IInv, Exclusive, InQueue
  <2>3. pRunningPcb \in Proc => pState'[pRunningPcb] = pState[pRunningPcb]
    BY <1>t, <2>1, <2>2 DEF Places
  <2> QED BY <1>6, <1>t, <2>3 DEF MarkedByFcfs, AdmitNew
<1>7. CASE Dispatch
  <2>1. PICK n \in Proc : Takes(n) BY <1>7, TakesDispatched
  <2>2. schedulerAlgo = "FCFS" => pState' = [pState EXCEPT ![pRunningPcb'] = RUNNING]
    BY <1>7 DEF Dispatch
  <2>3. pRunningPcb' \in Proc /\ UNCHANGED schedulerAlgo BY <1>7, <2>1 DEF Takes, Dispatch
  <2> QED BY <1>t, <2>2, <2>3 DEF MarkedByFcfs
<1>8. CASE PreemptRR \/ PreemptMLFQ
  <2>1. schedulerAlgo # "FCFS" BY <1>8 DEF PreemptRR, PreemptMLFQ
  <2>2. schedulerAlgo' = schedulerAlgo BY <1>8 DEF PreemptRR, PreemptMLFQ, Fault, vars
  <2> QED BY <2>1, <2>2 DEF MarkedByFcfs
<1>9. ASSUME NEW code \in Swis, Trap(code) PROVE MarkedByFcfs'
  BY <1>9 DEF Trap, MarkedByFcfs
<1>10. CASE Halt \/ IsrVFork
  BY <1>10 DEF Halt, HaltTo, IsrVFork, MarkedByFcfs
<1>11. CASE IsrReturnSharedMemPtr \/ IsrSemaphoreAquire \/ IsrSemaphoreRelease \/ IsrSemaphoreWait
  <2>1. phase' \notin {"loop", "admit", "preempt", "execute"}
    BY <1>11 DEF IsrReturnSharedMemPtr, ReturnTo, IsrSemaphoreAquire, IsrSemaphoreRelease,
         IsrSemaphoreWait
  <2> QED BY <2>1 DEF MarkedByFcfs
<1>12. CASE Resume \/ EndRun
  BY <1>12 DEF Resume, EndRun, MarkedByFcfs
<1> QED
  BY <1>2, <1>4, <1>5, <1>6, <1>7, <1>8, <1>9, <1>10, <1>11, <1>12
  DEF Next, ShellStep, KernelStep, SchedulerStep

\* pState says in which queue every process is, and marks the process on the CPU under
\* FCFS, after every step of the scheduler; under RR and MLFQ, whose dispatch leaves
\* the process READY, nothing is claimed of the process on the CPU.
THEOREM StateByQueueHolds == Spec => []StateByQueue
<1>1. Init => IInv /\ SInv /\ MarkedByFcfs
  <2>1. Init => MarkedByFcfs BY DEF Init, MarkedByFcfs
  <2> QED BY <2>1, InitInv, InitPlaced
<1>2. (IInv /\ SInv /\ MarkedByFcfs) /\ [Next]_vars => (IInv /\ SInv /\ MarkedByFcfs)'
  BY NextInv, NextPlaced, NextMarked
<1>3. IInv /\ SInv /\ MarkedByFcfs => StateByQueue
  BY StateOfNames, QueueNames DEF SInv, Placed, MarkedByFcfs, StateByQueue, Ready, Blocked
<1> QED BY <1>1, <1>2, <1>3, PTL DEF Spec

----------------------------------------------------------------------------
(* The scheduler implements Lifecycle.                                     *)

\* Stage with the variables it reads as parameters.
StageIn(q, done, run, p) ==
    IF p \in done THEN "logged"
    ELSE IF In(q, p, "terminatedQueue") THEN "terminated"
    ELSE IF \E s \in Sem : In(q, p, s) THEN "blocked"
    ELSE IF In(q, p, "waitingQueue") THEN "interrupted"
    ELSE IF \E id \in ReadyIds : In(q, p, id) THEN "ready"
    ELSE IF In(q, p, "newQueue") THEN "new"
    ELSE IF p = run THEN "running" ELSE "none"

\* The stage of the processes in a queue.
StageOf(id) == CASE id = "newQueue" -> "new"
                 [] id \in ReadyIds -> "ready"
                 [] id = "terminatedQueue" -> "terminated"
                 [] id = "waitingQueue" -> "interrupted"
                 [] OTHER -> "blocked"

LEMMA StageOfNames ==
    /\ StageOf("newQueue") = "new" /\ StageOf("waitingQueue") = "interrupted"
    /\ StageOf("terminatedQueue") = "terminated"
    /\ \A id \in ReadyIds : StageOf(id) = "ready"
    /\ \A s \in Sem : StageOf(s) = "blocked"
BY QueueNames DEF StageOf, ReadyIds

\* A process is at the stage of the queue it is in, of the log or of the CPU.
StageByPlace(q, done, run, p) ==
    /\ p \in done => StageIn(q, done, run, p) = "logged"
    /\ \A id \in QueueId :
         In(q, p, id) => p \notin done /\ StageIn(q, done, run, p) = StageOf(id)
    /\ ~InQueue(q, p) /\ p \notin done =>
         StageIn(q, done, run, p) = IF p = run THEN "running" ELSE "none"

LEMMA StagePlace ==
    ASSUME NEW q \in Queues, Distinct(q), NEW done, NEW run, \A x \in done : ~InQueue(q, x),
           NEW p \in Proc
    PROVE  StageByPlace(q, done, run, p)
<1>1. ASSUME NEW id \in QueueId, In(q, p, id)
      PROVE  p \notin done /\ StageIn(q, done, run, p) = StageOf(id)
  <2>1. p \notin done BY <1>1 DEF InQueue
  <2>2. \A a \in QueueId : In(q, p, a) => a = id BY <1>1, InUnique
  <2>3. /\ id \in ReadyIds \/ id \in Sem \/ id \in {"newQueue", "waitingQueue", "terminatedQueue"}
        /\ ReadyIds \subseteq QueueId /\ Sem \subseteq QueueId
        /\ {"newQueue", "waitingQueue", "terminatedQueue"} \subseteq QueueId
    BY <1>1, QueueNames DEF QueueId, SchedulerQueues
  <2>4. CASE id \in ReadyIds
    BY <1>1, <2>1, <2>2, <2>3, <2>4, QueueNames, StageOfNames DEF StageIn
  <2>5. CASE id \in Sem
    BY <1>1, <2>1, <2>2, <2>3, <2>5, QueueNames, StageOfNames DEF StageIn
  <2>6. CASE id \in {"newQueue", "waitingQueue", "terminatedQueue"}
    BY <1>1, <2>1, <2>2, <2>3, <2>6, QueueNames, StageOfNames DEF StageIn
  <2> QED BY <2>1, <2>3, <2>4, <2>5, <2>6
<1>2. ASSUME ~InQueue(q, p), p \notin done
      PROVE  StageIn(q, done, run, p) = IF p = run THEN "running" ELSE "none"
  BY <1>2, QueueNames DEF InQueue, StageIn
<1>3. p \in done => StageIn(q, done, run, p) = "logged" BY DEF StageIn
<1> QED BY <1>1, <1>2, <1>3 DEF StageByPlace

LEMMA StageNow ==
    ASSUME IInv, NEW p \in Proc
    PROVE  StageByPlace(queue, logged, pRunningPcb, p) /\ Stage(p) = StageIn(queue, logged, pRunningPcb, p)
<1>1. StageByPlace(queue, logged, pRunningPcb, p)
  BY QueuesFromInv, StagePlace DEF IInv, Exclusive
<1>2. Stage(p) = StageIn(queue, logged, pRunningPcb, p)
  BY DEF Stage, StageIn, Blocked, Ready
<1> QED BY <1>1, <1>2

LEMMA StageNext ==
    ASSUME IInv', NEW p \in Proc
    PROVE  /\ StageByPlace(queue', logged', pRunningPcb', p)
           /\ Stage(p)' = StageIn(queue', logged', pRunningPcb', p)
<1>1. /\ queue' \in Queues /\ Distinct(queue')
      /\ \A x \in logged' : ~InQueue(queue', x)
  BY DEF IInv, TypeOK, Queues, NoDuplicate, Exclusive
<1>2. StageByPlace(queue', logged', pRunningPcb', p)
  BY <1>1, StagePlace
<1>3. Stage(p)' = StageIn(queue', logged', pRunningPcb', p)
  BY DEF Stage, StageIn, Blocked, Ready
<1> QED BY <1>2, <1>3

\* A step that leaves x where it is leaves its stage.
LEMMA StageKept ==
    ASSUME IInv, IInv', NEW x \in Proc,
           \A id \in QueueId : In(queue', x, id) <=> In(queue, x, id),
           x \in logged' <=> x \in logged,
           \/ InQueue(queue, x) \/ x \in logged
           \/ (x = pRunningPcb' <=> x = pRunningPcb)
    PROVE  Stage(x)' = Stage(x)
<1>1. /\ StageByPlace(queue, logged, pRunningPcb, x)
      /\ Stage(x) = StageIn(queue, logged, pRunningPcb, x)
      /\ StageByPlace(queue', logged', pRunningPcb', x)
      /\ Stage(x)' = StageIn(queue', logged', pRunningPcb', x)
  BY StageNow, StageNext
<1>2. CASE x \in logged BY <1>1, <1>2 DEF StageByPlace
<1>3. CASE InQueue(queue, x) BY <1>1, <1>3 DEF StageByPlace, InQueue
<1>4. CASE x \notin logged /\ ~InQueue(queue, x)
  <2>1. ~InQueue(queue', x) BY <1>4 DEF InQueue
  <2> QED BY <1>1, <1>4, <2>1 DEF StageByPlace
<1> QED BY <1>2, <1>3, <1>4

LEMMA AbstractStutter ==
    ASSUME \A x \in Proc : Stage(x)' = Stage(x), \A s \in Sem : queue'[s] = queue[s]
    PROVE  UNCHANGED Abstract!lifeVars
BY DEF Abstract!lifeVars

LEMMA AbstractMove ==
    ASSUME NEW p \in Proc, NEW a, NEW b, Stage(p) = a, Stage(p)' = b,
           \A x \in Proc : x # p => Stage(x)' = Stage(x)
    PROVE  Abstract!Move(p, a, b)
BY DEF Abstract!Move

\* A process that is put in a queue makes one move; nothing else does.
LEMMA PlacesMoves ==
    ASSUME IInv, IInv', NEW p, NEW b, Places(p, b),
           pRunningPcb' = pRunningPcb \/ (p = pRunningPcb /\ pRunningPcb' = NoProc)
    PROVE  Abstract!Move(p, Stage(p), StageOf(b))
<1>1. p \in Proc /\ b \in QueueId /\ In(queue', p, b)
  BY DEF Places, MovesTo
<1>2. Stage(p)' = StageOf(b) BY <1>1, StageNext DEF StageByPlace
<1>3. ASSUME NEW x \in Proc, x # p PROVE Stage(x)' = Stage(x)
  <2>1. \A id \in QueueId : In(queue', x, id) <=> In(queue, x, id)
    BY <1>3 DEF Places, MovesTo
  <2>2. x \in logged' <=> x \in logged BY DEF Places
  <2>3. x = pRunningPcb' <=> x = pRunningPcb BY <1>3, ProcAssumption
  <2> QED BY <2>1, <2>2, <2>3, StageKept
<1> QED BY <1>1, <1>2, <1>3, AbstractMove

LEMMA SameQueues ==
    ASSUME IInv, IInv', UNCHANGED <<queue, logged>>,
           pRunningPcb' = pRunningPcb \/ (InQueue(queue, pRunningPcb) /\ pRunningPcb' = NoProc)
    PROVE  UNCHANGED Abstract!lifeVars
<1>1. ASSUME NEW x \in Proc PROVE Stage(x)' = Stage(x)
  <2>1. \A id \in QueueId : In(queue', x, id) <=> In(queue, x, id) OBVIOUS
  <2>2. \/ InQueue(queue, x) \/ x \in logged
        \/ (x = pRunningPcb' <=> x = pRunningPcb)
    BY ProcAssumption
  <2> QED BY <2>1, <2>2, StageKept
<1> QED BY <1>1, AbstractStutter

\* The process whose interrupt is served.
LEMMA Interrupted ==
    ASSUME IInv, phase = "isr"
    PROVE  pRunningPcb \in Proc /\ Stage(pRunningPcb) = "interrupted"
<1>1. /\ pRunningPcb \in Proc /\ In(queue, pRunningPcb, "waitingQueue")
      /\ "waitingQueue" \in QueueId
  BY InIsr, QueueNames
<1> DEFINE p == pRunningPcb
<1> HIDE DEF p
<1>2. p \in Proc /\ In(queue, p, "waitingQueue") BY <1>1 DEF p
<1>3. Stage(p) = "interrupted" BY <1>1, <1>2, StageNow, StageOfNames DEF StageByPlace
<1> QED BY <1>1, <1>3 DEF p

LEMMA CreateImplemented ==
    ASSUME IInv, IInv', NEW p \in Proc, NewPcb(p), UNCHANGED <<pRunningPcb, logged>>
    PROVE  Abstract!Create(p)
<1>1. Places(p, "newQueue") /\ pState[p] = CREATED /\ \A s \in Sem : queue'[s] = queue[s]
  BY PlacesCreated
<1>2. Stage(p) = "none"
  BY <1>1, StageNow DEF StageByPlace, IInv, FreshUnplaced
<1>3. Abstract!Move(p, "none", "new") BY <1>1, <1>2, PlacesMoves, StageOfNames
<1> QED BY <1>1, <1>3 DEF Abstract!Create

LEMMA AdmitImplemented ==
    ASSUME IInv, IInv', AdmitNew
    PROVE  \E p \in Proc : Abstract!Admit(p)
<1>1. PICK p \in Proc, b \in ReadyIds : Places(p, b) /\ In(queue, p, "newQueue")
  BY PlacesAdmitted
<1>2. \A s \in Sem : queue'[s] = queue[s] BY PlacesAdmitted
<1>3. Stage(p) = "new" BY <1>1, StageNow, StageOfNames, QueueNames DEF StageByPlace
<1>4. pRunningPcb' = pRunningPcb BY DEF AdmitNew, runVars
<1>5. Abstract!Move(p, "new", "ready") BY <1>1, <1>3, <1>4, PlacesMoves, StageOfNames
<1> QED BY <1>2, <1>5 DEF Abstract!Admit

LEMMA DispatchImplemented ==
    ASSUME IInv, IInv', Dispatch
    PROVE  \E p \in Proc : Abstract!Dispatch(p)
<1>1. PICK p \in Proc : Takes(p) BY TakesDispatched DEF Takes
<1>2. Stage(p) = "ready" BY <1>1, StageNow, StageOfNames, QueueNames DEF Takes, StageByPlace
<1>3. Stage(p)' = "running"
  <2>1. ~InQueue(queue', p) /\ p \notin logged' /\ p = pRunningPcb'
    BY <1>1 DEF Takes, InQueue
  <2> QED BY <2>1, StageNext DEF StageByPlace
<1>4. ASSUME NEW x \in Proc, x # p PROVE Stage(x)' = Stage(x)
  <2>1. \A id \in QueueId : In(queue', x, id) <=> In(queue, x, id) BY <1>1, <1>4 DEF Takes
  <2>2. (x \in logged' <=> x \in logged) /\ (x = pRunningPcb' <=> x = pRunningPcb)
    BY <1>1, <1>4, ProcAssumption DEF Takes
  <2> QED BY <2>1, <2>2, StageKept
<1>5. Abstract!Move(p, "ready", "running") BY <1>2, <1>3, <1>4, AbstractMove
<1>6. ASSUME NEW x \in Proc PROVE Stage(x) \notin {"running", "interrupted"}
  <2>1. queue["waitingQueue"] = <<>> /\ x # pRunningPcb
    BY <1>1, ProcAssumption DEF Dispatch, IInv, InterruptPlace, Takes
  <2> QED BY <2>1 DEF Stage, In
<1>7. \A s \in Sem : queue'[s] = queue[s] BY <1>1, QueueNames DEF Takes
<1> QED BY <1>5, <1>6, <1>7 DEF Abstract!Dispatch, Abstract!CpuFree

LEMMA PreemptImplemented ==
    ASSUME IInv, IInv', PreemptRR \/ PreemptMLFQ
    PROVE  UNCHANGED Abstract!lifeVars \/ \E p, n \in Proc : Abstract!Preempt(p, n)
<1>1. PICK p \in Proc, n \in Proc : Switches(p, n) /\ p = pRunningPcb
  BY PreemptSwitches DEF Switches
<1>2. Stage(p) = "running" BY <1>1, StageNow DEF Switches, StageByPlace
<1>3. ~InQueue(queue', n) /\ n \notin logged' /\ n = pRunningPcb'
  BY <1>1 DEF Switches, InQueue
<1>4. Stage(n)' = "running" BY <1>3, StageNext DEF StageByPlace
<1>5. ASSUME NEW x \in Proc, x # p, x # n PROVE Stage(x)' = Stage(x)
  <2>1. \A id \in QueueId : In(queue', x, id) <=> In(queue, x, id) BY <1>1, <1>5 DEF Switches
  <2>2. (x \in logged' <=> x \in logged) /\ (x = pRunningPcb' <=> x = pRunningPcb)
    BY <1>1, <1>3, <1>5 DEF Switches
  <2> QED BY <2>1, <2>2, StageKept
<1>6. \A s \in Sem : queue'[s] = queue[s] BY <1>1, QueueNames DEF Switches
<1>7. CASE n = p
  <2>1. \A x \in Proc : Stage(x)' = Stage(x) BY <1>2, <1>4, <1>5, <1>7
  <2> QED BY <1>6, <2>1, AbstractStutter
<1>8. CASE n # p
  <2>1. Stage(n) = "ready"
    BY <1>1, <1>8, StageNow, StageOfNames, QueueNames DEF Switches, StageByPlace
  <2>2. Stage(p)' = "ready"
    <3>1. \E id \in ReadyIds : In(queue', p, id) BY <1>1, <1>8, QueueNames DEF Switches
    <3> QED BY <3>1, StageNext, StageOfNames, QueueNames DEF StageByPlace
  <2> QED BY <1>2, <1>4, <1>5, <1>6, <2>1, <2>2 DEF Abstract!Preempt
<1> QED BY <1>7, <1>8

\* The running process of the execute phase.
LEMMA OnCpu ==
    ASSUME IInv, NEW p \in Proc, p = pRunningPcb, phase = "execute"
    PROVE  Stage(p) = "running"
<1>1. ~InQueue(queue, p) /\ p \notin logged BY DEF IInv, Exclusive
<1> QED BY <1>1, StageNow DEF StageByPlace

LEMMA TrapImplemented ==
    ASSUME IInv, IInv', NEW code \in Swis, Trap(code)
    PROVE  \E p \in Proc : Abstract!Interrupt(p)
<1> DEFINE p == pRunningPcb
<1>1. Places(p, "waitingQueue") /\ \A s \in Sem : queue'[s] = queue[s] BY TrapPlaces
<1>2. p \in Proc /\ phase = "execute" /\ p = pRunningPcb /\ pRunningPcb' = pRunningPcb
  BY <1>1 DEF Trap, Places
<1> HIDE DEF p
<1>3. Abstract!Move(p, "running", "interrupted")
  BY <1>1, <1>2, OnCpu, PlacesMoves, StageOfNames
<1> QED BY <1>1, <1>2, <1>3 DEF Abstract!Interrupt

LEMMA HaltImplemented ==
    ASSUME IInv, IInv', Halt
    PROVE  \E p \in Proc : Abstract!Terminate(p)
<1> DEFINE p == pRunningPcb
<1>1. Places(p, "terminatedQueue") /\ \A s \in Sem : queue'[s] = queue[s] BY HaltPlaces
<1>2. p \in Proc /\ phase = "execute" /\ p = pRunningPcb /\ pRunningPcb' = NoProc
  BY <1>1 DEF Halt, HaltTo, Places
<1> HIDE DEF p
<1>3. Abstract!Move(p, "running", "terminated")
  BY <1>1, <1>2, OnCpu, PlacesMoves, StageOfNames
<1> QED BY <1>1, <1>2, <1>3 DEF Abstract!Terminate, Abstract!Move

LEMMA ForkImplemented ==
    ASSUME IInv, IInv', IsrVFork
    PROVE  \E p, child \in Proc : Abstract!Fork(p, child)
<1>1. PICK c \in Proc, b \in ReadyIds : Places(c, b) /\ pState[c] = CREATED
  BY PlacesFork
<1>2. \A s \in Sem : queue'[s] = queue[s] BY PlacesFork
<1>3. Stage(c) = "none" BY <1>1, StageNow DEF StageByPlace, IInv, FreshUnplaced
<1>4. pRunningPcb' = pRunningPcb /\ phase = "isr" BY DEF IsrVFork, runVars
<1>5. Abstract!Move(c, "none", "ready") BY <1>1, <1>3, <1>4, PlacesMoves, StageOfNames
<1>6. pRunningPcb \in Proc /\ Stage(pRunningPcb) = "interrupted" BY <1>4, Interrupted
<1> QED BY <1>2, <1>5, <1>6 DEF Abstract!Fork

LEMMA ReturnImplemented ==
    ASSUME IInv, IInv', IsrReturnSharedMemPtr
    PROVE  UNCHANGED Abstract!lifeVars \/ \E p \in Proc : Abstract!Terminate(p)
<1> DEFINE p == pRunningPcb
<1>1. pRunningPcb' = pRunningPcb /\ phase = "isr" BY DEF IsrReturnSharedMemPtr, ReturnTo, runVars
<1>2. p \in Proc /\ Stage(p) = "interrupted" BY <1>1, Interrupted
<1>3. CASE UNCHANGED <<queue, logged>> BY <1>1, <1>3, SameQueues
<1>4. CASE Places(p, "terminatedQueue") /\ \A s \in Sem : queue'[s] = queue[s]
  <2> HIDE DEF p
  <2>1. Abstract!Move(p, "interrupted", "terminated")
    BY <1>1, <1>2, <1>4, PlacesMoves, StageOfNames
  <2> QED BY <1>2, <1>4, <2>1 DEF Abstract!Terminate, Abstract!Move
<1> QED BY <1>3, <1>4, ReturnPlaces

LEMMA BlockImplemented ==
    ASSUME IInv, IInv', IsrSemaphoreAquire \/ IsrSemaphoreWait
    PROVE  UNCHANGED Abstract!lifeVars \/ \E p \in Proc, s \in Sem : Abstract!Block(p, s)
<1> DEFINE p == pRunningPcb
<1>1. pRunningPcb' = pRunningPcb /\ phase = "isr"
  BY DEF IsrSemaphoreAquire, IsrSemaphoreWait, runVars
<1>2. p \in Proc /\ Stage(p) = "interrupted" BY <1>1, Interrupted
<1>3. CASE UNCHANGED <<queue, logged>> BY <1>1, <1>3, SameQueues
<1>4. ASSUME NEW s \in Sem, Places(p, s), \A t \in Sem : t # s => queue'[t] = queue[t],
             queue'[s] = Append(queue[s], p)
      PROVE  Abstract!Block(p, s)
  <2> HIDE DEF p
  <2>1. Abstract!Move(p, "interrupted", "blocked")
    BY <1>1, <1>2, <1>4, PlacesMoves, StageOfNames
  <2> QED BY <1>4, <2>1 DEF Abstract!Block
<1> QED BY <1>2, <1>3, <1>4, AquirePlaces, WaitPlaces

LEMMA WakeImplemented ==
    ASSUME IInv, IInv', IsrSemaphoreRelease
    PROVE  UNCHANGED Abstract!lifeVars \/ \E p \in Proc, s \in Sem : Abstract!Wake(p, s)
<1>1. pRunningPcb' = pRunningPcb /\ phase = "isr" BY DEF IsrSemaphoreRelease, runVars
<1>2. pRunningPcb \in Proc /\ Stage(pRunningPcb) = "interrupted" BY <1>1, Interrupted
<1>3. CASE UNCHANGED <<queue, logged>> BY <1>1, <1>3, SameQueues
<1>4. ASSUME NEW s \in Sem, queue[s] # <<>>, In(queue, Head(queue[s]), s),
             NEW b \in ReadyIds, Places(Head(queue[s]), b),
             \A t \in Sem : t # s => queue'[t] = queue[t], queue'[s] = Tail(queue[s])
      PROVE  Abstract!Wake(pRunningPcb, s)
  <2> DEFINE h == Head(queue[s])
  <2>1. h = Head(queue[s]) /\ Places(h, b) /\ In(queue, h, s) BY <1>4
  <2> HIDE DEF h
  <2>2. h \in Proc /\ Stage(h) = "blocked"
    BY <2>1, StageNow, StageOfNames, QueueNames DEF Places, StageByPlace
  <2>3. Abstract!Move(h, "blocked", "ready") BY <1>1, <2>1, <2>2, PlacesMoves, StageOfNames
  <2> QED BY <1>2, <1>4, <2>1, <2>3 DEF Abstract!Wake
<1> QED BY <1>2, <1>3, <1>4, ReleasePlaces

LEMMA ResumeImplemented ==
    ASSUME IInv, IInv', Resume
    PROVE  UNCHANGED Abstract!lifeVars \/ \E p \in Proc : Abstract!Return(p)
<1> DEFINE p == pRunningPcb
<1>1. p \in Proc /\ InQueue(queue, p) /\ pRunningPcb' = NoProc
  BY DEF Resume, IInv, InterruptPlace, InQueue
<1>2. CASE UNCHANGED <<queue, logged>> BY <1>1, <1>2, SameQueues
<1>3. ASSUME In(queue, p, "waitingQueue"), NEW b \in ReadyIds, Places(p, b),
             \A s \in Sem : queue'[s] = queue[s]
      PROVE  Abstract!Return(p)
  <2>1. p = pRunningPcb OBVIOUS
  <2> HIDE DEF p
  <2>2. Stage(p) = "interrupted"
    BY <1>1, <1>3, StageNow, StageOfNames, QueueNames DEF StageByPlace
  <2>3. Abstract!Move(p, "interrupted", "ready")
    BY <1>1, <1>3, <2>1, <2>2, PlacesMoves, StageOfNames
  <2> QED BY <1>3, <2>3 DEF Abstract!Return
<1> QED BY <1>1, <1>2, <1>3, ResumePlaces

\* The end of a run finds nothing but blocked and terminated processes.
LEMMA LogImplemented ==
    ASSUME IInv, IInv', EndRun
    PROVE  Abstract!Log
<1> DEFINE t == queue["terminatedQueue"]
<1>1. /\ t \in Seq(Proc) /\ queue \in Queues
      /\ "terminatedQueue" \in QueueId /\ "terminatedQueue" \notin Sem
      /\ queue' = [queue EXCEPT !["terminatedQueue"] = <<>>]
      /\ logged' = logged \cup {t[i] : i \in DOMAIN t}
      /\ pRunningPcb = NoProc /\ pRunningPcb' = NoProc
  BY QueuesFromInv, QueueNames DEF EndRun, Queues, AllQueuesEmpty, runVars
<1>2. \A x : In(queue, x, "terminatedQueue") <=> \E i \in DOMAIN t : t[i] = x BY DEF In
<1> HIDE DEF t
<1>3. \A x \in Proc : x \in logged' <=> x \in logged \/ In(queue, x, "terminatedQueue")
  BY <1>1, <1>2
<1>4. \A id \in QueueId : \A x : In(queue', x, id) <=> In(queue, x, id) /\ id # "terminatedQueue"
  BY <1>1 DEF In, Queues
<1>5. \A s \in Sem : queue'[s] = queue[s] BY <1>1, QueueNames DEF Queues
<1>6. ASSUME NEW x \in Proc
      PROVE  /\ Stage(x) \in {"none", "blocked", "terminated", "logged"}
             /\ Stage(x)' = IF Stage(x) = "terminated" THEN "logged" ELSE Stage(x)
  <2>1. /\ \A id \in ReadyIds \cup {"newQueue", "waitingQueue"} : ~In(queue, x, id)
        /\ x # pRunningPcb /\ x # pRunningPcb'
    BY <1>1, ProcAssumption DEF EndRun, AllQueuesEmpty, ReadyQueuesEmpty, In
  <2>2. Stage(x) \in {"none", "blocked", "terminated", "logged"}
    BY <2>1 DEF Stage, Ready
  <2>3. CASE In(queue, x, "terminatedQueue")
    <3>1. Stage(x) = "terminated" BY <1>1, <2>3, StageNow, StageOfNames DEF StageByPlace
    <3>2. Stage(x)' = "logged" BY <1>3, <2>3, StageNext DEF StageByPlace
    <3> QED BY <2>2, <3>1, <3>2
  <2>4. CASE ~In(queue, x, "terminatedQueue")
    <3>1. Stage(x) # "terminated" BY <2>4 DEF Stage
    <3>2. /\ \A id \in QueueId : In(queue', x, id) <=> In(queue, x, id)
          /\ x \in logged' <=> x \in logged
          /\ x = pRunningPcb' <=> x = pRunningPcb
      BY <1>3, <1>4, <2>1, <2>4
    <3>3. Stage(x)' = Stage(x) BY <3>2, StageKept
    <3> QED BY <2>2, <3>1, <3>3
  <2> QED BY <2>3, <2>4
<1> QED BY <1>5, <1>6 DEF Abstract!Log

LEMMA InitImplemented == Init => Abstract!Init
<1> SUFFICES ASSUME Init PROVE Abstract!Init OBVIOUS
<1>1. \A id \in QueueId : queue[id] = <<>> /\ DOMAIN queue[id] = {} BY DEF Init
<1>2. \A id \in QueueId : \A p : ~In(queue, p, id) BY <1>1, Zenon DEF In
<1>3. \A p \in Proc : Stage(p) = "none"
  BY <1>2, QueueNames, ProcAssumption DEF Init, Stage, Blocked, Ready
<1> QED BY <1>1, <1>3, QueueNames DEF Abstract!Init

LEMMA NextImplemented == IInv /\ IInv' /\ [Next]_vars => [Abstract!Next]_(Abstract!lifeVars)
<1> SUFFICES ASSUME IInv, IInv', [Next]_vars PROVE Abstract!Next \/ UNCHANGED Abstract!lifeVars
  OBVIOUS
<1>1. CASE UNCHANGED <<queue, logged, pRunningPcb>> BY <1>1, SameQueues
<1>2. CASE SetScheduler \/ InitSemaphore \/ OpenSharedMemory \/ StartRun \/ CallScheduler
           \/ KeepRunning \/ NoPreemption \/ Idle \/ Instruction \/ IsrPrint \/ Faulted
           \/ UNCHANGED vars
  BY <1>1, <1>2
  DEF SetScheduler, InitSemaphore, LinkSemaphore, OpenSharedMemory, StartRun, CallScheduler,
      KeepRunning, NoPreemption, Fault, Idle, Instruction, IsrPrint, Faulted, vars, runVars
<1>3. CASE LoadProgram
  BY <1>3, CreateImplemented DEF LoadProgram, runVars, Abstract!Next
<1>4. CASE Arrive
  BY <1>1, <1>4, CreateImplemented DEF Arrive, runVars, Abstract!Next
<1>5. CASE AdmitNew BY <1>5, AdmitImplemented DEF Abstract!Next
<1>6. CASE Dispatch BY <1>6, DispatchImplemented DEF Abstract!Next
<1>7. CASE PreemptRR \/ PreemptMLFQ BY <1>7, PreemptImplemented DEF Abstract!Next
<1>8. CASE \E code \in Swis : Trap(code) BY <1>8, TrapImplemented DEF Abstract!Next
<1>9. CASE Halt BY <1>9, HaltImplemented DEF Abstract!Next
<1>10. CASE IsrVFork BY <1>10, ForkImplemented DEF Abstract!Next
<1>11. CASE IsrReturnSharedMemPtr BY <1>11, ReturnImplemented DEF Abstract!Next
<1>12. CASE IsrSemaphoreAquire \/ IsrSemaphoreWait BY <1>12, BlockImplemented DEF Abstract!Next
<1>13. CASE IsrSemaphoreRelease BY <1>13, WakeImplemented DEF Abstract!Next
<1>14. CASE Resume BY <1>14, ResumeImplemented DEF Abstract!Next
<1>15. CASE EndRun BY <1>15, LogImplemented DEF Abstract!Next
<1> QED
  BY <1>2, <1>3, <1>4, <1>5, <1>6, <1>7, <1>8, <1>9, <1>10, <1>11, <1>12, <1>13, <1>14, <1>15
  DEF Next, ShellStep, KernelStep, SchedulerStep

\* Whatever the algorithm, the programs and the commands, the scheduler moves each
\* process as module Lifecycle lets it (kernel.cpp ExecuteProgram and Run, and all
\* of scheduler.cpp).
THEOREM LifecycleImplemented == Spec => ImplementsLifecycle
<1>1. Init => IInv /\ Abstract!Init BY InitInv, InitImplemented
<1>2. IInv /\ [Next]_vars => IInv' BY NextInv
<1>3. IInv /\ IInv' /\ [Next]_vars => [Abstract!Next]_(Abstract!lifeVars)
  BY NextImplemented
<1> QED BY <1>1, <1>2, <1>3, PTL DEF Spec, ImplementsLifecycle, Abstract!Spec

----------------------------------------------------------------------------
(***************************************************************************)
(* What one run leaves to the next.  The argument is a set D of semaphores *)
(* that is closed: every process linked to one of them has ended, or is    *)
(* itself blocked on one of them.  Nobody is left to release any of D, and *)
(* no command links a process to a semaphore that exists already.          *)
(***************************************************************************)

Over(x) == x \in logged \/ In(queue, x, "terminatedQueue")
Settled(x, D) == Over(x) \/ \E s \in D : In(queue, x, s)

Closed(D) ==
    /\ D \subseteq semaphoreTable
    /\ \A x \in Proc : semId[x] \in D => Settled(x, D)

Stranded(p) == \E D \in SUBSET Sem : Closed(D) /\ \E s \in D : In(queue, p, s)

\* Processes block on semaphores that exist; a PCB not created yet has none.
Assigned ==
    /\ \A x \in Proc, s \in Sem : In(queue, x, s) => s \in semaphoreTable
    /\ \A x \in Proc : pState[x] = CREATED => semId[x] = NoSem

\* Between two runs every process is new, over or blocked, and a new one is linked
\* to no semaphore that somebody is blocked on.
AtPrompt ==
    phase = "shell" =>
        /\ \A x \in Proc : pState[x] = CREATED \/ In(queue, x, "newQueue") \/ Over(x) \/ Blocked(x)
        /\ \A x, y \in Proc, s \in Sem :
             In(queue, x, "newQueue") /\ semId[x] = s => ~In(queue, y, s)

\* Without MLFQ, whatever is not on the highest level is out of the scheduler's reach.
Level ==
    /\ \A x \in Proc : pState[x] = CREATED \/ In(queue, x, "newQueue") => pPriority[x] = 0
    /\ phase # "shell" /\ schedulerAlgo # "MLFQ" =>
         \A x \in Proc : pPriority[x] # 0 => Over(x) \/ Stranded(x)

DInv == IInv /\ Assigned /\ AtPrompt /\ Level

----------------------------------------------------------------------------
(* Which processes a step moves.                                           *)

\* Who is new, ready or interrupted is not settled.
LEMMA NotSettled ==
    ASSUME IInv, NEW D \in SUBSET Sem, NEW p \in Proc, p \notin logged,
           NEW a \in QueueId \ ({"terminatedQueue"} \cup D), In(queue, p, a)
    PROVE  ~Settled(p, D)
BY QueuesFromInv, InUnique, QueueNames DEF Settled, Over

\* Who is in no queue is not settled either.
LEMMA UnqueuedNotSettled ==
    ASSUME IInv, NEW D \in SUBSET Sem, NEW p \in Proc, p \notin logged, ~InQueue(queue, p)
    PROVE  ~Settled(p, D)
BY QueueNames DEF Settled, Over, InQueue

LEMMA RunningNotSettled ==
    ASSUME IInv, NEW D \in SUBSET Sem, phase = "isr"
    PROVE  ~Settled(pRunningPcb, D)
<1>1. pRunningPcb \in Proc /\ In(queue, pRunningPcb, "waitingQueue")
  BY InIsr
<1>2. pRunningPcb \notin logged
  BY DEF IInv, Exclusive
<1> QED
  BY <1>1, <1>2, NotSettled, QueueNames

\* The process put in b by this step was not settled, and b exists if it is a semaphore.
Displaces(p, b, D) ==
    /\ Places(p, b) /\ ~Settled(p, D)
    /\ b = "newQueue" => pState[p] = CREATED
    /\ b \in Sem => b \in semaphoreTable

LEMMA BlockDisplaces ==
    ASSUME IInv, NEW D \in SUBSET Sem, phase = "isr", NEW s, s = semId[pRunningPcb], s # NoSem,
           BlockOn(s), logged' = logged
    PROVE  Displaces(pRunningPcb, s, D)
<1>1. pRunningPcb \in Proc
  BY InIsr
<1>2. s \in Sem /\ s \in semaphoreTable
  BY <1>1 DEF IInv, TypeOK
<1>3. s # "newQueue"
  BY <1>2, QueueNames
<1> QED
  BY <1>2, <1>3, BlockPlaces, RunningNotSettled DEF Displaces

\* The one step that takes a process out of a semaphore's queue is the release of a
\* process linked to it, and that process is not settled.
LEMMA ReleaseDisplaces ==
    ASSUME IInv, NEW D \in SUBSET Sem, Closed(D), IsrSemaphoreRelease
    PROVE  UNCHANGED <<queue, pState, logged>> \/ \E p, b : Displaces(p, b, D)
<1>1. phase = "isr" /\ logged' = logged /\ pRunningPcb \in Proc
  BY InIsr DEF IsrSemaphoreRelease
<1>2. CASE semId[pRunningPcb] = NoSem
  BY <1>1, <1>2 DEF IsrSemaphoreRelease
<1>3. CASE semId[pRunningPcb] # NoSem
  <2>1. PICK s : s = semId[pRunningPcb]
    OBVIOUS
  <2>2. s \in Sem /\ s \notin D
    BY <1>1, <1>3, <2>1, RunningSem, RunningNotSettled DEF Closed
  <2>3. Wake(s)
    BY <1>1, <1>3, <2>1 DEF IsrSemaphoreRelease
  <2>4. CASE queue[s] = <<>>
    BY <1>1, <2>3, <2>4 DEF Wake
  <2>5. CASE queue[s] # <<>>
    <3>1. PICK b \in ReadyIds : Places(Head(queue[s]), b)
      BY <1>1, <2>2, <2>3, <2>5, PlacesWoken
    <3>2. PICK h : h = Head(queue[s])
      OBVIOUS
    <3>3. In(queue, h, s) /\ h \in Proc /\ h \notin logged
      BY <1>1, <2>2, <2>3, <2>5, <3>1, <3>2, PlacesWoken DEF Places
    <3>4. s \in QueueId \ ({"terminatedQueue"} \cup D)
      BY <2>2, QueueNames
    <3>5. ~Settled(h, D)
      BY <3>3, <3>4, NotSettled
    <3>6. b # "newQueue" /\ b \notin Sem
      BY <3>1, QueueNames
    <3> QED
      BY <3>1, <3>2, <3>5, <3>6 DEF Displaces
  <2> QED
    BY <2>4, <2>5
<1> QED
  BY <1>2, <1>3

LEMMA StepKinds ==
    ASSUME IInv, NEW D \in SUBSET Sem, Closed(D), [Next]_vars
    PROVE  \/ UNCHANGED <<queue, pState, logged>>
           \/ \E p, b : Displaces(p, b, D)
           \/ \E n : Takes(n)
           \/ \E p, n : Switches(p, n)
           \/ EndRun
<1>1. CASE SetScheduler \/ InitSemaphore \/ OpenSharedMemory \/ StartRun \/ CallScheduler
           \/ KeepRunning \/ NoPreemption \/ Idle \/ Instruction \/ IsrPrint \/ Faulted
           \/ UNCHANGED vars
  BY <1>1 DEF SetScheduler, InitSemaphore, LinkSemaphore, OpenSharedMemory, StartRun,
     CallScheduler, KeepRunning, NoPreemption, Fault, Idle, Instruction, IsrPrint, Faulted, vars
<1>2. ASSUME NEW p \in Proc, NewPcb(p), logged' = logged
      PROVE  Displaces(p, "newQueue", D)
  <2>1. Places(p, "newQueue") /\ pState[p] = CREATED
    BY <1>2, PlacesCreated
  <2>2. ~Settled(p, D)
    BY <2>1, UnqueuedNotSettled DEF IInv, FreshUnplaced
  <2> QED
    BY <2>1, <2>2, QueueNames DEF Displaces
<1>3. CASE LoadProgram
  BY <1>2, <1>3 DEF LoadProgram
<1>4. CASE Arrive
  BY <1>2, <1>4 DEF Arrive
<1>5. CASE AdmitNew
  <2>1. PICK h \in Proc, b \in ReadyIds : Places(h, b) /\ In(queue, h, "newQueue")
    BY <1>5, PlacesAdmitted
  <2>2. ~Settled(h, D)
    BY <2>1, NotSettled, QueueNames DEF Places
  <2> QED
    BY <2>1, <2>2, QueueNames DEF Displaces
<1>6. CASE Dispatch
  BY <1>6, TakesDispatched
<1>7. CASE PreemptRR \/ PreemptMLFQ
  BY <1>7, PreemptSwitches
<1>8. CASE \E code \in Swis : Trap(code)
  <2>1. Places(pRunningPcb, "waitingQueue") /\ ~InQueue(queue, pRunningPcb)
    BY <1>8, TrapPlaces
  <2>2. ~Settled(pRunningPcb, D)
    BY <2>1, UnqueuedNotSettled DEF Places
  <2> QED
    BY <2>1, <2>2, QueueNames DEF Displaces
<1>9. CASE Halt
  <2>1. Places(pRunningPcb, "terminatedQueue") /\ ~InQueue(queue, pRunningPcb)
    BY <1>9, HaltPlaces
  <2>2. ~Settled(pRunningPcb, D)
    BY <2>1, UnqueuedNotSettled DEF Places
  <2> QED
    BY <2>1, <2>2, QueueNames DEF Displaces
<1>10. CASE IsrVFork
  <2>1. PICK c \in Proc, b \in ReadyIds : Places(c, b) /\ pState[c] = CREATED
    BY <1>10, PlacesFork
  <2>2. ~Settled(c, D)
    BY <2>1, UnqueuedNotSettled DEF IInv, FreshUnplaced
  <2> QED
    BY <2>1, <2>2, QueueNames DEF Displaces
<1>11. CASE IsrReturnSharedMemPtr
  <2>1. phase = "isr"
    BY <1>11 DEF IsrReturnSharedMemPtr, ReturnTo
  <2> QED
    BY <1>11, <2>1, ReturnPlaces, RunningNotSettled, QueueNames DEF Displaces
<1>12. CASE IsrSemaphoreAquire \/ IsrSemaphoreWait
  BY <1>12, BlockDisplaces DEF IsrSemaphoreAquire, IsrSemaphoreWait
<1>13. CASE IsrSemaphoreRelease
  BY <1>13, ReleaseDisplaces
<1>14. CASE Resume
  <2>1. ASSUME In(queue, pRunningPcb, "waitingQueue"),
               NEW b \in ReadyIds, Places(pRunningPcb, b)
        PROVE  Displaces(pRunningPcb, b, D)
    BY <2>1, NotSettled, QueueNames DEF Places, Displaces
  <2> QED
    BY <1>14, <2>1, ResumePlaces
<1>15. CASE EndRun
  BY <1>15
<1> QED
  BY <1>1, <1>3, <1>4, <1>5, <1>6, <1>7, <1>8, <1>9, <1>10, <1>11, <1>12, <1>13, <1>14, <1>15
  DEF Next, ShellStep, KernelStep, SchedulerStep

\* What the kinds of step leave as it is.
LEMMA Moves ==
    ASSUME IInv, NEW D \in SUBSET Sem, Closed(D), [Next]_vars, NEW x \in Proc
    PROVE  /\ Over(x) => Over(x)'
           /\ \A s \in D : In(queue, x, s) => In(queue', x, s)
           /\ \A s \in Sem : In(queue', x, s) => In(queue, x, s) \/ s \in semaphoreTable
           /\ In(queue', x, "newQueue") => In(queue, x, "newQueue") \/ pState[x] = CREATED
           /\ pState'[x] = CREATED => pState[x] = CREATED
<1> USE QueueNames
<1>1. CASE UNCHANGED <<queue, pState, logged>>
  BY <1>1 DEF Over
<1>2. ASSUME NEW p, NEW b, Displaces(p, b, D)
      PROVE  /\ Over(x) => Over(x)'
             /\ \A s \in D : In(queue, x, s) => In(queue', x, s)
             /\ \A s \in Sem : In(queue', x, s) => In(queue, x, s) \/ s \in semaphoreTable
             /\ In(queue', x, "newQueue") => In(queue, x, "newQueue") \/ pState[x] = CREATED
             /\ pState'[x] = CREATED => pState[x] = CREATED
  <2>1. /\ p \in Proc /\ b \in QueueId /\ logged' = logged
        /\ \A id \in QueueId : In(queue', x, id) <=> IF x = p THEN id = b ELSE In(queue, x, id)
        /\ pState' = [pState EXCEPT ![p] = StateOf(b)]
        /\ pState \in [Proc -> {CREATED, NEWLY, READY, RUNNING, WAITING, TERMINATED}]
    BY <1>2 DEF Displaces, Places, MovesTo, IInv, TypeOK
  <2>2. CASE x = p
    <3>1. pState'[x] # CREATED
      BY <2>1, <2>2 DEF StateOf, CREATED, NEWLY, READY, WAITING, TERMINATED
    <3>2. ~Over(x) /\ \A s \in D : ~In(queue, x, s)
      BY <1>2, <2>2 DEF Displaces, Settled
    <3> QED
      BY <1>2, <2>1, <2>2, <3>1, <3>2 DEF Displaces
  <2>3. CASE x # p
    BY <2>1, <2>3 DEF Over
  <2> QED
    BY <2>2, <2>3
<1>3. ASSUME NEW n, Takes(n)
      PROVE  /\ \A id \in QueueId \ ReadyIds : In(queue', x, id) <=> In(queue, x, id)
             /\ logged' = logged /\ (pState'[x] = CREATED => pState[x] = CREATED)
  <2>1. \A id \in QueueId \ ReadyIds : queue'[id] = queue[id]
    BY <1>3 DEF Takes
  <2>2. n \in Proc /\ pState' \in {pState, [pState EXCEPT ![n] = RUNNING]} /\ logged' = logged
    BY <1>3 DEF Takes
  <2>3. pState'[x] = CREATED => pState[x] = CREATED
    BY <2>2 DEF IInv, TypeOK, CREATED, RUNNING
  <2> QED
    BY <2>1, <2>2, <2>3 DEF In
<1>4. ASSUME NEW p, NEW n, Switches(p, n)
      PROVE  /\ \A id \in QueueId \ ReadyIds : In(queue', x, id) <=> In(queue, x, id)
             /\ logged' = logged /\ (pState'[x] = CREATED => pState[x] = CREATED)
  <2>1. \A id \in QueueId \ ReadyIds : queue'[id] = queue[id]
    BY <1>4 DEF Switches
  <2>2. /\ p \in Proc /\ n \in Proc /\ logged' = logged
        /\ pState' = [pState EXCEPT ![p] = READY, ![n] = RUNNING]
    BY <1>4 DEF Switches
  <2>3. pState'[x] = CREATED => pState[x] = CREATED
    BY <2>2 DEF IInv, TypeOK, CREATED, READY, RUNNING
  <2> QED
    BY <2>1, <2>2, <2>3 DEF In
<1>5. CASE (\E n : Takes(n)) \/ \E p, n : Switches(p, n)
  BY <1>3, <1>4, <1>5 DEF Over
<1>6. CASE EndRun
  <2>1. \A id \in QueueId \ {"terminatedQueue"} : queue'[id] = queue[id]
    BY <1>6, QueuesFromInv DEF EndRun, Queues
  <2>2. Over(x) => x \in logged'
    BY <1>6 DEF Over, In, EndRun
  <2>3. pState' = pState
    BY <1>6 DEF EndRun
  <2> QED
    BY <2>1, <2>2, <2>3 DEF Over, In
<1> QED
  BY <1>1, <1>2, <1>5, <1>6, StepKinds

\* No command removes a semaphore.
LEMMA TableGrows ==
    ASSUME IInv, [Next]_vars
    PROVE  /\ semaphoreTable \subseteq semaphoreTable'
           /\ InitSemaphore \/ UNCHANGED <<semId, semaphoreTable>>
<1>1. CASE InitSemaphore
  BY <1>1 DEF InitSemaphore, LinkSemaphore
<1>2. CASE ~InitSemaphore
  BY <1>2 DEF Next, ShellStep, KernelStep, SchedulerStep, vars, kernelVars, runVars, pcbVars,
       levelVars, semVars, cpuVars, SetScheduler, LoadProgram, OpenSharedMemory, StartRun, Arrive,
       CallScheduler, EndRun, AdmitNew, Dispatch, KeepRunning, PreemptRR, PreemptMLFQ,
       NoPreemption, Fault, Idle, Instruction, Trap, Halt, HaltTo, IsrPrint, IsrVFork,
       IsrReturnSharedMemPtr, ReturnTo, IsrSemaphoreAquire, IsrSemaphoreRelease, IsrSemaphoreWait,
       Resume, Faulted
<1> QED
  BY <1>1, <1>2

\* Links are made to semaphores that did not exist, and to created processes only.
LEMMA Links ==
    ASSUME IInv, [Next]_vars, NEW x \in Proc
    PROVE  semId'[x] = semId[x] \/ (semId'[x] \in Sem \ semaphoreTable /\ pState[x] # CREATED)
<1>1. CASE InitSemaphore
  <2>1. PICK s \in FreshSemaphores, one \in Found, two \in Found :
          semId' = IF one = NoProc \/ two = NoProc THEN semId
                   ELSE [semId EXCEPT ![one] = s, ![two] = s]
    BY <1>1 DEF InitSemaphore, LinkSemaphore
  <2> QED
    BY <2>1, ProcAssumption DEF Found, FreshSemaphores, IInv, TypeOK
<1> QED
  BY <1>1, TableGrows

\* A closed set stays closed, and whoever is blocked on it stays blocked on it.
LEMMA ClosedStays ==
    ASSUME IInv, NEW D \in SUBSET Sem, Closed(D), [Next]_vars
    PROVE  Closed(D)'
<1>1. D \subseteq semaphoreTable'
  BY TableGrows DEF Closed
<1>2. ASSUME NEW x \in Proc, semId'[x] \in D PROVE Settled(x, D)'
  <2>1. semId[x] \in D
    BY <1>2, Links DEF Closed
  <2>2. Settled(x, D)
    BY <2>1 DEF Closed
  <2> QED
    BY <2>2, Moves DEF Settled
<1> QED
  BY <1>1, <1>2 DEF Closed

\* Stranded is stable: the same closed set witnesses it after the step.
LEMMA StrandedStays ==
    ASSUME IInv, [Next]_vars, NEW p \in Proc, Stranded(p)
    PROVE  Stranded(p)'
<1>1. PICK D \in SUBSET Sem : Closed(D) /\ \E s \in D : In(queue, p, s)
  BY DEF Stranded
<1>2. Closed(D)' /\ \E s \in D : In(queue', p, s)
  BY <1>1, ClosedStays, Moves
<1> QED
  BY <1>2 DEF Stranded

LEMMA OverStays ==
    ASSUME IInv, [Next]_vars, NEW p \in Proc, Over(p)
    PROVE  Over(p)'
<1>1. {} \in SUBSET Sem /\ Closed({})
  BY SemAssumption DEF Closed
<1> QED
  BY <1>1, Moves

LEMMA StrandedBlocked == ASSUME NEW p \in Proc, Stranded(p) PROVE Blocked(p)
BY DEF Stranded, Blocked

\* Between two runs the semaphores somebody is blocked on are a closed set.
LEMMA PromptStranded ==
    ASSUME DInv, phase = "shell", NEW p \in Proc, Blocked(p)
    PROVE  Stranded(p)
<1> DEFINE D == {s \in Sem : \E y \in Proc : In(queue, y, s)}
<1>1. D \in SUBSET Sem /\ D \subseteq semaphoreTable
  BY DEF DInv, Assigned
<1>2. ASSUME NEW x \in Proc, semId[x] \in D PROVE Settled(x, D)
  <2>1. PICK y \in Proc : In(queue, y, semId[x])
    BY <1>2
  <2>2. pState[x] # CREATED
    BY <1>2, SemAssumption DEF DInv, Assigned
  <2>3. ~In(queue, x, "newQueue")
    BY <1>2, <2>1 DEF DInv, AtPrompt
  <2>4. Over(x) \/ Blocked(x)
    BY <2>2, <2>3 DEF DInv, AtPrompt
  <2> QED
    BY <2>4 DEF Settled, Blocked
<1>3. \E s \in D : In(queue, p, s)
  BY DEF Blocked
<1>4. Closed(D)
  BY <1>1, <1>2 DEF Closed
<1> QED
  BY <1>1, <1>3, <1>4 DEF Stranded

----------------------------------------------------------------------------
(* DInv is an invariant.                                                    *)

LEMMA InitDInv == ASSUME Init PROVE DInv
<1>1. IInv
  BY InitInv
<1>2. ASSUME NEW x \in Proc, NEW id \in QueueId PROVE ~In(queue, x, id)
  BY DEF Init, In
<1>3. Assigned
  BY <1>2, QueueNames DEF Assigned, Init
<1>4. AtPrompt
  BY <1>2, QueueNames DEF AtPrompt, Init
<1>5. Level
  BY DEF Level, Init
<1> QED
  BY <1>1, <1>3, <1>4, <1>5 DEF DInv

LEMMA AssignedStep == ASSUME DInv, [Next]_vars PROVE Assigned'
<1>1. {} \in SUBSET Sem /\ Closed({}) /\ IInv
  BY SemAssumption DEF Closed, DInv
<1>2. ASSUME NEW x \in Proc, NEW s \in Sem, In(queue', x, s) PROVE s \in semaphoreTable'
  <2>1. In(queue, x, s) \/ s \in semaphoreTable
    BY <1>1, <1>2, Moves
  <2> QED
    BY <1>1, <2>1, TableGrows DEF DInv, Assigned
<1>3. ASSUME NEW x \in Proc, pState'[x] = CREATED PROVE semId'[x] = NoSem
  <2>1. pState[x] = CREATED
    BY <1>1, <1>3, Moves
  <2> QED
    BY <1>1, <2>1, Links DEF DInv, Assigned
<1> QED
  BY <1>2, <1>3 DEF Assigned

\* At the prompt, in both parts of AtPrompt: a loaded process has no semaphore.
LEMMA PromptLoad == ASSUME DInv, LoadProgram, [Next]_vars PROVE AtPrompt'
<1>1. phase = "shell" /\ UNCHANGED <<semId, logged>>
  BY DEF LoadProgram, pcbVars, semVars
<1>2. PICK p \in Proc : NewPcb(p)
  BY DEF LoadProgram
<1>3. /\ Places(p, "newQueue") /\ pState[p] = CREATED
  BY <1>1, <1>2, PlacesCreated DEF DInv
<1>4. \A id \in QueueId, x \in Proc : In(queue', x, id) <=> IF x = p THEN id = "newQueue" ELSE In(queue, x, id)
  BY <1>3 DEF Places, MovesTo
<1>5. semId[p] = NoSem /\ NoSem \notin Sem
  BY <1>3, SemAssumption DEF DInv, Assigned
<1>6. ASSUME NEW x \in Proc
      PROVE  (pState'[x] = CREATED \/ In(queue', x, "newQueue") \/ Over(x)' \/ Blocked(x)')
  <2>1. CASE x = p
    BY <1>4, <2>1, QueueNames
  <2>2. CASE x # p
    <3>1. pState'[x] = pState[x]
      BY <1>3, <2>2 DEF Places
    <3>2. \A id \in QueueId : In(queue', x, id) <=> In(queue, x, id)
      BY <1>4, <2>2
    <3>3. pState[x] = CREATED \/ In(queue, x, "newQueue") \/ Over(x) \/ Blocked(x)
      BY <1>1 DEF DInv, AtPrompt
    <3> QED
      BY <1>1, <3>1, <3>2, <3>3, QueueNames DEF Over, Blocked
  <2> QED
    BY <2>1, <2>2
<1>7. ASSUME NEW x \in Proc, NEW y \in Proc, NEW s \in Sem, In(queue', x, "newQueue"), semId'[x] = s
      PROVE  ~In(queue', y, s)
  <2>1. x # p /\ In(queue, x, "newQueue") /\ semId[x] = s
    BY <1>1, <1>4, <1>5, <1>7, QueueNames
  <2>2. ~In(queue, y, s)
    BY <1>1, <2>1 DEF DInv, AtPrompt
  <2> QED
    BY <1>4, <2>2, QueueNames
<1> QED
  BY <1>6, <1>7 DEF AtPrompt

LEMMA PromptEnd == ASSUME DInv, EndRun, [Next]_vars PROVE AtPrompt'
<1>1. /\ AllQueuesEmpty /\ pState' = pState
      /\ \A id \in QueueId \ {"terminatedQueue"} : queue'[id] = queue[id]
  BY QueuesFromInv DEF EndRun, Queues, DInv
<1>2. queue'["newQueue"] = <<>>
  BY <1>1, QueueNames DEF AllQueuesEmpty
<1>3. ASSUME NEW x \in Proc
      PROVE  pState'[x] = CREATED \/ Over(x)' \/ Blocked(x)'
  <2>1. CASE Over(x)
    BY <2>1, OverStays DEF DInv
  <2>2. CASE ~Over(x) /\ pState[x] # CREATED
    <3>1. x # pRunningPcb
      BY <1>1, ProcAssumption DEF AllQueuesEmpty
    <3>2. PICK id \in QueueId : In(queue, x, id)
      BY <2>2, <3>1 DEF DInv, IInv, NotLost, Over, InQueue
    <3>3. id \notin ReadyIds \cup {"newQueue", "waitingQueue", "terminatedQueue"}
      BY <1>1, <2>2, <3>2 DEF AllQueuesEmpty, ReadyQueuesEmpty, In, Over
    <3>4. id \in Sem /\ In(queue', x, id)
      BY <1>1, <3>2, <3>3 DEF QueueId, SchedulerQueues, In
    <3> QED
      BY <3>4 DEF Blocked
  <2> QED
    BY <1>1, <2>1, <2>2
<1> QED
  BY <1>2, <1>3 DEF AtPrompt, In

\* A command that links processes links them to a semaphore nobody is blocked on.
LEMMA PromptCommand ==
    ASSUME DInv, [Next]_vars, phase = "shell", UNCHANGED <<queue, pState, logged>>
    PROVE  AtPrompt'
<1>1. ASSUME NEW x \in Proc
      PROVE  pState'[x] = CREATED \/ In(queue', x, "newQueue") \/ Over(x)' \/ Blocked(x)'
  BY DEF DInv, AtPrompt, Over, Blocked
<1>2. ASSUME NEW x \in Proc, NEW y \in Proc, NEW s \in Sem, In(queue', x, "newQueue"), semId'[x] = s
      PROVE  ~In(queue', y, s)
  <2>1. CASE semId[x] = s
    BY <1>2, <2>1 DEF DInv, AtPrompt
  <2>2. CASE s \notin semaphoreTable
    BY <2>2 DEF DInv, Assigned
  <2> QED
    BY <1>2, <2>1, <2>2, Links DEF DInv
<1> QED
  BY <1>1, <1>2 DEF AtPrompt

LEMMA AtPromptStep == ASSUME DInv, [Next]_vars PROVE AtPrompt'
<1>1. CASE LoadProgram
  BY <1>1, PromptLoad
<1>2. CASE EndRun
  BY <1>2, PromptEnd
<1>3. CASE SetScheduler \/ InitSemaphore \/ OpenSharedMemory \/ UNCHANGED vars
  <2>1. UNCHANGED <<queue, pState, logged>> /\ (phase = "shell" \/ phase' # "shell")
    BY <1>3 DEF SetScheduler, InitSemaphore, LinkSemaphore, OpenSharedMemory, vars
  <2> QED
    BY <2>1, PromptCommand DEF AtPrompt
<1>4. CASE phase' # "shell"
  BY <1>4 DEF AtPrompt
<1>5. CASE StartRun \/ Arrive \/ CallScheduler \/ SchedulerStep \/ Faulted
  <2>1. phase' # "shell" \/ UNCHANGED vars
    BY <1>5 DEF SchedulerStep, StartRun, Arrive, CallScheduler, AdmitNew, Dispatch, AfterDispatch,
       KeepRunning, PreemptRR, PreemptMLFQ, NoPreemption, Fault, Idle, Instruction, Trap, Halt,
       HaltTo, IsrPrint, IsrVFork, IsrReturnSharedMemPtr, ReturnTo, IsrSemaphoreAquire,
       IsrSemaphoreRelease, IsrSemaphoreWait, Resume, Faulted
  <2> QED
    BY <1>3, <1>4, <2>1
<1> QED
  BY <1>1, <1>2, <1>3, <1>5 DEF Next, ShellStep, KernelStep

----------------------------------------------------------------------------
(* The levels.                                                              *)

\* A process leaves the highest level by a preemption of MLFQ only.
LEMMA Raised ==
    ASSUME IInv, [Next]_vars, NEW x \in Proc, pPriority'[x] # 0, pPriority[x] = 0
    PROVE  phase = "preempt" /\ schedulerAlgo = "MLFQ" /\ x = pRunningPcb
<1>1. pPriority \in [Proc -> 0..2]
  BY DEF IInv, TypeOK
<1>2. CASE PreemptMLFQ
  BY <1>1, <1>2 DEF PreemptMLFQ
<1>3. CASE Resume
  BY <1>1, <1>3 DEF Resume
<1>4. CASE ~PreemptMLFQ /\ ~Resume
  <2>1. pPriority' = pPriority
    BY <1>4 DEF Next, ShellStep, KernelStep, SchedulerStep, vars, kernelVars, runVars, pcbVars,
       levelVars, semVars, cpuVars, SetScheduler, LoadProgram, InitSemaphore, LinkSemaphore,
       OpenSharedMemory, StartRun, Arrive, CallScheduler, EndRun, AdmitNew, Dispatch, KeepRunning,
       PreemptRR, NoPreemption, Fault, Idle, Instruction, Trap, Halt, HaltTo, IsrPrint, IsrVFork,
       IsrReturnSharedMemPtr, ReturnTo, IsrSemaphoreAquire, IsrSemaphoreRelease, IsrSemaphoreWait,
       Faulted
  <2> QED
    BY <2>1
<1> QED
  BY <1>2, <1>3, <1>4

\* The algorithm is chosen between two runs.
LEMMA AlgoKept ==
    ASSUME [Next]_vars, phase # "shell" PROVE schedulerAlgo' = schedulerAlgo
BY DEF Next, ShellStep, KernelStep, SchedulerStep, vars, kernelVars, runVars, pcbVars, levelVars,
   semVars, cpuVars, SetScheduler, LoadProgram, InitSemaphore, LinkSemaphore, OpenSharedMemory,
   StartRun, Arrive, CallScheduler, EndRun, AdmitNew, Dispatch, KeepRunning, PreemptRR,
   PreemptMLFQ, NoPreemption, Fault, Idle, Instruction, Trap, Halt, HaltTo, IsrPrint, IsrVFork,
   IsrReturnSharedMemPtr, ReturnTo, IsrSemaphoreAquire, IsrSemaphoreRelease, IsrSemaphoreWait,
   Resume, Faulted

LEMMA LevelStep == ASSUME DInv, [Next]_vars PROVE Level'
<1>1. {} \in SUBSET Sem /\ Closed({}) /\ IInv
  BY SemAssumption DEF Closed, DInv
<1>2. ASSUME NEW x \in Proc, pState'[x] = CREATED \/ In(queue', x, "newQueue")
      PROVE  pPriority'[x] = 0
  <2>1. pState[x] = CREATED \/ In(queue, x, "newQueue")
    BY <1>1, <1>2, Moves
  <2>2. pPriority[x] = 0
    BY <2>1 DEF DInv, Level
  <2>3. x = pRunningPcb => phase # "preempt"
    BY <1>1, <2>1, QueueNames DEF IInv, FreshUnplaced, Exclusive, InQueue
  <2> QED
    BY <1>1, <2>2, <2>3, Raised
<1>3. ASSUME phase' # "shell", schedulerAlgo' # "MLFQ", NEW x \in Proc, pPriority'[x] # 0
      PROVE  Over(x)' \/ Stranded(x)'
  <2>1. pPriority[x] # 0
    <3>1. phase # "shell" => schedulerAlgo # "MLFQ"
      BY <1>3, AlgoKept
    <3> QED
      BY <1>1, <1>3, <3>1, Raised
  <2>2. Over(x) \/ Stranded(x)
    <3>1. CASE phase = "shell"
      <4>1. Over(x) \/ Blocked(x)
        BY <2>1, <3>1 DEF DInv, Level, AtPrompt
      <4> QED
        BY <3>1, <4>1, PromptStranded
    <3>2. CASE phase # "shell"
      BY <1>3, <2>1, <3>2, AlgoKept DEF DInv, Level
    <3> QED
      BY <3>1, <3>2
  <2> QED
    BY <1>1, <2>2, OverStays, StrandedStays
<1> QED
  BY <1>2, <1>3 DEF Level

LEMMA StepDInv == ASSUME DInv, [Next]_vars PROVE DInv'
<1>1. IInv'
  BY NextInv DEF DInv
<1> QED
  BY <1>1, AssignedStep, AtPromptStep, LevelStep DEF DInv

LEMMA DInvariance == Spec => []DInv
<1>1. Init => DInv
  BY InitDInv
<1>2. DInv /\ [Next]_vars => DInv'
  BY StepDInv
<1> QED
  BY <1>1, <1>2, PTL DEF Spec

----------------------------------------------------------------------------

\* roundRobin's preemption test looks at readyQueue0 alone (scheduler.cpp:118); no
\* process demoted by an earlier MLFQ run is ever in a lower queue under RR or FCFS.
THEOREM LowQueuesOnlyMLFQHolds == Spec => []LowQueuesOnlyMLFQ
<1>1. ASSUME DInv, phase # "shell", schedulerAlgo # "MLFQ", NEW k \in {1, 2}
      PROVE  queue[ReadyQueue(k)] = <<>>
  <2>1. ASSUME NEW x \in Proc PROVE ~In(queue, x, ReadyQueue(k))
    <3>1. SUFFICES ASSUME In(queue, x, ReadyQueue(k)) PROVE FALSE
      OBVIOUS
    <3>2. ReadyQueue(k) \in ReadyIds /\ ReadyQueue(k) \in QueueId /\ pPriority[x] = k
      BY <1>1, <3>1, ReadyQueueNames, QueueNames DEF DInv, IInv, ReadyByPriority
    <3>3. Over(x) \/ Stranded(x)
      BY <1>1, <3>2 DEF DInv, Level
    <3>4. x \notin logged
      BY <1>1, <3>1, <3>2 DEF DInv, IInv, Exclusive, InQueue
    <3>5. In(queue, x, "terminatedQueue") \/ Blocked(x)
      BY <3>3, <3>4, StrandedBlocked DEF Over
    <3> QED
      BY <1>1, <3>1, <3>2, <3>5, QueuesFromInv, InUnique, QueueNames DEF Blocked, DInv
  <2>2. queue[ReadyQueue(k)] \in Seq(Proc)
    BY <1>1, ReadyQueueNames, QueueNames, QueuesFromInv DEF Queues, DInv
  <2>3. DOMAIN queue[ReadyQueue(k)] = {}
    BY <2>1, <2>2 DEF In
  <2>4. DOMAIN queue[ReadyQueue(k)] = 1..Len(queue[ReadyQueue(k)])
    BY <2>2
  <2>5. Len(queue[ReadyQueue(k)]) \in Nat \ {0} => 1 \in DOMAIN queue[ReadyQueue(k)]
    BY <2>4
  <2> QED
    BY <2>2, <2>3, <2>5, EmptySeq
<1>2. DInv => LowQueuesOnlyMLFQ
  <2>1. ReadyQueue(1) = "readyQueue1" /\ ReadyQueue(2) = "readyQueue2"
    BY DEF ReadyQueue
  <2> QED
    BY <1>1, <2>1 DEF LowQueuesOnlyMLFQ
<1> QED
  BY <1>2, DInvariance, PTL

\* A process blocked when a run ends is blocked for ever: only a process linked to
\* its semaphore could wake it, and those have ended or are blocked as well.
THEOREM StrandedForeverHolds == Spec => StrandedForever
<1>1. ASSUME NEW p \in Proc
      PROVE  Spec => [](phase = "shell" /\ Blocked(p) => []Blocked(p))
  <2>1. DInv /\ phase = "shell" /\ Blocked(p) => Stranded(p)
    BY PromptStranded
  <2>2. DInv /\ Stranded(p) /\ [Next]_vars => Stranded(p)'
    BY StrandedStays DEF DInv
  <2>3. Stranded(p) => Blocked(p)
    BY StrandedBlocked
  <2> QED
    BY <2>1, <2>2, <2>3, DInvariance, PTL DEF Spec
<1> QED
  BY <1>1 DEF StrandedForever

=============================================================================
