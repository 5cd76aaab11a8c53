------------------------- MODULE AccountingProofs -------------------------
(***************************************************************************)
(* For any number of processes and semaphores, any quanta, arrival times   *)
(* and bounds: no two instructions share a time slice, the times of every  *)
(* process add up, the programs of exec are taken on time, every log       *)
(* covers its own run, processes are first served in the order of their    *)
(* creation, and the Gantt chart of every log is printed whole.            *)
(***************************************************************************)
EXTENDS Accounting, SchedulerProofs, FiniteSetTheorems, WellFoundedInduction

RecordType ==
    /\ clock \in Nat
    /\ cpuTimeSlices \in [Proc -> Seq(Nat)]
    /\ pArrivalTime \in [Proc -> Nat]
    /\ wait \in [Proc -> Int]
    /\ DOMAIN pTerminationTime = Proc /\ DOMAIN response = Proc /\ DOMAIN turnAround = Proc

\* Nothing was recorded for a time after the clock.
NoFuture ==
    \A p \in Proc :
        /\ pArrivalTime[p] <= clock
        /\ \A i \in DOMAIN cpuTimeSlices[p] : cpuTimeSlices[p][i] <= clock

\* A process has no record before it is created, and its last slice is the present
\* while its interrupt is served.
Unstarted == \A p \in Proc : pState[p] = CREATED => cpuTimeSlices[p] = <<>> /\ wait[p] = 0
JustTrapped ==
    phase = "isr" =>
        cpuTimeSlices[pRunningPcb] # <<>> /\ Last(cpuTimeSlices[pRunningPcb]) = clock

\* The two parts of TimesAddUp.
Elapsed(p) == wait[p] + Len(cpuTimeSlices[p]) = LastSlice(p) - pArrivalTime[p]
Ended(p) ==
    pState[p] = TERMINATED /\ phase # "badTable" =>
        /\ pTerminationTime[p] = LastSlice(p)
        /\ turnAround[p] = wait[p] + Len(cpuTimeSlices[p])
        /\ response[p] = cpuTimeSlices[p][1] - pArrivalTime[p]

RInv ==
    /\ RecordType /\ NoFuture /\ Unstarted /\ JustTrapped /\ OneAtATime
    /\ \A p \in Proc : Elapsed(p) /\ Ended(p)

\* exec's programs are in the order of their times, and none is overdue: within
\* the scheduler's call none is due at all, and an interrupt costs one tick more.
Within == {"admit", "preempt", "execute"}
Outside == {"loop", "isr", "resume"}
Overdue == IF phase \in Within THEN 1 ELSE -1
ArrivalInv ==
    /\ arrivals \in Seq(Nat) /\ Len(arrivals) = argMap
    /\ \A i, j \in DOMAIN arrivals : i <= j => arrivals[i] <= arrivals[j]
    /\ phase = "shell" => argMap = 0
    /\ phase \notin Faults => \A i \in DOMAIN arrivals : arrivals[i] >= clock + Overdue

AInv == IInv /\ SInv /\ RInv /\ ArrivalInv

----------------------------------------------------------------------------
(* The time slices.                                                        *)

LEMMA LastSliceRange ==
    ASSUME RInv, NEW p \in Proc
    PROVE  LastSlice(p) \in Nat /\ LastSlice(p) <= clock
<1> DEFINE s == cpuTimeSlices[p]
<1>1. /\ s \in Seq(Nat) /\ clock \in Nat /\ pArrivalTime[p] \in Nat /\ pArrivalTime[p] <= clock
      /\ \A i \in DOMAIN s : s[i] <= clock
  BY DEF RInv, RecordType, NoFuture
<1>2. LastSlice(p) = IF s = <<>> THEN pArrivalTime[p] ELSE s[Len(s)]
  BY DEF LastSlice, Last
<1> HIDE DEF s
<1>3. s # <<>> => Len(s) \in DOMAIN s /\ s[Len(s)] \in Nat
  BY <1>1, EmptySeq
<1> QED
  BY <1>1, <1>2, <1>3

\* A slice is taken after the clock has moved: it is later than every slice there is,
\* and what passed since the last one counts as waiting.
LEMMA Captures ==
    ASSUME RInv, NEW p \in Proc, NEW now \in Nat, now > clock,
           CaptureTimeSlice(p, now), clock' = now, pArrivalTime' = pArrivalTime,
           DOMAIN pTerminationTime' = Proc, DOMAIN response' = Proc, DOMAIN turnAround' = Proc
    PROVE  /\ RecordType' /\ NoFuture' /\ OneAtATime'
           /\ cpuTimeSlices'[p] # <<>> /\ LastSlice(p)' = now
           /\ Last(cpuTimeSlices'[p]) = now /\ Elapsed(p)'
           /\ \A x \in Proc \ {p} : /\ cpuTimeSlices'[x] = cpuTimeSlices[x] /\ wait'[x] = wait[x]
                                     /\ LastSlice(x)' = LastSlice(x) /\ Elapsed(x)'
<1> DEFINE s == cpuTimeSlices[p]
           t == cpuTimeSlices'[p]
<1>1. /\ clock \in Nat /\ cpuTimeSlices \in [Proc -> Seq(Nat)] /\ s \in Seq(Nat)
      /\ pArrivalTime \in [Proc -> Nat] /\ wait \in [Proc -> Int]
  BY DEF RInv, RecordType
<1>2. /\ cpuTimeSlices' = [cpuTimeSlices EXCEPT ![p] = Append(s, now)]
      /\ wait' = [wait EXCEPT ![p] = WaitAfter(p, now)]
  BY DEF CaptureTimeSlice
<1>3. t = Append(s, now)
  BY <1>1, <1>2
<1>4. /\ t \in Seq(Nat) /\ Len(s) \in Nat /\ Len(t) = Len(s) + 1 /\ t # <<>>
      /\ DOMAIN s = 1..Len(s) /\ DOMAIN t = 1..(Len(s) + 1)
      /\ \A i \in 1..Len(s) : t[i] = s[i] /\ s[i] \in Nat
      /\ t[Len(s) + 1] = now
  <2>1. /\ t \in Seq(Nat) /\ Len(s) \in Nat /\ Len(t) = Len(s) + 1
        /\ DOMAIN s = 1..Len(s) /\ \A i \in 1..Len(s) : s[i] \in Nat
    BY <1>1, <1>3
  <2>2. /\ \A i \in 1..Len(s) : t[i] = s[i]
        /\ t[Len(s) + 1] = now
    BY <1>1, <1>3
  <2>3. DOMAIN t = 1..(Len(s) + 1) /\ t # <<>>
    BY <2>1
  <2> QED
    BY <2>1, <2>2, <2>3
<1>5. Last(t) = now /\ LastSlice(p)' = now
  <2>1. Last(t) = now
    BY <1>4 DEF Last
  <2> QED
    BY <1>4, <2>1 DEF LastSlice
<1>6. \A x \in Proc \ {p} : /\ cpuTimeSlices'[x] = cpuTimeSlices[x] /\ wait'[x] = wait[x]
                             /\ LastSlice(x)' = LastSlice(x)
  BY <1>1, <1>2 DEF LastSlice
<1>7. wait'[p] = wait[p] + (now - LastSlice(p) - 1) /\ wait'[p] \in Int
  <2>1. LastSlice(p) \in Nat /\ LastSlice(p) <= clock /\ wait[p] \in Int
    BY <1>1, LastSliceRange
  <2>2. WaitAfter(p, now) = wait[p] + (now - LastSlice(p) - 1)
    BY <1>1, <2>1 DEF WaitAfter
  <2>3. wait'[p] = WaitAfter(p, now)
    BY <1>1, <1>2
  <2> QED
    BY <2>1, <2>2, <2>3
<1> HIDE DEF s, t
<1>8. RecordType'
  <2>1. cpuTimeSlices' \in [Proc -> Seq(Nat)]
    BY <1>1, <1>2, <1>3, <1>4
  <2>2. wait' \in [Proc -> Int]
    BY <1>1, <1>2, <1>7
  <2> QED
    BY <1>1, <2>1, <2>2 DEF RecordType
<1>9. \A x \in Proc : \A i \in DOMAIN cpuTimeSlices[x] :
        cpuTimeSlices[x][i] \in Nat /\ cpuTimeSlices[x][i] < now
  BY <1>1 DEF RInv, NoFuture
<1>10. NoFuture'
  <2> SUFFICES ASSUME NEW x \in Proc
               PROVE  /\ pArrivalTime'[x] <= clock'
                      /\ \A i \in DOMAIN cpuTimeSlices'[x] : cpuTimeSlices'[x][i] <= clock'
    BY DEF NoFuture
  <2>1. pArrivalTime[x] <= clock /\ pArrivalTime[x] \in Nat
    BY <1>1 DEF RInv, NoFuture
  <2>2. CASE x = p
    <3>1. \A i \in DOMAIN s : s[i] < now
      BY <1>9 DEF s
    <3>2. \A i \in DOMAIN t : t[i] <= now
      BY <1>4, <3>1
    <3> QED
      BY <1>1, <2>1, <2>2, <3>2 DEF t
  <2>3. CASE x # p
    <3>1. cpuTimeSlices'[x] = cpuTimeSlices[x]
      BY <1>6, <2>3
    <3>2. \A i \in DOMAIN cpuTimeSlices[x] : cpuTimeSlices[x][i] <= now
      BY <1>1, <1>9
    <3> QED
      BY <1>1, <2>1, <3>1, <3>2
  <2> QED
    BY <2>2, <2>3
<1>11. OneAtATime'
  <2> SUFFICES ASSUME NEW x \in Proc, NEW y \in Proc,
                      NEW i \in DOMAIN cpuTimeSlices'[x], NEW j \in DOMAIN cpuTimeSlices'[y],
                      cpuTimeSlices'[x][i] = cpuTimeSlices'[y][j]
               PROVE  x = y /\ i = j
    BY DEF OneAtATime
  <2>1. \A z \in Proc : \A k \in DOMAIN cpuTimeSlices'[z] :
          \/ z = p /\ k = Len(s) + 1
          \/ /\ k \in DOMAIN cpuTimeSlices[z] /\ cpuTimeSlices'[z][k] = cpuTimeSlices[z][k]
             /\ cpuTimeSlices'[z][k] < now
    <3> SUFFICES ASSUME NEW z \in Proc, NEW k \in DOMAIN cpuTimeSlices'[z]
                 PROVE  \/ z = p /\ k = Len(s) + 1
                        \/ /\ k \in DOMAIN cpuTimeSlices[z]
                           /\ cpuTimeSlices'[z][k] = cpuTimeSlices[z][k]
                           /\ cpuTimeSlices'[z][k] < now
      OBVIOUS
    <3>1. CASE z = p
      <4>1. \A m \in DOMAIN s : s[m] < now
        BY <1>9 DEF s
      <4>2. k = Len(s) + 1 \/ (k \in DOMAIN s /\ t[k] = s[k] /\ t[k] < now)
        BY <1>4, <3>1, <4>1 DEF t
      <4> QED
        BY <3>1, <4>2 DEF s, t
    <3>2. CASE z # p
      BY <1>6, <1>9, <3>2
    <3> QED
      BY <3>1, <3>2
  <2>2. cpuTimeSlices'[p][Len(s) + 1] = now
    BY <1>4 DEF t
  <2>3. CASE x = p /\ i = Len(s) + 1
    BY <1>1, <2>1, <2>2, <2>3
  <2>4. CASE y = p /\ j = Len(s) + 1
    BY <1>1, <2>1, <2>2, <2>4
  <2>5. CASE /\ i \in DOMAIN cpuTimeSlices[x] /\ cpuTimeSlices'[x][i] = cpuTimeSlices[x][i]
             /\ j \in DOMAIN cpuTimeSlices[y] /\ cpuTimeSlices'[y][j] = cpuTimeSlices[y][j]
    <3>1. cpuTimeSlices[x][i] = cpuTimeSlices[y][j]
      BY <2>5
    <3> QED
      BY <2>5, <3>1 DEF RInv, OneAtATime
  <2> QED
    BY <2>1, <2>3, <2>4, <2>5
<1>12. Elapsed(p)'
  <2>1. /\ wait[p] + Len(s) = LastSlice(p) - pArrivalTime[p]
        /\ LastSlice(p) \in Nat /\ wait[p] \in Int /\ pArrivalTime[p] \in Nat
    BY <1>1, LastSliceRange DEF RInv, Elapsed, s
  <2>2. wait'[p] + Len(t) = now - pArrivalTime[p]
    <3>1. Len(t) = Len(s) + 1 /\ Len(s) \in Nat
      BY <1>4
    <3>2. wait'[p] = wait[p] + (now - LastSlice(p) - 1)
      BY <1>7
    <3>3. PICK w, n, l, a : /\ w = wait[p] /\ n = Len(s) /\ l = LastSlice(p)
                            /\ a = pArrivalTime[p]
      OBVIOUS
    <3>4. (w + (now - l - 1)) + (n + 1) = now - a
      <4>1. w \in Int /\ n \in Nat /\ l \in Nat /\ a \in Nat /\ w + n = l - a
        BY <2>1, <3>1, <3>3
      <4> QED
        BY <4>1
    <3> QED
      BY <3>1, <3>2, <3>3, <3>4, Zenon
  <2> QED
    BY <1>5, <2>2 DEF Elapsed, t
<1>13. \A x \in Proc \ {p} : Elapsed(x)'
  BY <1>6 DEF RInv, Elapsed
<1> QED
  BY <1>4, <1>5, <1>6, <1>8, <1>10, <1>11, <1>12, <1>13 DEF t

----------------------------------------------------------------------------
(* What each step does to the records.                                     *)

\* No process is put into the state CREATED, or ends.
NoneEnds == \A p \in Proc : pState'[p] \in {CREATED, TERMINATED} => pState'[p] = pState[p]

\* A step without an instruction: only a process that was not created yet may be
\* given an arrival time, and that is the present.
LEMMA NoSlice ==
    ASSUME RInv, NoneEnds, phase # "badTable", phase' # "isr", pArrivalTime' \in [Proc -> Nat],
           \A p \in Proc : \/ pArrivalTime'[p] = pArrivalTime[p]
                           \/ pState[p] = CREATED /\ pArrivalTime'[p] = clock,
           UNCHANGED <<clock, cpuTimeSlices, wait, pTerminationTime, response, turnAround>>
    PROVE  RInv'
<1>1. RecordType'
  BY DEF RInv, RecordType
<1>2. NoFuture' /\ OneAtATime' /\ JustTrapped'
  <2>1. ASSUME NEW p \in Proc PROVE pArrivalTime'[p] <= clock
    <3>1. pArrivalTime[p] <= clock /\ clock \in Nat
      BY DEF RInv, RecordType, NoFuture
    <3> QED
      BY <3>1
  <2>2. OneAtATime'
    BY DEF RInv, OneAtATime
  <2> QED
    BY <2>1, <2>2 DEF RInv, NoFuture, JustTrapped
<1>3. Unstarted'
  BY DEF RInv, Unstarted, NoneEnds
<1>4. ASSUME NEW p \in Proc PROVE Elapsed(p)' /\ Ended(p)'
  <2>1. CASE pArrivalTime'[p] = pArrivalTime[p]
    <3>1. LastSlice(p)' = LastSlice(p)
      BY <2>1 DEF LastSlice
    <3>2. Elapsed(p)'
      BY <2>1, <3>1 DEF RInv, Elapsed
    <3>3. pState'[p] = TERMINATED => pState[p] = TERMINATED
      BY DEF NoneEnds
    <3> QED
      BY <2>1, <3>1, <3>2, <3>3 DEF RInv, Ended
  <2>2. CASE pState[p] = CREATED /\ pArrivalTime'[p] = clock
    <3>1. cpuTimeSlices'[p] = <<>> /\ wait'[p] = 0 /\ clock \in Nat
      BY <2>2 DEF RInv, RecordType, Unstarted
    <3>2. LastSlice(p)' = clock
      BY <2>2, <3>1 DEF LastSlice
    <3>3. Elapsed(p)'
      BY <2>2, <3>1, <3>2 DEF Elapsed
    <3>4. pState'[p] # TERMINATED
      BY <2>2 DEF NoneEnds, CREATED, TERMINATED
    <3> QED
      BY <3>3, <3>4 DEF Ended
  <2> QED
    BY <2>1, <2>2
<1> QED
  BY <1>1, <1>2, <1>3, <1>4 DEF RInv

LEMMA PcbStates == ASSUME IInv
    PROVE  pState \in [Proc -> {CREATED, NEWLY, READY, RUNNING, WAITING, TERMINATED}]
BY DEF IInv, TypeOK

\* Of the steps that leave the records alone, none ends a process.
LEMMA OtherStep == ASSUME IInv, RInv, AShellOther \/ AKernelOther PROVE RInv'
<1> USE PcbStates DEF CREATED, NEWLY, READY, RUNNING, WAITING, TERMINATED
<1>1. UNCHANGED <<clock, cpuTimeSlices, wait, pArrivalTime, pTerminationTime, response, turnAround>>
  BY DEF AShellOther, AKernelOther, recordVars, timeVars
<1>2. CASE SetScheduler \/ InitSemaphore \/ OpenSharedMemory \/ KeepRunning \/ NoPreemption \/ IsrPrint
  <2>1. UNCHANGED pState /\ phase # "badTable" /\ phase' # "isr"
    BY <1>2 DEF SetScheduler, InitSemaphore, LinkSemaphore, OpenSharedMemory, KeepRunning,
       AfterDispatch, NoPreemption, Fault, IsrPrint
  <2> QED
    BY <1>1, <2>1, NoSlice DEF NoneEnds, RInv, RecordType
<1>3. CASE AdmitNew \/ Dispatch
  <2>1. NoneEnds /\ phase # "badTable" /\ phase' # "isr"
    BY <1>3 DEF AdmitNew, Dispatch, AfterDispatch, NoneEnds
  <2> QED
    BY <1>1, <2>1, NoSlice DEF RInv, RecordType
<1>4. CASE PreemptRR \/ PreemptMLFQ
  <2>1. NoneEnds /\ phase # "badTable" /\ phase' # "isr"
    BY <1>4 DEF PreemptRR, PreemptMLFQ, SwitchContext, Fault, NoneEnds
  <2> QED
    BY <1>1, <2>1, NoSlice DEF RInv, RecordType
<1>5. CASE IsrSemaphoreAquire \/ IsrSemaphoreRelease \/ IsrSemaphoreWait \/ Resume
  <2>1. NoneEnds /\ phase # "badTable" /\ phase' # "isr"
    BY <1>5 DEF IsrSemaphoreAquire, IsrSemaphoreRelease, IsrSemaphoreWait, Resume, BlockOn, Wake,
       Requeue, NoneEnds
  <2> QED
    BY <1>1, <2>1, NoSlice DEF RInv, RecordType
<1> QED
  BY <1>2, <1>3, <1>4, <1>5 DEF AShellOther, AKernelOther

LEMMA LoopStep ==
    ASSUME IInv, RInv, AStartRun \/ ACallScheduler \/ AEndRun PROVE RInv'
<1>1. UNCHANGED <<clock, cpuTimeSlices, wait, pArrivalTime, pTerminationTime, response, turnAround>>
  BY DEF AStartRun, ACallScheduler, AEndRun, recordVars, timeVars
<1>2. UNCHANGED pState /\ phase # "badTable" /\ phase' # "isr"
  BY DEF AStartRun, ACallScheduler, AEndRun, StartRun, CallScheduler, EndRun
<1> QED
  BY <1>1, <1>2, NoSlice DEF NoneEnds, RInv, RecordType

\* The clock alone moves.
LEMMA IdleRecords == ASSUME IInv, RInv, AIdle PROVE RInv'
<1>1. /\ UNCHANGED <<cpuTimeSlices, wait, pArrivalTime, pTerminationTime, response, turnAround, pState>>
      /\ clock' = clock + 1 /\ phase = "execute" /\ phase' = "loop"
  BY DEF AIdle, Idle, timeVars
<1>2. RecordType' /\ Unstarted' /\ JustTrapped' /\ OneAtATime'
  BY <1>1 DEF RInv, RecordType, Unstarted, JustTrapped, OneAtATime
<1>3. NoFuture'
  <2> SUFFICES ASSUME NEW p \in Proc
               PROVE  /\ pArrivalTime[p] <= clock + 1
                      /\ \A i \in DOMAIN cpuTimeSlices[p] : cpuTimeSlices[p][i] <= clock + 1
    BY <1>1 DEF NoFuture
  <2>1. clock \in Nat /\ pArrivalTime[p] \in Nat /\ cpuTimeSlices[p] \in Seq(Nat)
    BY DEF RInv, RecordType
  <2>2. \A i \in DOMAIN cpuTimeSlices[p] : cpuTimeSlices[p][i] \in Nat
    BY <2>1
  <2> QED
    BY <2>1, <2>2 DEF RInv, NoFuture
<1>4. ASSUME NEW p \in Proc PROVE Elapsed(p)' /\ Ended(p)'
  BY <1>1 DEF RInv, Elapsed, Ended, LastSlice
<1> QED
  BY <1>2, <1>3, <1>4 DEF RInv

LEMMA CreateStep == ASSUME IInv, RInv, ALoadProgram \/ AArrive PROVE RInv'
<1>1. /\ UNCHANGED <<clock, cpuTimeSlices, wait, pTerminationTime, response, turnAround>>
      /\ pArrivalTime' = [p \in Proc |-> IF p \in Fresh THEN clock ELSE pArrivalTime[p]]
  BY DEF ALoadProgram, AArrive, CreatePcb
<1>2. phase # "badTable" /\ phase' # "isr"
  BY DEF ALoadProgram, AArrive, LoadProgram, Arrive
<1>3. NoneEnds
  BY PcbStates DEF ALoadProgram, AArrive, LoadProgram, Arrive, NewPcb, NoneEnds,
     CREATED, NEWLY, TERMINATED
<1>4. pArrivalTime' \in [Proc -> Nat]
  BY <1>1 DEF RInv, RecordType
<1>5. \A p \in Proc : \/ pArrivalTime'[p] = pArrivalTime[p]
                      \/ pState[p] = CREATED /\ pArrivalTime'[p] = clock
  BY <1>1 DEF Fresh
<1> QED
  BY <1>1, <1>2, <1>3, <1>4, <1>5, NoSlice

LEMMA ForkStep == ASSUME IInv, RInv, AIsrVFork PROVE RInv'
<1>1. /\ UNCHANGED <<clock, cpuTimeSlices, wait, pTerminationTime, response, turnAround>>
      /\ \E child \in Fresh : pArrivalTime' = [pArrivalTime EXCEPT ![child] = clock]
      /\ phase # "badTable" /\ phase' # "isr"
  BY DEF AIsrVFork, IsrVFork
<1>2. NoneEnds
  BY PcbStates DEF AIsrVFork, IsrVFork, NoneEnds, CREATED, READY, TERMINATED
<1>3. PICK child \in Fresh : pArrivalTime' = [pArrivalTime EXCEPT ![child] = clock]
  BY <1>1
<1>4. child \in Proc /\ pState[child] = CREATED
  BY DEF Fresh
<1>5. pArrivalTime' \in [Proc -> Nat]
  BY <1>3 DEF RInv, RecordType
<1>6. \A p \in Proc : \/ pArrivalTime'[p] = pArrivalTime[p]
                      \/ pState[p] = CREATED /\ pArrivalTime'[p] = clock
  BY <1>3, <1>4 DEF RInv, RecordType
<1> QED
  BY <1>1, <1>2, <1>5, <1>6, NoSlice

\* An instruction, or an interrupt, of the running process.
LEMMA ExecuteStep ==
    ASSUME IInv, SInv, RInv, AInstruction \/ \E code \in Swis : ATrap(code) PROVE RInv'
<1> USE PcbStates DEF CREATED, READY, RUNNING, WAITING, TERMINATED
<1>1. /\ phase = "execute" /\ pRunningPcb \in Proc /\ pRunningPcb' = pRunningPcb
      /\ phase' \in {"loop", "isr"} /\ clock' \in {clock + 1, clock + 2}
      /\ CaptureTimeSlice(pRunningPcb, clock')
      /\ UNCHANGED <<pArrivalTime, pTerminationTime, response, turnAround>>
      /\ \A x \in Proc : pState'[x] = pState[x] \/ (x = pRunningPcb /\ pState'[x] = WAITING)
  <2>1. pRunningPcb \in Proc \cup {NoProc}
    BY DEF IInv, TypeOK
  <2> QED
    BY <2>1 DEF AInstruction, Instruction, ATrap, Trap, Ticks
<1>2. PICK p \in Proc : p = pRunningPcb
  BY <1>1
<1>3. clock' \in Nat /\ clock' > clock
  BY <1>1 DEF RInv, RecordType
<1>4. PICK now \in Nat : now = clock'
  BY <1>3
<1>5. /\ RecordType' /\ NoFuture' /\ OneAtATime'
      /\ cpuTimeSlices'[p] # <<>> /\ LastSlice(p)' = now
      /\ Last(cpuTimeSlices'[p]) = now /\ Elapsed(p)'
      /\ \A x \in Proc \ {p} : /\ cpuTimeSlices'[x] = cpuTimeSlices[x] /\ wait'[x] = wait[x]
                                /\ LastSlice(x)' = LastSlice(x) /\ Elapsed(x)'
  <2>1. CaptureTimeSlice(p, now) /\ now > clock /\ clock' = now
    BY <1>1, <1>2, <1>3, <1>4
  <2> QED
    BY <1>1, <2>1, Captures DEF RInv, RecordType
<1>6. pState[p] \in {READY, RUNNING} /\ pState'[p] \notin {CREATED, TERMINATED}
  <2>1. p # NoProc
    BY ProcAssumption
  <2> QED
    BY <1>1, <1>2, <2>1 DEF SInv, RunningState
<1>7. Unstarted' /\ JustTrapped'
  BY <1>1, <1>2, <1>4, <1>5, <1>6 DEF RInv, Unstarted, JustTrapped
<1>8. ASSUME NEW x \in Proc PROVE Ended(x)'
  <2>1. CASE x = p
    BY <1>6, <2>1 DEF Ended
  <2>2. CASE x # p
    BY <1>1, <1>2, <1>5, <2>2 DEF RInv, Ended
  <2> QED
    BY <2>1, <2>2
<1> QED
  BY <1>5, <1>7, <1>8 DEF RInv

\* The last instruction: what ends is read off the slice just taken.
LEMMA HaltRecords == ASSUME IInv, SInv, RInv, AHalt PROVE RInv'
<1> USE PcbStates DEF CREATED, READY, RUNNING, WAITING, TERMINATED
<1>1. /\ phase = "execute" /\ pRunningPcb \in Proc
      /\ phase' \in {"loop", "badTable"} /\ clock' \in {clock + 1, clock + 2}
      /\ CaptureTimeSlice(pRunningPcb, clock') /\ UNCHANGED pArrivalTime
      /\ Finish(pRunningPcb, clock', cpuTimeSlices'[pRunningPcb])
      /\ pState' = [pState EXCEPT ![pRunningPcb] = TERMINATED]
  <2>1. pRunningPcb \in Proc \cup {NoProc}
    BY DEF IInv, TypeOK
  <2> QED
    BY <2>1 DEF AHalt, Halt, HaltTo, Ticks
<1>2. PICK p \in Proc : p = pRunningPcb
  BY <1>1
<1>3. clock' \in Nat /\ clock' > clock
  BY <1>1 DEF RInv, RecordType
<1>4. PICK now \in Nat : now = clock'
  BY <1>3
<1>5. /\ DOMAIN pTerminationTime' = Proc /\ DOMAIN response' = Proc /\ DOMAIN turnAround' = Proc
      /\ \A x \in Proc \ {p} : /\ pTerminationTime'[x] = pTerminationTime[x]
                                /\ response'[x] = response[x] /\ turnAround'[x] = turnAround[x]
      /\ phase' # "badTable" =>
           /\ pTerminationTime'[p] = now /\ turnAround'[p] = now - pArrivalTime[p]
           /\ response'[p] = cpuTimeSlices'[p][1] - pArrivalTime[p]
  BY <1>1, <1>2, <1>4 DEF Finish, RInv, RecordType
<1>6. /\ RecordType' /\ NoFuture' /\ OneAtATime'
      /\ cpuTimeSlices'[p] # <<>> /\ LastSlice(p)' = now
      /\ Last(cpuTimeSlices'[p]) = now /\ Elapsed(p)'
      /\ \A x \in Proc \ {p} : /\ cpuTimeSlices'[x] = cpuTimeSlices[x] /\ wait'[x] = wait[x]
                                /\ LastSlice(x)' = LastSlice(x) /\ Elapsed(x)'
  <2>1. CaptureTimeSlice(p, now) /\ now > clock /\ clock' = now
    BY <1>1, <1>2, <1>3, <1>4
  <2> QED
    BY <1>1, <1>5, <2>1, Captures
<1>7. Unstarted' /\ JustTrapped'
  BY <1>1, <1>2, <1>6 DEF RInv, Unstarted, JustTrapped
<1>8. ASSUME NEW x \in Proc PROVE Ended(x)'
  <2>1. CASE x = p
    BY <1>1, <1>5, <1>6, <2>1 DEF Ended, Elapsed
  <2>2. CASE x # p
    BY <1>1, <1>2, <1>5, <1>6, <2>2 DEF RInv, Ended
  <2> QED
    BY <2>1, <2>2
<1> QED
  BY <1>6, <1>7, <1>8 DEF RInv

\* isrHalt: the slice of the interrupt was the last one, and is the present.
LEMMA ReturnStep == ASSUME IInv, RInv, AIsrReturnSharedMemPtr PROVE RInv'
<1> USE PcbStates DEF CREATED, READY, RUNNING, WAITING, TERMINATED
<1>1. /\ phase = "isr" /\ phase' \in {"resume", "badTable"}
      /\ UNCHANGED <<clock, cpuTimeSlices, pArrivalTime, wait>>
      /\ pRunningPcb \in Proc /\ queue["waitingQueue"] = <<pRunningPcb>>
  BY DEF AIsrReturnSharedMemPtr, IsrReturnSharedMemPtr, ReturnTo, IInv, InterruptPlace
<1>2. CASE sharedMemory[pRunningPcb]
  <2>1. UNCHANGED <<pState, pTerminationTime, response, turnAround>> /\ phase' = "resume"
    BY <1>2 DEF AIsrReturnSharedMemPtr, IsrReturnSharedMemPtr, ReturnTo
  <2> QED
    BY <1>1, <2>1, NoSlice DEF NoneEnds, RInv, RecordType
<1>3. CASE ~sharedMemory[pRunningPcb]
  <2>1. PICK p \in Proc : p = pRunningPcb
    BY <1>1
  <2>2. /\ pState' = [pState EXCEPT ![p] = TERMINATED]
        /\ Finish(p, clock, cpuTimeSlices[p])
    BY <1>1, <1>3, <2>1 DEF AIsrReturnSharedMemPtr, IsrReturnSharedMemPtr, ReturnTo, HaltWaiting
  <2>3. /\ DOMAIN pTerminationTime' = Proc /\ DOMAIN response' = Proc /\ DOMAIN turnAround' = Proc
        /\ \A x \in Proc \ {p} : /\ pTerminationTime'[x] = pTerminationTime[x]
                                  /\ response'[x] = response[x] /\ turnAround'[x] = turnAround[x]
        /\ phase' # "badTable" =>
             /\ pTerminationTime'[p] = clock /\ turnAround'[p] = clock - pArrivalTime[p]
             /\ response'[p] = cpuTimeSlices[p][1] - pArrivalTime[p]
    BY <2>2 DEF Finish, RInv, RecordType
  <2>4. LastSlice(p) = clock
    BY <1>1, <2>1 DEF RInv, JustTrapped, LastSlice
  <2>5. \A x \in Proc : LastSlice(x)' = LastSlice(x)
    BY <1>1 DEF LastSlice
  <2>6. RecordType' /\ NoFuture' /\ OneAtATime' /\ JustTrapped'
    BY <1>1, <2>3 DEF RInv, RecordType, NoFuture, OneAtATime, JustTrapped
  <2>7. Unstarted'
    BY <1>1, <2>2 DEF RInv, Unstarted
  <2>8. ASSUME NEW x \in Proc PROVE Elapsed(x)' /\ Ended(x)'
    <3>1. Elapsed(x)'
      BY <1>1, <2>5 DEF RInv, Elapsed
    <3>2. CASE x = p
      <4>1. wait[p] + Len(cpuTimeSlices[p]) = clock - pArrivalTime[p]
        BY <2>4 DEF RInv, Elapsed
      <4>2. LastSlice(p)' = clock
        BY <2>4, <2>5
      <4>3. wait'[p] + Len(cpuTimeSlices'[p]) = clock - pArrivalTime[p]
        BY <1>1, <4>1
      <4>4. pArrivalTime'[p] = pArrivalTime[p] /\ cpuTimeSlices'[p] = cpuTimeSlices[p]
        BY <1>1
      <4> QED
        BY <2>3, <3>1, <3>2, <4>2, <4>3, <4>4 DEF Ended
    <3>3. CASE x # p
      <4>1. pState'[x] = pState[x] /\ Ended(x)
        BY <2>2, <3>3 DEF RInv
      <4> QED
        BY <1>1, <2>3, <2>5, <3>1, <3>3, <4>1 DEF Ended
    <3> QED
      BY <3>2, <3>3
  <2> QED
    BY <2>6, <2>7, <2>8 DEF RInv
<1> QED
  BY <1>2, <1>3

----------------------------------------------------------------------------
(* The arrivals of exec.                                                   *)

\* A step with the same clock and the same arrivals.
LEMMA KeepsArrivals ==
    ASSUME ArrivalInv, UNCHANGED <<clock, arrivals, argMap>>,
           \/ phase' \in Faults
           \/ phase = "shell" /\ phase' = "shell"
           \/ phase \in Within /\ phase' \in Within
           \/ phase \in Outside /\ phase' \in Outside
    PROVE  ArrivalInv'
<1>1. phase' \in Faults \/ (phase \notin Faults /\ Overdue' = Overdue)
  BY DEF Overdue, Within, Outside, Faults
<1>2. phase' = "shell" => phase = "shell"
  BY DEF Within, Outside, Faults
<1> QED
  BY <1>1, <1>2 DEF ArrivalInv

\* A step that takes time, from a call that nothing was due in.
LEMMA TakesTime ==
    ASSUME RInv, ArrivalInv, UNCHANGED <<arrivals, argMap>>, clock' \in {clock + 1, clock + 2},
           phase \in Within, phase' \in Outside \cup Faults
    PROVE  ArrivalInv'
<1>1. /\ clock \in Nat /\ arrivals \in Seq(Nat) /\ phase \notin Faults
      /\ Overdue = 1 /\ Overdue' = -1 /\ phase' # "shell"
  BY DEF RInv, RecordType, ArrivalInv, Overdue, Within, Outside, Faults
<1>2. \A i \in DOMAIN arrivals : arrivals[i] \in Nat /\ arrivals[i] >= clock + 1
  BY <1>1 DEF ArrivalInv
<1>3. \A i \in DOMAIN arrivals' : arrivals'[i] >= clock' + Overdue'
  BY <1>1, <1>2
<1> QED
  BY <1>1, <1>3 DEF ArrivalInv

LEMMA StartArrivals == ASSUME IInv, RInv, ArrivalInv, AStartRun PROVE ArrivalInv'
<1>1. PICK due \in [1..argMap' -> Times] :
        /\ \A i, j \in 1..argMap' : i <= j => due[i] <= due[j]
        /\ arrivals' = [i \in 1..argMap' |-> due[i] + clock]
  BY DEF AStartRun
<1>2. /\ argMap' \in Nat /\ clock' = clock /\ clock \in Nat /\ phase' = "loop"
      /\ \A i \in 1..argMap' : due[i] \in Nat
  <2>1. argMap' \in 0..MaxArrivals /\ clock' = clock /\ phase' = "loop"
    BY DEF AStartRun, StartRun
  <2>2. \A i \in 1..argMap' : due[i] \in Nat
    BY <1>1, TimesAssumption
  <2> QED
    BY <2>1, <2>2, ValuesAssumption DEF RInv, RecordType
<1>3. PICK n \in Nat : n = argMap'
  BY <1>2
<1>4. PICK a : a = [i \in 1..n |-> due[i] + clock]
  OBVIOUS
<1>5. a \in Seq(Nat) /\ Len(a) = n /\ DOMAIN a = 1..n /\ \A i \in 1..n : a[i] = due[i] + clock
  BY <1>2, <1>3, <1>4
<1>6. arrivals' = a
  BY <1>1, <1>3, <1>4
<1>7. Overdue' = -1
  BY <1>2 DEF Overdue, Within
<1>8. \A i, j \in 1..n : i <= j => a[i] <= a[j]
  BY <1>1, <1>2, <1>3, <1>5
<1>9. \A i \in 1..n : a[i] >= clock + -1
  BY <1>2, <1>3, <1>5
<1> QED
  BY <1>2, <1>3, <1>5, <1>6, <1>7, <1>8, <1>9 DEF ArrivalInv

LEMMA ArriveArrivals == ASSUME IInv, RInv, ArrivalInv, AArrive PROVE ArrivalInv'
<1>1. /\ phase = "loop" /\ phase' = "loop" /\ clock' = clock /\ argMap' = argMap - 1
      /\ arrivals # <<>> /\ arrivals' = Tail(arrivals) /\ Overdue = -1 /\ Overdue' = -1
  BY DEF AArrive, Arrive, Due, Overdue, Within
<1>2. /\ arrivals \in Seq(Nat) /\ Len(arrivals) = argMap
      /\ \A i, j \in DOMAIN arrivals : i <= j => arrivals[i] <= arrivals[j]
      /\ \A i \in DOMAIN arrivals : arrivals[i] >= clock + -1
  BY <1>1 DEF ArrivalInv, Faults
<1>3. PICK t : t = Tail(arrivals)
  OBVIOUS
<1>4. /\ t \in Seq(Nat) /\ Len(t) = Len(arrivals) - 1 /\ Len(arrivals) \in Nat
      /\ DOMAIN t = 1..(Len(arrivals) - 1) /\ DOMAIN arrivals = 1..Len(arrivals)
      /\ \A i \in DOMAIN t : t[i] = arrivals[i + 1]
  BY <1>1, <1>2, <1>3, EmptySeq
<1>5. \A i \in DOMAIN t : i + 1 \in DOMAIN arrivals
  BY <1>4
<1>6. \A i, j \in DOMAIN t : i <= j => t[i] <= t[j]
  BY <1>2, <1>4, <1>5
<1>7. \A i \in DOMAIN t : t[i] >= clock + -1
  BY <1>2, <1>4, <1>5
<1> QED
  BY <1>1, <1>2, <1>3, <1>4, <1>6, <1>7 DEF ArrivalInv

LEMMA CallArrivals == ASSUME IInv, RInv, ArrivalInv, ACallScheduler PROVE ArrivalInv'
<1>1. /\ phase = "loop" /\ phase' = "admit" /\ UNCHANGED <<clock, arrivals, argMap>>
      /\ ~Due /\ Overdue' = 1 /\ clock \in Nat
  BY DEF ACallScheduler, CallScheduler, Overdue, Within, recordVars, kernelVars, RInv, RecordType
<1>2. /\ arrivals \in Seq(Nat) /\ DOMAIN arrivals = 1..Len(arrivals)
      /\ \A i, j \in DOMAIN arrivals : i <= j => arrivals[i] <= arrivals[j]
      /\ \A i \in DOMAIN arrivals : arrivals[i] \in Nat
  BY DEF ArrivalInv
<1>3. ASSUME NEW i \in DOMAIN arrivals PROVE arrivals[i] >= clock + 1
  <2>1. arrivals # <<>> /\ 1 \in DOMAIN arrivals /\ 1 <= i
    BY <1>2
  <2>2. arrivals[1] > clock
    BY <1>1, <1>2, <2>1 DEF Due
  <2> QED
    BY <1>1, <1>2, <2>1, <2>2
<1> QED
  BY <1>1, <1>3 DEF ArrivalInv

----------------------------------------------------------------------------
(* The invariant.                                                          *)

\* Accounting adds records to the scheduler, and no step.
LEMMA StepImplemented == ASSUME [ANext]_aVars PROVE [Next]_vars
<1>1. CASE AShellStep
  BY <1>1 DEF AShellStep, ALoadProgram, AStartRun, AShellOther, Next, ShellStep
<1>2. CASE AKernelStep
  BY <1>2 DEF AKernelStep, AArrive, ACallScheduler, AEndRun, AIdle, AInstruction, AHalt, ATrap,
     AIsrVFork, AIsrReturnSharedMemPtr, AKernelOther, Next, KernelStep, SchedulerStep
<1>3. CASE AFaulted \/ UNCHANGED aVars
  BY <1>3 DEF AFaulted, aVars, Next
<1> QED
  BY <1>1, <1>2, <1>3 DEF ANext

LEMMA InitRecords == AInit => AInv
<1> SUFFICES ASSUME AInit PROVE AInv
  OBVIOUS
<1>1. IInv /\ SInv
  BY InitInv, InitPlaced DEF AInit
<1>2. /\ clock = 0 /\ arrivals = <<>> /\ argMap = 0 /\ phase = "shell"
      /\ pState = [p \in Proc |-> CREATED]
      /\ cpuTimeSlices = [p \in Proc |-> <<>>] /\ pArrivalTime = [p \in Proc |-> 0]
      /\ wait = [p \in Proc |-> 0] /\ pTerminationTime = [p \in Proc |-> 0]
      /\ response = [p \in Proc |-> 0] /\ turnAround = [p \in Proc |-> 0]
  BY DEF AInit, Init
<1>3. RecordType /\ NoFuture /\ Unstarted /\ JustTrapped /\ OneAtATime
  BY <1>2 DEF RecordType, NoFuture, Unstarted, JustTrapped, OneAtATime
<1>4. ASSUME NEW p \in Proc PROVE Elapsed(p) /\ Ended(p)
  <2>1. cpuTimeSlices[p] = <<>> /\ wait[p] = 0 /\ pArrivalTime[p] = 0 /\ pState[p] = CREATED
    BY <1>2
  <2>2. LastSlice(p) = 0 /\ Len(cpuTimeSlices[p]) = 0
    BY <2>1 DEF LastSlice
  <2>3. Elapsed(p)
    BY <2>1, <2>2 DEF Elapsed
  <2>4. Ended(p)
    BY <2>1 DEF Ended, CREATED, TERMINATED
  <2> QED
    BY <2>3, <2>4
<1>5. ArrivalInv
  BY <1>2 DEF ArrivalInv
<1> QED
  BY <1>1, <1>3, <1>4, <1>5 DEF AInv, RInv

LEMMA NextRecords == ASSUME IInv, SInv, RInv, [ANext]_aVars PROVE RInv'
<1>1. CASE AShellStep
  BY <1>1, CreateStep, LoopStep, OtherStep DEF AShellStep
<1>2. CASE AKernelStep
  BY <1>2, CreateStep, LoopStep, IdleRecords, ExecuteStep, HaltRecords, ForkStep, ReturnStep,
     OtherStep DEF AKernelStep
<1>3. CASE AFaulted \/ UNCHANGED aVars
  <2>1. /\ UNCHANGED <<clock, cpuTimeSlices, wait, pArrivalTime, pTerminationTime, response,
                       turnAround, pState, phase, pRunningPcb>>
    BY <1>3 DEF AFaulted, Faulted, aVars, vars, runVars, recordVars, timeVars
  <2> QED
    BY <2>1 DEF RInv, RecordType, NoFuture, Unstarted, JustTrapped, OneAtATime, Elapsed, Ended,
       LastSlice
<1> QED
  BY <1>1, <1>2, <1>3 DEF ANext

LEMMA NextArrivals == ASSUME IInv, RInv, ArrivalInv, [ANext]_aVars PROVE ArrivalInv'
<1> USE DEF recordVars, kernelVars, Within, Outside
<1>1. CASE ALoadProgram \/ AShellOther
  BY <1>1, KeepsArrivals DEF ALoadProgram, LoadProgram, AShellOther, SetScheduler, InitSemaphore,
     LinkSemaphore, OpenSharedMemory, Faults
<1>2. CASE AStartRun \/ AArrive \/ ACallScheduler
  BY <1>2, StartArrivals, ArriveArrivals, CallArrivals
<1>3. CASE AEndRun
  <2>1. /\ argMap = 0 /\ UNCHANGED <<arrivals, argMap>> /\ phase' = "shell"
        /\ arrivals \in Seq(Nat) /\ Len(arrivals) = argMap
    BY <1>3 DEF AEndRun, EndRun, ArrivalInv
  <2>2. DOMAIN arrivals = {}
    BY <2>1
  <2> QED
    BY <2>1, <2>2 DEF ArrivalInv
<1>4. CASE AIdle \/ AInstruction \/ AHalt \/ \E code \in Swis : ATrap(code)
  <2>1. /\ UNCHANGED <<arrivals, argMap>> /\ phase = "execute"
        /\ phase' \in {"loop", "isr", "badTable"}
    BY <1>4 DEF AIdle, Idle, AInstruction, Instruction, AHalt, Halt, HaltTo, ATrap, Trap
  <2>2. clock' \in {clock + 1, clock + 2}
    BY <1>4 DEF AIdle, AInstruction, AHalt, ATrap, Ticks
  <2> QED
    BY <2>1, <2>2, TakesTime DEF Faults
<1>5. CASE AIsrVFork \/ AIsrReturnSharedMemPtr
  BY <1>5, KeepsArrivals DEF AIsrVFork, IsrVFork, AIsrReturnSharedMemPtr, IsrReturnSharedMemPtr,
     ReturnTo, Faults
<1>6. CASE AKernelOther
  <2>1. UNCHANGED <<clock, arrivals>>
    BY <1>6 DEF AKernelOther
  <2>2. CASE AdmitNew \/ Dispatch \/ KeepRunning
    BY <2>1, <2>2, KeepsArrivals DEF AdmitNew, Dispatch, KeepRunning, AfterDispatch, Faults
  <2>3. CASE PreemptRR \/ PreemptMLFQ \/ NoPreemption
    BY <2>1, <2>3, KeepsArrivals DEF PreemptRR, PreemptMLFQ, NoPreemption, Fault, Faults
  <2>4. CASE IsrPrint \/ IsrSemaphoreAquire \/ IsrSemaphoreRelease \/ IsrSemaphoreWait \/ Resume
    BY <2>1, <2>4, KeepsArrivals DEF IsrPrint, IsrSemaphoreAquire, IsrSemaphoreRelease,
       IsrSemaphoreWait, Resume, Faults
  <2> QED
    BY <1>6, <2>2, <2>3, <2>4 DEF AKernelOther
<1>7. CASE AFaulted \/ UNCHANGED aVars
  BY <1>7 DEF AFaulted, Faulted, aVars, vars, ArrivalInv, Overdue
<1> QED
  BY <1>1, <1>2, <1>3, <1>4, <1>5, <1>6, <1>7 DEF ANext, AShellStep, AKernelStep

----------------------------------------------------------------------------
(* The theorems.                                                           *)

\* The inductive invariant, with those of SchedulerProofs.
THEOREM RecordInvariance == ASpec => []AInv
<1>1. AInv /\ [ANext]_aVars => AInv'
  BY StepImplemented, NextInv, NextPlaced, NextRecords, NextArrivals DEF AInv
<1> QED
  BY InitRecords, <1>1, PTL DEF ASpec

\* The scheduler with its clock, records and logs moves the processes as module
\* Lifecycle lets it, however programs of exec arrive and runs follow each other.
THEOREM AccountingImplemented == ASpec => ImplementsLifecycle
<1>1. AInit => IInv /\ Abstract!Init
  BY InitInv, InitImplemented DEF AInit
<1>2. IInv /\ [ANext]_aVars => IInv' /\ [Abstract!Next]_(Abstract!lifeVars)
  BY StepImplemented, NextInv, NextImplemented
<1> QED
  BY <1>1, <1>2, PTL DEF ASpec, ImplementsLifecycle, Abstract!Spec

\* Two instructions never share a time slice, whichever processes execute them.
THEOREM OneAtATimeHolds == ASpec => []OneAtATime
<1>1. AInv => OneAtATime
  BY DEF AInv, RInv
<1> QED
  BY <1>1, RecordInvariance, PTL

\* Waiting, response and turnaround of every process agree with its slices.
THEOREM TimesAddUpHolds == ASpec => []TimesAddUp
<1>1. AInv => TimesAddUp
  BY DEF AInv, RInv, Elapsed, Ended, TimesAddUp
<1> QED
  BY <1>1, RecordInvariance, PTL

LEMMA TailDiffers ==
    ASSUME NEW S, NEW s \in Seq(S), s # <<>>
    PROVE  1 \in DOMAIN s /\ Head(s) = s[1] /\ s[1] \in S /\ Tail(s) # s
<1>1. PICK n \in Nat \ {0} : n = Len(s)
  BY EmptySeq
<1>2. 1 \in DOMAIN s /\ Head(s) = s[1] /\ s[1] \in S
  BY <1>1
<1>3. Len(Tail(s)) = n - 1
  BY <1>1
<1>4. n - 1 # n
  OBVIOUS
<1> QED
  BY <1>1, <1>2, <1>3, <1>4, Zenon

\* A program of exec is taken at its time, or one tick after it.
THEOREM ArrivalsOnTimeHolds == ASpec => ArrivalsOnTime
<1>1. AInv /\ [ANext]_aVars =>
        [arrivals # <<>> /\ arrivals' = Tail(arrivals) => clock - Head(arrivals) \in {0, 1}]_aVars
  <2> SUFFICES ASSUME AInv, ANext, arrivals # <<>>, arrivals' = Tail(arrivals)
               PROVE  clock - Head(arrivals) \in {0, 1}
    OBVIOUS
  <2>1. /\ arrivals \in Seq(Nat) /\ clock \in Nat /\ 1 \in DOMAIN arrivals
        /\ Head(arrivals) = arrivals[1] /\ arrivals[1] \in Nat
        /\ arrivals' # arrivals
    <3>1. arrivals \in Seq(Nat) /\ clock \in Nat
      BY DEF AInv, RInv, RecordType, ArrivalInv
    <3> QED
      BY <3>1, TailDiffers
  <2>2. CASE AArrive
    <3>1. phase = "loop" /\ Head(arrivals) <= clock
      BY <2>2 DEF AArrive, Arrive, Due
    <3>2. arrivals[1] >= clock + -1
      BY <2>1, <3>1 DEF AInv, ArrivalInv, Overdue, Within, Faults
    <3> QED
      BY <2>1, <3>1, <3>2
  <2>3. CASE AStartRun
    <3>1. arrivals = <<>>
      BY <2>1, <2>3 DEF AStartRun, StartRun, AInv, ArrivalInv
    <3> QED
      BY <3>1
  <2>4. CASE ~AArrive /\ ~AStartRun
    <3>1. arrivals' = arrivals
      BY <2>4 DEF ANext, AShellStep, AKernelStep, AFaulted, ALoadProgram, AShellOther,
         ACallScheduler, AEndRun, AIdle, AInstruction, AHalt, ATrap, AIsrVFork,
         AIsrReturnSharedMemPtr, AKernelOther, recordVars
    <3> QED
      BY <2>1, <3>1
  <2> QED
    BY <2>2, <2>3, <2>4
<1> QED
  BY <1>1, RecordInvariance, PTL DEF ASpec, ArrivalsOnTime

----------------------------------------------------------------------------
(* The logs of successive runs.                                            *)

\* What has been logged ended before the arrival of every process there is, unless
\* that is blocked for ever.
Cleared ==
    \A p \in logged, x \in Proc :
        pState[x] = CREATED \/ x \in logged \/ Stranded(x) \/ LastSlice(p) <= pArrivalTime[x]

LogInv ==
    /\ cpuLogs \in Seq(SUBSET Proc)
    /\ \A k \in DOMAIN cpuLogs : cpuLogs[k] \subseteq logged
    /\ Cleared /\ LogsInOrder

LInv == DInv /\ SInv /\ RInv /\ LogInv

\* Only a load, an arrival and a fork create a process.
LEMMA NotBorn ==
    ASSUME IInv, [ANext]_aVars, ~ALoadProgram, ~AArrive, ~AIsrVFork,
           NEW x \in Proc, pState[x] = CREATED
    PROVE  pState'[x] = CREATED
<1> USE PcbStates
<1>1. ~InQueue(queue, x) /\ x # pRunningPcb
  BY DEF IInv, FreshUnplaced
<1>2. ASSUME NEW p \in Proc, NEW b, Places(p, b), p # x PROVE pState'[x] = CREATED
  BY <1>2 DEF Places
<1>3. CASE AShellOther \/ AStartRun \/ ACallScheduler \/ AEndRun \/ AIdle \/ AInstruction
           \/ AFaulted \/ UNCHANGED aVars \/ KeepRunning \/ NoPreemption \/ IsrPrint
  BY <1>3 DEF AShellOther, SetScheduler, InitSemaphore, LinkSemaphore, OpenSharedMemory,
     AStartRun, StartRun, ACallScheduler, CallScheduler, AEndRun, EndRun, AIdle, Idle,
     AInstruction, Instruction, AFaulted, Faulted, aVars, vars, KeepRunning, AfterDispatch,
     NoPreemption, Fault, IsrPrint
<1>4. CASE AHalt \/ \E code \in Swis : ATrap(code)
  BY <1>1, <1>4 DEF AHalt, Halt, HaltTo, ATrap, Trap
<1>5. CASE AIsrReturnSharedMemPtr \/ IsrSemaphoreAquire \/ IsrSemaphoreWait
  BY <1>1, <1>5 DEF AIsrReturnSharedMemPtr, IsrReturnSharedMemPtr, ReturnTo, HaltWaiting,
     IsrSemaphoreAquire, IsrSemaphoreWait, BlockOn, IInv, InterruptPlace
<1>6. CASE AdmitNew
  <2>1. PICK h \in Proc, b \in ReadyIds : Places(h, b) /\ In(queue, h, "newQueue")
    BY <1>6, PlacesAdmitted
  <2> QED
    BY <1>1, <1>2, <2>1, QueueNames DEF InQueue
<1>7. CASE Dispatch
  <2>1. PICK n \in Proc : Takes(n)
    BY <1>7, TakesDispatched
  <2>2. n # x
    BY <1>1, <2>1, QueueNames DEF Takes, InQueue
  <2> QED
    BY <2>1, <2>2 DEF Takes
<1>8. CASE PreemptRR \/ PreemptMLFQ
  <2>1. PICK n \in Proc : Switches(pRunningPcb, n)
    BY <1>8, PreemptSwitches
  <2>2. n # x
    BY <1>1, <2>1, QueueNames DEF Switches, InQueue
  <2> QED
    BY <1>1, <2>1, <2>2 DEF Switches
<1>9. CASE IsrSemaphoreRelease
  <2>1. pRunningPcb \in Proc /\ logged' = logged
    BY <1>9, InIsr DEF IsrSemaphoreRelease
  <2>2. CASE UNCHANGED pState
    BY <2>2
  <2>3. CASE semId[pRunningPcb] # NoSem /\ queue[semId[pRunningPcb]] # <<>>
    <3>1. PICK s : s = semId[pRunningPcb]
      OBVIOUS
    <3>2. s \in Sem /\ Wake(s) /\ queue[s] # <<>>
      BY <1>9, <2>1, <2>3, <3>1, RunningSem DEF IsrSemaphoreRelease
    <3>3. PICK b \in ReadyIds : Places(Head(queue[s]), b)
      BY <2>1, <3>2, PlacesWoken
    <3>4. In(queue, Head(queue[s]), s)
      BY <2>1, <3>2, PlacesWoken
    <3>5. Head(queue[s]) # x
      BY <1>1, <3>2, <3>4, QueueNames DEF InQueue
    <3> QED
      BY <1>2, <3>3, <3>5 DEF Places
  <2> QED
    BY <1>9, <2>2, <2>3 DEF IsrSemaphoreRelease, Wake
<1>10. CASE Resume
  <2>1. UNCHANGED pState \/ \E b \in ReadyIds : Places(pRunningPcb, b)
    BY <1>10, ResumePlaces
  <2> QED
    BY <1>1, <1>2, <2>1 DEF Places
<1> QED
  BY <1>3, <1>4, <1>5, <1>6, <1>7, <1>8, <1>9, <1>10
  DEF ANext, AShellStep, AKernelStep, AKernelOther

\* An arrival time is given once, when the process is created.
LEMMA ArrivesNow ==
    ASSUME IInv, RInv, [ANext]_aVars, NEW x \in Proc, pState'[x] # CREATED
    PROVE  pArrivalTime'[x] = IF pState[x] = CREATED THEN clock ELSE pArrivalTime[x]
<1>1. pArrivalTime \in [Proc -> Nat]
  BY DEF RInv, RecordType
<1>2. CASE ALoadProgram \/ AArrive
  BY <1>2 DEF ALoadProgram, AArrive, CreatePcb, Fresh
<1>3. CASE AIsrVFork
  <2>1. PICK c \in Proc, b \in ReadyIds : Places(c, b) /\ pState[c] = CREATED
    BY <1>3, PlacesFork DEF AIsrVFork
  <2>2. PICK child \in Fresh : pArrivalTime' = [pArrivalTime EXCEPT ![child] = clock]
    BY <1>3 DEF AIsrVFork
  <2>3. pState \in [Proc -> {CREATED, NEWLY, READY, RUNNING, WAITING, TERMINATED}]
    BY PcbStates
  <2>4. child = c /\ (pState[x] = CREATED => x = c)
    BY <2>1, <2>2, <2>3 DEF Places, Fresh
  <2> QED
    BY <1>1, <2>1, <2>2, <2>4
<1>4. CASE ~ALoadProgram /\ ~AArrive /\ ~AIsrVFork
  <2>1. pState[x] # CREATED
    BY <1>4, NotBorn
  <2>2. pArrivalTime' = pArrivalTime
    BY <1>4 DEF ANext, AShellStep, AKernelStep, AFaulted, AShellOther, AStartRun, ACallScheduler,
       AEndRun, AIdle, AInstruction, AHalt, ATrap, AIsrReturnSharedMemPtr, AKernelOther, aVars,
       recordVars, timeVars
  <2> QED
    BY <2>1, <2>2
<1> QED
  BY <1>2, <1>3, <1>4

\* Nobody but the running process takes a slice.
LEMMA SliceKept ==
    ASSUME RInv, [ANext]_aVars, NEW p \in Proc, p # pRunningPcb
    PROVE  cpuTimeSlices'[p] = cpuTimeSlices[p]
<1>1. cpuTimeSlices \in [Proc -> Seq(Nat)]
  BY DEF RInv, RecordType
<1>2. CASE AInstruction \/ AHalt \/ \E code \in Swis : ATrap(code)
  BY <1>1, <1>2 DEF AInstruction, AHalt, ATrap, CaptureTimeSlice
<1>3. CASE ~(AInstruction \/ AHalt \/ \E code \in Swis : ATrap(code))
  BY <1>3 DEF ANext, AShellStep, AKernelStep, AFaulted, ALoadProgram, AArrive, CreatePcb,
     AShellOther, AStartRun, ACallScheduler, AEndRun, AIdle, AIsrVFork, AIsrReturnSharedMemPtr,
     AKernelOther, aVars, recordVars, timeVars
<1> QED
  BY <1>2, <1>3

\* The last slice of a logged process stays.
LEMMA LoggedKept ==
    ASSUME IInv, RInv, [ANext]_aVars, NEW p \in logged
    PROVE  p \in Proc /\ p \in logged' /\ LastSlice(p)' = LastSlice(p)
<1>1. p \in Proc /\ p # pRunningPcb /\ pState[p] # CREATED
  BY DEF IInv, TypeOK, Exclusive, FreshUnplaced
<1>2. [Next]_vars
  BY StepImplemented
<1>3. pState'[p] # CREATED /\ p \in logged'
  <2>1. {} \in SUBSET Sem /\ Closed({}) /\ ~In(queue, p, "terminatedQueue")
    BY <1>1, SemAssumption, QueueNames DEF Closed, IInv, Exclusive, InQueue
  <2>2. pState'[p] # CREATED
    BY <1>1, <1>2, <2>1, Moves
  <2>3. logged \subseteq logged'
    BY <1>2 DEF Next, ShellStep, KernelStep, SchedulerStep, vars, EndRun, SetScheduler,
       InitSemaphore, LinkSemaphore, OpenSharedMemory, StartRun, LoadProgram, Arrive,
       CallScheduler, AdmitNew, Dispatch, KeepRunning, PreemptRR, PreemptMLFQ, NoPreemption,
       Fault, Idle, Instruction, Trap, Halt, HaltTo, IsrPrint, IsrVFork, IsrReturnSharedMemPtr,
       ReturnTo, IsrSemaphoreAquire, IsrSemaphoreRelease, IsrSemaphoreWait, Resume, Faulted
  <2> QED
    BY <2>2, <2>3
<1>4. pArrivalTime'[p] = pArrivalTime[p]
  BY <1>1, <1>3, ArrivesNow
<1>5. cpuTimeSlices'[p] = cpuTimeSlices[p]
  BY <1>1, SliceKept
<1> QED
  BY <1>1, <1>3, <1>4, <1>5 DEF LastSlice

LEMMA ClearedStep ==
    ASSUME LInv, [ANext]_aVars, ~AEndRun PROVE Cleared'
<1>1. IInv /\ [Next]_vars
  BY StepImplemented DEF LInv, DInv
<1>2. logged' = logged
  BY DEF ANext, AShellStep, ALoadProgram, AStartRun, AShellOther, AKernelStep, AArrive,
     ACallScheduler, AIdle, AInstruction, AHalt, ATrap, AIsrVFork, AIsrReturnSharedMemPtr,
     AKernelOther, AFaulted, aVars, vars, SetScheduler, InitSemaphore, LinkSemaphore,
     OpenSharedMemory, StartRun, LoadProgram, Arrive, CallScheduler, AdmitNew, Dispatch,
     KeepRunning, PreemptRR, PreemptMLFQ, NoPreemption, Fault, Idle, Instruction, Trap, Halt,
     HaltTo, IsrPrint, IsrVFork, IsrReturnSharedMemPtr, ReturnTo, IsrSemaphoreAquire,
     IsrSemaphoreRelease, IsrSemaphoreWait, Resume, Faulted
<1> SUFFICES ASSUME NEW p \in logged, NEW x \in Proc, pState'[x] # CREATED, x \notin logged
             PROVE  Stranded(x)' \/ LastSlice(p)' <= pArrivalTime'[x]
  BY <1>2 DEF Cleared
<1>3. p \in Proc /\ LastSlice(p)' = LastSlice(p)
  BY <1>1, LoggedKept DEF LInv
<1>4. CASE pState[x] = CREATED
  BY <1>1, <1>3, <1>4, ArrivesNow, LastSliceRange DEF LInv
<1>5. CASE pState[x] # CREATED
  <2>1. Stranded(x) \/ LastSlice(p) <= pArrivalTime[x]
    BY <1>5 DEF LInv, LogInv, Cleared
  <2> QED
    BY <1>1, <1>3, <1>5, <2>1, ArrivesNow, StrandedStays DEF LInv
<1> QED
  BY <1>4, <1>5

\* PromptStranded, of the state after a step.
LEMMA NextPrompt ==
    ASSUME NEW x \in Proc
    PROVE  (DInv /\ phase = "shell" /\ Blocked(x) => Stranded(x))'
<1>1. DInv /\ phase = "shell" /\ Blocked(x) => Stranded(x)
  BY PromptStranded
<1> QED
  BY <1>1, PTL

\* At the end of a run whatever is not logged is blocked for ever.
LEMMA ClearedEnd == ASSUME LInv, AEndRun, [ANext]_aVars PROVE Cleared'
<1>1. EndRun /\ phase' = "shell" /\ queue' = [queue EXCEPT !["terminatedQueue"] = <<>>] /\ IInv
  BY DEF AEndRun, EndRun, LInv, DInv
<1>2. DInv'
  BY StepDInv, StepImplemented DEF LInv
<1>3. queue["newQueue"] = <<>>
  BY <1>1 DEF EndRun, AllQueuesEmpty
<1>4. queue'["newQueue"] = <<>> /\ queue'["terminatedQueue"] = <<>>
  BY <1>1, <1>3, QueuesFromInv, QueueNames DEF Queues
<1> SUFFICES ASSUME NEW x \in Proc, pState'[x] # CREATED, x \notin logged' PROVE Stranded(x)'
  BY DEF Cleared
<1>5. ~In(queue', x, "newQueue") /\ ~In(queue', x, "terminatedQueue")
  BY <1>4 DEF In
<1>6. Blocked(x)'
  BY <1>1, <1>2, <1>5 DEF DInv, AtPrompt, Over
<1> QED
  BY <1>1, <1>2, <1>6, NextPrompt

\* The log of a run lists what ended in it, and nothing an earlier log lists.
LEMMA NewLog ==
    ASSUME LInv, AEndRun, [ANext]_aVars, queue["terminatedQueue"] # <<>>
    PROVE  LET new == ToSet(queue["terminatedQueue"]) IN
             /\ new \subseteq Proc /\ new \subseteq logged'
             /\ \A p \in logged, x \in new : p # x /\ LastSlice(p) <= pArrivalTime[x]
<1>1. IInv /\ EndRun /\ phase = "loop"
  BY DEF AEndRun, EndRun, LInv, DInv
<1>2. queue["terminatedQueue"] \in Seq(Proc)
  BY <1>1, QueuesFromInv, QueueNames DEF Queues
<1>3. \A x : x \in ToSet(queue["terminatedQueue"]) <=> In(queue, x, "terminatedQueue")
  BY DEF ToSet, In
<1>4. ASSUME NEW x \in ToSet(queue["terminatedQueue"]) PROVE x \in Proc /\ x \in logged'
  BY <1>1, <1>2 DEF ToSet, EndRun
<1>5. ASSUME NEW p \in logged, NEW x \in ToSet(queue["terminatedQueue"])
      PROVE  p # x /\ LastSlice(p) <= pArrivalTime[x]
  <2>1. x \in Proc /\ In(queue, x, "terminatedQueue")
    BY <1>3, <1>4
  <2>2. InQueue(queue, x) /\ x \notin logged /\ pState[x] # CREATED
    BY <1>1, <2>1, QueueNames DEF IInv, Exclusive, FreshUnplaced, InQueue
  <2>3. ~Blocked(x)
    BY <1>1, <2>1, QueuesFromInv, InUnique, QueueNames DEF Blocked
  <2>4. ~Stranded(x)
    BY <2>1, <2>3, StrandedBlocked
  <2> QED
    BY <2>1, <2>2, <2>4 DEF LInv, LogInv, Cleared
<1> QED
  BY <1>4, <1>5

LEMMA LogStep == ASSUME LInv, [ANext]_aVars PROVE LogInv'
<1>1. IInv /\ [Next]_vars /\ RInv
  BY StepImplemented DEF LInv, DInv
<1>2. Cleared'
  BY ClearedStep, ClearedEnd
<1>3. \A p \in logged : p \in Proc /\ p \in logged' /\ LastSlice(p)' = LastSlice(p)
  BY <1>1, LoggedKept
<1>4. \A p \in logged : pArrivalTime'[p] = pArrivalTime[p]
  <2> SUFFICES ASSUME NEW p \in logged PROVE pArrivalTime'[p] = pArrivalTime[p]
    OBVIOUS
  <2>1. p \in Proc /\ p \in logged' /\ pState[p] # CREATED /\ IInv'
    BY <1>1, <1>3, NextInv DEF IInv, FreshUnplaced
  <2>2. pState'[p] # CREATED
    BY <2>1 DEF IInv, FreshUnplaced
  <2> QED
    BY <1>1, <2>1, <2>2, ArrivesNow
<1>5. /\ cpuLogs \in Seq(SUBSET Proc)
      /\ \A k \in DOMAIN cpuLogs : cpuLogs[k] \subseteq logged
      /\ \A i, j \in DOMAIN cpuLogs : i < j =>
           \A p \in cpuLogs[i], q \in cpuLogs[j] : p # q /\ LastSlice(p) <= pArrivalTime[q]
  BY DEF LInv, LogInv, LogsInOrder
<1>6. \A i, j \in DOMAIN cpuLogs : i < j =>
        \A p \in cpuLogs[i], q \in cpuLogs[j] : p # q /\ LastSlice(p)' <= pArrivalTime'[q]
  BY <1>3, <1>4, <1>5
<1>7. CASE cpuLogs' = cpuLogs
  <2>1. LogsInOrder'
    BY <1>6, <1>7 DEF LogsInOrder
  <2> QED
    BY <1>2, <1>3, <1>5, <1>7, <2>1 DEF LogInv
<1>8. CASE cpuLogs' # cpuLogs
  <2>1. AEndRun /\ queue["terminatedQueue"] # <<>>
    BY <1>8 DEF ANext, AShellStep, ALoadProgram, AStartRun, AShellOther, AKernelStep, AArrive,
       ACallScheduler, AEndRun, AIdle, AInstruction, AHalt, ATrap, AIsrVFork,
       AIsrReturnSharedMemPtr, AKernelOther, AFaulted, aVars, recordVars
  <2>2. PICK new : new = ToSet(queue["terminatedQueue"])
    OBVIOUS
  <2>3. /\ new \in SUBSET Proc /\ new \subseteq logged'
        /\ \A p \in logged, x \in new : p # x /\ LastSlice(p) <= pArrivalTime[x]
    BY <2>1, <2>2, NewLog
  <2>4. cpuLogs' = Append(cpuLogs, new) /\ UNCHANGED <<cpuTimeSlices, pArrivalTime>>
    BY <2>1, <2>2 DEF AEndRun, timeVars
  <2>5. PICK n \in Nat : n = Len(cpuLogs)
    BY <1>5
  <2>6. /\ cpuLogs' \in Seq(SUBSET Proc) /\ DOMAIN cpuLogs' = 1..(n + 1)
        /\ DOMAIN cpuLogs = 1..n /\ cpuLogs'[n + 1] = new
        /\ \A k \in 1..n : cpuLogs'[k] = cpuLogs[k]
    BY <1>5, <2>3, <2>4, <2>5
  <2>7. \A k \in DOMAIN cpuLogs' : cpuLogs'[k] \subseteq logged'
    BY <1>3, <1>5, <2>3, <2>6
  <2>8. \A p \in logged, x \in new : p # x /\ LastSlice(p)' <= pArrivalTime'[x]
    BY <1>3, <2>3, <2>4
  <2>9. ASSUME NEW i \in 1..(n + 1), NEW j \in 1..(n + 1), i < j,
               NEW p \in cpuLogs'[i], NEW q \in cpuLogs'[j]
        PROVE  p # q /\ LastSlice(p)' <= pArrivalTime'[q]
    <3>1. i \in 1..n /\ p \in cpuLogs[i] /\ p \in logged
      BY <1>5, <2>6, <2>9
    <3>2. CASE j \in 1..n
      BY <1>6, <2>6, <2>9, <3>1, <3>2
    <3>3. CASE j = n + 1
      BY <2>6, <2>8, <3>1, <3>3
    <3> QED
      BY <3>2, <3>3
  <2>10. LogsInOrder'
    BY <2>6, <2>9 DEF LogsInOrder
  <2> QED
    BY <1>2, <2>6, <2>7, <2>10 DEF LogInv
<1> QED
  BY <1>7, <1>8

LEMMA InitLogs == ASSUME AInit PROVE LInv
<1>1. DInv /\ SInv /\ RInv
  BY InitDInv, InitRecords DEF AInit, AInv
<1>2. cpuLogs = <<>> /\ logged = {}
  BY DEF AInit, Init
<1>3. LogInv
  BY <1>2 DEF LogInv, Cleared, LogsInOrder
<1> QED
  BY <1>1, <1>3 DEF LInv

LEMMA NextLogs == ASSUME LInv, [ANext]_aVars PROVE LInv'
BY StepImplemented, StepDInv, NextPlaced, NextRecords, LogStep DEF LInv, DInv

LEMMA LogInvariance == ASpec => []LInv
BY InitLogs, NextLogs, PTL DEF ASpec

\* A log covers its own run: its processes arrived after everything an earlier log
\* lists had ended.  What is blocked when a run ends would break this, if a later
\* run could wake it.
THEOREM LogsInOrderHolds == ASpec => []LogsInOrder
<1>1. LInv => LogsInOrder
  BY DEF LInv, LogInv
<1> QED
  BY <1>1, LogInvariance, PTL

----------------------------------------------------------------------------
(* The order in which processes are first served.                          *)

\* A process that has not executed an instruction yet.
Unserved(x) == pState[x] # CREATED /\ cpuTimeSlices[x] = <<>>

\* Where the dispatcher meets x before y.
Precedes(s, x, y) == \E i, j \in DOMAIN s : i < j /\ s[i] = x /\ s[j] = y
QueuedAhead(q, x, y) ==
    \/ In(q, x, "readyQueue0") /\ In(q, y, "newQueue")
    \/ Precedes(q["readyQueue0"], x, y) \/ Precedes(q["newQueue"], x, y)
Ahead(q, run, x, y) == x = run \/ QueuedAhead(q, x, y)

\* PCBs are created in the order of their numbers.
Numbered == \A p, q \in Proc : p < q /\ pState[q] # CREATED => pState[p] # CREATED

\* What was not served is new, on the highest level or about to be served, and in
\* the order of creation; newQueue is empty while a process is chosen and runs.
Unreached ==
    \A x \in Proc : Unserved(x) =>
        \/ In(queue, x, "newQueue") \/ In(queue, x, "readyQueue0")
        \/ x = pRunningPcb /\ phase \in {"preempt", "execute"} \cup Faults
Line == \A x, y \in Proc : Unserved(x) /\ Unserved(y) /\ x < y => Ahead(queue, pRunningPcb, x, y)
NewEmpty == phase \notin {"shell", "loop", "admit"} \cup Faults => queue["newQueue"] = <<>>

\* A process starts with a full quantum, so that none is preempted before it is served.
ClockZero ==
    /\ pRunningPcb = NoProc \/ schedulerAlgo = "FCFS" => quantumClock = 0
    /\ phase = "preempt" /\ pRunningPcb # NoProc /\ Unserved(pRunningPcb) => quantumClock = 0

FInv == Numbered /\ Unreached /\ Line /\ NewEmpty /\ ClockZero /\ FirstServedInOrder
OInv == DInv /\ SInv /\ RInv /\ FInv

\* Sequences that lose their head or grow at the end keep their order.
LEMMA PrecedesTail ==
    ASSUME NEW s \in Seq(Proc), s # <<>>, NEW x, NEW y, Precedes(s, x, y), x # Head(s)
    PROVE  Precedes(Tail(s), x, y)
<1>1. PICK i, j \in DOMAIN s : i < j /\ s[i] = x /\ s[j] = y
  BY DEF Precedes
<1>2. /\ DOMAIN s = 1..Len(s) /\ Len(s) \in Nat /\ Head(s) = s[1]
      /\ DOMAIN Tail(s) = 1..(Len(s) - 1) /\ \A k \in 1..(Len(s) - 1) : Tail(s)[k] = s[k + 1]
  BY EmptySeq
<1>3. i - 1 \in 1..(Len(s) - 1) /\ j - 1 \in 1..(Len(s) - 1)
  BY <1>1, <1>2
<1>4. Tail(s)[i - 1] = x /\ Tail(s)[j - 1] = y /\ i - 1 < j - 1
  BY <1>1, <1>2, <1>3
<1> QED
  BY <1>2, <1>3, <1>4 DEF Precedes

LEMMA PrecedesAppend ==
    ASSUME NEW s \in Seq(Proc), NEW e \in Proc, NEW x, NEW y
    PROVE  /\ Precedes(s, x, y) => Precedes(Append(s, e), x, y)
           /\ (\E i \in DOMAIN s : s[i] = x) => Precedes(Append(s, e), x, e)
<1> DEFINE t == Append(s, e)
<1>1. /\ DOMAIN s = 1..Len(s) /\ Len(s) \in Nat /\ DOMAIN t = 1..(Len(s) + 1)
      /\ \A k \in 1..Len(s) : t[k] = s[k]
      /\ t[Len(s) + 1] = e
  OBVIOUS
<1> HIDE DEF t
<1>2. ASSUME Precedes(s, x, y) PROVE Precedes(t, x, y)
  BY <1>1, <1>2 DEF Precedes
<1>3. ASSUME NEW i \in DOMAIN s, s[i] = x PROVE Precedes(t, x, e)
  <2>1. i \in DOMAIN t /\ Len(s) + 1 \in DOMAIN t /\ i < Len(s) + 1 /\ t[i] = x
    BY <1>1, <1>3
  <2> QED
    BY <1>1, <2>1 DEF Precedes
<1> QED
  BY <1>2, <1>3 DEF t

\* Queues that only grow keep what is in them, in its order.
Grows(q, r, id) == r[id] = q[id] \/ \E e \in Proc : r[id] = Append(q[id], e)

LEMMA GrowsKeeps ==
    ASSUME NEW q \in Queues, NEW r, NEW id \in QueueId, Grows(q, r, id), NEW x, NEW y
    PROVE  /\ In(q, x, id) => In(r, x, id)
           /\ Precedes(q[id], x, y) => Precedes(r[id], x, y)
<1>1. q[id] \in Seq(Proc)
  BY DEF Queues
<1>2. ASSUME NEW e \in Proc, r[id] = Append(q[id], e)
      PROVE  /\ In(q, x, id) => In(r, x, id)
             /\ Precedes(q[id], x, y) => Precedes(r[id], x, y)
  <2>1. In(q, x, id) => In(r, x, id)
    <3>1. In(q, x, id) => Precedes(r[id], x, e)
      BY <1>1, <1>2, PrecedesAppend DEF In
    <3> QED
      BY <3>1 DEF Precedes, In
  <2> QED
    BY <1>1, <1>2, <2>1, PrecedesAppend
<1>3. CASE r[id] = q[id]
  BY <1>3 DEF In
<1> QED
  BY <1>2, <1>3 DEF Grows

LEMMA QueuedGrows ==
    ASSUME NEW q \in Queues, NEW r, Grows(q, r, "newQueue"), Grows(q, r, "readyQueue0"),
           NEW x, NEW y, QueuedAhead(q, x, y)
    PROVE  QueuedAhead(r, x, y)
<1>1. "newQueue" \in QueueId /\ "readyQueue0" \in QueueId
  BY QueueNames DEF ReadyIds
<1> QED
  BY <1>1, GrowsKeeps DEF QueuedAhead

LEMMA MoveGrows ==
    ASSUME NEW q \in Queues, NEW a \in QueueId, NEW b \in QueueId, NEW e \in Proc, NEW id \in QueueId
    PROVE  /\ Grows(q, Push(q, b, e), id)
           /\ q[a] # <<>> /\ a # id => Grows(q, Push(Pop(q, a), b, e), id)
<1>1. ASSUME NEW p \in Queues PROVE Grows(p, Push(p, b, e), id)
  <2>1. CASE id = b
    BY <2>1, PushType DEF Grows
  <2>2. CASE id # b
    BY <2>2, PushType DEF Grows
  <2> QED
    BY <2>1, <2>2
<1>2. ASSUME q[a] # <<>>, a # id PROVE Grows(q, Push(Pop(q, a), b, e), id)
  <2>1. Pop(q, a) \in Queues /\ Pop(q, a)[id] = q[id]
    BY <1>2, PopType
  <2> QED
    BY <1>1, <2>1 DEF Grows
<1> QED
  BY <1>1, <1>2

\* Only while it is chosen and executes is the running process unserved.
LEMMA RunServed ==
    ASSUME IInv, RInv, Unreached, NewEmpty, phase \notin {"preempt", "execute"} \cup Faults,
           NEW x \in Proc, Unserved(x)
    PROVE  /\ x # pRunningPcb
           /\ In(queue, x, "newQueue") \/ In(queue, x, "readyQueue0")
<1>1. In(queue, x, "newQueue") \/ In(queue, x, "readyQueue0")
  BY DEF Unreached
<1>2. "newQueue" \in QueueId /\ "readyQueue0" \in QueueId /\ "readyQueue0" \in ReadyIds
  BY QueueNames DEF ReadyIds
<1>3. InQueue(queue, x)
  BY <1>1, <1>2 DEF InQueue
<1>4. CASE phase = "shell"
  BY <1>1, <1>4, ProcAssumption DEF IInv, NothingToPreempt
<1>5. CASE phase \in {"loop", "admit"}
  BY <1>1, <1>3, <1>5 DEF IInv, Exclusive
<1>6. CASE phase = "isr"
  BY <1>1, <1>6 DEF RInv, JustTrapped, Unserved
<1>7. CASE phase = "resume"
  <2>1. queue["newQueue"] = <<>>
    BY <1>7 DEF NewEmpty, Faults
  <2>2. In(queue, x, "readyQueue0")
    BY <1>1, <2>1 DEF In
  <2>3. x = pRunningPcb => \E id \in QueueId \ ReadyIds : In(queue, x, id)
    BY <1>7 DEF IInv, InterruptPlace
  <2> QED
    BY <1>1, <1>2, <2>2, <2>3, QueuesFromInv, InUnique
<1>8. phase \in {"shell", "loop", "admit", "preempt", "execute", "isr", "resume"} \cup Faults
  BY DEF IInv, TypeOK, Phases
<1> QED
  BY <1>1, <1>4, <1>5, <1>6, <1>7, <1>8

\* What a step that creates nobody leaves unserved was unserved.
LEMMA UnservedKept ==
    ASSUME IInv, RInv, [ANext]_aVars, ~ALoadProgram, ~AArrive, ~AIsrVFork,
           NEW x \in Proc, Unserved(x)'
    PROVE  /\ Unserved(x)
           /\ AInstruction \/ AHalt \/ (\E code \in Swis : ATrap(code)) => x # pRunningPcb
<1>1. pState[x] # CREATED
  BY NotBorn DEF Unserved
<1>2. cpuTimeSlices \in [Proc -> Seq(Nat)] /\ clock \in Nat
  BY DEF RInv, RecordType
<1>3. CASE AInstruction \/ AHalt \/ \E code \in Swis : ATrap(code)
  <2>1. /\ pRunningPcb \in Proc /\ clock' \in Nat
        /\ cpuTimeSlices' = [cpuTimeSlices EXCEPT ![pRunningPcb] = Append(@, clock')]
    BY <1>2, <1>3, ProcAssumption DEF AInstruction, Instruction, AHalt, Halt, HaltTo, ATrap, Trap,
       CaptureTimeSlice, Ticks, IInv, TypeOK
  <2>2. Append(cpuTimeSlices[pRunningPcb], clock') # <<>>
    <3>1. PICK t \in Seq(Nat), now \in Nat : t = cpuTimeSlices[pRunningPcb] /\ now = clock'
      BY <1>2, <2>1
    <3>2. Append(t, now) # <<>>
      OBVIOUS
    <3> QED
      BY <3>1, <3>2
  <2>3. x # pRunningPcb
    BY <1>2, <2>1, <2>2 DEF Unserved
  <2> QED
    BY <1>1, <1>2, <2>1, <2>3 DEF Unserved
<1>4. CASE ~(AInstruction \/ AHalt \/ \E code \in Swis : ATrap(code))
  <2>1. cpuTimeSlices' = cpuTimeSlices
    BY <1>4 DEF ANext, AShellStep, AKernelStep, AFaulted, AShellOther, AStartRun, ACallScheduler,
       AEndRun, AIdle, AIsrReturnSharedMemPtr, AKernelOther, aVars, recordVars, timeVars
  <2> QED
    BY <1>1, <1>4, <2>1 DEF Unserved
<1> QED
  BY <1>3, <1>4

\* A step that creates nobody and takes nobody out of the two queues.
LEMMA KeepsLine ==
    ASSUME IInv, Unreached, Line,
           Grows(queue, queue', "newQueue"), Grows(queue, queue', "readyQueue0"),
           \A x \in Proc : Unserved(x)' =>
               /\ Unserved(x)
               /\ x = pRunningPcb =>
                    pRunningPcb' = x /\ phase' \in {"preempt", "execute"} \cup Faults
    PROVE  Unreached' /\ Line'
<1>1. "newQueue" \in QueueId /\ "readyQueue0" \in QueueId /\ queue \in Queues
  BY QueueNames, QueuesFromInv DEF ReadyIds
<1>2. ASSUME NEW x \in Proc, Unserved(x)'
      PROVE  \/ In(queue', x, "newQueue") \/ In(queue', x, "readyQueue0")
             \/ x = pRunningPcb' /\ phase' \in {"preempt", "execute"} \cup Faults
  BY <1>1, <1>2, GrowsKeeps DEF Unreached
<1>3. ASSUME NEW x \in Proc, NEW y \in Proc, Unserved(x)', Unserved(y)', x < y
      PROVE  x = pRunningPcb' \/ QueuedAhead(queue', x, y)
  <2>1. x = pRunningPcb \/ QueuedAhead(queue, x, y)
    BY <1>3 DEF Line, Ahead
  <2> QED
    BY <1>1, <1>3, <2>1, QueuedGrows
<1> QED
  BY <1>2, <1>3 DEF Unreached, Line, Ahead

\* A step that creates c: the next number, behind everything unserved.
LEMMA AddsLine ==
    ASSUME IInv, RInv, Numbered, Unreached, Line, NewEmpty,
           phase \in {"shell", "loop", "isr"}, phase' = phase \/ phase' = "resume",
           NEW c \in Proc, pState[c] = CREATED, \A p \in Proc : pState[p] = CREATED => c <= p,
           NEW b \in {"newQueue", "readyQueue0"}, b = "readyQueue0" => queue["newQueue"] = <<>>,
           queue' = Push(queue, b, c), cpuTimeSlices' = cpuTimeSlices,
           \A x \in Proc \ {c} : pState'[x] = pState[x]
    PROVE  Unreached' /\ Line'
<1>1. /\ "newQueue" \in QueueId /\ "readyQueue0" \in QueueId /\ b \in QueueId
      /\ queue \in Queues
  BY QueueNames, QueuesFromInv DEF ReadyIds
<1>2. Grows(queue, queue', "newQueue") /\ Grows(queue, queue', "readyQueue0")
  BY <1>1, MoveGrows
<1>3. \A x \in Proc : In(queue, x, b) => Precedes(queue'[b], x, c)
  <2>1. queue[b] \in Seq(Proc) /\ queue'[b] = Append(queue[b], c)
    BY <1>1, PushType DEF Queues
  <2> QED
    BY <2>1, PrecedesAppend DEF In
<1>4. In(queue', c, b)
  BY <1>1, InPush
<1>5. \A x \in Proc \ {c} : Unserved(x)' =>
        Unserved(x) /\ (In(queue, x, "newQueue") \/ In(queue, x, "readyQueue0"))
  <2>1. ASSUME NEW x \in Proc \ {c}, Unserved(x)' PROVE Unserved(x)
    BY <2>1 DEF Unserved
  <2> QED
    BY <2>1, RunServed DEF Faults
<1>6. Unreached'
  BY <1>1, <1>2, <1>4, <1>5, GrowsKeeps DEF Unreached
<1>7. ASSUME NEW x \in Proc, NEW y \in Proc, Unserved(x)', Unserved(y)', x < y
      PROVE  QueuedAhead(queue', x, y)
  <2>1. CASE x # c /\ y # c
    <3>1. x # pRunningPcb
      BY <1>5, <1>7, <2>1, RunServed DEF Faults
    <3>2. QueuedAhead(queue, x, y)
      BY <1>5, <1>7, <2>1, <3>1 DEF Line, Ahead
    <3> QED
      BY <1>1, <1>2, <3>2, QueuedGrows
  <2>2. CASE x = c
    <3>1. pState[y] # CREATED
      BY <1>5, <1>7, <2>2, ProcNumbers DEF Unserved
    <3> QED
      BY <1>7, <2>2, <3>1 DEF Numbered
  <2>3. CASE y = c /\ x # c
    <3>1. In(queue, x, "newQueue") \/ In(queue, x, "readyQueue0")
      BY <1>5, <1>7, <2>3
    <3>2. CASE In(queue, x, b)
      BY <1>3, <2>3, <3>2 DEF QueuedAhead
    <3>3. CASE b = "newQueue" /\ In(queue, x, "readyQueue0")
      BY <1>1, <1>2, <1>4, <2>3, <3>3, GrowsKeeps DEF QueuedAhead
    <3>4. CASE b = "readyQueue0" /\ In(queue, x, "newQueue")
      BY <3>4 DEF In
    <3> QED
      BY <3>1, <3>2, <3>3, <3>4
  <2> QED
    BY <2>1, <2>2, <2>3
<1> QED
  BY <1>6, <1>7 DEF Line, Ahead

\* Taking the first ready process: the first of those that wait unserved on the
\* highest level, unless a served one is before them.
LEMMA TakesFirst ==
    ASSUME NEW q \in Queues, Distinct(q), ~ReadyQueuesEmpty(q), NEW U \in SUBSET Proc,
           \A x \in U : In(q, x, "readyQueue0"),
           \A x, y \in U : x < y => Precedes(q["readyQueue0"], x, y)
    PROVE  /\ \A x \in U : In(PopReady(q), x, "readyQueue0") \/ x = NextReady(q)
           /\ \A x, y \in U : x < y =>
                x = NextReady(q) \/ Precedes(PopReady(q)["readyQueue0"], x, y)
<1> DEFINE a == "readyQueue0"
<1>1. a \in QueueId
  BY QueueNames DEF ReadyIds
<1>2. CASE q[a] = <<>>
  BY <1>2 DEF In
<1>3. CASE q[a] # <<>>
  <2>1. PopReady(q) = Pop(q, a) /\ NextReady(q) = Head(q[a])
    BY <1>3 DEF PopReady, NextReady, TopQueue
  <2>2. q[a] \in Seq(Proc) /\ Pop(q, a)[a] = Tail(q[a])
    BY <1>1, <1>3, PopType DEF Queues
  <2>3. \A x \in U : In(Pop(q, a), x, a) \/ x = Head(q[a])
    BY <1>1, <1>3, InPop
  <2>4. \A x, y \in U : x < y => x = Head(q[a]) \/ Precedes(Tail(q[a]), x, y)
    BY <1>3, <2>2, PrecedesTail
  <2> QED
    BY <2>1, <2>2, <2>3, <2>4
<1> QED
  BY <1>2, <1>3

LEMMA AdmitLine ==
    ASSUME IInv, RInv, Level, Unreached, Line, NewEmpty, AdmitNew, [ANext]_aVars,
           UNCHANGED recordVars
    PROVE  Unreached' /\ Line'
<1> DEFINE a == "newQueue"
           b == "readyQueue0"
           h == Head(queue[a])
           s == queue[a]
<1>1. /\ a \in QueueId /\ b \in QueueId /\ a # b /\ queue \in Queues /\ Distinct(queue)
      /\ phase = "admit" /\ phase' = "admit" /\ queue[a] # <<>> /\ s \in Seq(Proc)
  BY QueueNames, QueuesFromInv DEF ReadyIds, AdmitNew, Queues
<1>2. h \in Proc /\ In(queue, h, a)
  BY <1>1, PopType
<1>3. pPriority[h] = 0
  BY <1>2 DEF Level
<1>4. queue' = Push(Pop(queue, a), b, h)
  BY <1>3 DEF AdmitNew, ReadyQueue
<1> HIDE DEF h
<1>5. Grows(queue, queue', b)
  BY <1>1, <1>2, <1>4, MoveGrows
<1>6. /\ queue'[a] = Tail(queue[a]) /\ queue'[b] = Append(queue[b], h) /\ In(queue', h, b)
      /\ \A x \in Proc : In(queue, x, a) /\ x # h => In(queue', x, a)
  <2>1. PICK r \in Queues : r = Pop(queue, a)
    BY <1>1, PopType
  <2>2. /\ r[a] = Tail(queue[a]) /\ r[b] = queue[b]
        /\ \A x \in Proc : In(queue, x, a) /\ x # h => In(r, x, a)
    BY <1>1, <2>1, PopType, InPop DEF h
  <2>3. /\ queue' = Push(r, b, h) /\ queue'[a] = r[a] /\ queue'[b] = Append(r[b], h)
        /\ In(queue', h, b)
    <3>1. queue' = Push(r, b, h)
      BY <1>4, <2>1
    <3>2. r \in Queues /\ a \in QueueId /\ b \in QueueId /\ a # b /\ h \in Proc
      BY <1>1, <1>2, <2>1
    <3> HIDE DEF a, b
    <3>3. Push(r, b, h)[a] = r[a] /\ Push(r, b, h)[b] = Append(r[b], h)
      BY <3>2, PushType
    <3>4. In(Push(r, b, h), h, b)
      BY <3>2, InPush
    <3> QED
      BY <3>1, <3>3, <3>4, Zenon
  <2> QED
    BY <2>2, <2>3 DEF In
<1>7. \A x \in Proc : In(queue, x, b) => In(queue', x, b)
  BY <1>1, <1>5, GrowsKeeps
<1>8. ~ALoadProgram /\ ~AArrive /\ ~AIsrVFork
  BY <1>1 DEF ALoadProgram, LoadProgram, AArrive, Arrive, AIsrVFork, IsrVFork
<1>9. \A x \in Proc : Unserved(x)' =>
        Unserved(x) /\ x # pRunningPcb /\ (In(queue, x, a) \/ In(queue, x, b))
  <2>1. \A x \in Proc : Unserved(x)' => Unserved(x)
    BY <1>8, UnservedKept
  <2> QED
    BY <1>1, <2>1, RunServed DEF Faults
<1>10. Unreached'
  BY <1>6, <1>7, <1>9 DEF Unreached
<1>11. ASSUME NEW x \in Proc, NEW y \in Proc, Unserved(x)', Unserved(y)', x < y
       PROVE  QueuedAhead(queue', x, y)
  <2>1. QueuedAhead(queue, x, y)
    BY <1>9, <1>11 DEF Line, Ahead
  <2>2. CASE In(queue, x, b) /\ In(queue, y, a)
    <3>1. CASE y = h
      <4>1. Precedes(queue'[b], x, h)
        <5>1. queue[b] \in Seq(Proc)
          BY <1>1 DEF Queues
        <5> QED
          BY <1>2, <1>6, <2>2, <5>1, PrecedesAppend DEF In
      <4> QED
        BY <3>1, <4>1 DEF QueuedAhead
    <3>2. CASE y # h
      BY <1>6, <1>7, <2>2, <3>2 DEF QueuedAhead
    <3> QED
      BY <3>1, <3>2
  <2>3. CASE Precedes(queue[b], x, y)
    BY <1>1, <1>5, <2>3, GrowsKeeps DEF QueuedAhead
  <2>4. CASE Precedes(queue[a], x, y)
    <3>1. CASE x = h
      <4>1. In(queue, y, a)
        BY <2>4 DEF Precedes, In
      <4>2. y # h
        BY <1>11, <3>1, ProcNumbers
      <4> QED
        BY <1>6, <1>7, <3>1, <4>1, <4>2 DEF QueuedAhead
    <3>2. CASE x # h
      <4>1. Precedes(Tail(s), x, y)
        BY <1>1, <2>4, <3>2, PrecedesTail DEF h
      <4> QED
        BY <1>6, <4>1 DEF QueuedAhead
    <3> QED
      BY <3>1, <3>2
  <2> QED
    BY <2>1, <2>2, <2>3, <2>4 DEF QueuedAhead
<1> QED
  BY <1>10, <1>11 DEF Line, Ahead

\* The next process takes the CPU from q, where nothing is new and everything
\* unserved waits on the highest level.
LEMMA TakenLine ==
    ASSUME NEW q \in Queues, Distinct(q), ~ReadyQueuesEmpty(q), q["newQueue"] = <<>>,
           queue' = PopReady(q), pRunningPcb' = NextReady(q), phase' \in {"preempt", "execute"},
           \A x \in Proc : Unserved(x)' => Unserved(x),
           \A x \in Proc : Unserved(x) => In(q, x, "readyQueue0"),
           \A x, y \in Proc : Unserved(x) /\ Unserved(y) /\ x < y => QueuedAhead(q, x, y)
    PROVE  Unreached' /\ Line'
<1> DEFINE U == {x \in Proc : Unserved(x)}
<1>1. \A x, y \in U : x < y => Precedes(q["readyQueue0"], x, y)
  BY DEF QueuedAhead, In, Precedes
<1>2. /\ \A x \in U : In(queue', x, "readyQueue0") \/ x = pRunningPcb'
      /\ \A x, y \in U : x < y => x = pRunningPcb' \/ Precedes(queue'["readyQueue0"], x, y)
  <2>1. U \in SUBSET Proc /\ \A x \in U : In(q, x, "readyQueue0")
    OBVIOUS
  <2> HIDE DEF U
  <2> QED
    BY <1>1, <2>1, TakesFirst
<1> QED
  BY <1>2 DEF Unreached, Line, Ahead, QueuedAhead

LEMMA DispatchLine ==
    ASSUME IInv, RInv, Unreached, Line, NewEmpty, Dispatch, [ANext]_aVars
    PROVE  Unreached' /\ Line'
<1>1. /\ phase = "admit" /\ queue["newQueue"] = <<>> /\ queue' = PopReady(queue)
      /\ pRunningPcb' = NextReady(queue)
  BY DEF Dispatch
<1>2. queue \in Queues /\ Distinct(queue) /\ ~ReadyQueuesEmpty(queue)
  BY <1>1, QueuesFromInv, ReadyExists DEF Dispatch
<1>3. phase' \in {"preempt", "execute"}
  <2>1. NextReady(queue) # NoProc
    BY <1>2, PopTop, ProcAssumption
  <2> QED
    BY <2>1 DEF Dispatch, AfterDispatch
<1>4. \A x \in Proc : Unserved(x)' => Unserved(x)
  BY <1>1, UnservedKept DEF ALoadProgram, LoadProgram, AArrive, Arrive, AIsrVFork, IsrVFork
<1>5. \A x \in Proc : Unserved(x) => In(queue, x, "readyQueue0") /\ x # pRunningPcb
  <2>1. ASSUME NEW x \in Proc, Unserved(x)
        PROVE  x # pRunningPcb /\ (In(queue, x, "newQueue") \/ In(queue, x, "readyQueue0"))
    BY <1>1, <2>1, RunServed DEF Faults
  <2> QED
    BY <1>1, <2>1 DEF In
<1>6. \A x, y \in Proc : Unserved(x) /\ Unserved(y) /\ x < y => QueuedAhead(queue, x, y)
  BY <1>5 DEF Line, Ahead
<1> QED
  BY <1>1, <1>2, <1>3, <1>4, <1>5, <1>6, TakenLine

\* The process that loses the CPU was served: its quantum is up.
LEMMA PreemptLine ==
    ASSUME IInv, RInv, Unreached, Line, NewEmpty, ClockZero, PreemptRR \/ PreemptMLFQ,
           [ANext]_aVars
    PROVE  Unreached' /\ Line'
<1>1. phase = "preempt" /\ quantumClock # 0 /\ queue["newQueue"] = <<>>
  BY DEF PreemptRR, PreemptMLFQ, QuantumUp, NewEmpty, Faults
<1>2. pRunningPcb \in Proc /\ ~Unserved(pRunningPcb)
  BY <1>1 DEF ClockZero, IInv, TypeOK
<1>3. PICK priority \in 0..2 : SwitchContext(priority)
  <2>1. CASE PreemptRR
    BY <1>2, <2>1, ProcAssumption DEF PreemptRR, IInv, TypeOK
  <2>2. CASE PreemptMLFQ
    <3>1. PICK k : k = IF DemotionDue(pRunningPcb) /\ pPriority[pRunningPcb] < 2
                       THEN pPriority[pRunningPcb] + 1 ELSE pPriority[pRunningPcb]
      OBVIOUS
    <3>2. SwitchContext(k)
      BY <2>2, <3>1 DEF PreemptMLFQ
    <3>3. k \in 0..2
      BY <1>2, <3>1 DEF IInv, TypeOK
    <3> QED
      BY <3>2, <3>3
  <2> QED
    BY <2>1, <2>2
<1>4. PICK b \in ReadyIds : b = ReadyQueue(priority)
  BY ReadyQueueNames
<1>5. PICK q : q = Push(queue, b, pRunningPcb)
  OBVIOUS
<1>6. /\ queue \in Queues /\ Distinct(queue) /\ b \in QueueId /\ b # "newQueue"
      /\ "newQueue" \in QueueId /\ "readyQueue0" \in QueueId
      /\ ~InQueue(queue, pRunningPcb)
  BY <1>1, QueuesFromInv, QueueNames DEF IInv, Exclusive, ReadyIds
<1>7. /\ q \in Queues /\ Distinct(q) /\ q["newQueue"] = <<>> /\ ~ReadyQueuesEmpty(q)
      /\ Grows(queue, q, "newQueue") /\ Grows(queue, q, "readyQueue0")
  BY <1>1, <1>2, <1>5, <1>6, PushType, DistinctPush, MoveGrows DEF ReadyQueuesEmpty
<1>8. queue' = PopReady(q) /\ pRunningPcb' = NextReady(q) /\ phase' = "execute"
  BY <1>2, <1>3, <1>4, <1>5, ProcAssumption DEF SwitchContext, PreemptRR, PreemptMLFQ
<1>9. \A x \in Proc : Unserved(x)' => Unserved(x)
  BY <1>1, UnservedKept DEF ALoadProgram, LoadProgram, AArrive, Arrive, AIsrVFork, IsrVFork
<1>10. \A x \in Proc : Unserved(x) => In(queue, x, "readyQueue0") /\ x # pRunningPcb
  BY <1>1, <1>2 DEF Unreached, In
<1>11. \A x \in Proc : Unserved(x) => In(q, x, "readyQueue0")
  BY <1>6, <1>7, <1>10, GrowsKeeps
<1>12. \A x, y \in Proc : Unserved(x) /\ Unserved(y) /\ x < y => QueuedAhead(q, x, y)
  BY <1>6, <1>7, <1>10, QueuedGrows DEF Line, Ahead
<1> QED
  BY <1>7, <1>8, <1>9, <1>11, <1>12, TakenLine

\* An interrupt that creates nobody moves at most one process, out of waitingQueue or
\* of a semaphore's queue, and not to newQueue.
LEMMA OtherMoves ==
    ASSUME IInv,
           \/ AIsrReturnSharedMemPtr \/ IsrSemaphoreAquire \/ IsrSemaphoreWait
           \/ IsrSemaphoreRelease \/ Resume
    PROVE  \/ queue' = queue
           \/ \E a \in QueueId \ {"newQueue", "readyQueue0"}, b \in QueueId \ {"newQueue"}, e \in Proc :
                queue[a] # <<>> /\ queue' = Push(Pop(queue, a), b, e)
<1>1. /\ "waitingQueue" \in QueueId \ {"newQueue", "readyQueue0"}
      /\ "terminatedQueue" \in QueueId \ {"newQueue"}
      /\ Sem \subseteq QueueId \ {"newQueue", "readyQueue0"}
      /\ ReadyIds \subseteq QueueId \ {"newQueue"} /\ queue \in Queues
  BY QueueNames, QueuesFromInv DEF ReadyIds
<1>2. CASE AIsrReturnSharedMemPtr
  <2>1. /\ pRunningPcb \in Proc /\ queue["waitingQueue"] # <<>>
        /\ Head(queue["waitingQueue"]) = pRunningPcb
    BY <1>2, InIsr DEF AIsrReturnSharedMemPtr, IsrReturnSharedMemPtr, ReturnTo
  <2>2. \/ queue' = queue
        \/ queue' = Push(Pop(queue, "waitingQueue"), "terminatedQueue", pRunningPcb)
    BY <1>2, <2>1 DEF AIsrReturnSharedMemPtr, IsrReturnSharedMemPtr, ReturnTo, HaltWaiting
  <2> QED
    BY <1>1, <2>1, <2>2
<1>3. CASE IsrSemaphoreAquire \/ IsrSemaphoreWait
  <2>1. /\ pRunningPcb \in Proc /\ queue["waitingQueue"] # <<>>
        /\ Head(queue["waitingQueue"]) = pRunningPcb
    BY <1>3, InIsr DEF IsrSemaphoreAquire, IsrSemaphoreWait
  <2>2. semId[pRunningPcb] # NoSem => semId[pRunningPcb] \in Sem
    BY <2>1 DEF IInv, TypeOK
  <2>3. \/ queue' = queue
        \/ /\ semId[pRunningPcb] # NoSem
           /\ queue' = Push(Pop(queue, "waitingQueue"), semId[pRunningPcb], pRunningPcb)
    BY <1>3, <2>1 DEF IsrSemaphoreAquire, IsrSemaphoreWait, BlockOn
  <2> QED
    BY <1>1, <2>1, <2>2, <2>3
<1>4. CASE IsrSemaphoreRelease /\ queue' # queue
  <2>1. pRunningPcb \in Proc
    BY <1>4, InIsr DEF IsrSemaphoreRelease
  <2>2. PICK s : s = semId[pRunningPcb]
    OBVIOUS
  <2>3. s # NoSem /\ Wake(s) /\ queue[s] # <<>>
    BY <1>4, <2>2 DEF IsrSemaphoreRelease, Wake
  <2>4. s \in Sem
    BY <2>1, <2>2, <2>3 DEF IInv, TypeOK
  <2>5. PICK h \in Proc : h = Head(queue[s])
    BY <1>1, <2>3, <2>4, PopType
  <2>6. PICK b \in ReadyIds : b = ReadyQueue(pPriority[h])
    BY OwnReadyQueue
  <2>7. queue' = Push(Pop(queue, s), b, h)
    BY <2>3, <2>5, <2>6 DEF Wake
  <2> QED
    BY <1>1, <2>3, <2>4, <2>7
<1>5. CASE Resume
  <2>1. PICK p : p = pRunningPcb
    OBVIOUS
  <2>2. PICK k : k = IF schedulerAlgo = "MLFQ" /\ pPriority[p] > 0
                     THEN pPriority[p] - 1 ELSE pPriority[p]
    OBVIOUS
  <2>3. Requeue(p, k)
    BY <1>5, <2>1, <2>2 DEF Resume
  <2>4. p \in Proc /\ k \in 0..2
    BY <1>5, <2>1, <2>2 DEF Resume, IInv, TypeOK, InterruptPlace
  <2>5. ReadyQueue(k) \in ReadyIds
    BY <2>4, ReadyQueueNames
  <2> QED
    BY <1>1, <2>3, <2>4, <2>5 DEF Requeue
<1> QED
  BY <1>2, <1>3, <1>4, <1>5

\* The steps of the shell and of the loop, and those of an interrupt that create
\* nobody: they put processes behind those that wait.
LEMMA OtherGrows ==
    ASSUME IInv,
           \/ AShellOther \/ AStartRun \/ ACallScheduler \/ AEndRun \/ AIdle \/ AFaulted
           \/ UNCHANGED aVars \/ KeepRunning \/ NoPreemption \/ IsrPrint
           \/ AIsrReturnSharedMemPtr \/ IsrSemaphoreAquire \/ IsrSemaphoreWait
           \/ IsrSemaphoreRelease \/ Resume
    PROVE  Grows(queue, queue', "newQueue") /\ Grows(queue, queue', "readyQueue0")
<1>1. /\ "newQueue" \in QueueId /\ "readyQueue0" \in QueueId /\ queue \in Queues
      /\ "terminatedQueue" \in QueueId
  BY QueueNames, QueuesFromInv DEF ReadyIds
<1>2. CASE AShellOther \/ AStartRun \/ ACallScheduler \/ AIdle \/ AFaulted \/ UNCHANGED aVars
           \/ KeepRunning \/ NoPreemption \/ IsrPrint
  <2>1. queue' = queue
    BY <1>2 DEF AShellOther, SetScheduler, InitSemaphore, LinkSemaphore, OpenSharedMemory,
       AStartRun, StartRun, ACallScheduler, CallScheduler, AIdle, Idle, AFaulted, Faulted, aVars,
       vars, KeepRunning, NoPreemption, Fault, IsrPrint
  <2> QED
    BY <2>1 DEF Grows
<1>3. CASE AEndRun
  BY <1>1, <1>3 DEF AEndRun, EndRun, Grows, Queues
<1>4. ASSUME NEW a \in QueueId \ {"newQueue", "readyQueue0"}, NEW b \in QueueId, NEW e \in Proc,
             queue[a] # <<>>, queue' = Push(Pop(queue, a), b, e)
      PROVE  Grows(queue, queue', "newQueue") /\ Grows(queue, queue', "readyQueue0")
  BY <1>1, <1>4, MoveGrows
<1>5. CASE queue' = queue
  BY <1>5 DEF Grows
<1> QED
  BY <1>2, <1>3, <1>4, <1>5, OtherMoves

LEMMA OtherLine ==
    ASSUME IInv, RInv, Unreached, Line, NewEmpty, [ANext]_aVars,
           ~ALoadProgram, ~AArrive, ~AIsrVFork,
           \/ AShellOther \/ AStartRun \/ ACallScheduler \/ AEndRun \/ AIdle \/ AFaulted
           \/ UNCHANGED aVars \/ KeepRunning \/ NoPreemption \/ IsrPrint
           \/ AIsrReturnSharedMemPtr \/ IsrSemaphoreAquire \/ IsrSemaphoreWait
           \/ IsrSemaphoreRelease \/ Resume
    PROVE  Unreached' /\ Line'
<1>1. ASSUME NEW x \in Proc, Unserved(x)', x = pRunningPcb
       PROVE  pRunningPcb' = x /\ phase' \in {"preempt", "execute"} \cup Faults
  <2>1. phase \in {"preempt", "execute"} \cup Faults
    BY <1>1, UnservedKept, RunServed
  <2>2. CASE NoPreemption
    BY <1>1, <2>2 DEF NoPreemption, Fault, Faults, runVars
  <2>3. CASE AFaulted \/ UNCHANGED aVars
    BY <1>1, <2>1, <2>3 DEF AFaulted, Faulted, aVars, vars, runVars
  <2>4. ~AIdle
    BY <1>1, ProcAssumption DEF AIdle, Idle
  <2>5. ~(AShellOther \/ AStartRun \/ ACallScheduler \/ AEndRun \/ KeepRunning \/ IsrPrint
          \/ AIsrReturnSharedMemPtr \/ IsrSemaphoreAquire \/ IsrSemaphoreWait
          \/ IsrSemaphoreRelease \/ Resume)
    BY <2>1 DEF Faults, AShellOther, SetScheduler, InitSemaphore, LinkSemaphore, OpenSharedMemory,
       AStartRun, StartRun, ACallScheduler, CallScheduler, AEndRun, EndRun, KeepRunning, IsrPrint,
       AIsrReturnSharedMemPtr, IsrReturnSharedMemPtr, ReturnTo, IsrSemaphoreAquire,
       IsrSemaphoreWait, IsrSemaphoreRelease, Resume
  <2> QED
    BY <2>2, <2>3, <2>4, <2>5
<1> QED
  BY <1>1, OtherGrows, UnservedKept, KeepsLine

LEMMA CreateLine ==
    ASSUME IInv, RInv, Level, Numbered, Unreached, Line, NewEmpty, [ANext]_aVars,
           ALoadProgram \/ AArrive \/ AIsrVFork
    PROVE  Unreached' /\ Line'
<1>1. cpuTimeSlices' = cpuTimeSlices /\ InOrder /\ pState \in [Proc -> {CREATED, NEWLY, READY,
                                                                      RUNNING, WAITING, TERMINATED}]
  BY PcbStates DEF ALoadProgram, AArrive, AIsrVFork, CreatePcb
<1>2. ASSUME NEW c \in Proc, NewPcb(c), phase \in {"shell", "loop"}, phase' = phase
      PROVE  Unreached' /\ Line'
  <2>1. \A p \in Proc : pState[p] = CREATED => c <= p
    BY <1>1, <1>2 DEF NewPcb, InOrder, Fresh, CREATED, NEWLY
  <2> QED
    BY <1>1, <1>2, <2>1, AddsLine DEF NewPcb
<1>3. CASE ALoadProgram
  BY <1>2, <1>3 DEF ALoadProgram, LoadProgram
<1>4. CASE AArrive
  <2>1. phase = "loop" /\ phase' = "loop"
    BY <1>4 DEF AArrive, Arrive
  <2>2. CASE UNCHANGED <<pState, queue>>
    <3>1. \A x \in Proc : Unserved(x)' => Unserved(x) /\ x # pRunningPcb
      BY <1>1, <2>1, <2>2, RunServed DEF Unserved, Faults
    <3> QED
      BY <2>2, <3>1, KeepsLine DEF Grows
  <2> QED
    BY <1>2, <1>4, <2>1, <2>2 DEF AArrive, Arrive
<1>5. CASE AIsrVFork
  <2>1. PICK c \in Proc : /\ pState[c] = CREATED /\ pState' = [pState EXCEPT ![c] = READY]
                          /\ queue' = Push(queue, ReadyQueue(pPriority[c]), c)
    BY <1>5 DEF AIsrVFork, IsrVFork
  <2>2. phase = "isr" /\ phase' = "resume" /\ queue["newQueue"] = <<>>
    BY <1>5 DEF AIsrVFork, IsrVFork, NewEmpty, Faults
  <2>3. ReadyQueue(pPriority[c]) = "readyQueue0"
    BY <2>1 DEF Level, ReadyQueue
  <2>4. \A p \in Proc : pState[p] = CREATED => c <= p
    BY <1>1, <2>1 DEF InOrder, Fresh, CREATED, READY
  <2> QED
    BY <1>1, <2>1, <2>2, <2>3, <2>4, AddsLine
<1> QED
  BY <1>3, <1>4, <1>5

\* An instruction serves the process that runs, before everything unserved.
LEMMA ServeStep ==
    ASSUME IInv, SInv, RInv, FInv, [ANext]_aVars,
           AInstruction \/ AHalt \/ \E code \in Swis : ATrap(code)
    PROVE  Unreached' /\ Line' /\ FirstServedInOrder'
<1>1. /\ phase = "execute" /\ pRunningPcb \in Proc /\ clock' \in {clock + 1, clock + 2}
      /\ cpuTimeSlices' = [cpuTimeSlices EXCEPT ![pRunningPcb] = Append(@, clock')]
  BY ProcAssumption DEF AInstruction, Instruction, AHalt, Halt, HaltTo, ATrap, Trap,
     CaptureTimeSlice, Ticks, IInv, TypeOK
<1>2. /\ clock \in Nat /\ clock' \in Nat /\ clock' > clock
      /\ cpuTimeSlices \in [Proc -> Seq(Nat)]
      /\ \A x \in Proc : \A i \in DOMAIN cpuTimeSlices[x] : cpuTimeSlices[x][i] <= clock
  BY <1>1 DEF RInv, RecordType, NoFuture
<1>3. PICK r \in Proc : r = pRunningPcb
  BY <1>1
<1>4. PICK now \in Nat : now = clock'
  BY <1>2
<1>5. ~ALoadProgram /\ ~AArrive /\ ~AIsrVFork
  BY <1>1 DEF ALoadProgram, LoadProgram, AArrive, Arrive, AIsrVFork, IsrVFork
<1>6. Unreached' /\ Line'
  <2>1. /\ "newQueue" \in QueueId \ {"waitingQueue", "terminatedQueue"}
        /\ "readyQueue0" \in QueueId \ {"waitingQueue", "terminatedQueue"}
        /\ {"waitingQueue", "terminatedQueue"} \subseteq QueueId
        /\ queue \in Queues
    BY QueueNames, QueuesFromInv DEF ReadyIds
  <2>2. \/ queue' = queue
        \/ \E b \in {"waitingQueue", "terminatedQueue"} : queue' = Push(queue, b, r)
    BY <1>3 DEF AInstruction, Instruction, AHalt, Halt, HaltTo, ATrap, Trap
  <2>3. Grows(queue, queue', "newQueue") /\ Grows(queue, queue', "readyQueue0")
    <3>1. CASE queue' = queue
      BY <3>1 DEF Grows
    <3>2. ASSUME NEW b \in {"waitingQueue", "terminatedQueue"}, queue' = Push(queue, b, r)
          PROVE  Grows(queue, queue', "newQueue") /\ Grows(queue, queue', "readyQueue0")
      BY <2>1, <3>2, MoveGrows
    <3> QED
      BY <2>2, <3>1, <3>2
  <2>4. \A x \in Proc : Unserved(x)' => Unserved(x) /\ x # pRunningPcb
    BY <1>5, UnservedKept
  <2> QED
    BY <2>3, <2>4, KeepsLine DEF FInv
<1>7. \A x \in Proc \ {r} : cpuTimeSlices'[x] = cpuTimeSlices[x]
  BY <1>1, <1>2, <1>3
<1>8. /\ cpuTimeSlices'[r] # <<>>
      /\ cpuTimeSlices'[r][1] = IF cpuTimeSlices[r] = <<>> THEN now ELSE cpuTimeSlices[r][1]
  <2>1. PICK s \in Seq(Nat) : s = cpuTimeSlices[r]
    BY <1>2
  <2>2. PICK t : t = Append(s, now)
    OBVIOUS
  <2>3. /\ t \in Seq(Nat) /\ Len(t) = Len(s) + 1 /\ Len(s) \in Nat /\ t[Len(s) + 1] = now
        /\ \A i \in 1..Len(s) : t[i] = s[i]
    BY <2>2
  <2>4. cpuTimeSlices'[r] = t
    BY <1>1, <1>2, <1>3, <1>4, <2>1, <2>2
  <2>5. t # <<>>
    BY <2>3
  <2>6. CASE s = <<>>
    BY <2>1, <2>3, <2>4, <2>5, <2>6
  <2>7. CASE s # <<>>
    <3>1. 1 \in 1..Len(s)
      BY <2>3, <2>7, EmptySeq
    <3> QED
      BY <2>1, <2>3, <2>4, <2>5, <2>7, <3>1
  <2> QED
    BY <2>6, <2>7
<1>9. ASSUME NEW a \in Proc, NEW b \in Proc, a < b, cpuTimeSlices'[b] # <<>>
      PROVE  cpuTimeSlices'[a] # <<>> /\ cpuTimeSlices'[a][1] < cpuTimeSlices'[b][1]
  <2>1. CASE cpuTimeSlices[b] # <<>>
    <3>1. cpuTimeSlices[a] # <<>> /\ cpuTimeSlices[a][1] < cpuTimeSlices[b][1]
      BY <1>9, <2>1 DEF FInv, FirstServedInOrder
    <3> QED
      BY <1>7, <1>8, <2>1, <3>1
  <2>2. CASE cpuTimeSlices[b] = <<>>
    <3>1. b = r /\ a # r /\ cpuTimeSlices'[b][1] = now
      BY <1>7, <1>8, <1>9, <2>2, ProcNumbers
    <3>2. pState[b] # CREATED /\ ~InQueue(queue, b)
      BY <1>1, <1>3, <3>1 DEF IInv, FreshUnplaced, Exclusive
    <3>3. pState[a] # CREATED
      BY <1>9, <3>2 DEF FInv, Numbered
    <3>4. cpuTimeSlices[a] # <<>>
      <4>1. ~QueuedAhead(queue, a, b)
        <5>1. "newQueue" \in QueueId /\ "readyQueue0" \in QueueId
          BY QueueNames DEF ReadyIds
        <5>2. ~In(queue, b, "newQueue") /\ ~In(queue, b, "readyQueue0")
          BY <3>2, <5>1 DEF InQueue
        <5> QED
          BY <5>2 DEF QueuedAhead, Precedes, In
      <4>2. ~Ahead(queue, pRunningPcb, a, b)
        BY <1>3, <3>1, <4>1 DEF Ahead
      <4>3. Unserved(b)
        BY <2>2, <3>2 DEF Unserved
      <4> QED
        BY <1>9, <3>3, <4>2, <4>3 DEF FInv, Line, Unserved
    <3>5. cpuTimeSlices[a][1] \in Nat /\ cpuTimeSlices[a][1] <= clock
      <4>1. cpuTimeSlices[a] \in Seq(Nat)
        BY <1>2
      <4>2. 1 \in DOMAIN cpuTimeSlices[a]
        BY <3>4, <4>1, EmptySeq
      <4> QED
        BY <1>2, <4>1, <4>2
    <3> QED
      BY <1>2, <1>4, <1>7, <3>1, <3>4, <3>5
  <2> QED
    BY <2>1, <2>2
<1> QED
  BY <1>6, <1>9 DEF FirstServedInOrder

LEMMA NumberedStep ==
    ASSUME IInv, Numbered, [ANext]_aVars PROVE Numbered'
<1>1. [Next]_vars /\ {} \in SUBSET Sem /\ Closed({})
  BY StepImplemented, SemAssumption DEF Closed
<1> SUFFICES ASSUME NEW p \in Proc, NEW q \in Proc, p < q, pState'[q] # CREATED,
                    pState'[p] = CREATED
             PROVE  FALSE
  BY DEF Numbered
<1>2. pState[p] = CREATED
  BY <1>1, Moves
<1>3. pState[q] = CREATED
  BY <1>2 DEF Numbered
<1>4. CASE ALoadProgram \/ AArrive \/ AIsrVFork
  <2>1. InOrder
    BY <1>4 DEF ALoadProgram, AArrive, AIsrVFork, CreatePcb
  <2>2. q <= p
    BY <1>2, <1>3, <2>1 DEF InOrder, Fresh
  <2> QED
    BY <2>2, ProcNumbers
<1>5. CASE ~ALoadProgram /\ ~AArrive /\ ~AIsrVFork
  BY <1>3, <1>5, NotBorn
<1> QED
  BY <1>4, <1>5

LEMMA NewEmptyStep == ASSUME IInv, NewEmpty, [ANext]_aVars PROVE NewEmpty'
<1> SUFFICES ASSUME phase' \notin {"shell", "loop", "admit"} \cup Faults
             PROVE  queue'["newQueue"] = <<>>
  BY DEF NewEmpty
<1>1. /\ "newQueue" \in QueueId \ (ReadyIds \cup {"waitingQueue", "terminatedQueue"} \cup Sem)
      /\ queue \in Queues /\ Distinct(queue)
  BY QueueNames, QueuesFromInv
<1>2. CASE AShellStep \/ AArrive \/ ACallScheduler \/ AEndRun \/ AdmitNew \/ AIdle \/ AFaulted
  BY <1>2 DEF AShellStep, ALoadProgram, LoadProgram, AStartRun, StartRun, AShellOther,
     SetScheduler, InitSemaphore, LinkSemaphore, OpenSharedMemory, AArrive, Arrive,
     ACallScheduler, CallScheduler, AEndRun, EndRun, AdmitNew, AIdle, Idle, AFaulted, Faulted,
     vars, Faults
<1>3. CASE Dispatch
  <2>1. queue["newQueue"] = <<>> /\ ~ReadyQueuesEmpty(queue) /\ queue' = PopReady(queue)
    BY <1>3, ReadyExists DEF Dispatch
  <2> QED
    BY <1>1, <2>1, PopTop
<1>4. CASE PreemptRR \/ PreemptMLFQ
  <2>1. queue["newQueue"] = <<>>
    BY <1>4 DEF PreemptRR, PreemptMLFQ, NewEmpty, Faults
  <2>2. PICK n \in Proc : Switches(pRunningPcb, n)
    BY <1>4, PreemptSwitches
  <2> QED
    BY <1>1, <2>1, <2>2 DEF Switches
<1>5. CASE KeepRunning \/ NoPreemption \/ AInstruction \/ IsrPrint \/ UNCHANGED aVars
  BY <1>5 DEF KeepRunning, NoPreemption, Fault, AInstruction, Instruction, IsrPrint, aVars, vars,
     NewEmpty, Faults
<1>6. CASE AHalt
  BY <1>6 DEF AHalt, Halt, HaltTo, Faults
<1>7. CASE \E code \in Swis : ATrap(code)
  <2>1. queue["newQueue"] = <<>> /\ queue' = Push(queue, "waitingQueue", pRunningPcb)
    BY <1>7 DEF ATrap, Trap, NewEmpty, Faults
  <2> QED
    BY <2>1 DEF Push
<1>8. CASE AIsrVFork
  <2>1. queue["newQueue"] = <<>>
    BY <1>8 DEF AIsrVFork, IsrVFork, NewEmpty, Faults
  <2>2. PICK c \in Proc, b \in ReadyIds : b = ReadyQueue(pPriority[c]) /\ queue' = Push(queue, b, c)
    BY <1>8, OwnReadyQueue DEF AIsrVFork, IsrVFork
  <2> QED
    BY <1>1, <2>1, <2>2 DEF Push
<1>9. CASE AIsrReturnSharedMemPtr \/ IsrSemaphoreAquire \/ IsrSemaphoreWait
           \/ IsrSemaphoreRelease \/ Resume
  <2>1. queue["newQueue"] = <<>>
    BY <1>9 DEF AIsrReturnSharedMemPtr, IsrReturnSharedMemPtr, ReturnTo, IsrSemaphoreAquire,
       IsrSemaphoreWait, IsrSemaphoreRelease, Resume, NewEmpty, Faults
  <2>2. ASSUME NEW x \in QueueId \ {"newQueue", "readyQueue0"}, NEW y \in QueueId \ {"newQueue"},
               NEW e \in Proc, queue[x] # <<>>, queue' = Push(Pop(queue, x), y, e)
        PROVE  queue'["newQueue"] = <<>>
    <3>1. Pop(queue, x) \in Queues /\ Pop(queue, x)["newQueue"] = queue["newQueue"]
      BY <1>1, <2>2, PopType
    <3> QED
      BY <1>1, <2>1, <2>2, <3>1, PushType
  <2> QED
    BY <1>9, <2>1, <2>2, OtherMoves
<1> QED
  BY <1>2, <1>3, <1>4, <1>5, <1>6, <1>7, <1>8, <1>9 DEF ANext, AKernelStep, AKernelOther

LEMMA ClockZeroStep ==
    ASSUME IInv, RInv, Unreached, NewEmpty, ClockZero, [ANext]_aVars PROVE ClockZero'
<1> USE DEF kernelVars, runVars
<1>1. CASE AShellStep
  <2>1. pRunningPcb = NoProc /\ pRunningPcb' = NoProc /\ quantumClock' = quantumClock
        /\ phase' # "preempt"
    BY <1>1 DEF AShellStep, ALoadProgram, LoadProgram, AStartRun, StartRun, AShellOther,
       SetScheduler, InitSemaphore, LinkSemaphore, OpenSharedMemory, IInv, NothingToPreempt
  <2> QED
    BY <2>1 DEF ClockZero
<1>2. CASE AFaulted \/ UNCHANGED aVars
  <2>1. UNCHANGED <<phase, pRunningPcb, quantumClock, schedulerAlgo, pState, cpuTimeSlices>>
    BY <1>2 DEF AFaulted, Faulted, aVars, vars, recordVars, timeVars
  <2> QED
    BY <2>1 DEF ClockZero, Unserved
<1>3. CASE KeepRunning
  <2>1. /\ UNCHANGED <<pRunningPcb, quantumClock, schedulerAlgo, pState>> /\ phase = "admit"
    BY <1>3 DEF KeepRunning
  <2>2. pRunningPcb # NoProc => pRunningPcb \in Proc /\ ~Unserved(pRunningPcb)
    BY <2>1, RunServed DEF IInv, TypeOK, Faults
  <2>3. pRunningPcb # NoProc => ~Unserved(pRunningPcb)'
    <3>1. ~ALoadProgram /\ ~AArrive /\ ~AIsrVFork
      BY <2>1 DEF ALoadProgram, LoadProgram, AArrive, Arrive, AIsrVFork, IsrVFork
    <3>2. ASSUME NEW x \in Proc, Unserved(x)' PROVE Unserved(x)
      BY <3>1, <3>2, UnservedKept
    <3>3. pRunningPcb # NoProc => pRunningPcb' \in Proc /\ pRunningPcb' = pRunningPcb
      BY <2>1, <2>2
    <3>4. PICK x : x = pRunningPcb
      OBVIOUS
    <3>5. Unserved(pRunningPcb)' <=> Unserved(x)'
      BY <2>1, <3>4 DEF Unserved
    <3> QED
      BY <2>2, <3>2, <3>4, <3>5
  <2> QED
    BY <2>1, <2>3 DEF ClockZero
<1>4. CASE Dispatch
  <2>1. pRunningPcb = NoProc /\ quantumClock' \in {0, quantumClock}
    BY <1>4 DEF Dispatch, DispatchNeeded
  <2> QED
    BY <2>1 DEF ClockZero
<1>5. CASE PreemptRR \/ PreemptMLFQ
  <2>1. /\ phase' # "preempt" /\ quantumClock # 0 /\ schedulerAlgo' = schedulerAlgo
        /\ schedulerAlgo # "FCFS"
    BY <1>5 DEF PreemptRR, PreemptMLFQ, QuantumUp, Fault
  <2>2. pRunningPcb' # NoProc
    <3>1. PICK n \in Proc : Switches(pRunningPcb, n)
      BY <1>5, PreemptSwitches
    <3> QED
      BY <3>1, ProcAssumption DEF Switches
  <2> QED
    BY <2>1, <2>2 DEF ClockZero
<1>6. CASE AInstruction \/ \E code \in Swis : ATrap(code)
  <2>1. /\ pRunningPcb' = pRunningPcb /\ pRunningPcb # NoProc /\ phase' # "preempt"
        /\ schedulerAlgo' = schedulerAlgo /\ quantumClock' = ClockAfterInstruction
    BY <1>6 DEF AInstruction, Instruction, ATrap, Trap
  <2> QED
    BY <2>1 DEF ClockZero, ClockAfterInstruction
<1>7. CASE AHalt \/ Resume
  <2>1. /\ phase' # "preempt" /\ schedulerAlgo' = schedulerAlgo /\ quantumClock' = ClockReset
    BY <1>7 DEF AHalt, Halt, HaltTo, Resume
  <2> QED
    BY <2>1 DEF ClockZero, ClockReset
<1>8. CASE AArrive \/ ACallScheduler \/ AEndRun \/ AdmitNew \/ NoPreemption \/ AIdle
           \/ AIsrVFork \/ AIsrReturnSharedMemPtr \/ IsrPrint \/ IsrSemaphoreAquire
           \/ IsrSemaphoreRelease \/ IsrSemaphoreWait
  <2>1. /\ phase' # "preempt"
        /\ UNCHANGED <<pRunningPcb, quantumClock, schedulerAlgo>>
    BY <1>8 DEF AArrive, Arrive, ACallScheduler, CallScheduler, AEndRun, EndRun, AdmitNew,
       NoPreemption, Fault, AIdle, Idle, AIsrVFork, IsrVFork, AIsrReturnSharedMemPtr,
       IsrReturnSharedMemPtr, ReturnTo, IsrPrint, IsrSemaphoreAquire, IsrSemaphoreRelease,
       IsrSemaphoreWait
  <2> QED
    BY <2>1 DEF ClockZero
<1> QED
  BY <1>1, <1>2, <1>3, <1>4, <1>5, <1>6, <1>7, <1>8 DEF ANext, AKernelStep, AKernelOther

LEMMA LineStep ==
    ASSUME IInv, SInv, RInv, Level, FInv, [ANext]_aVars
    PROVE  Unreached' /\ Line' /\ FirstServedInOrder'
<1>1. Numbered /\ Unreached /\ Line /\ NewEmpty /\ ClockZero /\ FirstServedInOrder
  BY DEF FInv
<1>2. CASE AInstruction \/ AHalt \/ \E code \in Swis : ATrap(code)
  BY <1>2, ServeStep
<1>3. CASE ~(AInstruction \/ AHalt \/ \E code \in Swis : ATrap(code))
  <2>1. cpuTimeSlices' = cpuTimeSlices
    BY <1>3 DEF ANext, AShellStep, AKernelStep, AFaulted, ALoadProgram, AArrive, CreatePcb,
       AShellOther, AStartRun, ACallScheduler, AEndRun, AIdle, AIsrVFork, AIsrReturnSharedMemPtr,
       AKernelOther, aVars, recordVars, timeVars
  <2>2. FirstServedInOrder'
    BY <1>1, <2>1 DEF FirstServedInOrder
  <2>3. CASE ALoadProgram \/ AArrive \/ AIsrVFork
    BY <1>1, <2>2, <2>3, CreateLine
  <2>4. CASE AdmitNew /\ UNCHANGED recordVars
    BY <1>1, <2>2, <2>4, AdmitLine
  <2>5. CASE Dispatch
    BY <1>1, <2>2, <2>5, DispatchLine
  <2>6. CASE PreemptRR \/ PreemptMLFQ
    BY <1>1, <2>2, <2>6, PreemptLine
  <2>7. CASE /\ ~ALoadProgram /\ ~AArrive /\ ~AIsrVFork
             /\ ~(AdmitNew /\ UNCHANGED recordVars) /\ ~Dispatch /\ ~PreemptRR /\ ~PreemptMLFQ
    <3>1. \/ AShellOther \/ AStartRun \/ ACallScheduler \/ AEndRun \/ AIdle \/ AFaulted
          \/ UNCHANGED aVars \/ KeepRunning \/ NoPreemption \/ IsrPrint
          \/ AIsrReturnSharedMemPtr \/ IsrSemaphoreAquire \/ IsrSemaphoreWait
          \/ IsrSemaphoreRelease \/ Resume
      BY <1>3, <2>7 DEF ANext, AShellStep, AKernelStep, AKernelOther
    <3> QED
      BY <1>1, <2>2, <2>7, <3>1, OtherLine
  <2> QED
    BY <2>3, <2>4, <2>5, <2>6, <2>7
<1> QED
  BY <1>2, <1>3

LEMMA InitServed == ASSUME AInit PROVE OInv
<1>1. DInv /\ SInv /\ RInv
  BY InitDInv, InitRecords DEF AInit, AInv
<1>2. /\ pState = [p \in Proc |-> CREATED] /\ cpuTimeSlices = [p \in Proc |-> <<>>]
      /\ phase = "shell" /\ quantumClock = 0
  BY DEF AInit, Init
<1>3. FInv
  BY <1>2 DEF FInv, Numbered, Unreached, Line, NewEmpty, ClockZero, FirstServedInOrder, Unserved
<1> QED
  BY <1>1, <1>3 DEF OInv

LEMMA NextServed == ASSUME OInv, [ANext]_aVars PROVE OInv'
<1>1. DInv /\ IInv /\ Level /\ SInv /\ RInv /\ FInv
  BY DEF OInv, DInv
<1>2. DInv' /\ SInv' /\ RInv'
  BY <1>1, StepImplemented, StepDInv, NextPlaced, NextRecords
<1>3. Numbered' /\ NewEmpty' /\ ClockZero'
  BY <1>1, NumberedStep, NewEmptyStep, ClockZeroStep DEF FInv
<1> QED
  BY <1>1, <1>2, <1>3, LineStep DEF OInv, FInv

LEMMA ServedInvariance == ASpec => []OInv
BY InitServed, NextServed, PTL DEF ASpec

\* Under every algorithm processes execute their first instruction in the order of
\* their creation: no quantum ends before it, and nobody comes in front of them.
THEOREM FirstServedInOrderHolds == ASpec => []FirstServedInOrder
<1>1. OInv => FirstServedInOrder
  BY DEF OInv, FInv
<1> QED
  BY <1>1, ServedInvariance, PTL

----------------------------------------------------------------------------
(* The chart of a log.                                                     *)

NatLess == {ss \in Nat \X Nat : ss[1] < ss[2]}

LEMMA NatLessWF == IsWellFoundedOn(NatLess, Nat)
BY NatLessThanWellFounded DEF OpToRel, NatLess

LEMMA Least == ASSUME NEW S \in SUBSET Nat, S # {} PROVE \E n \in S : \A m \in S : n <= m
<1>1. \E x \in S : \A y \in S : <<y, x>> \notin NatLess
  BY NatLessWF, WFMin
<1>2. \A x, y \in S : <<y, x>> \notin NatLess => x <= y
  BY DEF NatLess
<1> QED
  BY <1>1, <1>2

LEMMA Induction ==
    ASSUME NEW S \in SUBSET Nat, 0 \in S, \A n \in S : n + 1 \in S
    PROVE  S = Nat
<1> SUFFICES ASSUME Nat \ S # {} PROVE FALSE
  OBVIOUS
<1>1. PICK n \in Nat \ S : \A m \in Nat \ S : n <= m
  BY Least
<1>2. n - 1 \in Nat
  BY <1>1
<1>3. n - 1 \in S
  BY <1>1, <1>2
<1> QED
  BY <1>1, <1>2, <1>3

LEMMA MinOf ==
    ASSUME NEW S \in SUBSET Nat, S # {}
    PROVE  Min(S) \in S /\ \A m \in S : Min(S) <= m
BY Least DEF Min

LEMMA MaxOf ==
    ASSUME NEW S \in SUBSET Nat, NEW top \in Nat, S # {}, \A m \in S : m <= top
    PROVE  Max(S) \in S /\ \A m \in S : m <= Max(S)
<1> DEFINE T == {top - m : m \in S}
<1>1. \A m \in S : m \in Nat /\ top - m \in Nat /\ top - m \in T
  OBVIOUS
<1>2. T \in SUBSET Nat /\ T # {}
  BY <1>1
<1>3. PICK n \in T : \A k \in T : n <= k
  <2> HIDE DEF T
  <2> QED
    BY <1>2, Least
<1>4. PICK x \in S : n = top - x
  OBVIOUS
<1>5. ASSUME NEW y \in S PROVE y <= x
  <2>1. n <= top - y /\ y \in Nat /\ x \in Nat
    BY <1>1, <1>3
  <2> QED
    BY <1>4, <2>1
<1>6. \A y \in S : x >= y /\ y \in Nat /\ x \in Nat
  BY <1>5
<1> QED
  BY <1>4, <1>6 DEF Max

\* The slices of a process are later than its arrival, and the last is the latest.
Rising(p) ==
    \A i \in DOMAIN cpuTimeSlices[p] :
        pArrivalTime[p] < cpuTimeSlices[p][i] /\ cpuTimeSlices[p][i] <= LastSlice(p)
ChartLaws == RInv /\ \A p \in Proc : Rising(p)
Chartable(log) == log \subseteq Proc /\ log # {} /\ \A p \in log : cpuTimeSlices[p] # <<>>

LEMMA Entries ==
    ASSUME ChartLaws, NEW log, Chartable(log), NEW e \in GanntChart(log)
    PROVE  /\ e[1] \in log /\ e[2] \in DOMAIN cpuTimeSlices[e[1]] /\ e = <<e[1], e[2]>>
           /\ Column(e) \in Nat /\ Column(e) <= clock
           /\ pArrivalTime[e[1]] < Column(e) /\ Column(e) <= LastSlice(e[1])
<1>1. PICK p \in log : e \in {p} \X DOMAIN cpuTimeSlices[p]
  BY DEF GanntChart
<1>2. p \in Proc /\ cpuTimeSlices[p] \in Seq(Nat) /\ e[1] = p /\ e[2] \in DOMAIN cpuTimeSlices[p]
  BY <1>1 DEF Chartable, ChartLaws, RInv, RecordType
<1>3. cpuTimeSlices[p][e[2]] \in Nat /\ cpuTimeSlices[p][e[2]] <= clock
  BY <1>2 DEF ChartLaws, RInv, NoFuture
<1> QED
  BY <1>1, <1>2, <1>3 DEF ChartLaws, Rising, Column

LEMMA OneEntry ==
    ASSUME ChartLaws, NEW log, Chartable(log), NEW e \in GanntChart(log), NEW f \in GanntChart(log),
           Column(e) = Column(f)
    PROVE  e = f
<1>1. e[1] \in Proc /\ f[1] \in Proc
  BY Entries DEF Chartable
<1>2. e[1] = f[1] /\ e[2] = f[2]
  BY <1>1, Entries DEF ChartLaws, RInv, OneAtATime, Column
<1> QED
  BY <1>2, Entries

LEMMA ChartFinite ==
    ASSUME ChartLaws, NEW log, Chartable(log)
    PROVE  IsFiniteSet(GanntChart(log)) /\ Cardinality(GanntChart(log)) \in Nat
<1> DEFINE f == [e \in GanntChart(log) |-> Column(e)]
<1>1. clock \in Nat
  BY DEF ChartLaws, RInv, RecordType
<1>2. f \in [GanntChart(log) -> 0..clock]
  BY <1>1, Entries
<1>3. \A e, g \in GanntChart(log) : f[e] = f[g] => e = g
  BY OneEntry
<1>4. f \in Injection(GanntChart(log), 0..clock)
  BY <1>2, <1>3 DEF Injection, IsInjective
<1> QED
  BY <1>1, <1>4, FS_Interval, FS_Injection, FS_CardinalityType

Until(log, i) == {e \in GanntChart(log) : Column(e) < i}
At(log, i) == \E e \in GanntChart(log) : Column(e) = i

LEMMA UntilFinite ==
    ASSUME ChartLaws, NEW log, Chartable(log), NEW i \in Int
    PROVE  /\ IsFiniteSet(Until(log, i)) /\ Before(log, i) = Cardinality(Until(log, i))
           /\ Before(log, i) \in Nat
<1>1. Until(log, i) \subseteq GanntChart(log)
  BY DEF Until
<1>2. IsFiniteSet(Until(log, i))
  BY <1>1, ChartFinite, FS_Subset
<1> QED
  BY <1>2, FS_CardinalityType DEF Until, Before

\* No column has two entries.
LEMMA BeforeNext ==
    ASSUME ChartLaws, NEW log, Chartable(log), NEW i \in Int
    PROVE  Before(log, i + 1) = IF At(log, i) THEN Before(log, i) + 1 ELSE Before(log, i)
<1>1. CASE At(log, i)
  <2>1. PICK e \in GanntChart(log) : Column(e) = i
    BY <1>1 DEF At
  <2>2. \A f \in GanntChart(log) : Column(f) \in Int /\ (Column(f) = i => f = e)
    BY <2>1, Entries, OneEntry
  <2>3. Until(log, i + 1) = Until(log, i) \cup {e} /\ e \notin Until(log, i)
    BY <2>1, <2>2 DEF Until
  <2>4. Cardinality(Until(log, i) \cup {e}) = Cardinality(Until(log, i)) + 1
    BY <2>3, UntilFinite, FS_AddElement
  <2>5. i + 1 \in Int
    OBVIOUS
  <2> QED
    BY <1>1, <2>3, <2>4, <2>5, UntilFinite
<1>2. CASE ~At(log, i)
  <2>1. \A f \in GanntChart(log) : Column(f) \in Int /\ Column(f) # i
    BY <1>2, Entries DEF At
  <2>2. Until(log, i + 1) = Until(log, i)
    BY <2>1 DEF Until
  <2>3. i + 1 \in Int
    OBVIOUS
  <2> QED
    BY <1>2, <2>2, <2>3, UntilFinite
<1> QED
  BY <1>1, <1>2

LEMMA Bounds ==
    ASSUME ChartLaws, NEW log, Chartable(log)
    PROVE  /\ Charted(log) = log
           /\ GlobalStart(log) \in Nat /\ GlobalEnd(log) \in Nat /\ GlobalStart(log) <= GlobalEnd(log)
           /\ \A e \in GanntChart(log) : GlobalStart(log) < Column(e) /\ Column(e) <= GlobalEnd(log)
           /\ At(log, GlobalEnd(log))
<1> DEFINE S == {pArrivalTime[p] : p \in log}
           T == {LastSlice(p) : p \in log}
<1>1. Charted(log) = log
  BY DEF Charted, Chartable
<1>2. clock \in Nat /\ S \in SUBSET Nat /\ S # {}
  BY DEF Chartable, ChartLaws, RInv, RecordType
<1>3. T \in SUBSET Nat /\ T # {} /\ \A m \in T : m <= clock
  BY LastSliceRange DEF Chartable, ChartLaws
<1>4. GlobalStart(log) \in S /\ \A m \in S : GlobalStart(log) <= m
  BY <1>1, <1>2, MinOf DEF GlobalStart
<1>5. GlobalEnd(log) \in T /\ \A m \in T : m <= GlobalEnd(log)
  <2>1. Max(T) \in T /\ \A m \in T : m <= Max(T)
    <3> HIDE DEF T
    <3> QED
      BY <1>2, <1>3, MaxOf
  <2> QED
    BY <1>1, <2>1 DEF GlobalEnd
<1>6. ASSUME NEW e \in GanntChart(log)
      PROVE  GlobalStart(log) < Column(e) /\ Column(e) <= GlobalEnd(log)
  <2>1. /\ e[1] \in log /\ Column(e) \in Nat
        /\ pArrivalTime[e[1]] < Column(e) /\ Column(e) <= LastSlice(e[1])
    BY Entries
  <2>2. GlobalStart(log) <= pArrivalTime[e[1]] /\ pArrivalTime[e[1]] \in Nat
    BY <1>2, <1>4, <2>1
  <2>3. LastSlice(e[1]) <= GlobalEnd(log) /\ LastSlice(e[1]) \in Nat
    BY <1>3, <1>5, <2>1
  <2> QED
    BY <1>2, <1>3, <1>4, <1>5, <2>1, <2>2, <2>3
<1>7. At(log, GlobalEnd(log))
  <2>1. PICK p \in log : GlobalEnd(log) = LastSlice(p)
    BY <1>5
  <2>2. cpuTimeSlices[p] \in Seq(Nat) /\ cpuTimeSlices[p] # <<>>
    BY DEF Chartable, ChartLaws, RInv, RecordType
  <2>3. PICK n : n = Len(cpuTimeSlices[p])
    OBVIOUS
  <2>4. n \in DOMAIN cpuTimeSlices[p] /\ LastSlice(p) = cpuTimeSlices[p][n]
    BY <2>2, <2>3, EmptySeq DEF LastSlice, Last
  <2>5. <<p, n>> \in GanntChart(log) /\ Column(<<p, n>>) = LastSlice(p)
    BY <2>4 DEF GanntChart, Column
  <2> QED
    BY <2>1, <2>5 DEF At
<1>8. GlobalStart(log) <= GlobalEnd(log)
  BY <1>2, <1>3, <1>4, <1>5, <1>6, <1>7 DEF At
<1> QED
  BY <1>1, <1>2, <1>3, <1>4, <1>5, <1>6, <1>7, <1>8

LEMMA BeforeBounds ==
    ASSUME ChartLaws, NEW log, Chartable(log)
    PROVE  /\ Before(log, GlobalStart(log)) = 0
           /\ Before(log, GlobalEnd(log) + 1) = Cardinality(GanntChart(log))
           /\ \A i \in GlobalStart(log)..GlobalEnd(log) :
                Before(log, i) < Cardinality(GanntChart(log))
<1> DEFINE first == GlobalStart(log)
           end == GlobalEnd(log)
<1>1. /\ first \in Nat /\ end \in Nat /\ first <= end /\ At(log, end)
      /\ \A e \in GanntChart(log) : Column(e) \in Nat /\ first < Column(e) /\ Column(e) <= end
  BY Bounds, Entries
<1> HIDE DEF first, end
<1>2. Until(log, first) = {} /\ Until(log, end + 1) = GanntChart(log)
  BY <1>1 DEF Until
<1>3. Before(log, first) = 0 /\ Before(log, end + 1) = Cardinality(GanntChart(log))
  BY <1>1, <1>2, UntilFinite, FS_EmptySet
<1>4. ASSUME NEW i \in first..end PROVE Before(log, i) < Cardinality(GanntChart(log))
  <2>1. PICK e \in GanntChart(log) : Column(e) = end
    BY <1>1 DEF At
  <2>2. Until(log, i) \in SUBSET GanntChart(log) /\ e \notin Until(log, i) /\ i \in Int
    BY <1>1, <2>1 DEF Until
  <2>3. /\ Cardinality(Until(log, i)) <= Cardinality(GanntChart(log))
        /\ Cardinality(Until(log, i)) # Cardinality(GanntChart(log))
    BY <2>2, ChartFinite, FS_Subset
  <2> QED
    BY <2>2, <2>3, ChartFinite, UntilFinite
<1> QED
  BY <1>3, <1>4 DEF first, end

\* The equation of the walk.
Walked(log, f, i) ==
    IF i < GlobalStart(log) THEN 0
    ELSE IF Before(log, i) <= f[i - 1] /\ f[i - 1] < Before(log, i + 1) THEN f[i - 1] + 1 ELSE f[i - 1]
Walks(log, f) == f = [i \in GlobalStart(log) - 1..GlobalEnd(log) |-> Walked(log, f, i)]

LEMMA PrintedWalks == ASSUME NEW log PROVE Printed(log) = CHOOSE f : Walks(log, f)
BY DEF Printed, Walks, Walked

LEMMA WalkStep ==
    ASSUME ChartLaws, NEW log, Chartable(log), NEW i \in Int, i >= GlobalStart(log),
           NEW f, f[i - 1] = Before(log, i)
    PROVE  Walked(log, f, i) = Before(log, i + 1)
<1>1. GlobalStart(log) \in Nat /\ Before(log, i) \in Nat
  BY Bounds, UntilFinite
<1>2. Before(log, i + 1) = IF At(log, i) THEN Before(log, i) + 1 ELSE Before(log, i)
  BY BeforeNext
<1> QED
  BY <1>1, <1>2 DEF Walked

LEMMA WalkExists == ASSUME ChartLaws, NEW log, Chartable(log) PROVE \E f : Walks(log, f)
<1> DEFINE first == GlobalStart(log)
           end == GlobalEnd(log)
           f == [i \in first - 1..end |-> Before(log, i + 1)]
<1>1. first \in Nat /\ end \in Nat /\ Before(log, first) = 0
  BY Bounds, BeforeBounds
<1>2. \A i \in first - 1..end : f[i] = Before(log, i + 1)
  OBVIOUS
<1>3. f = [i \in first - 1..end |-> f[i]]
  OBVIOUS
<1> HIDE DEF f
<1>4. ASSUME NEW i \in first - 1..end PROVE Walked(log, f, i) = f[i]
  <2>1. CASE i < first
    BY <1>1, <1>2, <2>1, i + 1 = first DEF Walked
  <2>2. CASE i >= first
    <3>1. i - 1 \in first - 1..end /\ (i - 1) + 1 = i /\ i \in Int
      BY <1>1, <2>2
    <3>2. f[i - 1] = Before(log, i)
      BY <1>2, <3>1
    <3> QED
      BY <1>2, <2>2, <3>1, <3>2, WalkStep
  <2> QED
    BY <1>1, <2>1, <2>2
<1>5. Walks(log, f)
  BY <1>3, <1>4 DEF Walks
<1> QED
  BY <1>5

LEMMA WalkCounts ==
    ASSUME ChartLaws, NEW log, Chartable(log), NEW f, Walks(log, f)
    PROVE  \A i \in GlobalStart(log) - 1..GlobalEnd(log) : f[i] = Before(log, i + 1)
<1> DEFINE first == GlobalStart(log)
           end == GlobalEnd(log)
           S == {k \in Nat : first - 1 + k <= end => f[first - 1 + k] = Before(log, first + k)}
<1>1. first \in Nat /\ end \in Nat /\ first <= end /\ Before(log, first) = 0
  BY Bounds, BeforeBounds
<1>2. \A i \in first - 1..end : f[i] = Walked(log, f, i)
  BY Zenon DEF Walks
<1>3. 0 \in S
  <2>1. f[first - 1] = Walked(log, f, first - 1)
    BY <1>1, <1>2
  <2>2. Walked(log, f, first - 1) = 0
    BY <1>1 DEF Walked
  <2> QED
    BY <1>1, <2>1, <2>2
<1>4. ASSUME NEW k \in S PROVE k + 1 \in S
  <2> SUFFICES ASSUME first - 1 + (k + 1) <= end
               PROVE  f[first - 1 + (k + 1)] = Before(log, first + (k + 1))
    OBVIOUS
  <2>1. PICK i \in Int : i = first + k
    BY <1>1
  <2>2. /\ first - 1 + k = i - 1 /\ first - 1 + (k + 1) = i /\ first + (k + 1) = i + 1
        /\ i >= first /\ i \in first - 1..end /\ i - 1 <= end
    BY <1>1, <2>1
  <2>3. f[i - 1] = Before(log, i)
    BY <2>1, <2>2
  <2>4. Walked(log, f, i) = Before(log, i + 1)
    BY <2>2, <2>3, WalkStep
  <2> QED
    BY <1>2, <2>2, <2>4
<1>5. S = Nat
  <2> HIDE DEF S
  <2> QED
    BY <1>3, <1>4, Induction DEF S
<1>6. ASSUME NEW i \in first - 1..end PROVE f[i] = Before(log, i + 1)
  <2>1. PICK k \in Nat : k = i - (first - 1)
    BY <1>1
  <2>2. k \in S
    <3> HIDE DEF S
    <3> QED
      BY <1>5
  <2>3. first - 1 + k = i /\ first + k = i + 1
    BY <1>1, <2>1
  <2> QED
    BY <1>1, <2>2, <2>3
<1> QED
  BY <1>6

LEMMA ChartWalked ==
    ASSUME ChartLaws, NEW log, Chartable(log)
    PROVE  LET total == Cardinality(GanntChart(log))
               printed == Printed(log)
           IN /\ log = Charted(log)
              /\ printed[GlobalEnd(log)] = total
              /\ \A i \in GlobalStart(log)..GlobalEnd(log) : printed[i - 1] < total
<1> DEFINE first == GlobalStart(log)
           end == GlobalEnd(log)
<1>1. Walks(log, Printed(log))
  BY PrintedWalks, WalkExists
<1>2. first \in Nat /\ end \in Nat /\ first <= end /\ Charted(log) = log
  BY Bounds
<1>3. \A i \in first - 1..end : Printed(log)[i] = Before(log, i + 1)
  BY <1>1, WalkCounts
<1>4. Printed(log)[end] = Cardinality(GanntChart(log))
  BY <1>2, <1>3, BeforeBounds
<1>5. ASSUME NEW i \in first..end PROVE Printed(log)[i - 1] < Cardinality(GanntChart(log))
  <2>1. i - 1 \in first - 1..end /\ (i - 1) + 1 = i
    BY <1>2
  <2>2. Printed(log)[i - 1] = Before(log, i)
    BY <1>3, <2>1
  <2> QED
    BY <2>2, BeforeBounds
<1> QED
  BY <1>2, <1>4, <1>5

----------------------------------------------------------------------------
(* The logs have charts.                                                   *)

ChartInv ==
    /\ \A p \in Proc : Rising(p)
    /\ \A k \in DOMAIN cpuLogs : cpuLogs[k] # {}
CInv == OInv /\ LInv /\ ChartInv

\* What is logged was served: nobody else leaves newQueue and the highest ready queue.
LEMMA LoggedServed ==
    ASSUME OInv, NEW p \in logged PROVE p \in Proc /\ cpuTimeSlices[p] # <<>>
<1>1. IInv /\ Unreached
  BY DEF OInv, DInv, FInv
<1>2. p \in Proc /\ p # pRunningPcb /\ pState[p] # CREATED /\ ~InQueue(queue, p)
  BY <1>1 DEF IInv, TypeOK, Exclusive, FreshUnplaced
<1>3. ~In(queue, p, "newQueue") /\ ~In(queue, p, "readyQueue0")
  BY <1>2, QueueNames DEF InQueue, ReadyIds
<1> QED
  BY <1>1, <1>2, <1>3 DEF Unreached, Unserved

\* A step takes one slice or none.
LEMMA SliceStep ==
    ASSUME IInv, RInv, [ANext]_aVars, cpuTimeSlices' # cpuTimeSlices
    PROVE  /\ pRunningPcb \in Proc /\ clock' \in Nat /\ clock' > clock
           /\ CaptureTimeSlice(pRunningPcb, clock') /\ pArrivalTime' = pArrivalTime
<1>1. AInstruction \/ AHalt \/ \E code \in Swis : ATrap(code)
  BY DEF ANext, AShellStep, AKernelStep, AFaulted, ALoadProgram, AArrive, CreatePcb,
     AShellOther, AStartRun, ACallScheduler, AEndRun, AIdle, AIsrVFork, AIsrReturnSharedMemPtr,
     AKernelOther, aVars, recordVars, timeVars
<1>2. pRunningPcb \in Proc /\ clock' \in {clock + 1, clock + 2}
  BY <1>1, ProcAssumption DEF AInstruction, Instruction, AHalt, Halt, HaltTo, ATrap, Trap, Ticks,
       IInv, TypeOK
<1>3. CaptureTimeSlice(pRunningPcb, clock') /\ pArrivalTime' = pArrivalTime
  BY <1>1 DEF AInstruction, AHalt, ATrap
<1> QED
  BY <1>2, <1>3 DEF RInv, RecordType

LEMMA RisingStep ==
    ASSUME IInv, RInv, RInv', \A p \in Proc : Rising(p), [ANext]_aVars, NEW x \in Proc
    PROVE  Rising(x)'
<1>1. CASE cpuTimeSlices' = cpuTimeSlices
  <2>1. CASE pState'[x] = CREATED
    <3>1. cpuTimeSlices'[x] = <<>>
      BY <2>1 DEF RInv, Unstarted
    <3> QED
      BY <3>1 DEF Rising
  <2>2. CASE pState[x] = CREATED
    <3>1. cpuTimeSlices'[x] = <<>>
      BY <1>1, <2>2 DEF RInv, Unstarted
    <3> QED
      BY <3>1 DEF Rising
  <2>3. CASE pState[x] # CREATED /\ pState'[x] # CREATED
    <3>1. pArrivalTime'[x] = pArrivalTime[x]
      BY <2>3, ArrivesNow
    <3> QED
      BY <1>1, <3>1 DEF Rising, LastSlice
  <2> QED
    BY <2>1, <2>2, <2>3
<1>2. CASE cpuTimeSlices' # cpuTimeSlices
  <2>1. PICK p \in Proc : p = pRunningPcb
    BY <1>2, SliceStep
  <2>2. PICK now \in Nat : now = clock'
    BY <1>2, SliceStep
  <2>3. /\ now > clock /\ CaptureTimeSlice(p, now) /\ clock' = now
        /\ pArrivalTime' = pArrivalTime
    BY <1>2, <2>1, <2>2, SliceStep
  <2>4. DOMAIN pTerminationTime' = Proc /\ DOMAIN response' = Proc /\ DOMAIN turnAround' = Proc
    BY DEF RInv, RecordType
  <2>5. /\ LastSlice(p)' = now
        /\ \A y \in Proc \ {p} : /\ cpuTimeSlices'[y] = cpuTimeSlices[y]
                                  /\ LastSlice(y)' = LastSlice(y)
    BY <2>3, <2>4, Captures
  <2>6. CASE x # p
    BY <2>3, <2>5, <2>6 DEF Rising
  <2>7. CASE x = p
    <3>1. PICK s \in Seq(Nat) : s = cpuTimeSlices[p]
      BY DEF RInv, RecordType
    <3>2. cpuTimeSlices'[p] = Append(s, now)
      BY <2>3, <3>1 DEF CaptureTimeSlice, RInv, RecordType
    <3>3. \A i \in DOMAIN Append(s, now) :
            Append(s, now)[i] = now \/ (i \in DOMAIN s /\ Append(s, now)[i] = s[i])
      OBVIOUS
    <3>4. /\ \A i \in DOMAIN s : pArrivalTime[p] < s[i] /\ s[i] <= clock /\ s[i] \in Nat
          /\ pArrivalTime[p] <= clock /\ clock \in Nat /\ pArrivalTime[p] \in Nat
      <4>1. \A i \in DOMAIN cpuTimeSlices[p] : cpuTimeSlices[p][i] <= clock
        BY DEF RInv, NoFuture
      <4>2. \A i \in DOMAIN cpuTimeSlices[p] : pArrivalTime[p] < cpuTimeSlices[p][i]
        BY DEF Rising
      <4>3. pArrivalTime[p] <= clock /\ clock \in Nat /\ pArrivalTime[p] \in Nat
        BY DEF RInv, NoFuture, RecordType
      <4> QED
        BY <3>1, <4>1, <4>2, <4>3
    <3>5. \A i \in DOMAIN Append(s, now) :
            pArrivalTime[p] < Append(s, now)[i] /\ Append(s, now)[i] <= now
      BY <2>3, <3>3, <3>4
    <3>6. \A i \in DOMAIN cpuTimeSlices'[x] :
            pArrivalTime[x] < cpuTimeSlices'[x][i] /\ cpuTimeSlices'[x][i] <= now
      BY <2>7, <3>2, <3>5
    <3> QED
      BY <2>3, <2>5, <2>7, <3>6 DEF Rising
  <2> QED
    BY <2>6, <2>7
<1> QED
  BY <1>1, <1>2

LEMMA NextCharts == ASSUME CInv, [ANext]_aVars PROVE CInv'
<1>1. IInv /\ RInv /\ OInv' /\ LInv' /\ RInv'
  BY NextServed, NextLogs DEF CInv, OInv, DInv
<1>2. \A p \in Proc : Rising(p)'
  BY <1>1, RisingStep DEF CInv, ChartInv
<1>3. ASSUME NEW k \in DOMAIN cpuLogs' PROVE cpuLogs'[k] # {}
  <2>1. CASE cpuLogs' = cpuLogs
    BY <1>3, <2>1 DEF CInv, ChartInv
  <2>2. CASE cpuLogs' # cpuLogs
    <3>1. AEndRun /\ queue["terminatedQueue"] # <<>>
      BY <2>2 DEF ANext, AShellStep, ALoadProgram, AStartRun, AShellOther, AKernelStep, AArrive,
         ACallScheduler, AEndRun, AIdle, AInstruction, AHalt, ATrap, AIsrVFork,
         AIsrReturnSharedMemPtr, AKernelOther, AFaulted, aVars, recordVars
    <3>2. PICK new : new = ToSet(queue["terminatedQueue"])
      OBVIOUS
    <3>3. queue["terminatedQueue"] \in Seq(Proc)
      BY <1>1, QueuesFromInv, QueueNames DEF Queues
    <3>4. PICK t \in Seq(Proc) : t = queue["terminatedQueue"]
      BY <3>3
    <3>5. t[1] \in new
      BY <3>1, <3>2, <3>4, 1 \in DOMAIN t DEF ToSet
    <3>6. cpuLogs' = Append(cpuLogs, new) /\ cpuLogs \in Seq(SUBSET Proc) /\ new \in SUBSET Proc
      BY <3>1, <3>2, <3>4 DEF AEndRun, CInv, LInv, LogInv, ToSet
    <3>7. cpuLogs'[k] = new \/ (k \in DOMAIN cpuLogs /\ cpuLogs'[k] = cpuLogs[k])
      BY <1>3, <3>6
    <3> QED
      BY <3>5, <3>7 DEF CInv, ChartInv
  <2> QED
    BY <2>1, <2>2
<1> QED
  BY <1>1, <1>2, <1>3 DEF CInv, ChartInv

LEMMA InitCharts == ASSUME AInit PROVE CInv
<1>1. cpuLogs = <<>> /\ cpuTimeSlices = [p \in Proc |-> <<>>]
  BY DEF AInit
<1>2. \A p \in Proc : Rising(p)
  BY <1>1 DEF Rising
<1> QED
  BY <1>1, <1>2, InitServed, InitLogs DEF CInv, ChartInv

LEMMA ChartedLogs ==
    ASSUME CInv, NEW k \in DOMAIN cpuLogs
    PROVE  ChartLaws /\ Chartable(cpuLogs[k])
<1>1. ChartLaws
  BY DEF CInv, OInv, ChartInv, ChartLaws
<1>2. cpuLogs[k] \subseteq logged /\ cpuLogs[k] # {}
  BY DEF CInv, LInv, LogInv, ChartInv
<1> QED
  BY <1>1, <1>2, LoggedServed DEF CInv, Chartable

\* The chart of every log is printed to its last entry and not beyond, and every
\* process of a log is on it: the walk of printLogGannt (errorhandler.cpp:309) with one
\* iterator finds an entry in no column twice, and no process ends without a slice.
THEOREM ChartCompleteHolds == ASpec => []ChartComplete
<1>1. CInv => ChartComplete
  BY ChartedLogs, ChartWalked DEF ChartComplete
<1>2. AInit => CInv
  BY InitCharts
<1>3. CInv /\ [ANext]_aVars => CInv'
  BY NextCharts
<1> QED
  BY <1>1, <1>2, <1>3, PTL DEF ASpec
====
