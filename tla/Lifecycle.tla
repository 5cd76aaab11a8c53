----------------------------- MODULE Lifecycle -----------------------------
(***************************************************************************)
(* What the kernel promises each process, without its queues, priorities,  *)
(* quanta and registers: the life of a process from its creation to the    *)
(* process log, and the waiters of each semaphore in order of arrival.     *)
(*                                                                         *)
(* Module Scheduler implements this specification (its definition          *)
(* ImplementsLifecycle); every move below is one the code makes with a     *)
(* popQueue, a queuePcb or a change of pRunningPcb.                        *)
(***************************************************************************)
EXTENDS Sequences

CONSTANTS Proc, Sem

VARIABLES
    life,     \* the stage each process has reached
    waiters   \* the processes blocked on each semaphore, the first one first

lifeVars == <<life, waiters>>

Stages == {"none", "new", "ready", "running", "interrupted", "blocked", "terminated", "logged"}

\* No process owns the CPU, and no interrupt is being served.
CpuFree == \A p \in Proc : life[p] \notin {"running", "interrupted"}

Move(p, from, to) ==
    /\ life[p] = from
    /\ life' = [life EXCEPT ![p] = to]

Init ==
    /\ life = [p \in Proc |-> "none"]
    /\ waiters = [s \in Sem |-> <<>>]

----------------------------------------------------------------------------
Create(p) == Move(p, "none", "new") /\ UNCHANGED waiters

Admit(p) == Move(p, "new", "ready") /\ UNCHANGED waiters

Dispatch(p) == CpuFree /\ Move(p, "ready", "running") /\ UNCHANGED waiters

\* One step takes the CPU from p and gives it to another ready process.
Preempt(p, q) ==
    /\ life[p] = "running" /\ life[q] = "ready"
    /\ life' = [life EXCEPT ![p] = "ready", ![q] = "running"]
    /\ UNCHANGED waiters

Interrupt(p) == Move(p, "running", "interrupted") /\ UNCHANGED waiters

Return(p) == Move(p, "interrupted", "ready") /\ UNCHANGED waiters

\* A child needs no admission: it is ready before its parent returns.
Fork(p, child) ==
    /\ life[p] = "interrupted"
    /\ Move(child, "none", "ready")
    /\ UNCHANGED waiters

Block(p, s) ==
    /\ Move(p, "interrupted", "blocked")
    /\ waiters' = [waiters EXCEPT ![s] = Append(@, p)]

\* Only a process that runs can wake another, and it wakes the first waiter.
Wake(p, s) ==
    /\ life[p] = "interrupted"
    /\ waiters[s] # <<>>
    /\ Move(Head(waiters[s]), "blocked", "ready")
    /\ waiters' = [waiters EXCEPT ![s] = Tail(@)]

Terminate(p) ==
    /\ life[p] \in {"running", "interrupted"}
    /\ life' = [life EXCEPT ![p] = "terminated"]
    /\ UNCHANGED waiters

\* The run is over: nothing can execute any more, and everything that ended in it
\* goes to the log at once.
Log ==
    /\ \A p \in Proc : life[p] \in {"none", "blocked", "terminated", "logged"}
    /\ life' = [p \in Proc |-> IF life[p] = "terminated" THEN "logged" ELSE life[p]]
    /\ UNCHANGED waiters

Next ==
    \/ Log
    \/ \E p \in Proc :
         \/ Create(p) \/ Admit(p) \/ Dispatch(p) \/ Interrupt(p) \/ Return(p) \/ Terminate(p)
         \/ \E q \in Proc : Preempt(p, q) \/ Fork(p, q)
         \/ \E s \in Sem : Block(p, s) \/ Wake(p, s)

Spec == Init /\ [][Next]_lifeVars
=============================================================================
