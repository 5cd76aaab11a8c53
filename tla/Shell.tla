------------------------------- MODULE Shell -------------------------------
(***************************************************************************)
(* The command line of the simulator (src/src/shell/shell.cpp) and the     *)
(* kernel functions its commands call (src/src/kernel/kernel.cpp): how a   *)
(* line is read, which arguments are refused, what reaches the kernel, and *)
(* what is answered when a part of a command fails.                        *)
(*                                                                         *)
(* A line is a sequence of tokens.  Stoi gives the tokens std::stoi reads  *)
(* a number from: the numerals, and also names that begin with a digit     *)
(* ("1.osx" is read as 1); Overflow marks a number outside int, for which  *)
(* stoi throws what no handler catches.                                    *)
(* Which programs load, block and end, and what a stale process table does *)
(* to a lookup, is the other modules' business: here it is a choice.       *)
(***************************************************************************)
EXTENDS Integers, Sequences, FiniteSets

CONSTANTS
    Program,    \* the names a load can find, in the order the test command uses them
    Stoi,       \* token -> the number stoi returns, or Overflow
    Overflow,
    Numeral,    \* the tokens a user would call a number
    Lines,      \* the lines users type
    MaxLogs     \* bound: process logs counted

ASSUME ProgramAssumption == Program \in Seq(STRING) /\ Len(Program) >= 2
ASSUME LogsAssumption == MaxLogs \in Nat
ASSUME LinesAssumption == Lines \subseteq Seq(STRING)
ASSUME StoiAssumption ==
    Numeral \subseteq DOMAIN Stoi /\ \A t \in DOMAIN Stoi : Stoi[t] # Overflow => Stoi[t] \in Int

VARIABLES
    status,        \* "prompt", "replied" (a command has returned), "exited" or "aborted"
    script,        \* the lines the test command still has to run
    verbosityFlag, \* the flag each object keeps
    schedulerAlgo, schedulerQuantum, mlfqRatio,
    loaded,        \* the names getPcb finds
    cpuLogs,       \* length of the list of process logs, at most MaxLogs
    errorList,     \* whether it holds an error
    line,          \* the last line run
    argMap,        \* the programs and times it handed to kernelExecuteProgram, as inserted
                   \* (the multimap sorts them by time and keeps this order within one),
    reply,         \* what the shell said of it,
    failed,        \* how many kernel operations of it failed,
    recorded       \* and how many errors they pushed on errorList

scheduling == <<schedulerAlgo, schedulerQuantum, mlfqRatio>>
kernel == <<scheduling, loaded, cpuLogs>>
vars == <<status, script, verbosityFlag, kernel, errorList, line, argMap, reply, failed,
          recorded>>

Components == {"shell", "kernel", "scheduler", "errorHandler", "loader", "machine"}
Algos == {"fcfs", "rr", "mlfq"}
Names == {Program[i] : i \in DOMAIN Program}

\* stoi does not throw invalid_argument.
IsNumber(t) == t \in DOMAIN Stoi

----------------------------------------------------------------------------
(* Lines and answers.  A definition whose name ends in M is a faulty        *)
(* variant, as in module Scheduler.                                         *)

Commands == {"run", "load", "exit", "help", "clear", "cdmp", "edmp", "mdmp", "exec", "gant",
             "-v", "test", "sets", "wout", "oshm", "insm"}
LinesOf == [c \in Commands |-> {l \in Lines : l # <<>> /\ l[1] = c}]

\* The lines of one command that can come next: the script's, or any.
Typed(c) == IF script = <<>> THEN LinesOf[c]
            ELSE IF Head(script)[1] = c THEN {Head(script)} ELSE {}

Args(l) == Tail(l)

\* The command returns: what was said, how many operations failed, errors recorded.
Answer(l, said, failures, errors) ==
    /\ status' = "replied"
    /\ line' = l /\ reply' = said /\ failed' = failures /\ recorded' = errors
    /\ errorList' = (errorList \/ errors > 0)

NextInScript == script' = IF script = <<>> THEN <<>> ELSE Tail(script)

Done(l, said) ==
    /\ Answer(l, said, 0, 0) /\ NextInScript
    /\ UNCHANGED <<verbosityFlag, kernel, argMap>>
Refuse(l) == Done(l, "usage")

\* An exception no handler catches, or a read outside a vector.
Abort(l) ==
    /\ status' = "aborted" /\ line' = l
    /\ UNCHANGED <<script, verbosityFlag, kernel, errorList, argMap, reply, failed, recorded>>

----------------------------------------------------------------------------
(* The kernel behind the commands. *)

\* run and exec: each process ends or stays blocked, and what ended is logged (a
\* forked child may end and leave its name to its parent); with nothing loaded
\* nothing runs.
OneMoreLog == IF cpuLogs = MaxLogs THEN cpuLogs ELSE cpuLogs + 1
RunPrograms(names) ==
    /\ loaded' \in SUBSET names
    /\ cpuLogs' \in IF names = {} THEN {cpuLogs}
                    ELSE IF loaded' # names THEN {OneMoreLog} ELSE {cpuLogs, OneMoreLog}

\* kernelLoadProgram of each name in turn: a failed load does not stop the rest.
Loads(names) ==
    {ok \in [DOMAIN names -> BOOLEAN] : \A i \in DOMAIN names : ok[i] => names[i] \in Names}
Failures(ok) == Cardinality({i \in DOMAIN ok : ~ok[i]})
AddedBy(names, ok) == {names[i] : i \in {j \in DOMAIN names : ok[j]}}
Verdict(failures) == IF failures = 0 THEN "ok" ELSE "failed"

\* setVerbosityFlag passes the change on to each component.
Toggled == [c \in Components |-> ~verbosityFlag[c]]

----------------------------------------------------------------------------
\* Each object starts with FALSE, but for the error handler: its flag has no
\* initialiser, and Kernel is a local object of main, so it may be either.
InitialFlags ==
    {f \in [Components -> BOOLEAN] : \A c \in Components \ {"errorHandler"} : f[c] = FALSE}

Init ==
    /\ status = "prompt" /\ script = <<>>
    /\ verbosityFlag \in InitialFlags
    /\ schedulerAlgo = "mlfq" /\ schedulerQuantum = 5 /\ mlfqRatio = 3
    /\ loaded = {} /\ cpuLogs = 0 /\ errorList = FALSE
    /\ line = <<>> /\ argMap = <<>> /\ reply = "" /\ failed = 0 /\ recorded = 0

\* shellLoop comes round, or the test command goes on to its next line.
Prompt ==
    /\ status = "replied" /\ status' = "prompt"
    /\ line' = <<>> /\ argMap' = <<>> /\ reply' = "" /\ failed' = 0 /\ recorded' = 0
    /\ UNCHANGED <<script, verbosityFlag, kernel, errorList>>

\* An empty line: commandArray[0] of an empty vector.
EmptyLine == <<>> \in Lines /\ script = <<>> /\ Abort(<<>>)

UnknownCommand == \E l \in Lines :
    script = <<>> /\ l # <<>> /\ l[1] \notin Commands /\ Done(l, "unknown")

ShellHelp == \E l \in Typed("help") \cup Typed("clear") : Done(l, "ok")

ShellExit ==
    /\ Typed("exit") # {} /\ status' = "exited"
    /\ UNCHANGED <<script, verbosityFlag, kernel, errorList, line, argMap, reply, failed,
                   recorded>>

ShellVerbose == \E l \in Typed("-v") :
    /\ Answer(l, "ok", 0, 0) /\ NextInScript
    /\ verbosityFlag' = Toggled
    /\ UNCHANGED <<kernel, argMap>>

ShellLoad == \E l \in Typed("load") :
    IF Args(l) = <<>> THEN Refuse(l)
    ELSE \E ok \in Loads(Args(l)) :
           /\ Answer(l, Verdict(Failures(ok)), Failures(ok), Failures(ok)) /\ NextInScript
           /\ loaded' = loaded \cup AddedBy(Args(l), ok)
           /\ UNCHANGED <<verbosityFlag, scheduling, cpuLogs, argMap>>

\* errorDump prints the whole list, or returns 1 when it is empty.
ErrorDump(l) == Done(l, IF errorList THEN "ok" ELSE "no errors")
ShellErrorDump == \E l \in Typed("edmp") : IF Args(l) # <<>> THEN Refuse(l) ELSE ErrorDump(l)

\* kernelCoreDump of the last log fails when there is none.
CoreDumpFailures(logs) == IF logs = 0 THEN 1 ELSE 0

\* run -v prints the last log; the code of a run that logged nothing is not read.
ShellRun == \E l \in Typed("run") :
    IF Args(l) \notin {<<>>, <<"-v">>} THEN Refuse(l)
    ELSE /\ RunPrograms(loaded) /\ NextInScript
         /\ LET n == IF Args(l) = <<>> THEN 0 ELSE CoreDumpFailures(cpuLogs')
            IN  Answer(l, "ok", n, n)
         /\ UNCHANGED <<verbosityFlag, scheduling, argMap>>

\* The loop over the arguments of exec: a program, then its arrival time if stoi
\* reads a number from the next token.
ExecItemsM(args) ==   \* the number is not consumed
    LET From[i \in 1..Len(args) + 1] ==
          IF i > Len(args) THEN <<>>
          ELSE IF i < Len(args) /\ IsNumber(args[i + 1])
               THEN <<<<args[i], Stoi[args[i + 1]]>>>> \o From[i + 1]
               ELSE <<<<args[i], 0>>>> \o From[i + 1]
    IN From[1]
ExecItems(args) ==
    LET From[i \in 1..Len(args) + 1] ==
          IF i > Len(args) THEN <<>>
          ELSE IF i < Len(args) /\ IsNumber(args[i + 1])
               THEN <<<<args[i], Stoi[args[i + 1]]>>>> \o From[i + 2]
               ELSE <<<<args[i], 0>>>> \o From[i + 1]
    IN From[1]

\* Without a program exec complains, and then runs what is loaded.
ShellExecute == \E l \in Typed("exec") :
    LET items == ExecItems(Args(l))
        names == [i \in DOMAIN items |-> items[i][1]]
    IN IF \E i \in DOMAIN items : items[i][2] = Overflow THEN Abort(l)
       ELSE \E ok \in Loads(names) :
              /\ Answer(l, IF items = <<>> THEN "no file" ELSE Verdict(Failures(ok)),
                        Failures(ok), Failures(ok))
              /\ NextInScript
              /\ argMap' = items
              /\ RunPrograms(loaded \cup AddedBy(names, ok))
              /\ UNCHANGED <<verbosityFlag, scheduling>>

ShellGannt == \E l \in Typed("gant") : IF Args(l) # <<>> THEN Refuse(l) ELSE Done(l, "ok")

ShellCoreDump == \E l \in Typed("cdmp") :
    LET n == CoreDumpFailures(cpuLogs) IN
      /\ Answer(l, Verdict(n), n, n) /\ NextInScript
      /\ UNCHANGED <<verbosityFlag, kernel, argMap>>

\* memDumpAll fails, with 301, when the table is empty; the table may hold processes
\* whose name is not found any more.
MemDumpAll(l) == \E n \in IF loaded = {} THEN {0, 1} ELSE {0} : Answer(l, "ok", n, n)
\* kernelMemDump neither records nor passes on the 204 of a name that was not found,
\* so the shell, which tests for it, never says so.  -a dumps every address, and is
\* then looked up as a name too.
KernelMemDump(l) == Answer(l, "ok", IF Args(l)[1] \in loaded THEN 0 ELSE 1, 0)
ShellMemDump == \E l \in Typed("mdmp") :
    \/ Len(Args(l)) > 1 /\ Refuse(l)
    \/ /\ \/ Args(l) = <<>> /\ MemDumpAll(l)
          \/ Len(Args(l)) = 1 /\ KernelMemDump(l)
       /\ NextInScript /\ UNCHANGED <<verbosityFlag, kernel, argMap>>

\* sets algo [quantum [ratio]]; without arguments it prints.
SetsNumbers(args) == {i \in 2..3 : i <= Len(args)}

AlgoAfterM(name) == name   \* stored before it is compared
AlgoAfter(name) == IF name \in Algos THEN name ELSE schedulerAlgo

SetScheduler == \E l \in Typed("sets") :
    LET args == Args(l)
        numbers == SetsNumbers(args)
        wrong == {i \in numbers : ~IsNumber(args[i])}
        overflow == {i \in numbers \ wrong : Stoi[args[i]] = Overflow}
        quantum == IF 2 \in numbers THEN Stoi[args[2]] ELSE 5
        ratio == IF 3 \in numbers THEN Stoi[args[3]] ELSE 3
    IN \/ args = <<>> /\ Done(l, "ok")
       \/ \E i \in wrong : (\A j \in overflow : i < j) /\ Refuse(l)
       \/ \E i \in overflow : (\A j \in wrong : i < j) /\ Abort(l)
       \/ /\ args # <<>> /\ wrong \cup overflow = {}
          /\ LET n == IF args[1] \in Algos THEN 0 ELSE 1 IN Answer(l, Verdict(n), n, n)
          /\ schedulerAlgo' = AlgoAfter(args[1])
          /\ schedulerQuantum' = IF args[1] \in {"rr", "mlfq"} THEN quantum ELSE schedulerQuantum
          /\ mlfqRatio' = IF args[1] = "mlfq" THEN ratio ELSE mlfqRatio
          /\ NextInScript /\ UNCHANGED <<verbosityFlag, loaded, cpuLogs, argMap>>

\* getCpuLog throws for an index the list does not have; at the bound MaxLogs it may
\* be longer than cpuLogs says.
Indexed(index) == index \in -1..(cpuLogs - 1) \/ (cpuLogs = MaxLogs /\ index >= MaxLogs)
NotIndexed(index) == cpuLogs > 0 /\ index \notin -1..(cpuLogs - 1)

\* 303 is recorded whether or not there was a log to write; a file that does not
\* open is not recorded.
KernelWriteOut(l, index) ==
    \/ cpuLogs = 0 /\ Answer(l, "ok", 1, 1)
    \/ cpuLogs > 0 /\ Indexed(index) /\ \E n \in {0, 1} : Answer(l, "ok", n, 1 - n)

\* wout file [index].
ShellWriteOut == \E l \in Typed("wout") :
    LET args == Args(l)
        index == IF Len(args) = 2 THEN Stoi[args[2]] ELSE -1
    IN \/ args = <<>> /\ Refuse(l)
       \/ Len(args) = 2 /\ ~IsNumber(args[2]) /\ Refuse(l)
       \/ Len(args) > 2 /\ Done(l, "ok")
       \/ /\ Len(args) = 1 \/ (Len(args) = 2 /\ IsNumber(args[2]))
          /\ \/ index = Overflow /\ Abort(l)
             \/ index # Overflow /\ NotIndexed(index) /\ Abort(l)
             \/ /\ index # Overflow
                /\ KernelWriteOut(l, index)
                /\ NextInScript /\ UNCHANGED <<verbosityFlag, kernel, argMap>>

\* oshm and insm take a number and two names; further arguments are ignored.
Linked(l) == Args(l)[2] \in loaded /\ Args(l)[3] \in loaded

\* A name that is not found is refused with -1.  A block that cannot be allocated
\* is recorded, but its code 1 is taken for an address: the shell reports success.
OpenSharedM(l) ==   \* 204 is not recorded
    \/ ~Linked(l) /\ Answer(l, "failed", 1, 1)
    \/ Linked(l) /\ \E n \in {0, 1} : Answer(l, "ok", n, 0)
OpenShared(l) ==
    \/ ~Linked(l) /\ Answer(l, "failed", 1, 1)
    \/ Linked(l) /\ \E n \in {0, 1} : Answer(l, "ok", n, n)

InitSemaphore(l) == LET n == IF Linked(l) THEN 0 ELSE 1 IN Answer(l, Verdict(n), n, n)

ShellLink == \E l \in Typed("oshm") \cup Typed("insm") :
    IF Len(l) < 4 \/ ~IsNumber(l[2]) THEN Refuse(l)
    ELSE IF Stoi[l[2]] = Overflow THEN Abort(l)
    ELSE /\ IF l[1] = "oshm" THEN OpenShared(l) ELSE InitSemaphore(l)
         /\ NextInScript /\ UNCHANGED <<verbosityFlag, kernel, argMap>>

\* shellTest: the four tests; which programs they name is abstracted.
TestProgram(i) == Program[1 + (i % Len(Program))]
SixAtFifty == <<"exec", TestProgram(0), "0", TestProgram(1), "50", TestProgram(2), "100",
                TestProgram(3), "150", TestProgram(4), "200", TestProgram(5), "250">>
Test(n) == LET one == TestProgram(0) two == TestProgram(1) IN
    CASE n = 1 -> <<<<"sets", "mlfq", "3", "2">>, <<"exec", one, two, "300", TestProgram(2), "25">>>>
      [] n = 2 -> <<<<"sets", "rr", "7">>, <<"load", one, two>>, <<"oshm", "5", one, two>>,
                    <<"insm", "1", one, two>>>>
      [] n = 3 -> <<<<"sets", "mlfq", "5", "3">>, SixAtFifty>>
      [] n = 4 -> <<<<"sets", "rr", "7">>, SixAtFifty>>
      [] OTHER -> <<>>

\* stoi's exceptions are not caught here.
ShellTest == \E l \in Typed("test") :
    IF Len(l) # 2 THEN Refuse(l)
    ELSE IF ~IsNumber(l[2]) \/ Stoi[l[2]] = Overflow THEN Abort(l)
    ELSE /\ Answer(l, "ok", 0, 0)
         /\ script' = Test(Stoi[l[2]])
         /\ UNCHANGED <<verbosityFlag, kernel, argMap>>

Stopped == status \in {"exited", "aborted"} /\ UNCHANGED vars

Command ==
    /\ status = "prompt"
    /\ \/ EmptyLine \/ UnknownCommand \/ ShellHelp \/ ShellExit \/ ShellVerbose
       \/ ShellLoad \/ ShellErrorDump \/ ShellRun \/ ShellExecute \/ ShellGannt \/ ShellCoreDump
       \/ ShellMemDump \/ SetScheduler \/ ShellWriteOut \/ ShellLink \/ ShellTest

Next == Prompt \/ Command \/ Stopped

Spec == Init /\ [][Next]_vars

----------------------------------------------------------------------------
(* What the command line promises. *)

\* Every variable stays in its range.
TypeOK ==
    /\ status \in {"prompt", "replied", "exited", "aborted"}
    /\ verbosityFlag \in [Components -> BOOLEAN]
    /\ schedulerAlgo \in Algos /\ schedulerQuantum \in Int /\ mlfqRatio \in Int
    /\ loaded \subseteq Names /\ cpuLogs \in 0..MaxLogs /\ errorList \in BOOLEAN
    /\ \A i \in DOMAIN argMap : argMap[i][2] \in Int
    /\ failed \in Nat /\ recorded \in Nat

\* What fails in the kernel is on the error list, one entry a failure, and a command
\* that answers "failed" has left an entry, as "check logs" tells the user.  Two commands
\* break the first half and are left out of it: mdmp of a name that is not found records
\* nothing and, against shell.cpp:270, is never answered "was not found"; wout records
\* 303 whatever happens.  A success that is told for a failure (oshm) is not excluded.
FailuresRecorded ==
    status = "replied" =>
        /\ line[1] \notin {"mdmp", "wout"} => recorded = failed
        /\ reply = "failed" => recorded > 0 /\ errorList

\* "Format: <program> [arrivalTime] <program> [arrivalTime] ...  If no arrival time
\* follows a program, default to 0" (shell.cpp:180), a time being "a number" (192).
\* A word is what the user would not call a number.
Words(args) == {i \in DOMAIN args : args[i] \notin Numeral}
Place(args, i) == Cardinality({j \in Words(args) : j <= i})
Time(args, i) == IF i < Len(args) /\ args[i + 1] \in Numeral THEN Stoi[args[i + 1]] ELSE 0
Formatted(args) == \A i \in DOMAIN args \ Words(args) : i - 1 \in Words(args)

\* The code asks stoi instead, which also reads a number from a name that begins with
\* one: where such a name comes straight after another program it is swallowed as that
\* program's arrival time ("exec prod 1.osx" runs prod alone, at time 1).
NameReadAsTime(args) ==
    \E i \in Words(args) : i - 1 \in Words(args) /\ IsNumber(args[i])

\* On every line of the format but those, each program (a name that begins with a
\* digit too, where it comes first or after a time), and nothing else, reaches
\* kernelExecuteProgram with its own time, in the order typed.
ExecByFormat ==
    status = "replied" /\ line[1] = "exec"
        /\ Formatted(Args(line)) /\ ~NameReadAsTime(Args(line)) =>
        LET args == Args(line) IN
          /\ Len(argMap) = Cardinality(Words(args))
          /\ \A i \in Words(args) : argMap[Place(args, i)] = <<args[i], Time(args, i)>>
=============================================================================
