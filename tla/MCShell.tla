------------------------------ MODULE MCShell ------------------------------
(* A small instance of Shell for TLC: three program names, one of which     *)
(* begins with a digit as demo/1.osx does (stoi reads it as 1), the numbers *)
(* of the test command, and a number outside int.                          *)
EXTENDS Shell, TLC

CONSTANT Huge

MCProgram == <<"prod", "com", "1.osx">>
MCStoi ==
    "0" :> 0 @@ "1" :> 1 @@ "2" :> 2 @@ "3" :> 3 @@ "5" :> 5 @@ "7" :> 7 @@ "1.osx" :> 1 @@ "25" :> 25
    @@ "50" :> 50 @@ "100" :> 100 @@ "150" :> 150 @@ "200" :> 200 @@ "250" :> 250 @@ "300" :> 300
    @@ "-1" :> -1 @@ "99999999999" :> Huge
MCNumeral == DOMAIN MCStoi \ {"1.osx"}

\* Every sequence of at most n tokens after the command.
With(command, tokens, n) ==
    {<<command>> \o args : args \in UNION {[1..k -> tokens] : k \in 0..n}}

MCLines ==
    {<<>>, <<"ls">>, <<"help">>, <<"clear">>, <<"exit">>, <<"-v">>, <<"oshm", "5", "prod", "com", "x">>}
    \cup With("load", {"prod", "com", "missing"}, 2) \cup With("edmp", {"x"}, 1)
    \cup With("run", {"-v", "x"}, 1) \cup With("gant", {"x"}, 1) \cup With("cdmp", {}, 0)
    \cup With("mdmp", {"-a", "prod"}, 2) \cup With("wout", {"out", "0", "2", "99999999999"}, 3)
    \cup With("exec", {"prod", "missing", "-1", "1.osx"}, 3)
    \cup With("exec", {"com", "3"}, 4) \cup {<<"exec", "com", "99999999999">>}
    \cup {<<"sets">> \o args : args \in {<<>>} \cup [1..1 -> {"fcfs", "rr", "mlfq", "sjf"}]
             \cup ({"fcfs", "rr", "mlfq", "sjf"} \X {"3", "x", "99999999999"})
             \cup ({"rr", "mlfq"} \X {"3", "x", "99999999999"} \X {"2", "x", "99999999999"})}
    \cup {<<c>> \o args : c \in {"oshm", "insm"},
             args \in {<<"1">>} \cup ({"1", "x", "99999999999"} \X {"prod", "com"} \X {"com", "missing"})}
    \cup With("test", {"1", "2", "3", "4", "5", "x"}, 1)
=============================================================================
