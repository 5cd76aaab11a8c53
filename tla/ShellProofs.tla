---------------------------- MODULE ShellProofs ----------------------------
(***************************************************************************)
(* For any programs, numbers and lines: the types, the recorded failures,  *)
(* and what the loop over the arguments of exec hands over of a line in    *)
(* its format in which no program name is read as a time.                  *)
(*                                                                         *)
(* The loop is a recursive definition.  Its equation is shown to have a    *)
(* solution by adding one position after the other (Solution), and what    *)
(* the solution contains by induction from the last position to the first  *)
(* (FromRightly); both are inductions over a set of natural numbers.       *)
(***************************************************************************)
EXTENDS Shell, FiniteSetTheorems, WellFoundedInduction, TLAPS

----------------------------------------------------------------------------
(* Induction.                                                              *)

NatLess == {ss \in Nat \X Nat : ss[1] < ss[2]}

LEMMA NatLessWF == IsWellFoundedOn(NatLess, Nat)
BY NatLessThanWellFounded DEF OpToRel, NatLess

LEMMA Induction ==
    ASSUME NEW S \in SUBSET Nat, 0 \in S, \A n \in S : n + 1 \in S
    PROVE  S = Nat
<1> SUFFICES ASSUME Nat \ S # {} PROVE FALSE
  OBVIOUS
<1>1. \E x \in Nat \ S : \A y \in Nat \ S : <<y, x>> \notin NatLess
  BY NatLessWF, WFMin
<1>2. PICK n \in Nat \ S : \A m \in Nat \ S : ~(m < n)
  BY <1>1 DEF NatLess
<1>3. n - 1 \in Nat
  BY <1>2
<1>4. n - 1 \in S
  BY <1>2, <1>3
<1> QED
  BY <1>2, <1>3, <1>4

----------------------------------------------------------------------------
(* The loop over the arguments of exec.                                    *)

\* The tokens of all lines, of the test command's too.
Token ==
    (UNION {{l[i] : i \in DOMAIN l} : l \in Lines}) \cup Names
    \cup {"exec", "sets", "load", "oshm", "insm", "mlfq", "rr", "0", "1", "2", "3", "5", "7",
           "25", "50", "100", "150", "200", "250", "300"}

\* The equation of the loop, with f for the items from each position on.
Item(args, f, i) ==
    IF i > Len(args) THEN <<>>
    ELSE IF i < Len(args) /\ IsNumber(args[i + 1])
         THEN <<<<args[i], Stoi[args[i + 1]]>>>> \o f[i + 2]
         ELSE <<<<args[i], 0>>>> \o f[i + 1]
Solves(args, f, first) == f = [i \in first..Len(args) + 1 |-> Item(args, f, i)]
From(args) == CHOOSE f : Solves(args, f, 1)

LEMMA ExecItemsFrom == ASSUME NEW args PROVE ExecItems(args) = From(args)[1]
BY DEF ExecItems, From, Solves, Item

LEMMA SolvesMore ==
    ASSUME NEW args \in Seq(Token), NEW first \in Nat, 1 <= first, first <= Len(args),
           NEW f, Solves(args, f, first + 1)
    PROVE  \E h : Solves(args, h, first)
<1> DEFINE n == Len(args) + 1
           h == [i \in first..n |-> IF i = first THEN Item(args, f, first) ELSE f[i]]
<1>1. \A i \in first + 1..n : i \in first..n /\ i # first
  OBVIOUS
<1>a. \A i \in first + 1..n : f[i] = Item(args, f, i)
  BY Zenon DEF Solves
<1>b. \A i \in first + 1..n : h[i] = f[i]
  BY <1>1
<1>2. h[first] = Item(args, f, first)
  OBVIOUS
<1> HIDE DEF h
<1>3. ASSUME NEW i \in first..n PROVE Item(args, h, i) = Item(args, f, i)
  <2>1. i <= Len(args) => i + 1 \in first + 1..n
    OBVIOUS
  <2>2. i < Len(args) => i + 2 \in first + 1..n
    OBVIOUS
  <2>3. i <= Len(args) => h[i + 1] = f[i + 1]
    BY <2>1, <1>b
  <2>4. i < Len(args) => h[i + 2] = f[i + 2]
    BY <2>2, <1>b
  <2> QED
    BY <2>3, <2>4 DEF Item
<1>4. \A i \in first..n : h[i] = Item(args, h, i)
  BY <1>a, <1>b, <1>2, <1>3
<1>5. h = [i \in first..n |-> h[i]]
  BY DEF h
<1>6. h = [i \in first..n |-> Item(args, h, i)]
  BY <1>4, <1>5
<1> QED
  BY <1>6 DEF Solves

LEMMA Solution == ASSUME NEW args \in Seq(Token) PROVE \E f : Solves(args, f, 1)
<1> DEFINE n == Len(args)
           S == {k \in Nat : k <= n => \E f : Solves(args, f, n + 1 - k)}
<1>1. 0 \in S
  <2> DEFINE f == [i \in n + 1..n + 1 |-> <<>>]
  <2>1. Solves(args, f, n + 1)
    BY DEF Solves, Item
  <2> QED
    BY <2>1
<1>2. ASSUME NEW k \in S PROVE k + 1 \in S
  <2> SUFFICES ASSUME k + 1 <= n PROVE \E f : Solves(args, f, n - k)
    BY n + 1 - (k + 1) = n - k
  <2>1. PICK f : Solves(args, f, n + 1 - k)
    OBVIOUS
  <2>2. n + 1 - k = (n - k) + 1 /\ n - k \in Nat /\ 1 <= n - k /\ n - k <= n
    OBVIOUS
  <2> QED
    BY <2>1, <2>2, SolvesMore
<1>3. S = Nat
  <2> HIDE DEF S
  <2> QED
    BY <1>1, <1>2, Induction DEF S
<1>4. n + 1 - n = 1 /\ n \in Nat
  OBVIOUS
<1> QED
  BY <1>3, <1>4

LEMMA FromUnfolds ==
    ASSUME NEW args \in Seq(Token), NEW i \in 1..Len(args) + 1
    PROVE  From(args)[i] = Item(args, From(args), i)
<1>1. Solves(args, From(args), 1)
  BY Solution DEF From
<1> QED
  BY <1>1 DEF Solves
----------------------------------------------------------------------------
(* The items of a line in the format of exec. *)

Pairs == Token \X (Int \cup {Overflow})
Span(args, i, w) == {v \in Words(args) : i <= v /\ v <= w}
Begins(args, i) == i = Len(args) + 1 \/ i \in Words(args)
Regular(args) == Formatted(args) /\ ~NameReadAsTime(args)

\* What s, the items from position i on, hold of the words from there on.
InPlace(args, i, s) ==
    /\ Len(s) = Cardinality(Span(args, i, Len(args)))
    /\ \A w \in Words(args) :
         w >= i => s[Cardinality(Span(args, i, w))] = <<args[w], Time(args, w)>>
Rightly(args, i, s) ==
    /\ s \in Seq(Pairs)
    /\ Regular(args) /\ Begins(args, i) => InPlace(args, i, s)

LEMMA Pushed ==
    ASSUME NEW T, NEW s \in Seq(T), NEW x \in T
    PROVE  /\ <<x>> \o s \in Seq(T)
           /\ Len(<<x>> \o s) = 1 + Len(s)
           /\ (<<x>> \o s)[1] = x
           /\ \A k \in 1..Len(s) : (<<x>> \o s)[1 + k] = s[k]
OBVIOUS

LEMMA SpanFinite ==
    ASSUME NEW args \in Seq(Token), NEW i \in Nat, NEW w \in Nat
    PROVE  IsFiniteSet(Span(args, i, w)) /\ Cardinality(Span(args, i, w)) \in Nat
<1>1. IsFiniteSet(1..Len(args)) /\ Span(args, i, w) \subseteq 1..Len(args)
  BY FS_Interval DEF Span, Words
<1> QED
  BY <1>1, FS_Subset, FS_CardinalityType

LEMMA SpanGrows ==
    ASSUME NEW args \in Seq(Token), NEW i \in Words(args), NEW j \in Nat, i < j,
           \A v \in i + 1..j - 1 : v \notin Words(args), NEW w \in Nat, i <= w
    PROVE  Cardinality(Span(args, i, w)) = 1 + Cardinality(Span(args, j, w))
<1>1. Words(args) \subseteq 1..Len(args)
  BY DEF Words
<1>2. Span(args, i, w) = Span(args, j, w) \cup {i} /\ i \notin Span(args, j, w)
  BY <1>1 DEF Span
<1>3. IsFiniteSet(Span(args, j, w)) /\ Cardinality(Span(args, j, w)) \in Nat
  BY SpanFinite
<1>4. Cardinality(Span(args, j, w) \cup {i}) = Cardinality(Span(args, j, w)) + 1
  BY <1>2, <1>3, FS_AddElement
<1> QED
  BY <1>2, <1>3, <1>4

LEMMA EmptySpan ==
    ASSUME NEW args \in Seq(Token), NEW i \in Nat, NEW w \in Nat, w < i
    PROVE  Cardinality(Span(args, i, w)) = 0
<1>1. Span(args, i, w) = {}
  BY DEF Span, Words
<1> QED
  BY <1>1, FS_EmptySet

LEMMA RightlyLast == ASSUME NEW args \in Seq(Token) PROVE Rightly(args, Len(args) + 1, <<>>)
<1>1. \A w \in Words(args) : ~(w >= Len(args) + 1)
  BY DEF Words
<1>2. Cardinality(Span(args, Len(args) + 1, Len(args))) = 0
  BY EmptySpan
<1> QED
  BY <1>1, <1>2 DEF Rightly, InPlace

\* One item more, for the word at i; j is where the next one begins.
LEMMA RightlyMore ==
    ASSUME NEW args \in Seq(Token), NEW i \in 1..Len(args),
           NEW j \in Nat, i < j, j <= Len(args) + 1,
           NEW s, Rightly(args, j, s), NEW x \in Int \cup {Overflow},
           Regular(args) /\ Begins(args, i) =>
             /\ Begins(args, j) /\ x = Time(args, i)
             /\ \A v \in i + 1..j - 1 : v \notin Words(args)
    PROVE  Rightly(args, i, <<<<args[i], x>>>> \o s)
<1> DEFINE t == <<<<args[i], x>>>> \o s
           size(w) == Cardinality(Span(args, j, w))
<1>1. s \in Seq(Pairs) /\ <<args[i], x>> \in Pairs
  BY DEF Rightly, Pairs
<1>2. /\ t \in Seq(Pairs) /\ Len(t) = 1 + Len(s) /\ t[1] = <<args[i], x>>
      /\ \A k \in 1..Len(s) : t[1 + k] = s[k]
  BY <1>1, Pushed
<1> HIDE DEF t
<1>3. ASSUME Regular(args), Begins(args, i) PROVE InPlace(args, i, t)
  <2>1. i \in Words(args) /\ i \in Nat
    BY <1>3 DEF Begins, Words
  <2>2. InPlace(args, j, s)
    BY <1>3 DEF Rightly
  <2>3. \A w \in Nat : i <= w => Cardinality(Span(args, i, w)) = 1 + size(w)
    BY <1>3, <2>1, SpanGrows
  <2>4. Len(t) = Cardinality(Span(args, i, Len(args)))
    BY <1>2, <2>2, <2>3 DEF InPlace
  <2>5. ASSUME NEW w \in Words(args), w >= i
        PROVE  t[Cardinality(Span(args, i, w))] = <<args[w], Time(args, w)>>
    <3>1. w \in Nat /\ w <= Len(args)
      BY DEF Words
    <3>2. CASE w = i
      <4>1. size(i) = 0
        BY <2>1, EmptySpan
      <4> QED
        BY <1>3, <3>2, <4>1, <2>1, <2>3, <1>2
    <3>3. CASE w # i
      <4>1. w >= j
        BY <1>3, <3>1, <3>3, <2>5
      <4>2. s[size(w)] = <<args[w], Time(args, w)>>
        BY <4>1, <2>2 DEF InPlace
      <4>3. size(w) \in 1..Len(s)
        <5>1. Span(args, j, w) \subseteq Span(args, j, Len(args)) /\ w \in Span(args, j, w)
          BY <3>1, <4>1 DEF Span, Words
        <5>2. IsFiniteSet(Span(args, j, Len(args))) /\ IsFiniteSet(Span(args, j, w))
          BY <3>1, SpanFinite
        <5>3. size(w) <= Cardinality(Span(args, j, Len(args)))
          BY <5>1, <5>2, FS_Subset
        <5>4. size(w) \in Nat /\ size(w) # 0
          BY <5>1, <5>2, <3>1, SpanFinite, FS_EmptySet
        <5> QED
          BY <5>3, <5>4, <2>2, <1>1 DEF InPlace
      <4>4. Cardinality(Span(args, i, w)) = 1 + size(w)
        BY <2>3, <2>5, <3>1
      <4> QED
        BY <4>2, <4>3, <4>4, <1>2
    <3> QED
      BY <3>2, <3>3
  <2> QED
    BY <2>4, <2>5 DEF InPlace
<1> QED
  BY <1>2, <1>3 DEF Rightly, t

LEMMA RightlyStep ==
    ASSUME NEW args \in Seq(Token), NEW f, NEW i \in 1..Len(args),
           \A j \in i + 1..Len(args) + 1 : Rightly(args, j, f[j])
    PROVE  Rightly(args, i, Item(args, f, i))
<1>1. CASE i < Len(args) /\ IsNumber(args[i + 1])
  <2>1. Stoi[args[i + 1]] \in Int \cup {Overflow}
    BY <1>1, StoiAssumption DEF IsNumber
  <2>2. i + 2 \in i + 1..Len(args) + 1 /\ Rightly(args, i + 2, f[i + 2])
    BY <1>1
  <2>3. i + 1 \in DOMAIN args /\ i + 1 - 1 = i
    BY <1>1
  <2>4. ASSUME Regular(args), Begins(args, i)
        PROVE  /\ Begins(args, i + 2) /\ Stoi[args[i + 1]] = Time(args, i)
               /\ \A v \in i + 1..(i + 2) - 1 : v \notin Words(args)
    <3>1. i \in Words(args)
      BY <2>4 DEF Begins
    <3>2. i + 1 \notin Words(args)
      BY <1>1, <2>3, <2>4, <3>1 DEF Regular, NameReadAsTime
    <3>3. Stoi[args[i + 1]] = Time(args, i)
      BY <1>1, <2>3, <3>2 DEF Time, Words
    <3>4. i + 2 \in DOMAIN args => i + 2 \in Words(args)
      <4>1. i + 2 - 1 = i + 1
        OBVIOUS
      <4> QED
        BY <2>4, <3>2, <4>1 DEF Regular, Formatted
    <3> QED
      BY <2>2, <3>2, <3>3, <3>4 DEF Begins
  <2>5. Item(args, f, i) = <<<<args[i], Stoi[args[i + 1]]>>>> \o f[i + 2]
    BY <1>1 DEF Item
  <2>6. i + 2 \in Nat /\ i < i + 2 /\ i + 2 <= Len(args) + 1
    BY <1>1
  <2> QED
    BY <2>1, <2>2, <2>4, <2>5, <2>6, RightlyMore
<1>2. CASE ~(i < Len(args) /\ IsNumber(args[i + 1]))
  <2>1. 0 \in Int \cup {Overflow}
    OBVIOUS
  <2>2. i + 1 \in i + 1..Len(args) + 1 /\ Rightly(args, i + 1, f[i + 1])
    OBVIOUS
  <2>3. i < Len(args) => args[i + 1] \notin Numeral
    BY <1>2, StoiAssumption DEF IsNumber
  <2>4. /\ Begins(args, i + 1) /\ 0 = Time(args, i)
        /\ \A v \in i + 1..(i + 1) - 1 : v \notin Words(args)
    <3>1. i < Len(args) => i + 1 \in Words(args)
      BY <2>3 DEF Words
    <3> QED
      BY <2>3, <3>1 DEF Begins, Time
  <2>5. Item(args, f, i) = <<<<args[i], 0>>>> \o f[i + 1]
    BY <1>2 DEF Item
  <2>6. i + 1 \in Nat /\ i < i + 1 /\ i + 1 <= Len(args) + 1
    OBVIOUS
  <2> QED
    BY <2>1, <2>2, <2>4, <2>5, <2>6, RightlyMore
<1> QED
  BY <1>1, <1>2

LEMMA FromRightly ==
    ASSUME NEW args \in Seq(Token)
    PROVE  \A i \in 1..Len(args) + 1 : Rightly(args, i, From(args)[i])
<1> DEFINE n == Len(args)
           f == From(args)
           S == {k \in Nat : \A i \in 1..n + 1 : i >= n + 1 - k => Rightly(args, i, f[i])}
<1>1. \A i \in 1..n + 1 : f[i] = Item(args, f, i)
  BY FromUnfolds
<1> HIDE DEF f
<1>2. 0 \in S
  <2>1. f[n + 1] = <<>>
    BY <1>1, n + 1 \in 1..n + 1, n + 1 > n DEF Item
  <2> QED
    BY <2>1, RightlyLast
<1>3. ASSUME NEW k \in S PROVE k + 1 \in S
  <2> SUFFICES ASSUME NEW i \in 1..n + 1, i >= n + 1 - (k + 1) PROVE Rightly(args, i, f[i])
    OBVIOUS
  <2>1. CASE i >= n + 1 - k
    BY <2>1
  <2>2. CASE ~(i >= n + 1 - k)
    <3>1. i \in 1..n /\ \A j \in i + 1..n + 1 : Rightly(args, j, f[j])
      BY <2>2
    <3>2. Rightly(args, i, Item(args, f, i))
      BY <3>1, RightlyStep
    <3> QED
      BY <3>2, <1>1
  <2> QED
    BY <2>1, <2>2
<1>4. S = Nat
  <2> HIDE DEF S
  <2> QED
    BY <1>2, <1>3, Induction DEF S
<1>5. ASSUME NEW i \in 1..n + 1 PROVE Rightly(args, i, f[i])
  <2>1. n \in S /\ i >= n + 1 - n
    <3> HIDE DEF S
    <3> QED
      BY <1>4
  <2> QED
    BY <2>1
<1> QED
  BY <1>5 DEF f

LEMMA ExecItemsRight ==
    ASSUME NEW args \in Seq(Token)
    PROVE  /\ ExecItems(args) \in Seq(Pairs)
           /\ Regular(args) =>
                /\ Len(ExecItems(args)) = Cardinality(Words(args))
                /\ \A i \in Words(args) :
                     ExecItems(args)[Place(args, i)] = <<args[i], Time(args, i)>>
<1>1. Rightly(args, 1, ExecItems(args))
  BY FromRightly, ExecItemsFrom
<1>2. Formatted(args) => Begins(args, 1)
  <2>1. 0 \notin Words(args) /\ 1 - 1 = 0
    BY DEF Words
  <2>2. Formatted(args) /\ 1 \in DOMAIN args => 1 \in Words(args)
    BY <2>1 DEF Formatted
  <2>3. 1 \in DOMAIN args \/ 1 = Len(args) + 1
    OBVIOUS
  <2> QED
    BY <2>2, <2>3 DEF Begins
<1>3. Span(args, 1, Len(args)) = Words(args)
  BY DEF Span, Words
<1>4. \A i \in Words(args) : i >= 1 /\ Span(args, 1, i) = {j \in Words(args) : j <= i}
  BY DEF Span, Words
<1> QED
  BY <1>1, <1>2, <1>3, <1>4 DEF Regular, Rightly, InPlace, Place

----------------------------------------------------------------------------
(* Types, recorded failures and the arguments of exec after every command.  *)

Line == Seq(Token) \ {<<>>}

ShellInv ==
    /\ TypeOK /\ script \in Seq(Line)
    /\ FailuresRecorded /\ ExecByFormat

\* What every command leaves alone, or in its type.
Rest ==
    /\ verbosityFlag' \in [Components -> BOOLEAN]
    /\ schedulerAlgo' \in Algos /\ schedulerQuantum' \in Int /\ mlfqRatio' \in Int
    /\ loaded' \subseteq Names /\ cpuLogs' \in 0..MaxLogs
    /\ script' \in Seq(Line)
Accounted(l, said, n, e) ==
    /\ n \in Nat /\ e \in Nat
    /\ l[1] \notin {"mdmp", "wout"} => n = e
    /\ said = "failed" => e > 0

LEMMA IsASeq ==
    ASSUME NEW T, NEW n \in Nat, NEW s, s = [i \in 1..n |-> s[i]], \A i \in 1..n : s[i] \in T
    PROVE  s \in Seq(T)
OBVIOUS

LEMMA LinesTokens == Lines \subseteq Seq(Token)
<1> SUFFICES ASSUME NEW l \in Lines PROVE l \in Seq(Token)
  OBVIOUS
<1>1. l \in Seq(STRING)
  BY LinesAssumption
<1>2. Len(l) \in Nat /\ DOMAIN l = 1..Len(l) /\ l = [i \in 1..Len(l) |-> l[i]]
  BY <1>1
<1>3. \A i \in 1..Len(l) : l[i] \in Token
  BY <1>2 DEF Token
<1> QED
  BY <1>2, <1>3, IsASeq

LEMMA TypedLine ==
    ASSUME ShellInv, NEW c \in Commands, NEW l \in Typed(c)
    PROVE  l \in Line /\ l[1] = c /\ Args(l) \in Seq(Token)
<1>1. CASE script = <<>>
  BY <1>1, LinesTokens DEF Typed, LinesOf, Line, Args
<1>2. CASE script # <<>>
  <2>1. Head(script) \in Line
    BY <1>2 DEF ShellInv
  <2> QED
    BY <1>2, <2>1 DEF Typed, Args, Line
<1> QED
  BY <1>1, <1>2

LEMMA AnswerSound ==
    ASSUME ShellInv, NEW l \in Line, NEW said, NEW n, NEW e, Answer(l, said, n, e),
           Accounted(l, said, n, e), Rest, l[1] # "exec", argMap' = argMap
    PROVE  ShellInv'
<1>1. TypeOK'
  BY DEF ShellInv, TypeOK, Rest, Answer, Accounted
<1>2. FailuresRecorded'
  BY DEF FailuresRecorded, Answer, Accounted
<1>3. ExecByFormat'
  BY DEF ExecByFormat, Answer
<1> QED
  BY <1>1, <1>2, <1>3 DEF ShellInv, Rest

LEMMA NextLineSound == ASSUME ShellInv, NextInScript PROVE script' \in Seq(Line)
BY DEF ShellInv, NextInScript

LEMMA SameRest ==
    ASSUME ShellInv, UNCHANGED <<verbosityFlag, kernel>>, script' \in Seq(Line) PROVE Rest
BY DEF ShellInv, TypeOK, Rest, kernel, scheduling

LEMMA ReplySound ==
    ASSUME ShellInv, NEW l \in Line, NEW said, NEW n, NEW e, Answer(l, said, n, e),
           Accounted(l, said, n, e), l[1] # "exec", NextInScript,
           UNCHANGED <<verbosityFlag, kernel, argMap>>
    PROVE  ShellInv'
BY AnswerSound, SameRest, NextLineSound

LEMMA DoneSound ==
    ASSUME ShellInv, NEW l \in Line, NEW said, said # "failed", l[1] # "exec", Done(l, said)
    PROVE  ShellInv'
<1>1. Accounted(l, said, 0, 0)
  BY DEF Accounted
<1> QED
  BY <1>1, ReplySound DEF Done

LEMMA RefuseSound == ASSUME ShellInv, NEW l \in Line, l[1] # "exec", Refuse(l) PROVE ShellInv'
BY DoneSound DEF Refuse

LEMMA AbortSound == ASSUME ShellInv, NEW l, Abort(l) PROVE ShellInv'
BY DEF ShellInv, Abort, TypeOK, FailuresRecorded, ExecByFormat, kernel, scheduling

LEMMA OneFailure == ASSUME NEW l, NEW n \in {0, 1} PROVE Accounted(l, Verdict(n), n, n)
BY DEF Accounted, Verdict

LEMMA LoadsSound ==
    ASSUME NEW T, NEW s \in Seq(T), NEW ok \in Loads(s)
    PROVE  /\ Failures(ok) \in Nat
           /\ AddedBy(s, ok) \subseteq Names
           /\ \A l : Accounted(l, Verdict(Failures(ok)), Failures(ok), Failures(ok))
           /\ \A l : Failures(ok) = 0 => Accounted(l, "no file", Failures(ok), Failures(ok))
<1>1. DOMAIN ok = 1..Len(s)
  BY DEF Loads
<1>2. IsFiniteSet({i \in DOMAIN ok : ~ok[i]})
  BY <1>1, FS_Interval, FS_Subset
<1>3. Failures(ok) \in Nat
  BY <1>2, FS_CardinalityType DEF Failures
<1>4. AddedBy(s, ok) \subseteq Names
  BY DEF AddedBy, Loads
<1> QED
  BY <1>3, <1>4 DEF Accounted, Verdict

LEMMA NoneASeq == ASSUME NEW T PROVE <<>> \in Seq(T)
OBVIOUS

LEMMA RunSound ==
    ASSUME ShellInv, NEW names \in SUBSET Names, RunPrograms(names)
    PROVE  loaded' \subseteq Names /\ cpuLogs' \in 0..MaxLogs
BY LogsAssumption DEF ShellInv, TypeOK, RunPrograms, OneMoreLog
----------------------------------------------------------------------------
(* One lemma for each command.                                             *)

LEMMA UnknownSound == ASSUME ShellInv, UnknownCommand PROVE ShellInv'
<1>1. PICK l \in Lines : l # <<>> /\ l[1] \notin Commands /\ Done(l, "unknown")
  BY DEF UnknownCommand
<1>2. l \in Line /\ l[1] # "exec"
  BY <1>1, LinesTokens DEF Line, Commands
<1> QED
  BY <1>1, <1>2, DoneSound

LEMMA SaySound ==
    ASSUME ShellInv, ShellHelp \/ ShellErrorDump \/ ShellGannt PROVE ShellInv'
<1>1. PICK c \in {"help", "clear", "edmp", "gant"} :
        \E l \in Typed(c) : Refuse(l) \/ Done(l, "ok") \/ Done(l, "no errors")
  BY DEF ShellHelp, ShellErrorDump, ErrorDump, ShellGannt
<1>2. PICK l \in Typed(c) : Refuse(l) \/ Done(l, "ok") \/ Done(l, "no errors")
  BY <1>1
<1>3. c \in Commands /\ c # "exec"
  BY DEF Commands
<1>4. l \in Line /\ l[1] # "exec"
  BY <1>3, TypedLine
<1> QED
  BY <1>2, <1>4, DoneSound, RefuseSound

LEMMA VerboseSound == ASSUME ShellInv, ShellVerbose PROVE ShellInv'
<1>1. PICK l \in Typed("-v") : /\ Answer(l, "ok", 0, 0) /\ NextInScript
                               /\ verbosityFlag' = Toggled /\ UNCHANGED <<kernel, argMap>>
  BY DEF ShellVerbose
<1>2. l \in Line /\ l[1] # "exec"
  BY TypedLine DEF Commands
<1>3. Rest
  BY <1>1, NextLineSound DEF ShellInv, TypeOK, Rest, kernel, scheduling, Toggled
<1>4. Accounted(l, "ok", 0, 0)
  BY DEF Accounted
<1> QED
  BY <1>1, <1>2, <1>3, <1>4, AnswerSound

LEMMA ShellLoadSound == ASSUME ShellInv, ShellLoad PROVE ShellInv'
<1>1. PICK l \in Typed("load") :
        \/ Refuse(l)
        \/ \E ok \in Loads(Args(l)) :
             /\ Answer(l, Verdict(Failures(ok)), Failures(ok), Failures(ok)) /\ NextInScript
             /\ loaded' = loaded \cup AddedBy(Args(l), ok)
             /\ UNCHANGED <<verbosityFlag, scheduling, cpuLogs, argMap>>
  BY DEF ShellLoad
<1>2. l \in Line /\ l[1] # "exec" /\ Args(l) \in Seq(Token)
  BY TypedLine DEF Commands
<1>3. ASSUME NEW ok \in Loads(Args(l)),
             Answer(l, Verdict(Failures(ok)), Failures(ok), Failures(ok)), NextInScript,
             loaded' = loaded \cup AddedBy(Args(l), ok),
             UNCHANGED <<verbosityFlag, scheduling, cpuLogs, argMap>>
      PROVE  ShellInv'
  <2>1. /\ AddedBy(Args(l), ok) \subseteq Names
        /\ Accounted(l, Verdict(Failures(ok)), Failures(ok), Failures(ok))
    BY <1>2, LoadsSound
  <2>2. Rest
    BY <1>3, <2>1, NextLineSound DEF ShellInv, TypeOK, Rest, scheduling
  <2> QED
    BY <1>2, <1>3, <2>1, <2>2, AnswerSound
<1> QED
  BY <1>1, <1>2, <1>3, RefuseSound

LEMMA ShellRunSound == ASSUME ShellInv, ShellRun PROVE ShellInv'
<1>1. PICK l \in Typed("run") :
        \/ Refuse(l)
        \/ /\ RunPrograms(loaded) /\ NextInScript
           /\ \E n \in {0, 1} : Answer(l, "ok", n, n)
           /\ UNCHANGED <<verbosityFlag, scheduling, argMap>>
  BY DEF ShellRun, CoreDumpFailures
<1>2. l \in Line /\ l[1] # "exec"
  BY TypedLine DEF Commands
<1>3. CASE RunPrograms(loaded) /\ NextInScript /\ UNCHANGED <<verbosityFlag, scheduling, argMap>>
             /\ \E n \in {0, 1} : Answer(l, "ok", n, n)
  <2>1. PICK n \in {0, 1} : Answer(l, "ok", n, n)
    BY <1>3
  <2>2. Accounted(l, "ok", n, n)
    BY DEF Accounted
  <2>3. loaded \in SUBSET Names
    BY DEF ShellInv, TypeOK
  <2>4. Rest
    BY <1>3, <2>3, RunSound, NextLineSound DEF ShellInv, TypeOK, Rest, scheduling
  <2> QED
    BY <1>2, <1>3, <2>1, <2>2, <2>4, AnswerSound
<1> QED
  BY <1>1, <1>2, <1>3, RefuseSound

\* The programs and times that reach the kernel are those of the line.
LEMMA ShellExecuteSound == ASSUME ShellInv, ShellExecute PROVE ShellInv'
<1>1. PICK l \in Typed("exec") :
        LET items == ExecItems(Args(l))
            names == [i \in DOMAIN items |-> items[i][1]]
        IN \/ Abort(l)
           \/ /\ \A i \in DOMAIN items : items[i][2] # Overflow
              /\ \E ok \in Loads(names) :
                   /\ Answer(l, IF items = <<>> THEN "no file" ELSE Verdict(Failures(ok)),
                             Failures(ok), Failures(ok))
                   /\ NextInScript /\ argMap' = items
                   /\ RunPrograms(loaded \cup AddedBy(names, ok))
                   /\ UNCHANGED <<verbosityFlag, scheduling>>
  BY DEF ShellExecute
<1> DEFINE items == ExecItems(Args(l))
           names == [i \in DOMAIN items |-> items[i][1]]
           Told(n) == IF items = <<>> THEN "no file" ELSE Verdict(n)
<1>2. l \in Line /\ l[1] = "exec" /\ Args(l) \in Seq(Token)
  BY TypedLine DEF Commands
<1>3. /\ items \in Seq(Pairs)
      /\ Regular(Args(l)) =>
           /\ Len(items) = Cardinality(Words(Args(l)))
           /\ \A i \in Words(Args(l)) : items[Place(Args(l), i)] = <<Args(l)[i], Time(Args(l), i)>>
  BY <1>2, ExecItemsRight
<1>4. ASSUME \A i \in DOMAIN items : items[i][2] # Overflow,
             NEW ok \in Loads(names),
             Answer(l, Told(Failures(ok)), Failures(ok), Failures(ok)),
             NextInScript, argMap' = items, RunPrograms(loaded \cup AddedBy(names, ok)),
             UNCHANGED <<verbosityFlag, scheduling>>
      PROVE  ShellInv'
  <2> DEFINE n == Failures(ok)
  <2> HIDE DEF items
  <2>1. names \in Seq(Token)
    BY <1>3 DEF Pairs
  <2>2. n \in Nat /\ AddedBy(names, ok) \subseteq Names /\ Accounted(l, Verdict(n), n, n)
    <3> HIDE DEF names
    <3> QED
      BY <2>1, LoadsSound
  <2> HIDE DEF n, names
  <2>3. Told(n) = "failed" => n > 0
    BY <2>2 DEF Accounted
  <2>4. Rest
    <3>1. loaded \cup AddedBy(names, ok) \in SUBSET Names
      BY <2>2 DEF ShellInv, TypeOK
    <3> QED
      BY <1>4, <3>1, RunSound, NextLineSound DEF ShellInv, TypeOK, Rest, scheduling
  <2>5. \A i \in DOMAIN items : items[i][2] \in Int
    <3>1. \A i \in DOMAIN items : items[i] \in Pairs
      BY <1>3
    <3> QED
      BY <1>4, <3>1 DEF Pairs
  <2>6. status' = "replied" /\ line' = l /\ failed' = n /\ recorded' = n /\ reply' = Told(n)
        /\ errorList' = (errorList \/ n > 0)
    BY <1>4 DEF Answer, n
  <2> HIDE DEF Told
  <2>7. TypeOK'
    BY <1>4, <2>2, <2>4, <2>5, <2>6 DEF ShellInv, TypeOK, Rest
  <2>8. FailuresRecorded'
    BY <2>3, <2>6 DEF FailuresRecorded
  <2>9. ExecByFormat'
    BY <1>3, <1>4, <2>6 DEF ExecByFormat, Regular
  <2> QED
    BY <2>4, <2>7, <2>8, <2>9 DEF ShellInv, Rest
<1> QED
  BY <1>1, <1>4, AbortSound

LEMMA ShellCoreDumpSound == ASSUME ShellInv, ShellCoreDump PROVE ShellInv'
<1>1. PICK l \in Typed("cdmp") :
        /\ LET n == CoreDumpFailures(cpuLogs) IN Answer(l, Verdict(n), n, n)
        /\ NextInScript /\ UNCHANGED <<verbosityFlag, kernel, argMap>>
  BY DEF ShellCoreDump
<1>2. l \in Line /\ l[1] # "exec"
  BY TypedLine DEF Commands
<1>3. CoreDumpFailures(cpuLogs) \in {0, 1}
  BY DEF CoreDumpFailures
<1> QED
  BY <1>1, <1>2, <1>3, OneFailure, ReplySound

LEMMA ShellMemDumpSound == ASSUME ShellInv, ShellMemDump PROVE ShellInv'
<1>1. PICK l \in Typed("mdmp") :
        \/ Refuse(l)
        \/ /\ \E n \in {0, 1}, e \in {0, 1} : Answer(l, "ok", n, e)
           /\ NextInScript /\ UNCHANGED <<verbosityFlag, kernel, argMap>>
  BY DEF ShellMemDump, MemDumpAll, KernelMemDump
<1>2. l \in Line /\ l[1] = "mdmp"
  BY TypedLine DEF Commands
<1>3. \A n, e \in {0, 1} : Accounted(l, "ok", n, e)
  BY <1>2 DEF Accounted
<1> QED
  BY <1>1, <1>2, <1>3, ReplySound, RefuseSound

LEMMA ShellWriteOutSound == ASSUME ShellInv, ShellWriteOut PROVE ShellInv'
<1>1. PICK l \in Typed("wout") :
        \/ Refuse(l) \/ Done(l, "ok") \/ Abort(l)
        \/ /\ \E n \in {0, 1}, e \in {0, 1} : Answer(l, "ok", n, e)
           /\ NextInScript /\ UNCHANGED <<verbosityFlag, kernel, argMap>>
  BY DEF ShellWriteOut, KernelWriteOut
<1>2. l \in Line /\ l[1] = "wout"
  BY TypedLine DEF Commands
<1>3. \A n, e \in {0, 1} : Accounted(l, "ok", n, e)
  BY <1>2 DEF Accounted
<1> QED
  BY <1>1, <1>2, <1>3, ReplySound, RefuseSound, DoneSound, AbortSound

LEMMA ShellLinkSound == ASSUME ShellInv, ShellLink PROVE ShellInv'
<1>1. PICK c \in {"oshm", "insm"} : \E l \in Typed(c) :
        \/ Refuse(l) \/ Abort(l)
        \/ /\ OpenShared(l) \/ InitSemaphore(l)
           /\ NextInScript /\ UNCHANGED <<verbosityFlag, kernel, argMap>>
  BY DEF ShellLink
<1>2. PICK l \in Typed(c) :
        \/ Refuse(l) \/ Abort(l)
        \/ /\ OpenShared(l) \/ InitSemaphore(l)
           /\ NextInScript /\ UNCHANGED <<verbosityFlag, kernel, argMap>>
  BY <1>1
<1>3. c \in Commands /\ c # "exec"
  BY DEF Commands
<1>4. l \in Line /\ l[1] # "exec"
  BY <1>3, TypedLine
<1>5. CASE OpenShared(l) \/ InitSemaphore(l)
  <2>1. PICK n \in {0, 1}, said \in {"ok", "failed"} :
          Answer(l, said, n, n) /\ (said = "failed" => n = 1)
    BY <1>5 DEF OpenShared, InitSemaphore, Verdict
  <2>2. Accounted(l, said, n, n)
    BY <2>1 DEF Accounted
  <2> QED
    BY <1>2, <1>4, <2>1, <2>2, ReplySound, RefuseSound, AbortSound
<1> QED
  BY <1>2, <1>4, <1>5, RefuseSound, AbortSound

LEMMA TestScript == ASSUME NEW n PROVE Test(n) \in Seq(Line)
<1>1. \A i \in Nat : TestProgram(i) \in Token
  BY ProgramAssumption DEF TestProgram, Names, Token
<1> DEFINE p(i) == TestProgram(i)
<1>2. SixAtFifty \in Line
  <2>1. p(0) \in Token /\ p(1) \in Token /\ p(2) \in Token
        /\ p(3) \in Token /\ p(4) \in Token /\ p(5) \in Token
    BY <1>1
  <2> HIDE DEF p
  <2>2. SixAtFifty = <<"exec", p(0), "0", p(1), "50", p(2), "100",
                      p(3), "150", p(4), "200", p(5), "250">>
    BY DEF SixAtFifty, p
  <2>3. SixAtFifty = [i \in 1..13 |-> SixAtFifty[i]]
    BY <2>2
  <2>4. SixAtFifty[1] \in Token /\ SixAtFifty[2] \in Token /\ SixAtFifty[3] \in Token
        /\ SixAtFifty[4] \in Token /\ SixAtFifty[5] \in Token /\ SixAtFifty[6] \in Token
        /\ SixAtFifty[7] \in Token /\ SixAtFifty[8] \in Token /\ SixAtFifty[9] \in Token
        /\ SixAtFifty[10] \in Token /\ SixAtFifty[11] \in Token /\ SixAtFifty[12] \in Token
        /\ SixAtFifty[13] \in Token
    BY <2>1, <2>2 DEF Token
  <2>5. \A i \in 1..13 : SixAtFifty[i] \in Token
    BY <2>4
  <2>6. SixAtFifty # <<>>
    BY <2>2
  <2> QED
    BY <2>3, <2>5, <2>6, IsASeq DEF Line
<1>3. ASSUME NEW a \in Token, NEW b \in Token, NEW c \in Token
      PROVE  <<a, b, c>> \in Line /\ \A d \in Token : <<a, b, c, d>> \in Line
  BY DEF Line
<1>6. /\ <<"sets", "mlfq", "3", "2">> \in Line /\ <<"sets", "rr", "7">> \in Line
      /\ <<"sets", "mlfq", "5", "3">> \in Line
  <2>1. {"sets", "mlfq", "rr", "2", "3", "5", "7"} \subseteq Token
    BY DEF Token
  <2> QED
    BY <1>3, <2>1
<1>7. /\ <<"exec", p(0), p(1), "300", p(2), "25">> \in Line
      /\ <<"load", p(0), p(1)>> \in Line
      /\ <<"oshm", "5", p(0), p(1)>> \in Line /\ <<"insm", "1", p(0), p(1)>> \in Line
  BY <1>1 DEF Line, Token
<1> QED
  BY <1>2, <1>6, <1>7 DEF Test

LEMMA ShellTestSound == ASSUME ShellInv, ShellTest PROVE ShellInv'
<1>1. PICK l \in Typed("test") :
        \/ Refuse(l) \/ Abort(l)
        \/ /\ Answer(l, "ok", 0, 0) /\ script' = Test(Stoi[l[2]])
           /\ UNCHANGED <<verbosityFlag, kernel, argMap>>
  BY DEF ShellTest
<1>2. l \in Line /\ l[1] # "exec"
  BY TypedLine DEF Commands
<1>3. Accounted(l, "ok", 0, 0)
  BY DEF Accounted
<1> QED
  BY <1>1, <1>2, <1>3, TestScript, SameRest, AnswerSound, RefuseSound, AbortSound

LEMMA SetSchedulerSound == ASSUME ShellInv, SetScheduler PROVE ShellInv'
<1> DEFINE Set(l) ==
      LET args == Args(l)
          quantum == IF 2 \in SetsNumbers(args) THEN Stoi[args[2]] ELSE 5
          ratio == IF 3 \in SetsNumbers(args) THEN Stoi[args[3]] ELSE 3
      IN /\ \A i \in SetsNumbers(args) : IsNumber(args[i]) /\ Stoi[args[i]] # Overflow
         /\ \E n \in {0, 1} : Answer(l, Verdict(n), n, n)
         /\ schedulerAlgo' = AlgoAfter(args[1])
         /\ schedulerQuantum' = IF args[1] \in {"rr", "mlfq"} THEN quantum ELSE schedulerQuantum
         /\ mlfqRatio' = IF args[1] = "mlfq" THEN ratio ELSE mlfqRatio
         /\ NextInScript /\ UNCHANGED <<verbosityFlag, loaded, cpuLogs, argMap>>
<1>1. PICK l \in Typed("sets") : Refuse(l) \/ Done(l, "ok") \/ Abort(l) \/ Set(l)
  BY DEF SetScheduler
<1>2. l \in Line /\ l[1] # "exec"
  BY TypedLine DEF Commands
<1>3. CASE Set(l)
  <2>1. \A i \in SetsNumbers(Args(l)) : Stoi[Args(l)[i]] \in Int
    BY <1>3, StoiAssumption DEF IsNumber
  <2>2. Rest
    BY <1>3, <2>1, NextLineSound DEF ShellInv, TypeOK, Rest, AlgoAfter
  <2> QED
    BY <1>2, <1>3, <2>2, OneFailure, AnswerSound
<1> QED
  BY <1>1, <1>2, <1>3, DoneSound, RefuseSound, AbortSound

LEMMA ShellInvStep == ASSUME ShellInv, [Next]_vars PROVE ShellInv'
<1>1. CASE Prompt \/ ShellExit
  <2>1. /\ status' \in {"prompt", "exited"} /\ argMap' \in {<<>>, argMap}
        /\ failed' \in {0, failed} /\ recorded' \in {0, recorded}
        /\ UNCHANGED <<script, verbosityFlag, kernel, errorList>>
    BY <1>1, Zenon DEF Prompt, ShellExit
  <2>3. TypeOK' /\ script' \in Seq(Line)
    BY <2>1 DEF ShellInv, TypeOK, kernel, scheduling
  <2>2. FailuresRecorded' /\ ExecByFormat'
    BY <1>1 DEF Prompt, ShellExit, FailuresRecorded, ExecByFormat
  <2> QED
    BY <2>2, <2>3 DEF ShellInv
<1>2. CASE Stopped \/ UNCHANGED vars
  BY <1>2 DEF ShellInv, Stopped, vars, TypeOK, FailuresRecorded, ExecByFormat, kernel, scheduling
<1>3. CASE EmptyLine
  BY <1>3, AbortSound DEF EmptyLine
<1> QED
  BY <1>1, <1>2, <1>3, UnknownSound, SaySound, VerboseSound, ShellLoadSound, ShellRunSound,
     ShellExecuteSound, ShellCoreDumpSound, ShellMemDumpSound, SetSchedulerSound,
     ShellWriteOutSound, ShellLinkSound, ShellTestSound
  DEF Next, Command

LEMMA ShellInvInit == ASSUME Init PROVE ShellInv
<1>1. TypeOK
  <2>1. /\ status = "prompt" /\ verbosityFlag \in InitialFlags
        /\ schedulerAlgo = "mlfq" /\ schedulerQuantum = 5 /\ mlfqRatio = 3
        /\ loaded = {} /\ cpuLogs = 0 /\ errorList = FALSE
        /\ argMap = <<>> /\ failed = 0 /\ recorded = 0
    BY Zenon DEF Init
  <2>2. verbosityFlag \in [Components -> BOOLEAN]
    BY <2>1 DEF InitialFlags
  <2>3. \A i \in DOMAIN argMap : argMap[i][2] \in Int
    BY <2>1
  <2>4. cpuLogs \in 0..MaxLogs
    BY <2>1, LogsAssumption
  <2>5. status \in {"prompt", "replied", "exited", "aborted"} /\ schedulerAlgo \in Algos
    BY <2>1 DEF Algos
  <2>6. schedulerQuantum \in Int /\ mlfqRatio \in Int /\ failed \in Nat /\ recorded \in Nat
    BY <2>1
  <2>7. loaded \subseteq Names /\ errorList \in BOOLEAN
    BY <2>1
  <2> QED
    BY <2>2, <2>3, <2>4, <2>5, <2>6, <2>7 DEF TypeOK
<1>2. script \in Seq(Line)
  BY NoneASeq DEF Init
<1>3. FailuresRecorded /\ ExecByFormat
  BY DEF Init, FailuresRecorded, ExecByFormat
<1> QED
  BY <1>1, <1>2, <1>3 DEF ShellInv

LEMMA ShellInvAlways == Spec => []ShellInv
BY ShellInvInit, ShellInvStep, PTL DEF Spec

\* Every variable stays in its range: no number outside int and no program that
\* is not there gets past the commands (shell.cpp, kernel.cpp).
THEOREM TypeOKHolds == Spec => []TypeOK
<1>1. ShellInv => TypeOK
  BY DEF ShellInv
<1> QED
  BY <1>1, ShellInvAlways, PTL

\* Every kernel operation that fails is one entry of the error list, save for those of
\* mdmp and wout, and nothing is answered "failed" without one (errorhandler.cpp).
THEOREM FailuresRecordedHolds == Spec => []FailuresRecorded
<1>1. ShellInv => FailuresRecorded
  BY DEF ShellInv
<1> QED
  BY <1>1, ShellInvAlways, PTL

\* On every line in the format of exec, however long, in which no program name that
\* begins with a number comes straight after another program, every program reaches the
\* kernel with its own time, in the order typed (the loop of Shell::shellExecute).  On
\* the lines excepted the code loses the second program.
THEOREM ExecByFormatHolds == Spec => []ExecByFormat
<1>1. ShellInv => ExecByFormat
  BY DEF ShellInv
<1> QED
  BY <1>1, ShellInvAlways, PTL
=============================================================================
