--------------------------- MODULE Documents_proofs ---------------------------
(***************************************************************************)
(* Theorems about Reconcile, for any nodes, statements, forms and          *)
(* lines, about Compiler, for any palettes, and about Readers, for any     *)
(* event logs: what is drawn is queried and compiled, what is edited is    *)
(* taken back, and what ran is summed up.  What a loop does is shown by    *)
(* induction on its rounds, written out with sets of numbers.              *)
(***************************************************************************)
EXTENDS Reconcile, Readers, FiniteSetTheorems, SequenceTheorems, WellFoundedInduction, TLAPS

\* The revision a request has loaded is not ahead of the document, and as long
\* as it is the document's, so is all the rest: every save counts.
Loaded == req # None => req.rev <= doc.rev /\ (req.rev = doc.rev => req = doc)

\* An answer stands only while the text it was given for does.
Answered ==
  reply.ownership = "visual" /\ ~text.sql =>
    \E config \in Configs : reply.config = TakeLines(config, text.lines)

-----------------------------------------------------------------------------
(* Numbers.                                                                *)

LEMMA LeastExists ==
  ASSUME NEW T \in SUBSET Nat, T # {}
  PROVE  \E x \in T : \A y \in T : x <= y
<1> DEFINE less == OpToRel(<, Nat)
<1>1. IsWellFoundedOn(less, Nat)
  BY NatLessThanWellFounded
<1>2. PICK x \in T : \A y \in T : ~(<<y, x>> \in less)
  <2> HIDE DEF less
  <2> QED BY <1>1, WFMin
<1>3. ASSUME NEW y \in T PROVE x <= y
  <2>1. x \in Nat /\ y \in Nat /\ <<y, x>> \in Nat \X Nat
    OBVIOUS
  <2>2. ~(y < x)
    BY <1>2, <2>1 DEF OpToRel
  <2> QED BY <2>1, <2>2
<1> QED BY <1>3

LEMMA Induction ==
  ASSUME NEW S, 0 \in S, \A n \in Nat : n \in S => n + 1 \in S
  PROVE  \A n \in Nat : n \in S
<1> SUFFICES ASSUME Nat \ S # {} PROVE FALSE
  OBVIOUS
<1>1. PICK x \in Nat \ S : \A y \in Nat \ S : x <= y
  BY LeastExists
<1>2. x - 1 \in Nat /\ x - 1 \in S
  BY <1>1
<1> QED BY <1>1, <1>2

-----------------------------------------------------------------------------
(* The loop over the statements.                                           *)

\* The node a line is read into.
TargetOf(config, line) ==
  IF ~Form[line.of].decorator THEN Form[line.of].owner
  ELSE IF Bearer(config, line.by) = Nobody THEN Bearer(config, line.args[Name])
  ELSE Bearer(config, line.by)

\* The lines that give no node another name.
Keeps(config, line) ==
  /\ line.as = 0
  /\ ReadInto(line, Name) # 0 =>
       /\ ~Form[line.of].decorator
       /\ \A n \in Nodes : Form[line.of].owner = n => config[n][Name] = ReadInto(line, Name)

SameNames(config, other) == \A n \in Nodes : config[n][Name] = other[n][Name]

LEMMA Assumed ==
  /\ Name \in Keys /\ 0 \in Optional /\ Nobody \notin Nodes
  /\ \A s \in Statements : Form[s] \in Forms
<1>1. MaxValue \in Nat
  BY ReconcileAssumption
<1> QED BY <1>1, ReconcileAssumption DEF Optional

LEMMA ReadIntoType ==
  ASSUME NEW line \in Lines, NEW k \in Keys
  PROVE  ReadInto(line, k) \in Optional
<1>1. line.method \in Statements /\ line.args \in [Keys -> Optional]
  BY DEF Lines, Arguments
<1>2. Form[line.method].writes[k] \in Keys \cup {0}
  BY <1>1, Assumed DEF Forms
<1> QED BY <1>1, <1>2, Assumed DEF ReadInto

LEMMA OverwrittenFacts ==
  ASSUME NEW config \in Configs, NEW line \in Lines, NEW target \in Nodes \cup {Nobody}
  PROVE  /\ Overwritten(config, target, line) \in Configs
         /\ \A n \in Nodes, k \in Keys : Overwritten(config, target, line)[n][k] =
              IF n = target /\ ReadInto(line, k) # 0 THEN ReadInto(line, k) ELSE config[n][k]
<1> DEFINE read == [k \in Keys |-> IF ReadInto(line, k) # 0 THEN ReadInto(line, k) ELSE config[target][k]]
<1>1. CASE target = Nobody
  BY <1>1, Assumed DEF Overwritten
<1>2. CASE target \in Nodes
  <2>1. config[target] \in Arguments /\ target # Nobody
    BY <1>2, Assumed DEF Configs
  <2>2. read \in Arguments
    BY <2>1, ReadIntoType DEF Arguments
  <2>3. Overwritten(config, target, line) = [config EXCEPT ![target] = read]
    BY <2>1 DEF Overwritten
  <2>4. \A k \in Keys : read[k] = IF ReadInto(line, k) # 0 THEN ReadInto(line, k) ELSE config[target][k]
    OBVIOUS
  <2> HIDE DEF read
  <2> QED BY <1>2, <2>2, <2>3, <2>4 DEF Configs
<1> QED BY <1>1, <1>2

LEMMA BearerFacts ==
  ASSUME NEW config, NEW name
  PROVE  /\ Bearer(config, name) \in Nodes \cup {Nobody}
         /\ Bearer(config, name) \in Nodes => config[Bearer(config, name)][Name] = name
<1> DEFINE bearers == {n \in Nodes : config[n][Name] = name}
<1>1. Bearer(config, name) = IF bearers = {} THEN Nobody ELSE CHOOSE n \in bearers : TRUE
  BY DEF Bearer
<1>2. bearers # {} => (CHOOSE n \in bearers : TRUE) \in bearers
  OBVIOUS
<1> QED BY <1>1, <1>2, Assumed

LEMMA SameBearer ==
  ASSUME NEW config, NEW other, SameNames(config, other), NEW name
  PROVE  Bearer(config, name) = Bearer(other, name)
<1> DEFINE bearers == {n \in Nodes : config[n][Name] = name}
           theirs == {n \in Nodes : other[n][Name] = name}
           First(S) == IF S = {} THEN Nobody ELSE CHOOSE n \in S : TRUE
<1>1. bearers = theirs
  BY DEF SameNames
<1>2. Bearer(config, name) = First(bearers) /\ Bearer(other, name) = First(theirs)
  BY DEF Bearer
<1> HIDE DEF bearers, theirs, First
<1> QED BY <1>1, <1>2

LEMMA TargetFacts ==
  ASSUME NEW config, NEW line \in Lines
  PROVE  /\ TargetOf(config, line) \in Nodes \cup {Nobody}
         /\ \A other : SameNames(config, other) => TargetOf(other, line) = TargetOf(config, line)
<1>1. line.of \in Statements
  BY DEF Lines
<1>2. Form[line.of].owner \in Nodes \cup {Nobody}
  BY <1>1, Assumed DEF Forms
<1>3. TargetOf(config, line) \in Nodes \cup {Nobody}
  BY <1>2, BearerFacts DEF TargetOf
<1>4. ASSUME NEW other, SameNames(config, other) PROVE TargetOf(other, line) = TargetOf(config, line)
  <2>1. /\ Bearer(config, line.by) = Bearer(other, line.by)
        /\ Bearer(config, line.args[Name]) = Bearer(other, line.args[Name])
    BY <1>4, SameBearer
  <2> QED BY <2>1 DEF TargetOf
<1> QED BY <1>3, <1>4

\* What a line leaves under each key of each node.
LEMMA TakeLineFacts ==
  ASSUME NEW config \in Configs, NEW line \in Lines
  PROVE  /\ TakeLine(config, line) \in Configs
         /\ \A n \in Nodes, k \in Keys : TakeLine(config, line)[n][k] =
              IF n = TargetOf(config, line) /\ ReadInto(line, k) # 0 THEN ReadInto(line, k)
              ELSE IF /\ Form[line.of].decorator /\ line.as # 0
                      /\ n = Bearer(config, line.by) /\ k = Name THEN line.as
              ELSE config[n][k]
<1> DEFINE found == Bearer(config, line.by)
           named == IF line.as = 0 THEN config ELSE [config EXCEPT ![found][Name] = line.as]
<1>1. TargetOf(config, line) \in Nodes \cup {Nobody} /\ found \in Nodes \cup {Nobody}
  BY TargetFacts, BearerFacts
<1>2. CASE ~Form[line.of].decorator
  <2>1. TakeLine(config, line) = Overwritten(config, TargetOf(config, line), line)
    BY <1>2 DEF TakeLine, TargetOf
  <2> QED BY <1>1, <1>2, <2>1, OverwrittenFacts
<1>3. CASE Form[line.of].decorator /\ found = Nobody
  <2>1. TakeLine(config, line) = Overwritten(config, TargetOf(config, line), line)
    BY <1>3 DEF TakeLine, TakeDecorator, TargetOf
  <2>2. \A n \in Nodes : n # found
    BY <1>3, Assumed
  <2> HIDE DEF found
  <2> QED BY <1>1, <1>3, <2>1, <2>2, OverwrittenFacts DEF found
<1>4. CASE Form[line.of].decorator /\ found # Nobody
  <2>1. found \in Nodes /\ TargetOf(config, line) = found
    BY <1>1, <1>4 DEF TargetOf
  <2>2. TakeLine(config, line) = Overwritten(named, found, line)
    BY <1>4 DEF TakeLine, TakeDecorator
  <2> HIDE DEF found
  <2>3. named \in Configs /\ \A n \in Nodes, k \in Keys : named[n][k] =
          IF line.as # 0 /\ n = found /\ k = Name THEN line.as ELSE config[n][k]
    <3>1. CASE line.as = 0
      BY <3>1
    <3>2. CASE line.as # 0
      <4>1. line.as \in Optional /\ config[found] \in [Keys -> Optional]
        BY <2>1 DEF Lines, Configs, Arguments
      <4> DEFINE renamed == [config[found] EXCEPT ![Name] = line.as]
      <4>2. renamed \in Arguments
        BY <4>1 DEF Arguments
      <4>3. named = [config EXCEPT ![found] = renamed]
        BY <3>2
      <4>4. \A k \in Keys : renamed[k] = IF k = Name THEN line.as ELSE config[found][k]
        BY <4>1
      <4> HIDE DEF renamed, named
      <4> QED BY <2>1, <3>2, <4>2, <4>3, <4>4 DEF Configs
    <3> QED BY <3>1, <3>2
  <2> HIDE DEF named
  <2>4. /\ Overwritten(named, found, line) \in Configs
        /\ \A n \in Nodes, k \in Keys : Overwritten(named, found, line)[n][k] =
             IF n = found /\ ReadInto(line, k) # 0 THEN ReadInto(line, k) ELSE named[n][k]
    BY <2>1, <2>3, OverwrittenFacts
  <2> QED BY <1>4, <2>1, <2>2, <2>3, <2>4 DEF found
<1> QED BY <1>2, <1>3, <1>4

\* A line that cannot be read into a node leaves it as it is.
LEMMA LineBeyond ==
  ASSUME NEW config \in Configs, NEW line \in Lines, NEW n \in Nodes, ~MayReach(config, line, n)
  PROVE  TakeLine(config, line)[n] = config[n]
<1> DEFINE taken == TakeLine(config, line)
<1>1. \A k \in Keys : taken[n][k] = config[n][k]
  <2>1. CASE ~Form[line.of].decorator
    <3>1. n # TargetOf(config, line)
      BY <2>1 DEF MayReach, TargetOf
    <3> QED BY <2>1, <3>1, TakeLineFacts
  <2>2. CASE Form[line.of].decorator /\ ~Writes(line)
    BY <2>2, TakeLineFacts DEF Writes
  <2>3. CASE Form[line.of].decorator /\ config[n][Name] \notin {line.by, line.args[Name]}
    <3>1. n # Bearer(config, line.by) /\ n # Bearer(config, line.args[Name])
      BY <2>3, BearerFacts
    <3>2. n # TargetOf(config, line)
      BY <2>3, <3>1 DEF TargetOf
    <3> QED BY <3>1, <3>2, TakeLineFacts
  <2> QED BY <2>1, <2>2, <2>3 DEF MayReach
<1>2. taken \in Configs
  BY TakeLineFacts
<1>3. taken[n] \in [Keys -> Optional] /\ config[n] \in [Keys -> Optional]
  BY <1>2 DEF Configs, Arguments
<1> HIDE DEF taken
<1> QED BY <1>1, <1>3 DEF taken

\* A line that gives no node another name leaves all names, and is read into
\* the same node whatever else has changed.
LEMMA LineKeeps ==
  ASSUME NEW config \in Configs, NEW before, SameNames(before, config),
         NEW line \in Lines, Keeps(before, line)
  PROVE  /\ SameNames(before, TakeLine(config, line))
         /\ \A n \in Nodes, k \in Keys : TakeLine(config, line)[n][k] =
              IF n = TargetOf(before, line) /\ ReadInto(line, k) # 0 THEN ReadInto(line, k) ELSE config[n][k]
<1>1. TargetOf(config, line) = TargetOf(before, line)
  BY TargetFacts
<1>2. \A n \in Nodes, k \in Keys : TakeLine(config, line)[n][k] =
        IF n = TargetOf(before, line) /\ ReadInto(line, k) # 0 THEN ReadInto(line, k) ELSE config[n][k]
  BY <1>1, TakeLineFacts DEF Keeps
<1>3. ASSUME NEW n \in Nodes PROVE before[n][Name] = TakeLine(config, line)[n][Name]
  <2>1. CASE n = TargetOf(before, line) /\ ReadInto(line, Name) # 0
    <3>1. ~Form[line.of].decorator /\ Form[line.of].owner = n
      BY <2>1 DEF Keeps, TargetOf
    <3>2. before[n][Name] = ReadInto(line, Name)
      BY <2>1, <3>1 DEF Keeps
    <3> QED BY <1>2, <2>1, <3>2, Assumed
  <2>2. CASE ~(n = TargetOf(before, line) /\ ReadInto(line, Name) # 0)
    <3>1. TakeLine(config, line)[n][Name] = config[n][Name]
      BY <1>2, <2>2, Assumed
    <3> QED BY <3>1 DEF SameNames
  <2> QED BY <2>1, <2>2
<1> QED BY <1>2, <1>3 DEF SameNames

\* The configuration after each statement.
Loop(config, lines, f) ==
  f = [i \in 0..Len(lines) |-> IF i = 0 THEN config ELSE TakeLine(f[i - 1], lines[i])]

LEMMA LoopExists ==
  ASSUME NEW config, NEW lines \in Seq(Lines)
  PROVE  \E f : Loop(config, lines, f) /\ TakeLines(config, lines) = f[Len(lines)]
<1> DEFINE Upto(k, f) == f = [i \in 0..k |-> IF i = 0 THEN config ELSE TakeLine(f[i - 1], lines[i])]
           S == {k \in Nat : \E f : Upto(k, f)}
<1>1. 0 \in S
  <2>1. Upto(0, [i \in 0..0 |-> config])
    OBVIOUS
  <2> QED BY <2>1
<1>2. ASSUME NEW k \in Nat, k \in S PROVE k + 1 \in S
  <2>1. PICK f : Upto(k, f)
    BY <1>2
  <2> DEFINE g == [i \in 0..(k + 1) |-> IF i <= k THEN f[i] ELSE TakeLine(f[k], lines[k + 1])]
  <2>2. Upto(k + 1, g)
    <3>1. \A i \in 0..(k + 1) : g[i] = IF i = 0 THEN config ELSE TakeLine(g[i - 1], lines[i])
      <4>1. ASSUME NEW i \in 0..(k + 1), i = 0 PROVE g[i] = config
        BY <2>1, <4>1
      <4>2. ASSUME NEW i \in 0..(k + 1), i # 0, i <= k PROVE g[i] = TakeLine(g[i - 1], lines[i])
        <5>1. i \in 0..k /\ i - 1 \in 0..k /\ i - 1 \in 0..(k + 1) /\ i - 1 <= k
          BY <4>2
        <5>2. g[i] = f[i] /\ g[i - 1] = f[i - 1]
          BY <4>2, <5>1
        <5>3. f[i] = TakeLine(f[i - 1], lines[i])
          BY <2>1, <4>2, <5>1
        <5> QED BY <5>2, <5>3
      <4>3. ASSUME NEW i \in 0..(k + 1), ~(i <= k) PROVE g[i] = TakeLine(g[i - 1], lines[i])
        <5>1. i = k + 1 /\ i - 1 = k /\ k \in 0..(k + 1)
          BY <4>3
        <5> QED BY <4>3, <5>1
      <4> QED BY <4>1, <4>2, <4>3
    <3> QED BY <3>1
  <2> HIDE DEF g, Upto
  <2>3. k + 1 \in Nat /\ \E h : Upto(k + 1, h)
    BY <2>2
  <2> QED BY <2>3
<1>3. Len(lines) \in Nat
  BY LenProperties
<1>4. \E f : Upto(Len(lines), f)
  <2> HIDE DEF S
  <2>1. Len(lines) \in S
    BY <1>1, <1>2, <1>3, Induction
  <2> QED BY <2>1 DEF S
<1> DEFINE after == CHOOSE f : Upto(Len(lines), f)
<1>5. Upto(Len(lines), after)
  BY <1>4
<1>6. TakeLines(config, lines) = after[Len(lines)]
  BY DEF TakeLines
<1> HIDE DEF after
<1> QED BY <1>5, <1>6 DEF Loop

\* What holds before the loop and is kept by each statement holds after it.
LEMMA LoopStep ==
  ASSUME NEW config, NEW lines \in Seq(Lines), NEW f, Loop(config, lines, f)
  PROVE  /\ f[0] = config
         /\ \A i \in Nat : i + 1 <= Len(lines) =>
              /\ f[i + 1] = TakeLine(f[i], lines[i + 1])
              /\ i + 1 \in DOMAIN lines /\ lines[i + 1] \in Lines
<1>1. Len(lines) \in Nat /\ DOMAIN lines = 1..Len(lines)
  BY LenProperties
<1>2. f[0] = config
  BY <1>1 DEF Loop
<1>3. ASSUME NEW i \in Nat, i + 1 <= Len(lines)
      PROVE  /\ f[i + 1] = TakeLine(f[i], lines[i + 1])
             /\ i + 1 \in DOMAIN lines /\ lines[i + 1] \in Lines
  <2>1. i + 1 \in 0..Len(lines) /\ i + 1 # 0 /\ (i + 1) - 1 = i /\ i + 1 \in 1..Len(lines)
    BY <1>1, <1>3
  <2>2. f[i + 1] = TakeLine(f[i], lines[i + 1])
    BY <2>1 DEF Loop
  <2>3. lines[i + 1] \in Lines
    BY <2>1, ElementOfSeq
  <2> QED BY <1>1, <2>1, <2>2, <2>3
<1> QED BY <1>2, <1>3

LEMMA LoopType ==
  ASSUME NEW config \in Configs, NEW lines \in Seq(Lines), NEW f, Loop(config, lines, f)
  PROVE  \A i \in Nat : i <= Len(lines) => f[i] \in Configs
<1> DEFINE S == {i \in Nat : i <= Len(lines) => f[i] \in Configs}
<1>1. 0 \in S
  BY LoopStep
<1>2. ASSUME NEW i \in Nat, i \in S PROVE i + 1 \in S
  <2> SUFFICES ASSUME i + 1 <= Len(lines) PROVE f[i + 1] \in Configs
    OBVIOUS
  <2>1. f[i] \in Configs
    BY <1>2, LenProperties
  <2>2. f[i + 1] = TakeLine(f[i], lines[i + 1]) /\ lines[i + 1] \in Lines
    BY LoopStep
  <2> QED BY <2>1, <2>2, TakeLineFacts
<1> HIDE DEF S
<1>3. \A i \in Nat : i \in S
  BY <1>1, <1>2, Induction
<1> QED BY <1>3 DEF S

\* A node that no line can be read into keeps its configuration.
LEMMA LoopBeyond ==
  ASSUME NEW config \in Configs, NEW lines \in Seq(Lines),
         NEW n \in Nodes, \A i \in DOMAIN lines : ~MayReach(config, lines[i], n)
  PROVE  TakeLines(config, lines)[n] = config[n]
<1>1. PICK f : Loop(config, lines, f) /\ TakeLines(config, lines) = f[Len(lines)]
  BY LoopExists
<1>2. Len(lines) \in Nat
  BY LenProperties
<1> DEFINE S == {i \in Nat : i <= Len(lines) => f[i][n] = config[n]}
<1>3. 0 \in S
  BY <1>1, LoopStep
<1>4. ASSUME NEW i \in Nat, i \in S PROVE i + 1 \in S
  <2> SUFFICES ASSUME i + 1 <= Len(lines) PROVE f[i + 1][n] = config[n]
    OBVIOUS
  <2>1. f[i] \in Configs /\ f[i][n] = config[n]
    BY <1>1, <1>2, <1>4, LoopType
  <2>2. i + 1 \in DOMAIN lines /\ lines[i + 1] \in Lines /\ f[i + 1] = TakeLine(f[i], lines[i + 1])
    BY <1>1, LoopStep
  <2>3. ~MayReach(f[i], lines[i + 1], n)
    BY <2>1, <2>2 DEF MayReach
  <2> QED BY <2>1, <2>2, <2>3, LineBeyond
<1> HIDE DEF S
<1>5. Len(lines) \in S
  BY <1>2, <1>3, <1>4, Induction
<1> QED BY <1>1, <1>2, <1>5 DEF S

\* What the only line of a node says is not taken back by another line.
LEMMA LoopTakes ==
  ASSUME NEW config \in Configs, NEW lines \in Seq(Lines), NEW p \in DOMAIN lines, NEW n \in Nodes,
         ~Form[lines[p].of].decorator, Form[lines[p].of].owner = n,
         \A j \in DOMAIN lines \ {p} :
           IF Form[lines[j].of].decorator THEN ~Writes(lines[j]) ELSE Form[lines[j].of].owner # n,
         NEW k \in Keys, ReadInto(lines[p], k) # 0
  PROVE  TakeLines(config, lines)[n][k] = ReadInto(lines[p], k)
<1>1. PICK f : Loop(config, lines, f) /\ TakeLines(config, lines) = f[Len(lines)]
  BY LoopExists
<1>2. Len(lines) \in Nat /\ DOMAIN lines = 1..Len(lines)
  BY LenProperties
<1>0. \A i \in Nat : i + 1 <= Len(lines) =>
        /\ f[i + 1] = TakeLine(f[i], lines[i + 1])
        /\ i + 1 \in DOMAIN lines /\ lines[i + 1] \in Lines
  BY <1>1, LoopStep
<1> DEFINE S == {i \in Nat : i <= Len(lines) /\ p <= i => f[i][n][k] = ReadInto(lines[p], k)}
<1>3. 0 \in S
  BY <1>2
<1>4. ASSUME NEW i \in Nat, i \in S PROVE i + 1 \in S
  <2> SUFFICES ASSUME i + 1 <= Len(lines), p <= i + 1 PROVE f[i + 1][n][k] = ReadInto(lines[p], k)
    OBVIOUS
  <2>1. /\ f[i] \in Configs /\ f[i + 1] = TakeLine(f[i], lines[i + 1])
        /\ i + 1 \in DOMAIN lines /\ lines[i + 1] \in Lines
    <3>1. f[i] \in Configs
      BY <1>1, <1>2, LoopType
    <3>2. f[i + 1] = TakeLine(f[i], lines[i + 1]) /\ i + 1 \in DOMAIN lines /\ lines[i + 1] \in Lines
      BY <1>0
    <3> QED BY <3>1, <3>2
  <2>2. CASE p = i + 1
    <3>1. TargetOf(f[i], lines[i + 1]) = n /\ ReadInto(lines[i + 1], k) # 0
      BY <2>2 DEF TargetOf
    <3>2. \A m \in Nodes, h \in Keys : m = TargetOf(f[i], lines[i + 1]) /\ ReadInto(lines[i + 1], h) # 0
            => TakeLine(f[i], lines[i + 1])[m][h] = ReadInto(lines[i + 1], h)
      BY <2>1, TakeLineFacts
    <3>3. f[i + 1][n][k] = ReadInto(lines[i + 1], k)
      BY <2>1, <3>1, <3>2
    <3> QED BY <2>2, <3>3
  <2>3. CASE p # i + 1
    <3>1. f[i][n][k] = ReadInto(lines[p], k)
      BY <1>2, <1>4, <2>3
    <3>2. ~MayReach(f[i], lines[i + 1], n)
      BY <2>1, <2>3 DEF MayReach
    <3>3. f[i + 1][n] = f[i][n]
      BY <2>1, <3>2, LineBeyond
    <3> QED BY <3>1, <3>3
  <2> QED BY <2>2, <2>3
<1> HIDE DEF S
<1>5. Len(lines) \in S
  BY <1>2, <1>3, <1>4, Induction
<1>6. Len(lines) <= Len(lines) /\ p <= Len(lines)
  BY <1>2
<1> QED BY <1>1, <1>5, <1>6 DEF S

LEMMA LoopKeeps ==
  ASSUME NEW before, NEW config \in Configs, SameNames(before, config), NEW lines \in Seq(Lines),
         \A i \in DOMAIN lines : Keeps(before, lines[i]), NEW f, Loop(config, lines, f)
  PROVE  \A i \in Nat : i <= Len(lines) => SameNames(before, f[i])
<1> DEFINE S == {i \in Nat : i <= Len(lines) => SameNames(before, f[i])}
<1>0. /\ f[0] = config
      /\ \A i \in Nat : i + 1 <= Len(lines) =>
           /\ f[i + 1] = TakeLine(f[i], lines[i + 1])
           /\ i + 1 \in DOMAIN lines /\ lines[i + 1] \in Lines
  BY LoopStep
<1>1. 0 \in S
  BY <1>0
<1>2. ASSUME NEW i \in Nat, i \in S PROVE i + 1 \in S
  <2> SUFFICES ASSUME i + 1 <= Len(lines) PROVE SameNames(before, f[i + 1])
    OBVIOUS
  <2>1. f[i] \in Configs /\ SameNames(before, f[i])
    BY <1>2, LoopType, LenProperties
  <2>2. i + 1 \in DOMAIN lines /\ f[i + 1] = TakeLine(f[i], lines[i + 1]) /\ lines[i + 1] \in Lines
    BY <1>0
  <2> QED BY <2>1, <2>2, LineKeeps
<1> HIDE DEF S
<1>3. \A i \in Nat : i \in S
  BY <1>1, <1>2, Induction
<1> QED BY <1>3 DEF S

\* The loop over a text that keeps the names has nothing left to do in what it
\* has made: the last line that is read into a key is the last again.
LEMMA LoopAgain ==
  ASSUME NEW config \in Configs, NEW lines \in Seq(Lines), \A i \in DOMAIN lines : Keeps(config, lines[i])
  PROVE  TakeLines(TakeLines(config, lines), lines) = TakeLines(config, lines)
<1>1. PICK f : Loop(config, lines, f) /\ TakeLines(config, lines) = f[Len(lines)]
  BY LoopExists
<1>2. Len(lines) \in Nat /\ DOMAIN lines = 1..Len(lines)
  BY LenProperties
<1> DEFINE once == f[Len(lines)]
<1>3. once \in Configs /\ SameNames(config, config)
  BY <1>1, <1>2, LoopType DEF SameNames
<1>4. \A i \in Nat : i <= Len(lines) => f[i] \in Configs /\ SameNames(config, f[i])
  BY <1>1, <1>3, LoopType, LoopKeeps
<1>5. SameNames(config, once)
  BY <1>2, <1>4
<1> HIDE DEF once
<1>6. PICK g : Loop(once, lines, g) /\ TakeLines(once, lines) = g[Len(lines)]
  BY LoopExists
<1>7. \A i \in Nat : i <= Len(lines) => g[i] \in Configs /\ SameNames(config, g[i])
  BY <1>3, <1>5, <1>6, LoopType, LoopKeeps
<1> DEFINE Reads(j, n, k) == n = TargetOf(config, lines[j]) /\ ReadInto(lines[j], k) # 0
           Done(i, n, k) == \E j \in 1..i : Reads(j, n, k)
           S == {i \in Nat : i <= Len(lines) =>
                   \A n \in Nodes, k \in Keys :
                     g[i][n][k] = IF Done(i, n, k) THEN f[i][n][k] ELSE once[n][k]}
<1>8. 0 \in S
  <2>1. g[0] = once
    BY <1>3, <1>6, LoopStep
  <2>2. \A n \in Nodes, k \in Keys : ~Done(0, n, k)
    OBVIOUS
  <2> HIDE DEF Done
  <2> QED BY <2>1, <2>2
<1>9. ASSUME NEW i \in Nat, i \in S PROVE i + 1 \in S
  <2> SUFFICES ASSUME i + 1 <= Len(lines), NEW n \in Nodes, NEW k \in Keys
               PROVE  g[i + 1][n][k] = IF Done(i + 1, n, k) THEN f[i + 1][n][k] ELSE once[n][k]
    OBVIOUS
  <2>1. i <= Len(lines) /\ i + 1 \in DOMAIN lines /\ lines[i + 1] \in Lines
    BY <1>1, <1>2, LoopStep
  <2>2. g[i][n][k] = IF Done(i, n, k) THEN f[i][n][k] ELSE once[n][k]
    BY <1>9, <2>1
  <2>3. f[i + 1] = TakeLine(f[i], lines[i + 1]) /\ g[i + 1] = TakeLine(g[i], lines[i + 1])
    BY <1>1, <1>6, LoopStep
  <2>4. /\ f[i] \in Configs /\ SameNames(config, f[i])
        /\ g[i] \in Configs /\ SameNames(config, g[i])
    BY <1>4, <1>7, <2>1
  <2>5. Keeps(config, lines[i + 1])
    BY <2>1
  <2>6. f[i + 1][n][k] = IF Reads(i + 1, n, k) THEN ReadInto(lines[i + 1], k) ELSE f[i][n][k]
    BY <2>1, <2>3, <2>4, <2>5, LineKeeps
  <2>7. g[i + 1][n][k] = IF Reads(i + 1, n, k) THEN ReadInto(lines[i + 1], k) ELSE g[i][n][k]
    BY <2>1, <2>3, <2>4, <2>5, LineKeeps
  <2>8. Done(i + 1, n, k) <=> Done(i, n, k) \/ Reads(i + 1, n, k)
    <3>1. 1..(i + 1) = 1..i \cup {i + 1}
      OBVIOUS
    <3> HIDE DEF Reads
    <3> QED BY <3>1
  <2> HIDE DEF Done, Reads
  <2> QED BY <2>2, <2>6, <2>7, <2>8
<1>10. Len(lines) \in S
  <2> HIDE DEF S
  <2> QED BY <1>2, <1>8, <1>9, Induction
<1>11. \A n \in Nodes, k \in Keys : g[Len(lines)][n][k] = once[n][k]
  <2> HIDE DEF Done
  <2> QED BY <1>2, <1>10 DEF once
<1>12. g[Len(lines)] = once
  <2> DEFINE twice == g[Len(lines)]
  <2>1. twice \in Configs
    BY <1>2, <1>7
  <2>2. \A n \in Nodes : twice[n] \in [Keys -> Optional] /\ once[n] \in [Keys -> Optional]
    BY <1>3, <2>1 DEF Configs, Arguments
  <2> HIDE DEF twice
  <2>3. \A n \in Nodes, k \in Keys : twice[n][k] = once[n][k]
    BY <1>11 DEF twice
  <2>4. \A n \in Nodes : twice[n] = once[n]
    BY <2>2, <2>3
  <2>5. twice = once
    BY <1>3, <2>1, <2>4 DEF Configs
  <2> QED BY <2>5 DEF twice
<1> QED BY <1>1, <1>6, <1>12 DEF once

-----------------------------------------------------------------------------
(* Generated code.                                                         *)

LEMMA BodyType == FlattenSeq(Definitions) \in Seq(Statements)
<1>1. Definitions \in Seq(Seq(Statements)) /\ Len(Definitions) \in Nat /\ Len(Definitions) # 0
  BY ReconcileAssumption, LenProperties, EmptySeq
<1> DEFINE Upto(k, f) == f = [i \in 1..k |-> IF i = 1 THEN Definitions[i] ELSE f[i - 1] \o Definitions[i]]
           S == {k \in Nat : \E f : Upto(k, f)}
<1>2. 0 \in S
  <2>1. Upto(0, [i \in 1..0 |-> 0])
    OBVIOUS
  <2> QED BY <2>1
<1>3. ASSUME NEW k \in Nat, k \in S PROVE k + 1 \in S
  <2>1. PICK f : Upto(k, f)
    BY <1>3
  <2> DEFINE g == [i \in 1..(k + 1) |-> IF i <= k THEN f[i]
                                        ELSE IF k = 0 THEN Definitions[1] ELSE f[k] \o Definitions[k + 1]]
  <2>2. Upto(k + 1, g)
    <3>1. ASSUME NEW i \in 1..(k + 1), i = 1 PROVE g[i] = Definitions[i]
      BY <2>1, <3>1
    <3>2. ASSUME NEW i \in 1..(k + 1), i # 1, i <= k PROVE g[i] = g[i - 1] \o Definitions[i]
      <4>1. i \in 1..k /\ i - 1 \in 1..k /\ i - 1 \in 1..(k + 1) /\ i - 1 <= k
        BY <3>2
      <4>2. g[i] = f[i] /\ g[i - 1] = f[i - 1]
        BY <3>2, <4>1
      <4>3. f[i] = f[i - 1] \o Definitions[i]
        BY <2>1, <3>2, <4>1
      <4> QED BY <4>2, <4>3
    <3>3. ASSUME NEW i \in 1..(k + 1), i # 1, ~(i <= k) PROVE g[i] = g[i - 1] \o Definitions[i]
      <4>1. i = k + 1 /\ i - 1 = k /\ k \in 1..(k + 1) /\ k # 0
        BY <3>3
      <4>2. k \in 1..(k + 1) /\ k <= k /\ k + 1 \in 1..(k + 1) /\ ~(k + 1 <= k)
        BY <4>1
      <4>3. g[k] = f[k]
        BY <4>2
      <4>4. g[k + 1] = f[k] \o Definitions[k + 1]
        BY <4>1, <4>2
      <4> HIDE DEF g
      <4> QED BY <4>1, <4>3, <4>4
    <3> QED BY <3>1, <3>2, <3>3
  <2> HIDE DEF g, Upto
  <2>3. k + 1 \in Nat /\ \E h : Upto(k + 1, h)
    BY <2>2
  <2> QED BY <2>3
<1>4. \E f : Upto(Len(Definitions), f)
  <2> HIDE DEF S
  <2>1. Len(Definitions) \in S
    BY <1>1, <1>2, <1>3, Induction
  <2> QED BY <2>1 DEF S
<1> DEFINE flat == CHOOSE f : Upto(Len(Definitions), f)
<1>5. Upto(Len(Definitions), flat)
  BY <1>4
<1>6. FlattenSeq(Definitions) = flat[Len(Definitions)]
  BY <1>1 DEF FlattenSeq
<1> HIDE DEF flat
<1> DEFINE T == {i \in Nat : i \in 1..Len(Definitions) => flat[i] \in Seq(Statements)}
<1>7. 0 \in T
  OBVIOUS
<1>8. ASSUME NEW i \in Nat, i \in T PROVE i + 1 \in T
  <2> SUFFICES ASSUME i + 1 \in 1..Len(Definitions) PROVE flat[i + 1] \in Seq(Statements)
    OBVIOUS
  <2>1. Definitions[i + 1] \in Seq(Statements)
    BY <1>1, ElementOfSeq
  <2>2. CASE i = 0
    BY <1>5, <2>1, <2>2
  <2>3. CASE i # 0
    <3>1. i \in 1..Len(Definitions) /\ (i + 1) - 1 = i /\ i + 1 # 1
      BY <1>1, <2>3
    <3>2. flat[i] \in Seq(Statements)
      BY <1>8, <3>1
    <3>3. flat[i + 1] = flat[i] \o Definitions[i + 1]
      BY <1>5, <3>1
    <3> QED BY <2>1, <3>2, <3>3, ConcatProperties
  <2> QED BY <2>2, <2>3
<1> HIDE DEF T
<1>9. Len(Definitions) \in T
  BY <1>1, <1>7, <1>8, Induction
<1> QED BY <1>1, <1>6, <1>9 DEF T


\* A line of generated code shows what its node shows.
LEMMA RenderedLines ==
  ASSUME NEW config \in Configs
  PROVE  /\ PythonLines(config) \in Seq(Lines)
         /\ SqlLines(config) \in [SqlPositions -> Lines]
         /\ \A i \in DOMAIN PythonLines(config) :
              \E s \in Statements : PythonLines(config)[i] = Generated(config, s)
<1>1. ASSUME NEW s \in Statements PROVE Generated(config, s) \in Lines
  <2>1. Form[s] \in Forms
    BY Assumed
  <2>2. Form[s].node \in Nodes /\ Form[s].shape \in Shapes
    BY <2>1 DEF Forms
  <2>3. Default[Form[s].node] \in Optional /\ config[Form[s].node] \in [Keys -> Optional]
    BY <2>2, ReconcileAssumption DEF Configs, Arguments
  <2>4. \A k \in Keys : Shown(config, Form[s].node, k) \in Optional
    BY <2>3 DEF Shown
  <2> DEFINE args == [k \in Keys |-> IF k \in Form[s].shows THEN Shown(config, Form[s].node, k) ELSE 0]
             by == IF Form[s].decorator THEN Function[s][Shown(config, Form[s].node, Name)] ELSE 0
  <2>5. args \in Arguments /\ by \in Optional
    BY <2>4, Assumed, ReconcileAssumption DEF Arguments
  <2>6. Generated(config, s) =
          [of |-> s, method |-> s, shape |-> Form[s].shape, args |-> args, by |-> by, as |-> 0]
    BY DEF Generated
  <2> HIDE DEF args, by
  <2> QED BY <2>2, <2>5, <2>6, Assumed DEF Lines
<1> DEFINE body == FlattenSeq(Definitions)
           lines == [i \in DOMAIN body |-> Generated(config, body[i])]
<1>2. body \in Seq(Statements)
  BY BodyType
<1>3. PythonLines(config) = lines
  BY DEF PythonLines
<1> HIDE DEF body
<1>4. /\ Len(body) \in Nat /\ DOMAIN body = 1..Len(body)
      /\ \A i \in DOMAIN body : body[i] \in Statements
  BY <1>2, LenProperties, ElementOfSeq
<1>5. lines \in [1..Len(body) -> Lines]
  BY <1>1, <1>4
<1>6. lines \in Seq(Lines)
  <2> HIDE DEF lines
  <2> QED BY <1>4, <1>5, IsASeq
<1>7. \A i \in DOMAIN lines : \E s \in Statements : lines[i] = Generated(config, s)
  BY <1>4
<1>8. Definitions[1] \in Seq(Statements)
  <2>1. Definitions \in Seq(Seq(Statements)) /\ 1 \in 1..Len(Definitions)
    BY ReconcileAssumption, LenProperties, EmptySeq
  <2> QED BY <2>1, ElementOfSeq
<1>9. \A i \in SqlPositions : Definitions[1][i] \in Statements
  BY <1>8, LenProperties, ElementOfSeq DEF SqlPositions
<1>10. SqlLines(config) \in [SqlPositions -> Lines]
  BY <1>1, <1>9 DEF SqlLines
<1> QED BY <1>3, <1>6, <1>7, <1>10

\* Reading generated code may write what was not set, and never anything else
\* under a key that the code shows of a node: it stays what it was.
LEMMA UneditedLine ==
  ASSUME NEW config \in Configs, NEW other \in Configs, NEW s \in Statements,
         NEW t \in Statements, NEW n \in Nodes, Form[t].node = n, OwnKeys(n),
         NEW k \in Keys, k \in Form[t].shows \/ (Form[t].decorator /\ k = Name),
         Shown(other, n, k) = Shown(config, n, k), Generated(config, s) \in Lines
  PROVE  Shown(TakeLine(other, Generated(config, s)), n, k) = Shown(config, n, k)
<1> DEFINE line == Generated(config, s)
           arg == Form[s].writes[k]
           taken == TakeLine(other, line)
<1>1. /\ line.of = s /\ line.method = s /\ line.as = 0 /\ line \in Lines
      /\ \A h \in Keys : line.args[h] = IF h \in Form[s].shows THEN Shown(config, Form[s].node, h) ELSE 0
  BY DEF Generated
<1>2. arg \in Keys \cup {0}
  BY Assumed DEF Forms
<1>3. taken[n][k] = IF n = TargetOf(other, line) /\ ReadInto(line, k) # 0 THEN ReadInto(line, k) ELSE other[n][k]
  <2> HIDE DEF line
  <2> QED BY <1>1, TakeLineFacts
<1> HIDE DEF line, taken
<1>4. CASE n = TargetOf(other, line) /\ ReadInto(line, k) # 0
  <2>1. arg # 0 /\ ReadInto(line, k) = line.args[arg]
    BY <1>1, <1>4 DEF ReadInto
  <2>2. arg \in Form[s].shows /\ line.args[arg] = Shown(config, Form[s].node, arg)
    BY <1>1, <1>2, <1>4, <2>1
  <2>3. Form[s].decorator \/ Form[s].owner = n
    BY <1>1, <1>4 DEF TargetOf
  <2>4. Form[s].node = n /\ arg = k
    BY <2>2, <2>3 DEF OwnKeys
  <2>5. taken[n][k] = Shown(config, n, k) /\ taken[n][k] # 0
    BY <1>3, <1>4, <2>1, <2>2, <2>4
  <2> QED BY <2>5 DEF Shown, taken, line
<1>5. CASE ~(n = TargetOf(other, line) /\ ReadInto(line, k) # 0)
  <2>1. taken[n][k] = other[n][k]
    BY <1>3, <1>5
  <2> QED BY <2>1 DEF Shown, taken, line
<1> QED BY <1>4, <1>5

LEMMA Unedited ==
  ASSUME NEW config \in Configs, NEW t \in Statements, OwnKeys(Form[t].node)
  PROVE  Generated(TakeLines(config, PythonLines(config)), t) = Generated(config, t)
<1> DEFINE lines == PythonLines(config)
           n == Form[t].node
           K == {k \in Keys : k \in Form[t].shows \/ (Form[t].decorator /\ k = Name)}
<1>1. /\ lines \in Seq(Lines)
      /\ \A i \in DOMAIN lines : \E s \in Statements : lines[i] = Generated(config, s)
  BY RenderedLines
<1> HIDE DEF lines
<1>2. PICK f : Loop(config, lines, f) /\ TakeLines(config, lines) = f[Len(lines)]
  BY <1>1, LoopExists
<1>3. Len(lines) \in Nat
  BY <1>1, LenProperties
<1>4. /\ f[0] = config
      /\ \A i \in Nat : i + 1 <= Len(lines) =>
           /\ f[i + 1] = TakeLine(f[i], lines[i + 1])
           /\ i + 1 \in DOMAIN lines /\ lines[i + 1] \in Lines
  BY <1>1, <1>2, LoopStep
<1>5. \A i \in Nat : i <= Len(lines) => f[i] \in Configs
  BY <1>1, <1>2, LoopType
<1>6. n \in Nodes
  BY Assumed DEF Forms
<1> DEFINE S == {i \in Nat : i <= Len(lines) => \A k \in K : Shown(f[i], n, k) = Shown(config, n, k)}
<1>7. 0 \in S
  BY <1>4
<1>8. ASSUME NEW i \in Nat, i \in S PROVE i + 1 \in S
  <2> SUFFICES ASSUME i + 1 <= Len(lines), NEW k \in K PROVE Shown(f[i + 1], n, k) = Shown(config, n, k)
    OBVIOUS
  <2>1. f[i] \in Configs /\ Shown(f[i], n, k) = Shown(config, n, k)
    BY <1>3, <1>5, <1>8
  <2>2. f[i + 1] = TakeLine(f[i], lines[i + 1]) /\ i + 1 \in DOMAIN lines /\ lines[i + 1] \in Lines
    BY <1>4
  <2>3. PICK s \in Statements : lines[i + 1] = Generated(config, s)
    BY <1>1, <2>2
  <2>4. k \in Keys /\ (k \in Form[t].shows \/ (Form[t].decorator /\ k = Name)) /\ OwnKeys(n)
    OBVIOUS
  <2>5. Generated(config, s) \in Lines
    BY <2>2, <2>3
  <2> HIDE DEF K
  <2> QED BY <1>6, <2>1, <2>2, <2>3, <2>4, <2>5, UneditedLine
<1> HIDE DEF S
<1>9. Len(lines) \in S
  BY <1>3, <1>7, <1>8, Induction
<1> DEFINE last == TakeLines(config, lines)
<1>10. \A k \in K : Shown(last, n, k) = Shown(config, n, k)
  <2> HIDE DEF K
  <2> QED BY <1>2, <1>3, <1>9 DEF S
<1> HIDE DEF last
<1>11. \A k \in Keys : k \in Form[t].shows => Shown(last, n, k) = Shown(config, n, k)
  BY <1>10
<1>12. Form[t].decorator => Shown(last, n, Name) = Shown(config, n, Name)
  BY <1>10, Assumed
<1>13. Generated(last, t) = Generated(config, t)
  BY <1>11, <1>12 DEF Generated
<1> QED BY <1>13 DEF last, lines

-----------------------------------------------------------------------------
(* What the two reconcilers answer.                                        *)

Answers == [ownership : {"custom", "visual"}, config : Configs, problems : SUBSET Problems]

LEMMA CustomAnswer ==
  ASSUME NEW config \in Configs, NEW problem \in Problems
  PROVE  Custom(config, problem) \in Answers /\ Custom(config, problem).ownership = "custom"
<1>1. [ownership |-> "custom", config |-> config, problems |-> {problem}] \in Answers
  BY DEF Answers
<1> QED BY <1>1 DEF Custom

LEMMA VisualAnswer ==
  ASSUME NEW config \in Configs
  PROVE  Visual(config) \in Answers /\ Visual(config).config = config
<1> QED BY DEF Visual, Answers

\* Whether a Python text can be read is not up to the document.
LEMMA PythonAnswer ==
  ASSUME NEW config \in Configs, NEW code, code.lines \in Seq(Lines)
  PROVE  /\ reconcile_python(config, code) \in Answers
         /\ reconcile_python(config, code).ownership = "visual" =>
              /\ reconcile_python(config, code).config = TakeLines(config, code.lines)
              /\ \A other : reconcile_python(other, code) = Visual(TakeLines(other, code.lines))
<1> DEFINE Fails(problem) == \A other : reconcile_python(other, code) = Custom(other, problem)
           Reads == \A other : reconcile_python(other, code) = Visual(TakeLines(other, code.lines))
<1>1. \/ Reads
      \/ \E problem \in {"SDPS-RECON-001", "SDPS-RECON-002", "SDPS-RECON-003"} : Fails(problem)
  <2>1. CASE ~code.parses
    <3>1. Fails("SDPS-RECON-001")
      BY <2>1 DEF reconcile_python
    <3> HIDE DEF Fails
    <3> QED BY <3>1
  <2>2. CASE code.parses /\ ~code.declared
    <3>1. Fails("SDPS-RECON-002")
      BY <2>2 DEF reconcile_python
    <3> HIDE DEF Fails
    <3> QED BY <3>1
  <2>3. CASE code.parses /\ code.declared /\ \E i \in DOMAIN code.lines : LineProblem(code.lines[i])
    <3>1. Fails("SDPS-RECON-003")
      BY <2>3 DEF reconcile_python
    <3> HIDE DEF Fails
    <3> QED BY <3>1
  <2>4. CASE code.parses /\ code.declared /\ ~\E i \in DOMAIN code.lines : LineProblem(code.lines[i])
    <3>1. Reads
      BY <2>4 DEF reconcile_python
    <3> QED BY <3>1
  <2> QED BY <2>1, <2>2, <2>3, <2>4
<1>2. CASE Reads
  <2>1. TakeLines(config, code.lines) \in Configs
    <3>1. PICK f : Loop(config, code.lines, f) /\ TakeLines(config, code.lines) = f[Len(code.lines)]
      BY LoopExists
    <3>2. Len(code.lines) \in Nat
      BY LenProperties
    <3> QED BY <3>1, <3>2, LoopType
  <2>2. reconcile_python(config, code) = Visual(TakeLines(config, code.lines))
    BY <1>2
  <2>3. Visual(TakeLines(config, code.lines)) \in Answers
        /\ Visual(TakeLines(config, code.lines)).config = TakeLines(config, code.lines)
    BY <2>1, VisualAnswer
  <2> QED BY <1>2, <2>2, <2>3
<1>3. ASSUME NEW problem \in {"SDPS-RECON-001", "SDPS-RECON-002", "SDPS-RECON-003"}, Fails(problem)
      PROVE  reconcile_python(config, code) \in Answers /\ reconcile_python(config, code).ownership = "custom"
  <2>1. problem \in Problems
    BY DEF Problems
  <2>2. reconcile_python(config, code) = Custom(config, problem)
    BY <1>3
  <2> QED BY <2>1, <2>2, CustomAnswer
<1> QED BY <1>1, <1>2, <1>3

\* What is matched, and read, depends on the names in the document only.
LEMMA SameMatches ==
  ASSUME NEW config, NEW other, SameNames(config, other), NEW code, NEW c
  PROVE  /\ LinesOf(other, code, c) = LinesOf(config, code, c)
         /\ Matched(other, code, c) <=> Matched(config, code, c)
         /\ Ambiguous(other, code, c) <=> Ambiguous(config, code, c)
         /\ Reread(other, code, c) = Reread(config, code, c)
<1>1. \A d \in Datasets : config[d][Name] = other[d][Name]
  <2>1. Datasets \subseteq Nodes
    BY Assumed DEF Datasets, Forms
  <2> QED BY <2>1 DEF SameNames
<1>2. LinesOf(other, code, c) = LinesOf(config, code, c)
  BY <1>1 DEF LinesOf
<1>3. Matched(other, code, c) <=> Matched(config, code, c)
  BY <1>2 DEF Matched
<1>4. Reread(other, code, c) = Reread(config, code, c)
  BY <1>2 DEF Reread
<1> QED BY <1>2, <1>3, <1>4 DEF Ambiguous

LEMMA RereadType ==
  ASSUME NEW config, NEW code, \A i \in DOMAIN code.lines : code.lines[i] \in Lines,
         NEW c \in Clauses, Matched(config, code, c)
  PROVE  Reread(config, code, c) \in Optional
<1> DEFINE found == LinesOf(config, code, c)
           i == CHOOSE j \in found : TRUE
           shown == code.lines[i].args[Form[code.lines[i].of].key]
<1>1. found # {}
  <2>1. Cardinality(found) = 1
    BY DEF Matched
  <2> HIDE DEF found
  <2> QED BY <2>1, FS_EmptySet
<1>2. i \in DOMAIN code.lines
  <2>1. i \in found
    BY <1>1
  <2> HIDE DEF i
  <2> QED BY <2>1 DEF LinesOf
<1>3. Reread(config, code, c) = IF c = "limit" THEN shown ELSE Normal[shown]
  BY DEF Reread
<1>4. shown \in Optional
  <2> HIDE DEF i
  <2>1. code.lines[i].of \in Statements /\ code.lines[i].args \in [Keys -> Optional]
    BY <1>2 DEF Lines, Arguments
  <2>2. Form[code.lines[i].of].key \in Keys
    BY <2>1, Assumed DEF Forms
  <2> QED BY <2>1, <2>2
<1> HIDE DEF shown
<1> QED BY <1>3, <1>4, ReconcileAssumption

\* The clauses are read into one key of their node, and never into its name.
ClausesTaken(config, code) ==
  \A n \in Nodes, k \in Keys : TakeClauses(config, code)[n][k] =
    IF Role[n] \in Clauses /\ Matched(config, code, Role[n]) /\ k = ClauseKey[Role[n]]
    THEN Reread(config, code, Role[n]) ELSE config[n][k]

LEMMA TakeClausesFacts ==
  ASSUME NEW config \in Configs, NEW code, \A i \in DOMAIN code.lines : code.lines[i] \in Lines
  PROVE  /\ TakeClauses(config, code) \in Configs
         /\ \A n \in Nodes : Role[n] \notin Clauses \/ ~Matched(config, code, Role[n])
              => TakeClauses(config, code)[n] = config[n]
         /\ ClausesTaken(config, code)
<1> DEFINE taken == TakeClauses(config, code)
<1>1. \A n \in Nodes : config[n] \in [Keys -> Optional]
  BY DEF Configs, Arguments
<1>2. \A n \in Nodes :
        taken[n] = IF Role[n] \in Clauses /\ Matched(config, code, Role[n])
                   THEN [config[n] EXCEPT ![ClauseKey[Role[n]]] = Reread(config, code, Role[n])] ELSE config[n]
  BY DEF TakeClauses
<1>3. \A n \in Nodes : Role[n] \in Clauses /\ Matched(config, code, Role[n])
        => Reread(config, code, Role[n]) \in Optional
  BY RereadType
<1>4. \A n \in Nodes : taken[n] \in [Keys -> Optional]
  <2> HIDE DEF taken
  <2> QED BY <1>1, <1>2, <1>3
<1>5. taken \in Configs
  BY <1>4 DEF TakeClauses, Configs, Arguments
<1> HIDE DEF taken
<1>6. \A n \in Nodes : Role[n] \notin Clauses \/ ~Matched(config, code, Role[n]) => taken[n] = config[n]
  BY <1>2
<1>7. \A n \in Nodes, k \in Keys : taken[n][k] =
        IF Role[n] \in Clauses /\ Matched(config, code, Role[n]) /\ k = ClauseKey[Role[n]]
        THEN Reread(config, code, Role[n]) ELSE config[n][k]
  BY <1>1, <1>2
<1> QED BY <1>5, <1>6, <1>7 DEF ClausesTaken, taken

LEMMA ClausesKeepNames ==
  ASSUME NEW config \in Configs, NEW code, \A i \in DOMAIN code.lines : code.lines[i] \in Lines
  PROVE  SameNames(config, TakeClauses(config, code))
<1>1. \A c \in Clauses : ClauseKey[c] # Name
  BY ReconcileAssumption
<1>2. \A n \in Nodes : TakeClauses(config, code)[n][Name] = config[n][Name]
  BY <1>1, Assumed, TakeClausesFacts DEF ClausesTaken
<1> QED BY <1>2 DEF SameNames

LEMMA ClausesAgain ==
  ASSUME NEW config \in Configs, NEW code, \A i \in DOMAIN code.lines : code.lines[i] \in Lines
  PROVE  TakeClauses(TakeClauses(config, code), code) = TakeClauses(config, code)
<1> DEFINE once == TakeClauses(config, code)
           twice == TakeClauses(once, code)
<1>1. once \in Configs /\ SameNames(config, once)
  BY TakeClausesFacts, ClausesKeepNames
<1>2. ASSUME NEW other \in Configs PROVE ClausesTaken(other, code)
  BY TakeClausesFacts
<1> HIDE DEF once
<1>3. twice \in Configs
  BY <1>1, TakeClausesFacts
<1> HIDE DEF twice
<1>5. \A n \in Nodes, k \in Keys : twice[n][k] = once[n][k]
  <2> TAKE n \in Nodes, k \in Keys
  <2>1. /\ Matched(once, code, Role[n]) <=> Matched(config, code, Role[n])
        /\ Reread(once, code, Role[n]) = Reread(config, code, Role[n])
    BY <1>1, SameMatches
  <2> DEFINE read == Role[n] \in Clauses /\ Matched(config, code, Role[n]) /\ k = ClauseKey[Role[n]]
  <2>2. once[n][k] = IF read THEN Reread(config, code, Role[n]) ELSE config[n][k]
    BY <1>2 DEF ClausesTaken, once
  <2>3. twice[n][k] = IF Role[n] \in Clauses /\ Matched(once, code, Role[n]) /\ k = ClauseKey[Role[n]]
                      THEN Reread(once, code, Role[n]) ELSE once[n][k]
    BY <1>1, <1>2 DEF ClausesTaken, twice
  <2> QED BY <2>1, <2>2, <2>3
<1>6. \A n \in Nodes : twice[n] \in [Keys -> Optional] /\ once[n] \in [Keys -> Optional]
  BY <1>1, <1>3 DEF Configs, Arguments
<1>7. \A n \in Nodes : twice[n] = once[n]
  BY <1>5, <1>6
<1>8. twice = once
  BY <1>1, <1>3, <1>7 DEF Configs
<1> QED BY <1>8 DEF once, twice

LEMMA SqlAnswer ==
  ASSUME NEW config \in Configs, NEW code, \A i \in DOMAIN code.lines : code.lines[i] \in Lines
  PROVE  /\ reconcile_sql(config, code) \in Answers
         /\ reconcile_sql(config, code).ownership = "visual" =>
              /\ reconcile_sql(config, code).config = TakeClauses(config, code)
              /\ \A other : SameNames(config, other)
                   => reconcile_sql(other, code) = Visual(TakeClauses(other, code))
<1> DEFINE Fails(problem) == reconcile_sql(config, code) = Custom(config, problem)
           Reads == \A other : SameNames(config, other)
                      => reconcile_sql(other, code) = Visual(TakeClauses(other, code))
<1>1. \/ Reads
      \/ \E problem \in {"SDPS-RECON-101", "SDPS-RECON-102", "SDPS-RECON-104"} : Fails(problem)
  <2>1. CASE ~code.parses
    <3>1. Fails("SDPS-RECON-101")
      BY <2>1 DEF reconcile_sql
    <3> HIDE DEF Fails
    <3> QED BY <3>1
  <2>2. CASE code.parses /\ \E c \in Clauses : Ambiguous(config, code, c)
    <3>1. Fails("SDPS-RECON-102")
      BY <2>2 DEF reconcile_sql
    <3> HIDE DEF Fails
    <3> QED BY <3>1
  <2>3. CASE /\ code.parses /\ ~\E c \in Clauses : Ambiguous(config, code, c)
             /\ \A c \in Clauses : ~Matched(config, code, c)
    <3>1. Fails("SDPS-RECON-104")
      BY <2>3 DEF reconcile_sql
    <3> HIDE DEF Fails
    <3> QED BY <3>1
  <2>4. CASE /\ code.parses /\ ~\E c \in Clauses : Ambiguous(config, code, c)
             /\ ~\A c \in Clauses : ~Matched(config, code, c)
    <3>1. ASSUME NEW other, SameNames(config, other)
          PROVE  reconcile_sql(other, code) = Visual(TakeClauses(other, code))
      <4>1. \A c \in Clauses : /\ Ambiguous(other, code, c) <=> Ambiguous(config, code, c)
                               /\ Matched(other, code, c) <=> Matched(config, code, c)
        BY <3>1, SameMatches
      <4>2. /\ code.parses /\ ~\E c \in Clauses : Ambiguous(other, code, c)
            /\ ~\A c \in Clauses : ~Matched(other, code, c)
        BY <2>4, <4>1
      <4> QED BY <4>2 DEF reconcile_sql
    <3> QED BY <3>1
  <2> QED BY <2>1, <2>2, <2>3, <2>4
<1>2. CASE Reads
  <2>1. reconcile_sql(config, code) = Visual(TakeClauses(config, code))
    BY <1>2 DEF SameNames
  <2>2. Visual(TakeClauses(config, code)) \in Answers
        /\ Visual(TakeClauses(config, code)).config = TakeClauses(config, code)
    BY TakeClausesFacts, VisualAnswer
  <2> QED BY <1>2, <2>1, <2>2
<1>3. ASSUME NEW problem \in {"SDPS-RECON-101", "SDPS-RECON-102", "SDPS-RECON-104"}, Fails(problem)
      PROVE  reconcile_sql(config, code) \in Answers /\ reconcile_sql(config, code).ownership = "custom"
  <2>1. problem \in Problems
    BY DEF Problems
  <2> QED BY <1>3, <2>1, CustomAnswer
<1> HIDE DEF Fails, Reads
<1> QED BY <1>1, <1>2, <1>3 DEF Reads

-----------------------------------------------------------------------------
(* Type correctness.                                                       *)

TextOK(t) == t \in SqlTexts \/ t \in PythonTexts
LinesOK(t, lines) == IF t.sql THEN lines \in [SqlPositions -> Lines] ELSE lines \in Seq(Lines)

LEMMA TextFacts ==
  ASSUME NEW t, TextOK(t)
  PROVE  /\ t.sql \in BOOLEAN /\ LinesOK(t, t.lines)
         /\ \A i \in DOMAIN t.lines : t.lines[i] \in Lines
         /\ \A lines : LinesOK(t, lines) => TextOK([t EXCEPT !.lines = lines])
<1>1. CASE t \in SqlTexts
  <2>1. t.sql = TRUE /\ t.lines \in [SqlPositions -> Lines]
    BY <1>1 DEF SqlTexts
  <2>2. \A lines \in [SqlPositions -> Lines] : [t EXCEPT !.lines = lines] \in SqlTexts
    BY <1>1 DEF SqlTexts
  <2> QED BY <2>1, <2>2 DEF TextOK, LinesOK
<1>2. CASE t \in PythonTexts
  <2>1. t.sql = FALSE /\ t.lines \in Seq(Lines)
    BY <1>2 DEF PythonTexts
  <2>2. \A lines \in Seq(Lines) : [t EXCEPT !.lines = lines] \in PythonTexts
    BY <1>2 DEF PythonTexts
  <2>3. \A i \in DOMAIN t.lines : t.lines[i] \in Lines
    BY <2>1, LenProperties, ElementOfSeq
  <2> QED BY <2>1, <2>2, <2>3 DEF TextOK, LinesOK
<1> QED BY <1>1, <1>2 DEF TextOK

LEMMA RenderedOK ==
  ASSUME NEW config \in Configs, NEW inSql \in BOOLEAN
  PROVE  TextOK(Rendered(config, inSql))
<1>1. PythonLines(config) \in Seq(Lines) /\ SqlLines(config) \in [SqlPositions -> Lines]
  BY RenderedLines
<1>2. CASE inSql
  BY <1>1, <1>2 DEF Rendered, TextOK, SqlTexts
<1>3. CASE ~inSql
  BY <1>1, <1>3 DEF Rendered, TextOK, PythonTexts
<1> QED BY <1>2, <1>3

\* An edit puts another line in the place of one.
LEMMA LineEdited ==
  ASSUME NEW t, TextOK(t), NEW i \in DOMAIN t.lines, NEW line \in Lines
  PROVE  TextOK([t EXCEPT !.lines = [t.lines EXCEPT ![i] = line]])
<1> DEFINE lines == [t.lines EXCEPT ![i] = line]
<1>1. t.sql \in BOOLEAN /\ LinesOK(t, t.lines)
  BY TextFacts
<1>2. CASE ~t.sql
  <2>1. t.lines \in Seq(Lines)
    BY <1>1, <1>2 DEF LinesOK
  <2>2. i \in 1..Len(t.lines)
    BY <2>1, LenProperties
  <2>3. lines \in Seq(Lines)
    BY <2>1, <2>2, ExceptSeq
  <2> HIDE DEF lines
  <2>4. LinesOK(t, lines)
    BY <1>2, <2>3 DEF LinesOK
  <2> QED BY <2>4, TextFacts DEF lines
<1>3. CASE t.sql
  <2>1. t.lines \in [SqlPositions -> Lines]
    BY <1>1, <1>3 DEF LinesOK
  <2>2. lines \in [SqlPositions -> Lines]
    BY <2>1
  <2> HIDE DEF lines
  <2>3. LinesOK(t, lines)
    BY <1>3, <2>2 DEF LinesOK
  <2> QED BY <2>3, TextFacts DEF lines
<1> QED BY <1>2, <1>3

LEMMA TextEdited ==
  ASSUME TypeOK, EditText
  PROVE  TextOK(text')
<1>1. TextOK(text)
  BY DEF TypeOK, TextOK
<1>2. \A i \in DOMAIN text.lines : text.lines[i] \in Lines
  BY <1>1, TextFacts
<1>3. Values \subseteq Optional
  BY DEF Values, Optional
<1> DEFINE Puts(i, line) == text' = [text EXCEPT !.lines = [text.lines EXCEPT ![i] = line]]
<1>4. ASSUME NEW i \in DOMAIN text.lines, NEW line \in Lines, Puts(i, line) PROVE TextOK(text')
  BY <1>1, <1>4, LineEdited
<1>5. ASSUME NEW i \in DOMAIN text.lines, NEW v \in Values, NEW k \in Form[text.lines[i].method].shows,
             text' = [text EXCEPT !.lines[i].args[k] = v]
      PROVE  TextOK(text')
  <2> DEFINE args == [text.lines[i].args EXCEPT ![k] = v]
  <2>1. text.lines[i].args \in [Keys -> Optional]
    BY <1>2 DEF Lines, Arguments
  <2>2. args \in Arguments
    BY <1>3, <2>1 DEF Arguments
  <2>3. Puts(i, [text.lines[i] EXCEPT !.args = args])
    BY <1>5
  <2> HIDE DEF args
  <2>4. [text.lines[i] EXCEPT !.args = args] \in Lines
    BY <1>2, <2>2 DEF Lines
  <2> QED BY <1>4, <2>3, <2>4
<1>6. ASSUME NEW i \in DOMAIN text.lines, NEW s \in Statements, text' = [text EXCEPT !.lines[i].method = s]
      PROVE  TextOK(text')
  <2>1. Puts(i, [text.lines[i] EXCEPT !.method = s])
    BY <1>6
  <2>2. [text.lines[i] EXCEPT !.method = s] \in Lines
    BY <1>2 DEF Lines
  <2> QED BY <1>4, <2>1, <2>2
<1>7. ASSUME NEW i \in DOMAIN text.lines, NEW v \in Values,
             text' = [text EXCEPT !.lines[i].by = v] \/ text' = [text EXCEPT !.lines[i].as = v]
      PROVE  TextOK(text')
  <2>1. \/ Puts(i, [text.lines[i] EXCEPT !.by = v])
        \/ Puts(i, [text.lines[i] EXCEPT !.as = v])
    BY <1>7
  <2>2. [text.lines[i] EXCEPT !.by = v] \in Lines /\ [text.lines[i] EXCEPT !.as = v] \in Lines
    BY <1>2, <1>3 DEF Lines
  <2> HIDE DEF Puts
  <2> QED BY <1>4, <2>1, <2>2
<1>8. ASSUME NEW i \in DOMAIN text.lines, NEW s \in {"unread", "value", "statement"},
             text' = [text EXCEPT !.lines[i].shape = s]
      PROVE  TextOK(text')
  <2>1. Puts(i, [text.lines[i] EXCEPT !.shape = s])
    BY <1>8
  <2>2. [text.lines[i] EXCEPT !.shape = s] \in Lines
    BY <1>2 DEF Lines, Shapes
  <2> QED BY <1>4, <2>1, <2>2
<1>9. CASE text' = [text EXCEPT !.declared = FALSE]
  BY <1>1, <1>9 DEF TextOK, SqlTexts, PythonTexts
<1>10. CASE text' = [text EXCEPT !.parses = FALSE]
  BY <1>1, <1>10 DEF TextOK, SqlTexts, PythonTexts
<1> HIDE DEF Puts
<1> QED BY <1>5, <1>6, <1>7, <1>8, <1>9, <1>10 DEF EditText

\* An outcome of visual ownership is what the text makes of the document, and
\* of what the text itself has made of it.
LEMMA OutcomeFacts ==
  ASSUME TypeOK, req # None
  PROVE  /\ req \in Documents /\ req.config \in Configs /\ Outcome \in Answers
         /\ Outcome.ownership = "visual" =>
              /\ Outcome.config =
                   IF text.sql THEN TakeClauses(req.config, text) ELSE TakeLines(req.config, text.lines)
              /\ \A n \in Nodes : Beyond(req.config, n) => Outcome.config[n] = req.config[n]
              /\ text.sql \/ NamesStay(req.config) => Answer(Outcome.config) = Visual(Outcome.config)
<1>1. req \in Documents /\ req.config \in Configs
  BY DEF TypeOK, Documents
<1>2. /\ text.sql \in BOOLEAN /\ LinesOK(text, text.lines)
      /\ \A i \in DOMAIN text.lines : text.lines[i] \in Lines
  BY TextFacts DEF TypeOK, TextOK
<1> DEFINE config == req.config
<1>3. CASE text.sql
  <2>1. \A c : Answer(c) = reconcile_sql(c, text)
    BY <1>3 DEF Answer
  <2> DEFINE taken == TakeClauses(config, text)
  <2>2. /\ Outcome \in Answers
        /\ Outcome.ownership = "visual" =>
             /\ Outcome.config = taken
             /\ \A other : SameNames(config, other) => Answer(other) = Visual(TakeClauses(other, text))
    BY <1>1, <1>2, <2>1, SqlAnswer DEF Outcome
  <2>3. \A n \in Nodes : Beyond(config, n) => taken[n] = config[n]
    BY <1>1, <1>2, <1>3, TakeClausesFacts DEF Beyond
  <2>4. SameNames(config, taken) /\ TakeClauses(taken, text) = taken
    BY <1>1, <1>2, ClausesKeepNames, ClausesAgain
  <2> HIDE DEF taken
  <2>5. Outcome.ownership = "visual" => Answer(taken) = Visual(taken)
    BY <2>2, <2>4
  <2> QED BY <1>1, <1>3, <2>2, <2>3, <2>5 DEF taken
<1>4. CASE ~text.sql
  <2>1. \A c : Answer(c) = reconcile_python(c, text)
    BY <1>4 DEF Answer
  <2>2. text.lines \in Seq(Lines)
    BY <1>2, <1>4 DEF LinesOK
  <2> DEFINE taken == TakeLines(config, text.lines)
  <2>3. /\ Outcome \in Answers
        /\ Outcome.ownership = "visual" =>
             /\ Outcome.config = taken
             /\ \A other : Answer(other) = Visual(TakeLines(other, text.lines))
    BY <1>1, <2>1, <2>2, PythonAnswer DEF Outcome
  <2>4. \A n \in Nodes : Beyond(config, n) => taken[n] = config[n]
    BY <1>1, <1>4, <2>2, LoopBeyond DEF Beyond
  <2>5. NamesStay(config) => TakeLines(taken, text.lines) = taken
    <3>1. NamesStay(config) => \A i \in DOMAIN text.lines : Keeps(config, text.lines[i])
      BY DEF NamesStay, Keeps
    <3> QED BY <1>1, <2>2, <3>1, LoopAgain
  <2> HIDE DEF taken
  <2>6. Outcome.ownership = "visual" /\ NamesStay(config) => Answer(taken) = Visual(taken)
    BY <2>3, <2>5
  <2> QED BY <1>1, <1>4, <2>3, <2>4, <2>6 DEF taken
<1> QED BY <1>2, <1>3, <1>4

Replies == [ownership : Ownership, config : Configs \cup {<<>>}, problems : SUBSET Problems]

LEMMA TypeParts ==
  TypeOK <=> /\ doc \in Documents /\ TextOK(text)
             /\ edits \in 0..MaxEdits /\ req \in Documents \cup {None} /\ reply \in Replies
  BY DEF TypeOK, TextOK, Replies

LEMMA RepliesHold == NoReply \in Replies /\ Answers \subseteq Replies
<1>1. NoReply \in Replies
  BY DEF NoReply, Replies, Ownership
<1>2. Answers \subseteq Replies
  BY DEF Answers, Replies, Ownership
<1> QED BY <1>1, <1>2

LEMMA InitTypeOK == Init => TypeOK
<1> SUFFICES ASSUME Init PROVE TypeOK
  OBVIOUS
<1>1. doc.config \in Configs
  <2>1. Unset \in [Nodes -> [Keys -> Optional]]
    BY ReconcileAssumption
  <2> QED BY <2>1 DEF Init, Configs, Arguments
<1>2. doc \in Documents
  BY <1>1, ReconcileAssumption DEF Init, Documents
<1>3. TextOK(text)
  BY <1>1, RenderedOK DEF Init
<1>4. edits \in 0..MaxEdits
  BY ReconcileAssumption DEF Init
<1> QED BY <1>2, <1>3, <1>4, TypeParts, RepliesHold DEF Init

LEMMA NextTypeOK == TypeOK /\ [Next]_vars => TypeOK'
<1> SUFFICES ASSUME TypeOK, [Next]_vars PROVE TypeOK'
  OBVIOUS
<1> DEFINE Goal == /\ doc' \in Documents /\ TextOK(text')
                   /\ edits' \in 0..MaxEdits /\ req' \in Documents \cup {None} /\ reply' \in Replies
<1>1. Goal => TypeOK'
  BY DEF TypeOK, TextOK, Replies
<1>2. /\ doc \in Documents /\ TextOK(text)
      /\ edits \in 0..MaxEdits /\ req \in Documents \cup {None} /\ reply \in Replies
  BY TypeParts
<1>3. doc.rev \in 0..MaxRev /\ doc.config \in Configs /\ text.sql \in BOOLEAN
  BY <1>2, TextFacts DEF Documents
<1>4. NoReply \in Replies /\ (req # None => Outcome \in Replies /\ Outcome.config \in Configs)
  BY RepliesHold, OutcomeFacts DEF Answers
<1>5. ASSUME SaveVisual PROVE Goal
  <2>1. PICK s \in Statements, v \in Values : \E k \in Form[s].shows :
          doc' = [rev |-> doc.rev + 1, config |-> [doc.config EXCEPT ![Form[s].node][k] = v]]
    BY <1>5 DEF SaveVisual
  <2>2. PICK k \in Form[s].shows :
          doc' = [rev |-> doc.rev + 1, config |-> [doc.config EXCEPT ![Form[s].node][k] = v]]
    BY <2>1
  <2> DEFINE n == Form[s].node
             args == [doc.config[n] EXCEPT ![k] = v]
  <2>3. n \in Nodes /\ k \in Keys
    BY Assumed DEF Forms
  <2>4. doc.config[n] \in [Keys -> Optional] /\ v \in Optional
    BY <1>3, <2>3 DEF Configs, Arguments, Values, Optional
  <2>5. args \in Arguments
    BY <2>4 DEF Arguments
  <2>6. doc' = [rev |-> doc.rev + 1, config |-> [doc.config EXCEPT ![n] = args]]
    BY <2>2
  <2> HIDE DEF n, args
  <2>7. [doc.config EXCEPT ![n] = args] \in Configs
    BY <1>3, <2>5 DEF Configs
  <2>8. doc.rev + 1 \in 0..MaxRev
    BY <1>3, <1>5, ReconcileAssumption DEF SaveVisual
  <2>9. doc' \in Documents
    BY <2>6, <2>7, <2>8 DEF Documents
  <2> QED BY <1>2, <1>5, <2>9 DEF SaveVisual
<1>6. ASSUME Generate PROVE Goal
  <2>1. TextOK(text')
    BY <1>3, <1>6, RenderedOK DEF Generate
  <2> QED BY <1>2, <1>4, <1>6, <2>1 DEF Generate
<1>7. ASSUME EditText PROVE Goal
  <2>1. TextOK(text')
    BY <1>7, TextEdited
  <2>2. edits' \in 0..MaxEdits
    BY <1>2, <1>7, ReconcileAssumption DEF EditText, Edited
  <2> QED BY <1>2, <1>4, <1>7, <2>1, <2>2 DEF EditText
<1>8. ASSUME Post PROVE Goal
  BY <1>2, <1>8 DEF Post
<1>9. ASSUME Report PROVE Goal
  BY <1>2, <1>4, <1>9 DEF Report
<1>10. ASSUME Save PROVE Goal
  <2>1. doc.rev + 1 \in 0..MaxRev
    BY <1>3, <1>10, ReconcileAssumption DEF Save
  <2>2. doc' \in Documents /\ reply' \in Replies
    BY <1>4, <1>10, <2>1 DEF Save, Documents
  <2> QED BY <1>2, <1>10, <2>2 DEF Save
<1>11. ASSUME Conflict PROVE Goal
  <2>1. reply' \in Replies
    BY <1>4, <1>11 DEF Conflict, NoReply, Replies, Ownership
  <2> QED BY <1>2, <1>11, <2>1 DEF Conflict
<1>12. ASSUME UNCHANGED vars PROVE Goal
  BY <1>2, <1>12 DEF vars
<1> QED BY <1>1, <1>5, <1>6, <1>7, <1>8, <1>9, <1>10, <1>11, <1>12 DEF Next

\* The document, the text and the answers are what the requests exchange, and
\* a text is a sequence of lines, or the clauses of a statement, however it was
\* edited.
THEOREM TypeCorrect == Spec => []TypeOK
  BY InitTypeOK, NextTypeOK, PTL DEF Spec

-----------------------------------------------------------------------------
(* What an answer says of the text.                                        *)

LEMMA InitAnswered == Init => Answered
  BY DEF Init, Answered, NoReply

LEMMA NextAnswered == TypeOK /\ Answered /\ [Next]_vars => Answered'
<1> SUFFICES ASSUME TypeOK, Answered, [Next]_vars PROVE Answered'
  OBVIOUS
<1>1. ASSUME req # None, reply' = Outcome, UNCHANGED text PROVE Answered'
  <2> SUFFICES ASSUME reply'.ownership = "visual", ~text.sql
               PROVE  \E config \in Configs : reply'.config = TakeLines(config, text.lines)
    BY <1>1 DEF Answered
  <2> QED BY <1>1, OutcomeFacts
<1>2. CASE reply' = NoReply
  BY <1>2 DEF Answered, NoReply
<1>3. CASE UNCHANGED <<text, reply>>
  BY <1>3 DEF Answered
<1>4. CASE reply' = [NoReply EXCEPT !.ownership = "conflict"]
  BY <1>4 DEF Answered, NoReply
<1>5. CASE Generate \/ EditText
  BY <1>2, <1>5 DEF Generate, EditText
<1>6. CASE SaveVisual \/ Post \/ UNCHANGED vars
  BY <1>3, <1>6 DEF SaveVisual, Post, vars
<1>7. CASE Report \/ Save
  BY <1>1, <1>7 DEF Report, Save
<1>8. CASE Conflict
  BY <1>4, <1>8 DEF Conflict
<1> QED BY <1>5, <1>6, <1>7, <1>8 DEF Next

LEMMA AnswerTakes == TypeOK /\ Answered => ReadableEditsAreTaken
<1> SUFFICES ASSUME TypeOK, Answered, reply.ownership = "visual", ~text.sql,
                    NEW i \in DOMAIN text.lines, NEW k \in Keys,
                    Alone(i), ReadInto(text.lines[i], k) # 0
             PROVE  reply.config[Form[text.lines[i].of].owner][k] = ReadInto(text.lines[i], k)
  BY DEF ReadableEditsAreTaken
<1>1. PICK config \in Configs : reply.config = TakeLines(config, text.lines)
  BY DEF Answered
<1>2. text.lines \in Seq(Lines) /\ text.lines[i] \in Lines
  BY TextFacts DEF TypeOK, TextOK, LinesOK
<1> DEFINE form == Form[text.lines[i].of]
<1>3. text.lines[i].of \in Statements /\ form \in Forms
  BY <1>2, Assumed DEF Lines
<1>4. form.owner \in Nodes
  BY <1>3 DEF Alone, Forms
<1>5. ~form.decorator
  BY <1>3, <1>4, ReconcileAssumption
<1>6. \A j \in DOMAIN text.lines \ {i} :
        IF Form[text.lines[j].of].decorator THEN ~Writes(text.lines[j])
        ELSE Form[text.lines[j].of].owner # form.owner
  BY DEF Alone
<1>7. TakeLines(config, text.lines)[form.owner][k] = ReadInto(text.lines[i], k)
  BY <1>2, <1>4, <1>5, <1>6, LoopTakes
<1> QED BY <1>1, <1>7

\* An answer of visual ownership has taken up every edit of a line that is the
\* only one read into its node, whatever else the text says and however long it
\* is: under each key that its method is read into the document has its
\* argument, which no later line of the loop and no decorator takes back.
THEOREM EditsAreTaken == Spec => []ReadableEditsAreTaken
<1>1. Init => TypeOK /\ Answered
  BY InitTypeOK, InitAnswered
<1>2. TypeOK /\ Answered /\ [Next]_vars => (TypeOK /\ Answered)'
  BY NextTypeOK, NextAnswered
<1>3. TypeOK /\ Answered => ReadableEditsAreTaken
  BY AnswerTakes
<1> QED BY <1>1, <1>2, <1>3, PTL DEF Spec

-----------------------------------------------------------------------------
(* What a save replaces.                                                   *)

LEMMA InitLoaded == Init => Loaded
  BY DEF Init, Loaded

LEMMA NextLoaded == TypeOK /\ Loaded /\ [Next]_vars => Loaded'
<1> SUFFICES ASSUME TypeOK, Loaded, [Next]_vars PROVE Loaded'
  OBVIOUS
<1>1. doc.rev \in Nat
  BY ReconcileAssumption DEF TypeOK, Documents
<1>2. req # None => req.rev \in Nat
  BY ReconcileAssumption DEF TypeOK, Documents
<1>3. CASE SaveVisual
  <2>1. doc'.rev = doc.rev + 1 /\ req' = req
    BY <1>3 DEF SaveVisual
  <2> SUFFICES ASSUME req # None PROVE req.rev < doc.rev + 1
    BY <1>1, <1>2, <2>1 DEF Loaded
  <2> QED BY <1>1, <1>2 DEF Loaded
<1>4. CASE req' = None
  BY <1>4 DEF Loaded
<1>5. CASE Post
  BY <1>1, <1>5 DEF Post, Loaded
<1>6. CASE UNCHANGED <<doc, req>>
  BY <1>6 DEF Loaded
<1>7. CASE Generate \/ EditText \/ UNCHANGED vars
  BY <1>6, <1>7 DEF Generate, EditText, vars
<1>8. CASE Report \/ Save \/ Conflict
  BY <1>4, <1>8 DEF Report, Save, Conflict
<1> QED BY <1>3, <1>5, <1>7, <1>8 DEF Next

Reconciled(config, other) ==
  /\ \A n \in Nodes : Beyond(config, n) => other[n] = config[n]
  /\ text.sql \/ NamesStay(config) => Answer(other) = Visual(other)
  /\ text = Rendered(config, FALSE) =>
       \A i \in DOMAIN text.lines : OwnKeys(Form[text.lines[i].of].node) =>
         Generated(other, text.lines[i].of) = text.lines[i]

\* A generated text keeps the code of nodes that nothing else is read into.
LEMMA UneditedIsKept ==
  ASSUME NEW config \in Configs, NEW t, t = Rendered(config, FALSE), NEW i \in DOMAIN t.lines,
         OwnKeys(Form[t.lines[i].of].node)
  PROVE  Generated(TakeLines(config, t.lines), t.lines[i].of) = t.lines[i]
<1>1. t.lines = PythonLines(config)
  BY DEF Rendered
<1>2. PICK s \in Statements : t.lines[i] = Generated(config, s)
  <2>1. \A j \in DOMAIN PythonLines(config) :
          \E s \in Statements : PythonLines(config)[j] = Generated(config, s)
    BY RenderedLines
  <2> QED BY <1>1, <2>1
<1>3. t.lines[i].of = s
  <2>1. Generated(config, s).of = s
    BY DEF Generated
  <2> QED BY <1>2, <2>1
<1>4. Generated(TakeLines(config, PythonLines(config)), s) = Generated(config, s)
  BY <1>3, Unedited
<1> QED BY <1>1, <1>2, <1>3, <1>4

LEMMA SaveReplaces ==
  ASSUME TypeOK, Loaded, [Next]_vars, doc' # doc, req # None, req' = None
  PROVE  doc = req /\ Reconciled(doc.config, doc'.config)
<1>1. Save
  BY DEF Next, SaveVisual, Generate, EditText, Post, Report, Conflict, vars
<1>2. doc = req
  BY <1>1 DEF Save, Loaded
<1>3. Outcome.ownership = "visual" /\ doc'.config = Outcome.config
  BY <1>1 DEF Save, Saves
<1>4. /\ req.config \in Configs
      /\ Outcome.config =
           IF text.sql THEN TakeClauses(req.config, text) ELSE TakeLines(req.config, text.lines)
      /\ \A n \in Nodes : Beyond(req.config, n) => Outcome.config[n] = req.config[n]
      /\ text.sql \/ NamesStay(req.config) => Answer(Outcome.config) = Visual(Outcome.config)
  BY <1>3, OutcomeFacts
<1>5. text = Rendered(req.config, FALSE) =>
        \A i \in DOMAIN text.lines : OwnKeys(Form[text.lines[i].of].node) =>
          Generated(Outcome.config, text.lines[i].of) = text.lines[i]
  <2> SUFFICES ASSUME text = Rendered(req.config, FALSE), NEW i \in DOMAIN text.lines,
                      OwnKeys(Form[text.lines[i].of].node)
               PROVE  Generated(Outcome.config, text.lines[i].of) = text.lines[i]
    OBVIOUS
  <2>1. text.sql = FALSE
    BY DEF Rendered
  <2>2. Outcome.config = TakeLines(req.config, text.lines)
    BY <1>4, <2>1
  <2> QED BY <1>4, <2>2, UneditedIsKept
<1> QED BY <1>2, <1>3, <1>4, <1>5 DEF Reconciled

\* A request replaces the document it reconciled and no other, changes in it
\* only nodes that the text can be read into, makes of it one that the text
\* would change no further, and of a generated text one that generates the same
\* code again: for Python and SQL, any number of definitions and any methods.
THEOREM ReplacesWhatItRead == Spec => ReconcilesWhatItReplaces
<1> DEFINE Inv == TypeOK /\ Loaded
           Replaces == doc' # doc /\ req # None /\ req' = None =>
                         /\ doc = req
                         /\ \A n \in Nodes : Beyond(doc.config, n) => doc'.config[n] = doc.config[n]
                         /\ text.sql \/ NamesStay(doc.config) => Answer(doc'.config) = Visual(doc'.config)
                         /\ text = Rendered(doc.config, FALSE) =>
                              \A i \in DOMAIN text.lines : OwnKeys(Form[text.lines[i].of].node) =>
                                Generated(doc'.config, text.lines[i].of) = text.lines[i]
<1>1. Init => Inv
  BY InitTypeOK, InitLoaded
<1>2. Inv /\ [Next]_vars => Inv'
  BY NextTypeOK, NextLoaded
<1>3. Inv /\ [Next]_vars => [Replaces]_vars
  BY SaveReplaces DEF Reconciled
<1>4. ReconcilesWhatItReplaces <=> [][Replaces]_vars
  BY DEF ReconcilesWhatItReplaces
<1> HIDE DEF Inv, Replaces
<1> QED BY <1>1, <1>2, <1>3, <1>4, PTL DEF Spec

-----------------------------------------------------------------------------
(* Loops, walks and sequences.                                             *)

\* A loop whose body maps a set to itself has a value after every round.
Steps(X, start, n, step) == start \in X /\ n \in Nat /\ step \in [1..n -> [X -> X]]
Iterates(X, start, n, step, f) ==
  f \in [0..n -> X] /\ f[0] = start /\ \A i \in 1..n : f[i] = step[i][f[i - 1]]

LEMMA Iteration ==
  ASSUME NEW X, NEW start, NEW n, NEW step, Steps(X, start, n, step)
  PROVE  \E f : Iterates(X, start, n, step, f)
<1>0. SUFFICES ASSUME start \in X, n \in Nat, step \in [1..n -> [X -> X]]
               PROVE  \E f \in [0..n -> X] : f[0] = start /\ \A i \in 1..n : f[i] = step[i][f[i - 1]]
  BY DEF Steps, Iterates
<1> USE <1>0
<1> DEFINE Upto(k, f) == f[0] = start /\ \A i \in 1..k : f[i] = step[i][f[i - 1]]
           S == {k \in Nat : k <= n => \E f \in [0..k -> X] : Upto(k, f)}
<1>1. 0 \in S
  <2> DEFINE f == [i \in 0..0 |-> start]
  <2>1. f \in [0..0 -> X] /\ Upto(0, f)
    OBVIOUS
  <2> QED BY <2>1
<1>2. ASSUME NEW k \in Nat, k \in S PROVE k + 1 \in S
  <2> SUFFICES ASSUME k + 1 <= n PROVE \E f \in [0..(k + 1) -> X] : Upto(k + 1, f)
    OBVIOUS
  <2>1. PICK f \in [0..k -> X] : Upto(k, f)
    BY <1>2
  <2> DEFINE g == [i \in 0..(k + 1) |-> IF i <= k THEN f[i] ELSE step[k + 1][f[k]]]
  <2>2. k \in 0..k /\ f[k] \in X /\ k + 1 \in 1..n /\ step[k + 1][f[k]] \in X
    BY <2>1
  <2>3. g \in [0..(k + 1) -> X]
    <3>1. ASSUME NEW i \in 0..(k + 1), i <= k PROVE g[i] \in X
      BY <2>1, <3>1
    <3>2. ASSUME NEW i \in 0..(k + 1), ~(i <= k) PROVE g[i] \in X
      BY <2>2, <3>2
    <3> QED BY <3>1, <3>2
  <2>4. g[0] = start
    BY <2>1
  <2>5. ASSUME NEW i \in 1..(k + 1), i <= k PROVE g[i] = step[i][g[i - 1]]
    <3>1. i \in 1..k /\ i \in 0..(k + 1) /\ i - 1 \in 0..(k + 1) /\ i - 1 <= k
      BY <2>5
    <3>2. g[i] = f[i] /\ g[i - 1] = f[i - 1]
      BY <2>5, <3>1
    <3> QED BY <2>1, <3>1, <3>2
  <2>6. g[k + 1] = step[k + 1][g[(k + 1) - 1]]
    OBVIOUS
  <2>7. Upto(k + 1, g)
    <3> HIDE DEF g
    <3>1. \A i \in 1..(k + 1) : i <= k \/ i = k + 1
      OBVIOUS
    <3> QED BY <2>4, <2>5, <2>6, <3>1
  <2> QED BY <2>3, <2>7
<1> HIDE DEF S
<1>3. n \in S
  BY <1>1, <1>2, Induction
<1> QED BY <1>3 DEF S

\* The rounds of a loop are determined by its start and its body.
LEMMA IterationUnique ==
  ASSUME NEW X, NEW start, NEW n, NEW step, Steps(X, start, n, step),
         NEW f, Iterates(X, start, n, step, f),
         NEW g, g[0] = start, \A i \in 1..n : g[i - 1] \in X => g[i] = step[i][g[i - 1]]
  PROVE  g[n] = f[n]
<1>1. n \in Nat /\ f \in [0..n -> X] /\ f[0] = start /\ \A i \in 1..n : f[i] = step[i][f[i - 1]]
  BY DEF Steps, Iterates
<1> DEFINE S == {i \in Nat : i <= n => g[i] = f[i]}
<1>2. 0 \in S
  BY <1>1
<1>3. ASSUME NEW i \in Nat, i \in S PROVE i + 1 \in S
  <2> SUFFICES ASSUME i + 1 <= n PROVE g[i + 1] = f[i + 1]
    OBVIOUS
  <2>1. i + 1 \in 1..n /\ (i + 1) - 1 = i /\ i <= n /\ i \in 0..n
    BY <1>1
  <2>2. g[i] = f[i] /\ f[i] \in X
    BY <1>1, <1>3, <2>1
  <2>3. g[i + 1] = step[i + 1][g[i]]
    BY <2>1, <2>2
  <2>4. f[i + 1] = step[i + 1][f[i]]
    BY <1>1, <2>1
  <2> QED BY <2>2, <2>3, <2>4
<1> HIDE DEF S
<1>4. n \in S
  BY <1>1, <1>2, <1>3, Induction
<1> QED BY <1>1, <1>4 DEF S

\* The sets a walk has seen after each round.
LEMMA WalkLoop ==
  ASSUME NEW N, IsFiniteSet(N), NEW succ \in [N -> SUBSET N], NEW start \in SUBSET N
  PROVE  \E f \in [0..Cardinality(N) -> SUBSET N] :
           /\ f[0] = start
           /\ \A i \in 1..Cardinality(N) : f[i] = Grow(f[i - 1], succ)
           /\ Walk(start, succ) = f[Cardinality(N)]
<1>0. SUFFICES ASSUME NEW K \in Nat, K = Cardinality(N)
             PROVE  \E f \in [0..K -> SUBSET N] :
                      /\ f[0] = start
                      /\ \A i \in 1..K : f[i] = Grow(f[i - 1], succ)
                      /\ Walk(start, succ) = f[K]
  BY FS_CardinalityType
<1> DEFINE Seen(f) == f = [i \in 0..K |-> IF i = 0 THEN start ELSE Grow(f[i - 1], succ)]
           grow == [seen \in SUBSET N |-> Grow(seen, succ)]
           body == [i \in 1..K |-> grow]
<1>1. DOMAIN succ = N
  OBVIOUS
<1>2. ASSUME NEW seen \in SUBSET N PROVE Grow(seen, succ) \in SUBSET N
  BY DEF Grow
<1>3. body \in [1..K -> [SUBSET N -> SUBSET N]]
  BY <1>2
<1>4. Steps(SUBSET N, start, K, body)
  BY <1>3 DEF Steps
<1>5. PICK f : Iterates(SUBSET N, start, K, body, f)
  BY <1>4, Iteration
<1>6. f \in [0..K -> SUBSET N] /\ f[0] = start /\ \A i \in 1..K : f[i] = body[i][f[i - 1]]
  BY <1>5 DEF Iterates
<1>7. ASSUME NEW i \in 1..K PROVE f[i] = Grow(f[i - 1], succ)
  <2>1. i - 1 \in 0..K /\ f[i - 1] \in SUBSET N
    BY <1>6
  <2> QED BY <1>6, <2>1
<1>8. Seen(f)
  <2>1. \A i \in 0..K : f[i] = IF i = 0 THEN start ELSE Grow(f[i - 1], succ)
    BY <1>6, <1>7
  <2> QED BY <1>6, <2>1
<1> DEFINE seen == CHOOSE g : Seen(g)
<1>9. Seen(seen)
  <2> HIDE DEF Seen
  <2> QED BY <1>8
<1>10. Walk(start, succ) = seen[K]
  BY <1>0, <1>1 DEF Walk
<1> HIDE DEF seen
<1>11. seen[0] = start /\ \A i \in 1..K : seen[i - 1] \in SUBSET N => seen[i] = body[i][seen[i - 1]]
  <2>1. 0 \in 0..K /\ \A i \in 1..K : i \in 0..K /\ i # 0
    OBVIOUS
  <2>2. seen[0] = start /\ \A i \in 1..K : seen[i] = Grow(seen[i - 1], succ)
    BY <1>9, <2>1
  <2> QED BY <2>2
<1> HIDE DEF body
<1>12. seen[K] = f[K]
  BY <1>4, <1>5, <1>11, IterationUnique
<1> QED BY <1>6, <1>7, <1>10, <1>12

\* A walk ends with the least set that has its start and that no step leaves.
LEMMA WalkFacts ==
  ASSUME NEW N, IsFiniteSet(N), NEW succ \in [N -> SUBSET N], NEW start \in SUBSET N
  PROVE  /\ Walk(start, succ) \subseteq N
         /\ start \subseteq Walk(start, succ)
         /\ \A n \in Walk(start, succ) : succ[n] \subseteq Walk(start, succ)
         /\ \A T : start \subseteq T /\ (\A n \in T \cap N : succ[n] \subseteq T) => Walk(start, succ) \subseteq T
<1> DEFINE K == Cardinality(N)
<1>1. K \in Nat
  BY FS_CardinalityType
<1>2. PICK f \in [0..K -> SUBSET N] :
        /\ f[0] = start
        /\ \A i \in 1..K : f[i] = Grow(f[i - 1], succ)
        /\ Walk(start, succ) = f[K]
  BY WalkLoop
<1>3. \A i \in Nat : i <= K => f[i] \in SUBSET N /\ IsFiniteSet(f[i]) /\ Cardinality(f[i]) \in Nat
  <2> SUFFICES ASSUME NEW i \in Nat, i <= K PROVE f[i] \in SUBSET N /\ IsFiniteSet(f[i]) /\ Cardinality(f[i]) \in Nat
    OBVIOUS
  <2>1. f[i] \in SUBSET N
    BY <1>1, <1>2
  <2>2. IsFiniteSet(f[i])
    BY <2>1, FS_Subset
  <2> QED BY <2>1, <2>2, FS_CardinalityType
<1> HIDE DEF K
<1>4. \A i \in Nat : i + 1 <= K => f[i + 1] = Grow(f[i], succ) /\ f[i] \subseteq f[i + 1] /\ i <= K
  <2> SUFFICES ASSUME NEW i \in Nat, i + 1 <= K
               PROVE  f[i + 1] = Grow(f[i], succ) /\ f[i] \subseteq f[i + 1] /\ i <= K
    OBVIOUS
  <2>1. i + 1 \in 1..K /\ (i + 1) - 1 = i /\ i <= K
    BY <1>1
  <2>2. f[i + 1] = Grow(f[i], succ)
    BY <1>2, <2>1
  <2> QED BY <2>1, <2>2 DEF Grow
<1>5. start \subseteq f[K]
  <2> DEFINE S == {i \in Nat : i <= K => start \subseteq f[i]}
  <2>1. 0 \in S
    BY <1>2
  <2>2. ASSUME NEW i \in Nat, i \in S PROVE i + 1 \in S
    BY <1>1, <1>4, <2>2
  <2> HIDE DEF S
  <2>3. K \in S
    BY <1>1, <2>1, <2>2, Induction
  <2> QED BY <1>1, <2>3 DEF S
<1>6. ASSUME NEW T, start \subseteq T, \A n \in T \cap N : succ[n] \subseteq T
      PROVE  f[K] \subseteq T
  <2> DEFINE S == {i \in Nat : i <= K => f[i] \subseteq T}
  <2>1. 0 \in S
    BY <1>2, <1>6
  <2>2. ASSUME NEW i \in Nat, i \in S PROVE i + 1 \in S
    <3> SUFFICES ASSUME i + 1 <= K PROVE f[i + 1] \subseteq T
      OBVIOUS
    <3>1. f[i] \subseteq T /\ f[i] \subseteq N
      BY <1>3, <1>4, <2>2
    <3>2. \A n \in f[i] : succ[n] \subseteq T
      BY <1>6, <3>1
    <3> QED BY <1>4, <3>1, <3>2 DEF Grow
  <2> HIDE DEF S
  <2>3. K \in S
    BY <1>1, <2>1, <2>2, Induction
  <2> QED BY <1>1, <2>3 DEF S
<1>7. Grow(f[K], succ) \subseteq f[K]
  <2> DEFINE Still(i) == Grow(f[i], succ) \subseteq f[i]
             S == {i \in Nat : i <= K => Still(i) \/ Cardinality(f[i]) >= i}
  <2>1. 0 \in S
    BY <1>1, <1>3
  <2>2. ASSUME NEW i \in Nat, i \in S PROVE i + 1 \in S
    <3> SUFFICES ASSUME i + 1 <= K PROVE Still(i + 1) \/ Cardinality(f[i + 1]) >= i + 1
      OBVIOUS
    <3>1. i <= K /\ f[i + 1] = Grow(f[i], succ) /\ f[i] \subseteq f[i + 1]
      BY <1>4
    <3>2. CASE Still(i)
      <4>1. f[i + 1] = f[i]
        BY <3>1, <3>2
      <4> QED BY <3>2, <4>1
    <3>3. CASE ~Still(i)
      <4>1. Cardinality(f[i]) >= i /\ f[i] # f[i + 1]
        BY <2>2, <3>1, <3>3
      <4>2. /\ IsFiniteSet(f[i + 1]) /\ f[i] \in SUBSET f[i + 1]
            /\ Cardinality(f[i]) \in Nat /\ Cardinality(f[i + 1]) \in Nat
        BY <1>1, <1>3, <3>1
      <4>3. Cardinality(f[i]) <= Cardinality(f[i + 1]) /\ Cardinality(f[i + 1]) # Cardinality(f[i])
        BY <4>1, <4>2, FS_Subset
      <4> QED BY <4>1, <4>2, <4>3
    <3> QED BY <3>2, <3>3
  <2> HIDE DEF S
  <2>3. K \in S
    BY <1>1, <2>1, <2>2, Induction
  <2>4. Still(K) \/ Cardinality(f[K]) >= K
    BY <1>1, <2>3 DEF S
  <2>5. ASSUME Cardinality(f[K]) >= K PROVE Still(K)
    <3>1. f[K] \in SUBSET N /\ Cardinality(f[K]) \in Nat
      BY <1>1, <1>3
    <3>2. Cardinality(f[K]) <= Cardinality(N)
      BY <3>1, FS_Subset
    <3>3. Cardinality(N) = Cardinality(f[K])
      BY <1>1, <2>5, <3>1, <3>2 DEF K
    <3>4. f[K] = N
      BY <3>1, <3>3, FS_Subset
    <3> QED BY <3>4 DEF Grow
  <2> QED BY <2>4, <2>5
<1>8. \A n \in f[K] : succ[n] \subseteq f[K]
  BY <1>7 DEF Grow
<1>9. f[K] \subseteq N
  BY <1>1, <1>3
<1> QED BY <1>2, <1>5, <1>6, <1>8, <1>9

\* The numbers of a set in ascending order: all of them, each once.
LEMMA AscendingFacts ==
  ASSUME NEW S, IsFiniteSet(S), S \subseteq Nat
  PROVE  /\ Cardinality(S) \in Nat
         /\ Ascending(S) \in [1..Cardinality(S) -> S]
         /\ \A i, j \in 1..Cardinality(S) : i < j => Ascending(S)[i] < Ascending(S)[j]
         /\ \A n \in S : \E i \in 1..Cardinality(S) : Ascending(S)[i] = n
<1> DEFINE K == Cardinality(S)
           Under(n) == {m \in S : m < n}
           rank == [n \in S |-> Cardinality(Under(n)) + 1]
<1>1. K \in Nat
  BY FS_CardinalityType
<1>2. ASSUME NEW n \in S
      PROVE  IsFiniteSet(Under(n)) /\ Cardinality(Under(n)) \in Nat /\ Cardinality(Under(n)) < K
  <2>1. Under(n) \in SUBSET S /\ n \notin Under(n)
    OBVIOUS
  <2> HIDE DEF Under
  <2>2. IsFiniteSet(Under(n)) /\ Cardinality(Under(n)) <= K /\ (K = Cardinality(Under(n)) => S = Under(n))
    BY <2>1, FS_Subset
  <2>3. Cardinality(Under(n)) \in Nat
    BY <2>2, FS_CardinalityType
  <2>4. K # Cardinality(Under(n))
    BY <2>1, <2>2
  <2> HIDE DEF K
  <2> QED BY <1>1, <2>2, <2>3, <2>4
<1>3. ASSUME NEW m \in S, NEW n \in S, m < n
      PROVE  Cardinality(Under(m)) < Cardinality(Under(n))
  <2>1. m \in Nat /\ n \in Nat
    OBVIOUS
  <2>2. m \in Under(n) /\ m \notin Under(m)
    BY <1>3, <2>1
  <2>a. ASSUME NEW k \in Under(m) PROVE k \in Under(n)
    <3>1. k \in S /\ k \in Nat /\ k < m
      OBVIOUS
    <3>2. k < n
      BY <1>3, <2>1, <3>1
    <3> QED BY <3>1, <3>2
  <2>b. Under(m) \in SUBSET Under(n)
    BY <2>a
  <2>3. /\ IsFiniteSet(Under(n)) /\ Cardinality(Under(n)) \in Nat /\ Cardinality(Under(m)) \in Nat
    BY <1>2
  <2> HIDE DEF Under
  <2>4. Cardinality(Under(m)) <= Cardinality(Under(n)) /\ Cardinality(Under(n)) # Cardinality(Under(m))
    BY <2>2, <2>b, <2>3, FS_Subset
  <2> QED BY <2>3, <2>4
<1> HIDE DEF K, Under
<1>4. rank \in [S -> 1..K]
  <2>1. ASSUME NEW n \in S PROVE Cardinality(Under(n)) + 1 \in 1..K
    BY <1>1, <1>2
  <2> QED BY <2>1
<1>5. \A m, n \in S : m # n => rank[m] # rank[n]
  <2> SUFFICES ASSUME NEW m \in S, NEW n \in S, m # n PROVE rank[m] # rank[n]
    OBVIOUS
  <2>1. m < n \/ n < m
    OBVIOUS
  <2>2. Cardinality(Under(m)) \in Nat /\ Cardinality(Under(n)) \in Nat
    BY <1>2
  <2>3. Cardinality(Under(m)) # Cardinality(Under(n))
    BY <1>3, <2>1, <2>2
  <2> QED BY <2>2, <2>3
<1>6. \A i \in 1..K : \E n \in S : rank[n] = i
  <2>1. IsFiniteSet(1..K) /\ Cardinality(1..K) = K
    BY <1>1, FS_Interval
  <2> HIDE DEF rank
  <2>2. rank \in Injection(S, 1..K)
    BY <1>4, <1>5 DEF Injection, IsInjective
  <2>3. Cardinality(S) = Cardinality(1..K)
    BY <2>1 DEF K
  <2>4. rank \in Surjection(S, 1..K)
    BY <2>1, <2>2, <2>3, FS_Injection
  <2> QED BY <2>4 DEF Surjection
<1>r. \A n \in S : Cardinality(Under(n)) \in Nat /\ rank[n] = Cardinality(Under(n)) + 1
  BY <1>2
<1> HIDE DEF rank
<1> DEFINE up == Ascending(S)
<1>7. ASSUME NEW i \in 1..K PROVE up[i] \in S /\ rank[up[i]] = i
  <2>1. up[i] = CHOOSE n \in S : Cardinality(Under(n)) = i - 1
    BY DEF Ascending, Under, K
  <2>2. \E n \in S : Cardinality(Under(n)) = i - 1
    <3> HIDE DEF up
    <3>1. PICK n \in S : rank[n] = i
      BY <1>6
    <3>2. Cardinality(Under(n)) \in Nat /\ i = Cardinality(Under(n)) + 1
      BY <1>r, <3>1
    <3> QED BY <3>2
  <2>3. up[i] \in S /\ Cardinality(Under(up[i])) = i - 1
    BY <2>1, <2>2
  <2> HIDE DEF up
  <2>4. rank[up[i]] = (i - 1) + 1
    BY <1>r, <2>3
  <2> QED BY <1>1, <2>3, <2>4
<1>8. up \in [1..K -> S]
  <2> DEFINE pick(i) == CHOOSE n \in S : Cardinality({m \in S : m < n}) = i - 1
  <2>1. up = [i \in 1..K |-> pick(i)]
    BY DEF Ascending, K
  <2>2. DOMAIN up = 1..K /\ up = [i \in DOMAIN up |-> up[i]]
    <3> HIDE DEF up, pick
    <3> QED BY <2>1
  <2> HIDE DEF up
  <2> QED BY <1>7, <2>2
<1>9. ASSUME NEW i \in 1..K, NEW j \in 1..K, i < j PROVE up[i] < up[j]
  <2>1. up[i] \in S /\ up[j] \in S /\ rank[up[i]] = i /\ rank[up[j]] = j
    BY <1>7
  <2> HIDE DEF up
  <2>2. up[i] \in Nat /\ up[j] \in Nat
    BY <2>1
  <2>3. /\ Cardinality(Under(up[i])) = i - 1 /\ Cardinality(Under(up[j])) = j - 1
    <3>1. /\ Cardinality(Under(up[i])) \in Nat /\ i = Cardinality(Under(up[i])) + 1
          /\ Cardinality(Under(up[j])) \in Nat /\ j = Cardinality(Under(up[j])) + 1
      BY <1>r, <2>1
    <3> QED BY <3>1
  <2>4. up[i] # up[j]
    BY <1>9, <2>1
  <2>5. ~(up[j] < up[i])
    <3> SUFFICES ASSUME up[j] < up[i] PROVE FALSE
      OBVIOUS
    <3>1. Cardinality(Under(up[j])) < Cardinality(Under(up[i]))
      BY <1>3, <2>1
    <3> QED BY <1>1, <1>9, <2>3, <3>1
  <2> QED BY <2>2, <2>4, <2>5
<1>10. ASSUME NEW n \in S PROVE \E i \in 1..K : up[i] = n
  <2>1. rank[n] \in 1..K
    BY <1>4
  <2>2. up[rank[n]] \in S /\ rank[up[rank[n]]] = rank[n]
    BY <1>7, <2>1
  <2> HIDE DEF up
  <2>3. up[rank[n]] = n
    BY <1>5, <2>2
  <2> QED BY <2>1, <2>3
<1> HIDE DEF up
<1>11. K \in Nat /\ up \in [1..K -> S]
         /\ (\A i, j \in 1..K : i < j => up[i] < up[j]) /\ (\A n \in S : \E i \in 1..K : up[i] = n)
  BY <1>1, <1>8, <1>9, <1>10
<1> QED BY <1>11 DEF K, up

-----------------------------------------------------------------------------
\* A function on 1..n is a sequence of n values.
LEMMA SequenceOf ==
  ASSUME NEW T, NEW n \in Nat, NEW s \in [1..n -> T]
  PROVE  s \in Seq(T) /\ Len(s) = n /\ DOMAIN s = 1..n
OBVIOUS

LEMMA ElementsType ==
  ASSUME NEW T, NEW s \in Seq(T)
  PROVE  Elements(s) \subseteq T /\ \A i \in DOMAIN s : s[i] \in T /\ s[i] \in Elements(s)
BY LenProperties DEF Elements

LEMMA AppendElements ==
  ASSUME NEW T, NEW s \in Seq(T), NEW x \in T
  PROVE  /\ Append(s, x) \in Seq(T) /\ Elements(Append(s, x)) = Elements(s) \cup {x}
         /\ Len(Append(s, x)) = Len(s) + 1
         /\ \A i \in DOMAIN s : i \in DOMAIN Append(s, x) /\ Append(s, x)[i] = s[i]
         /\ Append(s, x)[Len(s) + 1] = x
         /\ DOMAIN Append(s, x) = DOMAIN s \cup {Len(s) + 1}
<1>1. Len(s) \in Nat /\ DOMAIN s = 1..Len(s)
  BY LenProperties
<1>2. /\ Append(s, x) \in Seq(T) /\ Len(Append(s, x)) = Len(s) + 1
      /\ Append(s, x)[Len(s) + 1] = x
      /\ \A i \in 1..Len(s) : Append(s, x)[i] = s[i]
  BY <1>1
<1>3. DOMAIN Append(s, x) = 1..(Len(s) + 1)
  BY <1>2, LenProperties
<1>4. 1..(Len(s) + 1) = 1..Len(s) \cup {Len(s) + 1}
  BY <1>1
<1>5. DOMAIN Append(s, x) = DOMAIN s \cup {Len(s) + 1}
  BY <1>1, <1>3, <1>4
<1>6. Elements(Append(s, x)) = Elements(s) \cup {x}
  BY <1>1, <1>2, <1>5 DEF Elements
<1> QED BY <1>1, <1>2, <1>5, <1>6

OneEach(s) == \A i, j \in DOMAIN s : s[i] = s[j] => i = j

LEMMA AppendOneEach ==
  ASSUME NEW T, NEW s \in Seq(T), NEW x \in T, OneEach(s), x \notin Elements(s)
  PROVE  OneEach(Append(s, x))
<1>1. Len(s) \in Nat /\ DOMAIN s = 1..Len(s) /\ \A i \in DOMAIN s : s[i] # x
  BY LenProperties, ElementsType
<1>2. /\ \A i \in DOMAIN s : Append(s, x)[i] = s[i]
      /\ Append(s, x)[Len(s) + 1] = x
      /\ DOMAIN Append(s, x) = DOMAIN s \cup {Len(s) + 1}
  BY AppendElements
<1> QED BY <1>1, <1>2 DEF OneEach

LEMMA TailElements ==
  ASSUME NEW T, NEW s \in Seq(T), s # <<>>, OneEach(s)
  PROVE  /\ Head(s) \in T /\ Tail(s) \in Seq(T) /\ OneEach(Tail(s))
         /\ Elements(s) = Elements(Tail(s)) \cup {Head(s)}
         /\ Head(s) \notin Elements(Tail(s))
<1>1. /\ Head(s) \in T /\ Tail(s) \in Seq(T) /\ Len(Tail(s)) = Len(s) - 1
      /\ \A i \in 1..Len(Tail(s)) : Tail(s)[i] = s[i + 1]
  BY HeadTailProperties
<1>2. Len(s) \in Nat \ {0} /\ DOMAIN s = 1..Len(s) /\ DOMAIN Tail(s) = 1..(Len(s) - 1)
  <2>1. Len(s) \in Nat \ {0}
    BY EmptySeq
  <2>2. DOMAIN s = 1..Len(s)
    BY LenProperties
  <2>3. DOMAIN Tail(s) = 1..Len(Tail(s))
    BY <1>1, LenProperties
  <2> QED BY <1>1, <2>1, <2>2, <2>3
<1>3. Head(s) = s[1]
  OBVIOUS
<1>4. \A i \in DOMAIN Tail(s) : i + 1 \in DOMAIN s /\ Tail(s)[i] = s[i + 1] /\ i \in Nat
  BY <1>1, <1>2
<1>5. \A i \in DOMAIN s : i = 1 \/ (i - 1 \in DOMAIN Tail(s) /\ (i - 1) + 1 = i)
  BY <1>2
<1>6. OneEach(Tail(s))
  <2> SUFFICES ASSUME NEW i \in DOMAIN Tail(s), NEW j \in DOMAIN Tail(s), Tail(s)[i] = Tail(s)[j]
               PROVE  i = j
    BY DEF OneEach
  <2>1. i + 1 = j + 1
    BY <1>4 DEF OneEach
  <2> QED BY <1>4, <2>1
<1>7. 1 \in DOMAIN s
  BY <1>2
<1>8. ASSUME NEW x \in Elements(s) PROVE x \in Elements(Tail(s)) \cup {Head(s)}
  <2>1. PICK i \in DOMAIN s : x = s[i]
    BY DEF Elements
  <2>2. CASE i = 1
    BY <1>3, <2>1, <2>2
  <2>3. CASE i # 1
    <3>1. i - 1 \in DOMAIN Tail(s) /\ Tail(s)[i - 1] = x
      BY <1>4, <1>5, <2>1, <2>3
    <3> QED BY <3>1 DEF Elements
  <2> QED BY <2>2, <2>3
<1>9. ASSUME NEW x \in Elements(Tail(s)) PROVE x \in Elements(s) /\ x # Head(s)
  <2>1. PICK i \in DOMAIN Tail(s) : x = Tail(s)[i]
    BY DEF Elements
  <2>2. i + 1 \in DOMAIN s /\ x = s[i + 1] /\ i + 1 # 1
    BY <1>2, <1>4, <2>1
  <2> QED BY <1>3, <1>7, <2>2 DEF Elements, OneEach
<1>10. Head(s) \in Elements(s)
  BY <1>3, <1>7 DEF Elements
<1> QED BY <1>1, <1>6, <1>8, <1>9, <1>10

\* A sequence without duplicates has as many elements as its length says.
LEMMA OneEachCounts ==
  ASSUME NEW T, NEW s \in Seq(T), OneEach(s)
  PROVE  IsFiniteSet(Elements(s)) /\ Cardinality(Elements(s)) = Len(s)
<1>1. Len(s) \in Nat /\ DOMAIN s = 1..Len(s) /\ s \in [1..Len(s) -> T]
  BY LenProperties
<1>2. s \in [1..Len(s) -> Elements(s)]
  BY <1>1 DEF Elements
<1>3. s \in Bijection(1..Len(s), Elements(s))
  BY <1>1, <1>2 DEF OneEach, Elements, Bijection, Injection, IsInjective, Surjection
<1>4. ExistsBijection(1..Len(s), Elements(s))
  BY <1>3 DEF ExistsBijection
<1>5. IsFiniteSet(1..Len(s)) /\ Cardinality(1..Len(s)) = Len(s)
  BY <1>1, FS_Interval
<1> QED BY <1>4, <1>5, FS_Bijection

LEMMA AscendingSequence ==
  ASSUME NEW S, IsFiniteSet(S), S \subseteq Nat
  PROVE  /\ Ascending(S) \in Seq(S) /\ OneEach(Ascending(S)) /\ Elements(Ascending(S)) = S
         /\ Len(Ascending(S)) \in Nat /\ DOMAIN Ascending(S) = 1..Len(Ascending(S))
         /\ \A i, j \in DOMAIN Ascending(S) : i < j => Ascending(S)[i] < Ascending(S)[j]
<1> DEFINE up == Ascending(S)
<1>1. /\ Cardinality(S) \in Nat /\ up \in [1..Cardinality(S) -> S]
      /\ \A i, j \in 1..Cardinality(S) : i < j => up[i] < up[j]
      /\ \A n \in S : \E i \in 1..Cardinality(S) : up[i] = n
  BY AscendingFacts
<1> HIDE DEF up
<1>2. up \in Seq(S) /\ Len(up) = Cardinality(S) /\ DOMAIN up = 1..Len(up)
  BY <1>1, SequenceOf
<1>3. OneEach(up)
  <2> SUFFICES ASSUME NEW i \in DOMAIN up, NEW j \in DOMAIN up, i # j PROVE up[i] # up[j]
    BY DEF OneEach
  <2>1. i \in Nat /\ j \in Nat /\ up[i] \in Nat /\ up[j] \in Nat
    <3>1. i \in 1..Cardinality(S) /\ j \in 1..Cardinality(S)
      BY <1>2
    <3>2. up[i] \in S /\ up[j] \in S
      BY <1>1, <3>1
    <3>3. up[i] \in Nat /\ up[j] \in Nat
      BY <3>2
    <3>4. Cardinality(S) \in Nat
      BY <1>1
    <3>5. i \in Nat /\ j \in Nat
      BY <3>1, <3>4
    <3> QED BY <3>3, <3>5
  <2>2. i < j \/ j < i
    BY <2>1
  <2>3. up[i] < up[j] \/ up[j] < up[i]
    BY <1>1, <1>2, <2>2
  <2> QED BY <2>1, <2>3
<1>4. Elements(up) = S
  BY <1>1, <1>2 DEF Elements
<1>5. \A i, j \in DOMAIN up : i < j => up[i] < up[j]
  BY <1>1, <1>2
<1>6. /\ up \in Seq(S) /\ OneEach(up) /\ Elements(up) = S
      /\ Len(up) \in Nat /\ DOMAIN up = 1..Len(up) /\ \A i, j \in DOMAIN up : i < j => up[i] < up[j]
  BY <1>1, <1>2, <1>3, <1>4, <1>5
<1> QED BY <1>6 DEF up

\* The edges of a document are identified by their ids.
LEMMA ByIdFacts ==
  ASSUME NEW E, IsFiniteSet(E), \A e \in E : e.id \in Nat, \A e, f \in E : e.id = f.id => e = f
  PROVE  ById(E) \in Seq(E) /\ OneEach(ById(E)) /\ Elements(ById(E)) = E
<1> DEFINE N == {e.id : e \in E}
           ids == Ascending(N)
           at(i) == CHOOSE e \in E : e.id = ids[i]
<1>1. IsFiniteSet(N)
  <2> DEFINE id == [e \in E |-> e.id]
  <2>1. id \in Surjection(E, N)
    BY DEF Surjection
  <2> HIDE DEF id, N
  <2> QED BY <2>1, FS_Surjection
<1>2. N \subseteq Nat
  OBVIOUS
<1> HIDE DEF N
<1>3. ids \in Seq(N) /\ OneEach(ids) /\ Elements(ids) = N /\ Len(ids) \in Nat /\ DOMAIN ids = 1..Len(ids)
  BY <1>1, <1>2, AscendingSequence
<1>4. ById(E) = [i \in DOMAIN ids |-> at(i)]
  BY DEF ById, N
<1> HIDE DEF ids
<1>5. ASSUME NEW i \in DOMAIN ids PROVE at(i) \in E /\ at(i).id = ids[i]
  <2>1. ids[i] \in N
    BY <1>3, ElementsType
  <2>2. \E e \in E : e.id = ids[i]
    BY <2>1 DEF N
  <2> QED BY <2>2
<1>6. ById(E) \in [1..Len(ids) -> E]
  BY <1>3, <1>4, <1>5
<1>7. ById(E) \in Seq(E) /\ DOMAIN ById(E) = DOMAIN ids
  BY <1>3, <1>6, SequenceOf
<1>8. \A i \in DOMAIN ids : ById(E)[i] \in E /\ ById(E)[i].id = ids[i]
  BY <1>4, <1>5
<1>9. OneEach(ById(E))
  BY <1>3, <1>7, <1>8 DEF OneEach
<1>10. ASSUME NEW e \in E PROVE e \in Elements(ById(E))
  <2>1. e.id \in Elements(ids)
    BY <1>3 DEF N
  <2>2. PICK i \in DOMAIN ids : ids[i] = e.id
    BY <2>1 DEF Elements
  <2>3. ById(E)[i] = e
    BY <1>8, <2>2
  <2> QED BY <1>7, <2>3 DEF Elements
<1> QED BY <1>7, <1>9, <1>10, ElementsType

\* Among picks the positions of a sequence, in their order, whose values are in a set.
LEMMA AmongFacts ==
  ASSUME NEW T, NEW s \in Seq(T), NEW S
  PROVE  \E at \in Seq(DOMAIN s) :
           /\ \A i, j \in DOMAIN at : i < j => at[i] < at[j]
           /\ Elements(at) = {i \in DOMAIN s : s[i] \in S}
           /\ Len(at) \in Nat /\ DOMAIN at = 1..Len(at)
           /\ Among(s, S) = [k \in DOMAIN at |-> s[at[k]]]
           /\ Among(s, S) \in Seq(T) /\ Len(Among(s, S)) = Len(at)
           /\ Elements(Among(s, S)) = Elements(s) \cap S
<1> DEFINE P == {i \in DOMAIN s : s[i] \in S}
           at == Ascending(P)
<1>1. Len(s) \in Nat /\ DOMAIN s = 1..Len(s) /\ s \in [1..Len(s) -> T]
  BY LenProperties
<1>2. IsFiniteSet(P) /\ P \subseteq Nat /\ P \subseteq DOMAIN s
  <2>1. IsFiniteSet(1..Len(s)) /\ P \in SUBSET (1..Len(s))
    BY <1>1, FS_Interval
  <2> QED BY <1>1, <2>1, FS_Subset
<1>3. Among(s, S) = [k \in DOMAIN at |-> s[at[k]]]
  BY DEF Among
<1> HIDE DEF P
<1>4. /\ at \in Seq(P) /\ Elements(at) = P /\ Len(at) \in Nat /\ DOMAIN at = 1..Len(at)
      /\ \A i, j \in DOMAIN at : i < j => at[i] < at[j]
  BY <1>2, AscendingSequence
<1> HIDE DEF at
<1>5. at \in Seq(DOMAIN s) /\ \A k \in DOMAIN at : at[k] \in P
  BY <1>2, <1>4, SeqMonotonic, ElementsType
<1>6. Among(s, S) \in [1..Len(at) -> T]
  BY <1>1, <1>2, <1>3, <1>4, <1>5
<1>7. Among(s, S) \in Seq(T) /\ Len(Among(s, S)) = Len(at)
  BY <1>4, <1>6, SequenceOf
<1>8. Elements(Among(s, S)) = Elements(s) \cap S
  <2>1. ASSUME NEW k \in DOMAIN at PROVE Among(s, S)[k] \in Elements(s) \cap S
    BY <1>3, <1>5 DEF P, Elements
  <2>2. ASSUME NEW x \in Elements(s) \cap S PROVE \E k \in DOMAIN at : Among(s, S)[k] = x
    <3>1. PICK i \in DOMAIN s : s[i] = x
      BY DEF Elements
    <3>2. i \in Elements(at)
      BY <1>4, <3>1 DEF P
    <3> QED BY <1>3, <3>1, <3>2 DEF Elements
  <2>3. DOMAIN Among(s, S) = DOMAIN at
    BY <1>3
  <2> QED BY <2>1, <2>2, <2>3 DEF Elements
<1> QED BY <1>3, <1>4, <1>5, <1>7, <1>8 DEF P

\* A sequence whose last chosen value is known ends with it.
LEMMA AmongEndsWith ==
  ASSUME NEW T, NEW s \in Seq(T), NEW S, NEW i \in DOMAIN s, s[i] \in S,
         \A j \in DOMAIN s : s[j] \in S => j <= i
  PROVE  Among(s, S)[Len(Among(s, S))] = s[i]
<1>1. PICK at \in Seq(DOMAIN s) :
        /\ \A k, l \in DOMAIN at : k < l => at[k] < at[l]
        /\ Elements(at) = {k \in DOMAIN s : s[k] \in S}
        /\ Len(at) \in Nat /\ DOMAIN at = 1..Len(at)
        /\ Among(s, S) = [k \in DOMAIN at |-> s[at[k]]]
        /\ Len(Among(s, S)) = Len(at)
  BY AmongFacts
<1>2. PICK k \in DOMAIN at : at[k] = i
  BY <1>1 DEF Elements
<1>3. Len(at) \in DOMAIN at /\ k \in Nat /\ k <= Len(at)
  BY <1>1, <1>2
<1>4. at[Len(at)] \in DOMAIN s /\ s[at[Len(at)]] \in S
  BY <1>1, <1>3 DEF Elements
<1>5. at[Len(at)] <= i
  BY <1>4
<1>6. DOMAIN s = 1..Len(s) /\ Len(s) \in Nat
  BY LenProperties
<1>7. k = Len(at)
  <2>1. at[Len(at)] \in Int /\ i \in Int
    BY <1>4, <1>6
  <2>2. k < Len(at) => i < at[Len(at)]
    BY <1>1, <1>2, <1>3
  <2> QED BY <1>1, <1>3, <1>5, <2>1, <2>2
<1> QED BY <1>1, <1>2, <1>3, <1>7

-----------------------------------------------------------------------------
(* Kahn's algorithm, on a document whose edges join its nodes.             *)

Sound(d) == WellFormed(d) /\ Joined(d) = d.edges

LEMMA SoundFacts ==
  ASSUME NEW d, Sound(d)
  PROVE  /\ IsFiniteSet(Ids(d)) /\ Ids(d) \subseteq Nat /\ IsFiniteSet(d.edges)
         /\ \A e \in d.edges : e.id \in Nat /\ e.from \in Ids(d) /\ e.to \in Ids(d)
         /\ \A e, f \in d.edges : e.id = f.id => e = f
         /\ Mentioned(d) = Ids(d)
         /\ \A n : Parents(d, n) \subseteq Ids(d) /\ Children(d, n) \subseteq Ids(d)
         /\ \A n : Neighbours(d, n) = Children(d, n) \cup Parents(d, n)
<1>1. \A e \in d.edges : e.from \in Ids(d) /\ e.to \in Ids(d)
  BY DEF Sound, Joined
<1>2. Mentioned(d) = Ids(d)
  BY <1>1 DEF Mentioned
<1>3. \A n : Parents(d, n) \subseteq Ids(d) /\ Children(d, n) \subseteq Ids(d)
  BY <1>1 DEF Parents, Children, Incoming, Outgoing
<1>4. \A n : Neighbours(d, n) = Children(d, n) \cup Parents(d, n)
  BY DEF Sound, Neighbours, Parents, Children, Incoming, Outgoing
<1> QED BY <1>1, <1>2, <1>3, <1>4 DEF Sound, WellFormed, ensure_unique_ids

States(d) ==
  [queue : Seq(Ids(d)), indegree : [Ids(d) -> Int], order : Seq(Ids(d)), raised : BOOLEAN]

LEMMA ReleaseFacts ==
  ASSUME NEW d, NEW s \in States(d), NEW e
  PROVE  /\ Release(d, s, e) \in States(d)
         /\ ~s.raised /\ e.to \in Ids(d) =>
              /\ ~Release(d, s, e).raised
              /\ Release(d, s, e).order = s.order
              /\ Release(d, s, e).indegree = [s.indegree EXCEPT ![e.to] = @ - 1]
              /\ s.indegree[e.to] = 1 => Release(d, s, e).queue = Append(s.queue, e.to)
              /\ s.indegree[e.to] # 1 => Release(d, s, e).queue = s.queue
<1>1. CASE s.raised \/ e.to \notin Ids(d)
  BY <1>1 DEF Release, States
<1>2. CASE ~s.raised /\ e.to \in Ids(d)
  <2>1. /\ s.queue \in Seq(Ids(d)) /\ s.order \in Seq(Ids(d)) /\ s.indegree \in [Ids(d) -> Int]
        /\ s.raised \in BOOLEAN /\ s.indegree[e.to] \in Int
    BY <1>2 DEF States
  <2>2. Append(s.queue, e.to) \in Seq(Ids(d))
    BY <1>2, <2>1, AppendElements
  <2>3. [s.indegree EXCEPT ![e.to] = @ - 1] \in [Ids(d) -> Int]
    <3>1. ASSUME NEW A, NEW f \in [A -> Int], NEW a \in A PROVE [f EXCEPT ![a] = @ - 1] \in [A -> Int]
      OBVIOUS
    <3> QED BY <1>2, <2>1, <3>1
  <2>4. Release(d, s, e) = [s EXCEPT !.indegree = [s.indegree EXCEPT ![e.to] = @ - 1],
                                     !.queue = IF s.indegree[e.to] = 1 THEN Append(@, e.to) ELSE @]
    BY <1>2 DEF Release
  <2>5. s = [queue |-> s.queue, indegree |-> s.indegree, order |-> s.order, raised |-> s.raised]
    BY DEF States
  <2> QED BY <1>2, <2>1, <2>2, <2>3, <2>4, <2>5 DEF States
<1> QED BY <1>1, <1>2

LEMMA ReleaseLoop ==
  ASSUME NEW d, NEW s \in States(d), NEW T, NEW edges \in Seq(T)
  PROVE  \E f \in [0..Len(edges) -> States(d)] :
           /\ f[0] = s
           /\ \A i \in 1..Len(edges) : f[i] = Release(d, f[i - 1], edges[i])
           /\ ReleaseAll(d, s, edges) = f[Len(edges)]
<1>0. SUFFICES ASSUME NEW K \in Nat, K = Len(edges)
             PROVE  \E f \in [0..K -> States(d)] :
                      /\ f[0] = s
                      /\ \A i \in 1..K : f[i] = Release(d, f[i - 1], edges[i])
                      /\ ReleaseAll(d, s, edges) = f[K]
  BY LenProperties
<1> DEFINE Released(f) == f = [i \in 0..K |-> IF i = 0 THEN s ELSE Release(d, f[i - 1], edges[i])]
           body == [i \in 1..K |-> [t \in States(d) |-> Release(d, t, edges[i])]]
<1>3. body \in [1..K -> [States(d) -> States(d)]]
  BY ReleaseFacts
<1>4. Steps(States(d), s, K, body)
  BY <1>3 DEF Steps
<1>5. PICK f : Iterates(States(d), s, K, body, f)
  BY <1>4, Iteration
<1>6. f \in [0..K -> States(d)] /\ f[0] = s /\ \A i \in 1..K : f[i] = body[i][f[i - 1]]
  BY <1>5 DEF Iterates
<1>7. ASSUME NEW i \in 1..K PROVE f[i] = Release(d, f[i - 1], edges[i])
  <2>1. i - 1 \in 0..K /\ f[i - 1] \in States(d)
    BY <1>6
  <2> QED BY <1>6, <2>1
<1>8. Released(f)
  <2>1. \A i \in 0..K : f[i] = IF i = 0 THEN s ELSE Release(d, f[i - 1], edges[i])
    BY <1>6, <1>7
  <2> QED BY <1>6, <2>1
<1> DEFINE released == CHOOSE g : Released(g)
<1>9. Released(released)
  <2> HIDE DEF Released
  <2> QED BY <1>8
<1>10. ReleaseAll(d, s, edges) = released[K]
  BY <1>0 DEF ReleaseAll
<1> HIDE DEF released
<1>11. released[0] = s /\ \A i \in 1..K : released[i - 1] \in States(d) => released[i] = body[i][released[i - 1]]
  <2>1. 0 \in 0..K /\ \A i \in 1..K : i \in 0..K /\ i # 0
    OBVIOUS
  <2>2. released[0] = s /\ \A i \in 1..K : released[i] = Release(d, released[i - 1], edges[i])
    BY <1>9, <2>1
  <2> QED BY <2>2
<1> HIDE DEF body
<1>12. released[K] = f[K]
  BY <1>4, <1>5, <1>11, IterationUnique
<1> QED BY <1>6, <1>7, <1>10, <1>12

\* The state of the algorithm once the edges `done` have been followed: a
\* counter holds the edges into its node that have not, a node is queued or
\* listed when there is none, and sources are listed before targets.
Kahn(d, s, done) ==
  /\ s \in States(d) /\ ~s.raised /\ done \subseteq d.edges
  /\ \A n \in Ids(d) : s.indegree[n] = Cardinality({e \in d.edges \ done : e.to = n})
  /\ \A n \in Ids(d) : s.indegree[n] = 0 <=> n \in Elements(s.order) \cup Elements(s.queue)
  /\ OneEach(s.order) /\ OneEach(s.queue) /\ Elements(s.order) \cap Elements(s.queue) = {}
  /\ \A e \in done : e.from \in Elements(s.order)
  /\ \A i \in DOMAIN s.order : \A e \in d.edges :
       e.to = s.order[i] => \E j \in DOMAIN s.order : j < i /\ s.order[j] = e.from

LEMMA ReleaseKahn ==
  ASSUME NEW d, Sound(d), NEW s, NEW done, Kahn(d, s, done),
         NEW e \in d.edges \ done, e.from \in Elements(s.order)
  PROVE  Kahn(d, Release(d, s, e), done \cup {e})
<1> DEFINE t == Release(d, s, e)
           Open(n) == {f \in d.edges \ done : f.to = n}
           Left(n) == {f \in d.edges \ (done \cup {e}) : f.to = n}
<1>1. /\ s \in States(d) /\ ~s.raised /\ e.to \in Ids(d) /\ IsFiniteSet(d.edges)
      /\ s.queue \in Seq(Ids(d)) /\ s.order \in Seq(Ids(d)) /\ s.indegree \in [Ids(d) -> Int]
  BY SoundFacts DEF Kahn, States
<1>2. /\ t \in States(d) /\ ~t.raised /\ t.order = s.order
      /\ t.indegree = [s.indegree EXCEPT ![e.to] = @ - 1]
      /\ s.indegree[e.to] = 1 => t.queue = Append(s.queue, e.to)
      /\ s.indegree[e.to] # 1 => t.queue = s.queue
  BY <1>1, ReleaseFacts
<1>3. ASSUME NEW n \in Ids(d)
      PROVE  /\ IsFiniteSet(Open(n)) /\ Cardinality(Open(n)) \in Nat /\ s.indegree[n] = Cardinality(Open(n))
             /\ n # e.to => Left(n) = Open(n)
  <2>1. Open(n) \in SUBSET d.edges
    OBVIOUS
  <2>2. IsFiniteSet(Open(n))
    BY <1>1, <2>1, FS_Subset
  <2>3. Cardinality(Open(n)) \in Nat
    BY <2>2, FS_CardinalityType
  <2> QED BY <2>2, <2>3 DEF Kahn
<1>4. /\ Left(e.to) = Open(e.to) \ {e} /\ e \in Open(e.to)
  OBVIOUS
<1> HIDE DEF Open, Left, t
<1>5. s.indegree[e.to] \in Nat \ {0} /\ Cardinality(Left(e.to)) = s.indegree[e.to] - 1
  <2>1. Cardinality(Left(e.to)) = Cardinality(Open(e.to)) - 1
    <3>1. IsFiniteSet(Open(e.to)) /\ e \in Open(e.to)
      BY <1>1, <1>3, <1>4
    <3>2. Cardinality(Open(e.to) \ {e}) = Cardinality(Open(e.to)) - 1
      BY <3>1, FS_RemoveElement
    <3> QED BY <1>4, <3>2
  <2>2. Cardinality(Open(e.to)) # 0
    BY <1>1, <1>3, <1>4, FS_EmptySet
  <2> QED BY <1>1, <1>3, <2>1, <2>2
<1>6. \A n \in Ids(d) : t.indegree[n] = Cardinality(Left(n))
  BY <1>1, <1>2, <1>3, <1>5
<1>7. e.to \notin Elements(s.order) \cup Elements(s.queue)
  BY <1>1, <1>5 DEF Kahn
<1>8. /\ OneEach(t.queue) /\ Elements(t.order) \cap Elements(t.queue) = {}
      /\ \A n \in Ids(d) : t.indegree[n] = 0 <=> n \in Elements(t.order) \cup Elements(t.queue)
  <2>1. CASE s.indegree[e.to] = 1
    <3>1. t.queue = Append(s.queue, e.to) /\ Elements(t.queue) = Elements(s.queue) \cup {e.to}
      <4>1. t.queue = Append(s.queue, e.to)
        BY <1>2, <2>1
      <4>2. s.queue \in Seq(Ids(d)) /\ e.to \in Ids(d)
        BY <1>1
      <4>3. Elements(Append(s.queue, e.to)) = Elements(s.queue) \cup {e.to}
        BY <4>2, AppendElements
      <4> QED BY <4>1, <4>3
    <3>2. OneEach(t.queue)
      BY <1>1, <1>7, <3>1, AppendOneEach DEF Kahn
    <3>3. t.indegree[e.to] = 0 /\ \A n \in Ids(d) \ {e.to} : t.indegree[n] = s.indegree[n]
      BY <1>1, <1>2, <2>1
    <3> QED BY <1>1, <1>2, <1>7, <3>1, <3>2, <3>3 DEF Kahn
  <2>2. CASE s.indegree[e.to] # 1
    <3>1. t.queue = s.queue
      BY <1>2, <2>2
    <3>2. t.indegree[e.to] # 0 /\ \A n \in Ids(d) \ {e.to} : t.indegree[n] = s.indegree[n]
      BY <1>1, <1>2, <1>5, <2>2
    <3> QED BY <1>1, <1>2, <1>7, <3>1, <3>2 DEF Kahn
  <2> QED BY <2>1, <2>2
<1>9. /\ done \cup {e} \subseteq d.edges /\ OneEach(t.order)
      /\ \A f \in done \cup {e} : f.from \in Elements(t.order)
      /\ \A i \in DOMAIN t.order : \A f \in d.edges :
           f.to = t.order[i] => \E j \in DOMAIN t.order : j < i /\ t.order[j] = f.from
  BY <1>2 DEF Kahn
<1>10. Kahn(d, t, done \cup {e})
  BY <1>2, <1>6, <1>8, <1>9 DEF Kahn, Left
<1> QED BY <1>10 DEF t

LEMMA ReleaseAllKahn ==
  ASSUME NEW d, Sound(d), NEW s, NEW done, Kahn(d, s, done),
         NEW edges \in Seq(d.edges), OneEach(edges), Elements(edges) \cap done = {},
         \A e \in Elements(edges) : e.from \in Elements(s.order)
  PROVE  /\ Kahn(d, ReleaseAll(d, s, edges), done \cup Elements(edges))
         /\ ReleaseAll(d, s, edges).order = s.order
<1>1. s \in States(d) /\ Len(edges) \in Nat /\ DOMAIN edges = 1..Len(edges)
  BY LenProperties DEF Kahn
<1>2. PICK f \in [0..Len(edges) -> States(d)] :
        /\ f[0] = s
        /\ \A i \in 1..Len(edges) : f[i] = Release(d, f[i - 1], edges[i])
        /\ ReleaseAll(d, s, edges) = f[Len(edges)]
  BY <1>1, ReleaseLoop
<1> DEFINE First(i) == {edges[k] : k \in 1..i}
           S == {i \in Nat : i <= Len(edges) => Kahn(d, f[i], done \cup First(i)) /\ f[i].order = s.order}
<1>3. 0 \in S
  <2>1. First(0) = {}
    OBVIOUS
  <2>2. done \cup First(0) = done
    BY <2>1
  <2> QED BY <1>2, <2>2
<1>4. ASSUME NEW i \in Nat, i \in S PROVE i + 1 \in S
  <2> SUFFICES ASSUME i + 1 <= Len(edges)
               PROVE  Kahn(d, f[i + 1], done \cup First(i + 1)) /\ f[i + 1].order = s.order
    OBVIOUS
  <2>1. i + 1 \in DOMAIN edges /\ (i + 1) - 1 = i /\ i <= Len(edges) /\ i + 1 \in 1..Len(edges)
    BY <1>1
  <2>2. Kahn(d, f[i], done \cup First(i)) /\ f[i].order = s.order
    BY <1>4, <2>1
  <2>3. f[i + 1] = Release(d, f[i], edges[i + 1])
    BY <1>2, <2>1
  <2>4. edges[i + 1] \in d.edges /\ edges[i + 1] \in Elements(edges)
    BY <2>1, ElementsType
  <2>5. edges[i + 1] \notin First(i)
    <3> SUFFICES ASSUME NEW k \in 1..i, edges[k] = edges[i + 1] PROVE FALSE
      OBVIOUS
    <3>1. k \in DOMAIN edges /\ k # i + 1
      BY <1>1, <2>1
    <3> QED BY <2>1, <3>1 DEF OneEach
  <2>6. edges[i + 1] \in d.edges \ (done \cup First(i)) /\ edges[i + 1].from \in Elements(f[i].order)
    BY <2>2, <2>4, <2>5
  <2>7. First(i + 1) = First(i) \cup {edges[i + 1]}
    <3>1. 1..(i + 1) = 1..i \cup {i + 1}
      OBVIOUS
    <3> QED BY <3>1
  <2> HIDE DEF First
  <2>8. Kahn(d, f[i + 1], (done \cup First(i)) \cup {edges[i + 1]})
    BY <2>2, <2>3, <2>6, ReleaseKahn
  <2>9. f[i] \in States(d) /\ ~f[i].raised /\ edges[i + 1].to \in Ids(d)
    BY <2>2, <2>4, SoundFacts DEF Kahn
  <2>10. f[i + 1].order = f[i].order
    <3>1. ASSUME NEW t \in States(d), NEW e, ~t.raised, e.to \in Ids(d) PROVE Release(d, t, e).order = t.order
      BY <3>1, ReleaseFacts
    <3>2. Release(d, f[i], edges[i + 1]).order = f[i].order
      <4> HIDE DEF S
      <4> QED BY <2>9, <3>1, Zenon
    <3> QED BY <2>3, <3>2
  <2>11. done \cup First(i + 1) = (done \cup First(i)) \cup {edges[i + 1]}
    BY <2>7
  <2> QED BY <2>2, <2>8, <2>10, <2>11
<1> HIDE DEF S
<1>5. Len(edges) \in S
  BY <1>1, <1>3, <1>4, Induction
<1>6. First(Len(edges)) = Elements(edges)
  BY <1>1 DEF Elements
<1> HIDE DEF First
<1>7. Kahn(d, f[Len(edges)], done \cup First(Len(edges))) /\ f[Len(edges)].order = s.order
  BY <1>1, <1>5 DEF S
<1> QED BY <1>2, <1>6, <1>7

\* Between two visits exactly the edges of the listed nodes have been followed.
Followed(d, s) == {e \in d.edges : e.from \in Elements(s.order)}
Settled(d, s) == Kahn(d, s, Followed(d, s))

LEMMA VisitType ==
  ASSUME NEW d, Sound(d), NEW s \in States(d)
  PROVE  Visit(d, s) \in States(d)
<1>1. CASE s.queue = <<>> \/ s.raised
  BY <1>1 DEF Visit
<1>2. CASE ~(s.queue = <<>> \/ s.raised)
  <2> DEFINE t == [s EXCEPT !.queue = Tail(@), !.order = Append(@, Head(s.queue))]
             edges == ById(Outgoing(d, Head(s.queue)))
  <2>1. s.queue \in Seq(Ids(d)) /\ s.order \in Seq(Ids(d)) /\ s.queue # <<>>
    BY <1>2 DEF States
  <2>2. Head(s.queue) \in Ids(d) /\ Tail(s.queue) \in Seq(Ids(d))
    BY <2>1, HeadTailProperties
  <2>3. Append(s.order, Head(s.queue)) \in Seq(Ids(d))
    BY <2>1, <2>2, AppendElements
  <2>4. t \in States(d)
    BY <2>2, <2>3 DEF States
  <2>5. edges \in Seq(Outgoing(d, Head(s.queue)))
    <3> DEFINE E == Outgoing(d, Head(s.queue))
    <3>1. E \in SUBSET d.edges
      BY DEF Outgoing
    <3> HIDE DEF E
    <3>2. IsFiniteSet(E)
      BY <3>1, SoundFacts, FS_Subset
    <3>3. ById(E) \in Seq(E)
      BY <3>1, <3>2, SoundFacts, ByIdFacts
    <3> QED BY <3>3 DEF E
  <2>6. Visit(d, s) = ReleaseAll(d, t, edges)
    BY <1>2 DEF Visit
  <2> HIDE DEF t, edges
  <2>7. Len(edges) \in Nat
    BY <2>5, LenProperties
  <2>8. ReleaseAll(d, t, edges) \in States(d)
    <3>1. PICK f \in [0..Len(edges) -> States(d)] : ReleaseAll(d, t, edges) = f[Len(edges)]
      BY <2>4, <2>5, ReleaseLoop
    <3> QED BY <2>7, <3>1
  <2> QED BY <2>6, <2>8
<1> QED BY <1>1, <1>2

LEMMA VisitKahn ==
  ASSUME NEW d, Sound(d), NEW s, Settled(d, s), s.queue # <<>>
  PROVE  /\ Settled(d, Visit(d, s))
         /\ Visit(d, s).order = Append(s.order, Head(s.queue))
<1> DEFINE n == Head(s.queue)
           t == [s EXCEPT !.queue = Tail(@), !.order = Append(@, n)]
           E == Outgoing(d, n)
           done == Followed(d, s)
<1>1. /\ s \in States(d) /\ ~s.raised
      /\ s.queue \in Seq(Ids(d)) /\ s.order \in Seq(Ids(d)) /\ s.indegree \in [Ids(d) -> Int]
  BY DEF Settled, Kahn, States
<1>2. OneEach(s.order) /\ OneEach(s.queue) /\ Elements(s.order) \cap Elements(s.queue) = {}
  BY DEF Settled, Kahn
<1>3. /\ n \in Ids(d) /\ Tail(s.queue) \in Seq(Ids(d)) /\ OneEach(Tail(s.queue))
      /\ Elements(s.queue) = Elements(Tail(s.queue)) \cup {n}
      /\ n \notin Elements(Tail(s.queue))
  BY <1>1, <1>2, TailElements
<1> HIDE DEF n
<1>4. n \notin Elements(s.order)
  BY <1>2, <1>3
<1>5. /\ Append(s.order, n) \in Seq(Ids(d)) /\ Elements(Append(s.order, n)) = Elements(s.order) \cup {n}
      /\ \A i \in DOMAIN s.order : i \in DOMAIN Append(s.order, n) /\ Append(s.order, n)[i] = s.order[i]
      /\ Append(s.order, n)[Len(s.order) + 1] = n
      /\ DOMAIN Append(s.order, n) = DOMAIN s.order \cup {Len(s.order) + 1}
      /\ OneEach(Append(s.order, n))
  BY <1>1, <1>2, <1>3, <1>4, AppendElements, AppendOneEach
<1>6. t \in States(d) /\ t.queue = Tail(s.queue) /\ t.order = Append(s.order, n)
        /\ t.indegree = s.indegree /\ t.raised = s.raised
  BY <1>1, <1>3, <1>5 DEF States
<1>7. E \in SUBSET d.edges /\ E \cap done = {} /\ \A e \in E : e.from = n
  BY <1>4 DEF Outgoing, Followed
<1>8. Visit(d, s) = ReleaseAll(d, t, ById(E))
  BY <1>1 DEF Visit, n
<1> HIDE DEF t, E, done
<1>9. \A i \in DOMAIN s.order : i < Len(s.order) + 1
  BY <1>1, LenProperties
<1>10. ASSUME NEW e \in d.edges, e.to = n
       PROVE  \E j \in DOMAIN t.order : j < Len(s.order) + 1 /\ t.order[j] = e.from
  <2>1. s.indegree[n] = 0 /\ s.indegree[n] = Cardinality({f \in d.edges \ done : f.to = n})
    BY <1>3 DEF Settled, Kahn, done
  <2>2. {f \in d.edges \ done : f.to = n} \in SUBSET d.edges
    OBVIOUS
  <2>3. IsFiniteSet({f \in d.edges \ done : f.to = n})
    BY <2>2, SoundFacts, FS_Subset
  <2>4. {f \in d.edges \ done : f.to = n} = {}
    BY <2>1, <2>3, FS_EmptySet
  <2>5. e.from \in Elements(s.order)
    BY <1>10, <2>4 DEF done, Followed
  <2>6. PICK j \in DOMAIN s.order : s.order[j] = e.from
    BY <2>5 DEF Elements
  <2> QED BY <1>5, <1>6, <1>9, <2>6
<1>11. \A i \in DOMAIN t.order : \A e \in d.edges :
         e.to = t.order[i] => \E j \in DOMAIN t.order : j < i /\ t.order[j] = e.from
  <2> SUFFICES ASSUME NEW i \in DOMAIN t.order, NEW e \in d.edges, e.to = t.order[i]
               PROVE  \E j \in DOMAIN t.order : j < i /\ t.order[j] = e.from
    OBVIOUS
  <2>1. CASE i \in DOMAIN s.order
    <3>1. e.to = s.order[i]
      BY <1>5, <1>6, <2>1
    <3>2. PICK j \in DOMAIN s.order : j < i /\ s.order[j] = e.from
      BY <2>1, <3>1 DEF Settled, Kahn
    <3> QED BY <1>5, <1>6, <3>2
  <2>2. CASE i = Len(s.order) + 1
    BY <1>5, <1>6, <1>10, <2>2
  <2> QED BY <1>5, <1>6, <2>1, <2>2
<1>12. Kahn(d, t, done)
  <2>1. /\ \A m \in Ids(d) : t.indegree[m] = Cardinality({e \in d.edges \ done : e.to = m})
        /\ done \subseteq d.edges /\ \A e \in done : e.from \in Elements(t.order)
    BY <1>5, <1>6 DEF Settled, Kahn, done
  <2>2. Elements(t.order) \cup Elements(t.queue) = Elements(s.order) \cup Elements(s.queue)
    BY <1>3, <1>5, <1>6
  <2>3. \A m \in Ids(d) : t.indegree[m] = 0 <=> m \in Elements(t.order) \cup Elements(t.queue)
    BY <1>6, <2>2 DEF Settled, Kahn
  <2>4. OneEach(t.order) /\ OneEach(t.queue) /\ Elements(t.order) \cap Elements(t.queue) = {}
    BY <1>2, <1>3, <1>5, <1>6
  <2>5. ~t.raised
    BY <1>1, <1>6
  <2> QED BY <1>6, <1>11, <2>1, <2>3, <2>4, <2>5 DEF Kahn
<1>13. IsFiniteSet(E)
  BY <1>7, SoundFacts, FS_Subset
<1>14. ById(E) \in Seq(E) /\ OneEach(ById(E)) /\ Elements(ById(E)) = E
  BY <1>7, <1>13, SoundFacts, ByIdFacts
<1>15. ById(E) \in Seq(d.edges)
  BY <1>7, <1>14, SeqMonotonic
<1>16. Elements(ById(E)) \cap done = {} /\ \A e \in Elements(ById(E)) : e.from \in Elements(t.order)
  BY <1>5, <1>6, <1>7, <1>14
<1>17. /\ Kahn(d, ReleaseAll(d, t, ById(E)), done \cup Elements(ById(E)))
       /\ ReleaseAll(d, t, ById(E)).order = t.order
  BY <1>12, <1>14, <1>15, <1>16, ReleaseAllKahn
<1>18. Visit(d, s).order = Append(s.order, n)
  BY <1>6, <1>8, <1>17
<1>19. done \cup E = Followed(d, Visit(d, s))
  BY <1>5, <1>18 DEF done, E, Followed, Outgoing
<1>20. Settled(d, Visit(d, s))
  BY <1>8, <1>14, <1>17, <1>19 DEF Settled
<1> QED BY <1>18, <1>20 DEF n

LEMMA RootsSettled ==
  ASSUME NEW d, Sound(d)
  PROVE  AtRoots(d) \in States(d) /\ Settled(d, AtRoots(d)) /\ AtRoots(d).order = <<>>
<1> DEFINE s == AtRoots(d)
           R == {n \in Ids(d) : InDegrees(d)[n] = 0}
<1>1. ASSUME NEW n \in Ids(d)
      PROVE  InDegrees(d)[n] \in Int /\ InDegrees(d)[n] = Cardinality({e \in d.edges : e.to = n})
  <2> DEFINE E == {e \in d.edges : e.to = n}
  <2>1. E \in SUBSET d.edges
    OBVIOUS
  <2>2. InDegrees(d)[n] = Cardinality(E)
    BY DEF InDegrees, Sound
  <2> HIDE DEF E
  <2>3. IsFiniteSet(E)
    BY <2>1, SoundFacts, FS_Subset
  <2>4. Cardinality(E) \in Nat
    BY <2>3, FS_CardinalityType
  <2>5. InDegrees(d)[n] \in Int
    BY <2>2, <2>4
  <2> QED BY <2>2, <2>5 DEF E
<1>2. InDegrees(d) \in [Ids(d) -> Int]
  <2>1. InDegrees(d) = [n \in Ids(d) |-> InDegrees(d)[n]]
    BY DEF InDegrees
  <2> QED BY <1>1, <2>1
<1>3. IsFiniteSet(R) /\ R \subseteq Nat /\ R \in SUBSET Ids(d)
  BY SoundFacts, FS_Subset
<1>4. s = [queue |-> Ascending(R), indegree |-> InDegrees(d), order |-> <<>>, raised |-> FALSE]
  BY DEF AtRoots
<1>5. \A n \in Ids(d) : n \in R <=> InDegrees(d)[n] = 0
  OBVIOUS
<1> HIDE DEF s, R
<1>6. Ascending(R) \in Seq(R) /\ OneEach(Ascending(R)) /\ Elements(Ascending(R)) = R
  BY <1>3, AscendingSequence
<1>7. Ascending(R) \in Seq(Ids(d)) /\ <<>> \in Seq(Ids(d))
  BY <1>3, <1>6, SeqMonotonic, EmptySeq
<1>8. s \in States(d)
  BY <1>2, <1>4, <1>7 DEF States
<1>9. s.queue = Ascending(R) /\ s.indegree = InDegrees(d) /\ s.order = <<>> /\ ~s.raised
  BY <1>4
<1>10. Elements(s.order) = {} /\ DOMAIN s.order = {} /\ OneEach(s.order)
  BY <1>9 DEF Elements, OneEach
<1>11. Followed(d, s) = {} /\ d.edges \ {} = d.edges
  BY <1>10 DEF Followed
<1>12. Kahn(d, s, {})
  <2>1. \A n \in Ids(d) : s.indegree[n] = Cardinality({e \in d.edges \ {} : e.to = n})
    BY <1>1, <1>9, <1>11
  <2>2. \A n \in Ids(d) : s.indegree[n] = 0 <=> n \in Elements(s.order) \cup Elements(s.queue)
    BY <1>5, <1>6, <1>9, <1>10
  <2>3. OneEach(s.queue)
    BY <1>6, <1>9
  <2> QED BY <1>8, <1>9, <1>10, <2>1, <2>2, <2>3 DEF Kahn
<1> QED BY <1>8, <1>9, <1>11, <1>12 DEF Settled, s

LEMMA TopologicalLoop ==
  ASSUME NEW d, Sound(d)
  PROVE  \E f \in [0..Cardinality(Ids(d)) -> States(d)] :
           /\ f[0] = AtRoots(d)
           /\ \A i \in 1..Cardinality(Ids(d)) : f[i] = Visit(d, f[i - 1])
           /\ Topological(d) = f[Cardinality(Ids(d))]
<1>0. SUFFICES ASSUME NEW K \in Nat, K = Cardinality(Ids(d))
             PROVE  \E f \in [0..K -> States(d)] :
                      /\ f[0] = AtRoots(d)
                      /\ \A i \in 1..K : f[i] = Visit(d, f[i - 1])
                      /\ Topological(d) = f[K]
  BY SoundFacts, FS_CardinalityType
<1> DEFINE Visited(f) == f = [i \in 0..K |-> IF i = 0 THEN AtRoots(d) ELSE Visit(d, f[i - 1])]
           visit == [t \in States(d) |-> Visit(d, t)]
           body == [i \in 1..K |-> visit]
<1>3. body \in [1..K -> [States(d) -> States(d)]]
  BY VisitType
<1>4. Steps(States(d), AtRoots(d), K, body)
  BY <1>3, RootsSettled DEF Steps
<1>5. PICK f : Iterates(States(d), AtRoots(d), K, body, f)
  BY <1>4, Iteration
<1>6. f \in [0..K -> States(d)] /\ f[0] = AtRoots(d) /\ \A i \in 1..K : f[i] = body[i][f[i - 1]]
  BY <1>5 DEF Iterates
<1>7. ASSUME NEW i \in 1..K PROVE f[i] = Visit(d, f[i - 1])
  <2>1. i - 1 \in 0..K /\ f[i - 1] \in States(d)
    BY <1>6
  <2> QED BY <1>6, <2>1
<1>8. Visited(f)
  <2>1. \A i \in 0..K : f[i] = IF i = 0 THEN AtRoots(d) ELSE Visit(d, f[i - 1])
    BY <1>6, <1>7
  <2> QED BY <1>6, <2>1
<1> DEFINE visited == CHOOSE g : Visited(g)
<1>9. Visited(visited)
  <2> HIDE DEF Visited
  <2> QED BY <1>8
<1>10. Topological(d) = visited[K]
  BY <1>0 DEF Topological
<1> HIDE DEF visited
<1>11. visited[0] = AtRoots(d)
         /\ \A i \in 1..K : visited[i - 1] \in States(d) => visited[i] = body[i][visited[i - 1]]
  <2>1. 0 \in 0..K /\ \A i \in 1..K : i \in 0..K /\ i # 0
    OBVIOUS
  <2>2. visited[0] = AtRoots(d) /\ \A i \in 1..K : visited[i] = Visit(d, visited[i - 1])
    BY <1>9, <2>1
  <2> QED BY <2>2
<1> HIDE DEF body
<1>12. visited[K] = f[K]
  BY <1>4, <1>5, <1>11, IterationUnique
<1> QED BY <1>6, <1>7, <1>10, <1>12

\* After as many rounds as there are nodes the queue is empty.
LEMMA TopologicalSettled ==
  ASSUME NEW d, Sound(d)
  PROVE  Settled(d, Topological(d)) /\ Topological(d).queue = <<>>
<1> DEFINE K == Cardinality(Ids(d))
<1>1. K \in Nat
  BY SoundFacts, FS_CardinalityType
<1>2. PICK f \in [0..K -> States(d)] :
        /\ f[0] = AtRoots(d)
        /\ \A i \in 1..K : f[i] = Visit(d, f[i - 1])
        /\ Topological(d) = f[K]
  BY TopologicalLoop
<1> HIDE DEF K
<1> DEFINE Round(i) == Settled(d, f[i]) /\ (f[i].queue = <<>> \/ Len(f[i].order) = i)
           S == {i \in Nat : i <= K => Round(i)}
<1>3. 0 \in S
  <2>1. Settled(d, f[0]) /\ f[0].order = <<>>
    BY <1>2, RootsSettled
  <2>2. Len(f[0].order) = 0
    BY <2>1
  <2> QED BY <2>1, <2>2
<1>4. ASSUME NEW i \in Nat, i \in S PROVE i + 1 \in S
  <2> SUFFICES ASSUME i + 1 <= K PROVE Round(i + 1)
    OBVIOUS
  <2>1. i + 1 \in 1..K /\ (i + 1) - 1 = i /\ i <= K
    BY <1>1
  <2>2. Round(i) /\ f[i + 1] = Visit(d, f[i])
    BY <1>2, <1>4, <2>1
  <2>3. CASE f[i].queue = <<>>
    <3>1. f[i + 1] = f[i]
      BY <2>2, <2>3 DEF Visit
    <3> QED BY <2>2, <2>3, <3>1
  <2>4. CASE f[i].queue # <<>>
    <3>1. Settled(d, f[i + 1]) /\ f[i + 1].order = Append(f[i].order, Head(f[i].queue))
      BY <2>2, <2>4, VisitKahn
    <3>2. f[i].order \in Seq(Ids(d)) /\ f[i].queue \in Seq(Ids(d)) /\ Len(f[i].order) = i
      BY <2>2, <2>4 DEF Settled, Kahn, States
    <3>3. Head(f[i].queue) \in Ids(d)
      BY <2>4, <3>2, HeadTailProperties
    <3>4. Len(f[i + 1].order) = i + 1
      BY <3>1, <3>2, <3>3, AppendElements
    <3> QED BY <3>1, <3>4
  <2> QED BY <2>3, <2>4
<1> HIDE DEF S
<1>5. K \in S
  BY <1>1, <1>3, <1>4, Induction
<1>6. Settled(d, f[K]) /\ (f[K].queue = <<>> \/ Len(f[K].order) = K)
  BY <1>1, <1>5 DEF S
<1> DEFINE s == Topological(d)
<1>7. Settled(d, s) /\ (s.queue = <<>> \/ Len(s.order) = K)
  BY <1>2, <1>6
<1> HIDE DEF s
<1>8. ASSUME Len(s.order) = K PROVE s.queue = <<>>
  <2>1. /\ s.order \in Seq(Ids(d)) /\ s.queue \in Seq(Ids(d)) /\ OneEach(s.order) /\ OneEach(s.queue)
        /\ Elements(s.order) \cap Elements(s.queue) = {}
    BY <1>7 DEF Settled, Kahn, States
  <2>2. IsFiniteSet(Elements(s.order)) /\ Cardinality(Elements(s.order)) = K
    BY <1>8, <2>1, OneEachCounts
  <2>3. Elements(s.order) \in SUBSET Ids(d) /\ Elements(s.queue) \subseteq Ids(d)
    BY <2>1, ElementsType
  <2>4. Elements(s.order) = Ids(d)
    BY <2>2, <2>3, SoundFacts, FS_Subset DEF K
  <2>5. Elements(s.queue) = {}
    BY <2>1, <2>3, <2>4
  <2> QED BY <2>1, <2>5, TailElements
<1>9. Settled(d, s) /\ s.queue = <<>>
  BY <1>7, <1>8
<1> QED BY <1>9 DEF s

\* The order lists sources before targets, nobody twice, and whoever has all
\* its parents listed.
LEMMA OrderFacts ==
  ASSUME NEW d, Sound(d)
  PROVE  /\ ~Topological(d).raised
         /\ topological_order(d) \in Seq(Ids(d)) /\ OneEach(topological_order(d))
         /\ Elements(topological_order(d)) \subseteq Ids(d)
         /\ \A i \in DOMAIN topological_order(d) : \A m \in Parents(d, topological_order(d)[i]) :
              \E j \in DOMAIN topological_order(d) : j < i /\ topological_order(d)[j] = m
         /\ \A n \in Ids(d) : n \in Elements(topological_order(d))
              <=> Parents(d, n) \subseteq Elements(topological_order(d))
<1> DEFINE s == Topological(d)
           Open(n) == {e \in d.edges \ Followed(d, s) : e.to = n}
<1>1. Settled(d, s) /\ s.queue = <<>>
  BY TopologicalSettled
<1> HIDE DEF s
<1>2. /\ ~s.raised /\ s.order \in Seq(Ids(d)) /\ OneEach(s.order)
      /\ \A i \in DOMAIN s.order : \A e \in d.edges :
           e.to = s.order[i] => \E j \in DOMAIN s.order : j < i /\ s.order[j] = e.from
      /\ \A n \in Ids(d) : s.indegree[n] = Cardinality(Open(n))
      /\ \A n \in Ids(d) : s.indegree[n] = 0 <=> n \in Elements(s.order) \cup Elements(s.queue)
  BY <1>1 DEF Settled, Kahn, States
<1>3. Elements(s.queue) = {}
  BY <1>1 DEF Elements
<1>4. Elements(s.order) \subseteq Ids(d)
  BY <1>2, ElementsType
<1>5. \A i \in DOMAIN s.order : \A m \in Parents(d, s.order[i]) : \E j \in DOMAIN s.order : j < i /\ s.order[j] = m
  BY <1>2 DEF Parents, Incoming
<1>6. ASSUME NEW n \in Ids(d) PROVE n \in Elements(s.order) <=> Parents(d, n) \subseteq Elements(s.order)
  <2>1. Open(n) \in SUBSET d.edges
    OBVIOUS
  <2>2. IsFiniteSet(Open(n))
    BY <2>1, SoundFacts, FS_Subset
  <2>3. Cardinality(Open(n)) = 0 <=> Open(n) = {}
    BY <2>2, FS_EmptySet
  <2>4. Open(n) = {} <=> Parents(d, n) \subseteq Elements(s.order)
    BY DEF Followed, Parents, Incoming
  <2> HIDE DEF Open
  <2>5. s.indegree[n] = 0 <=> Parents(d, n) \subseteq Elements(s.order)
    BY <1>2, <2>3, <2>4
  <2>6. s.indegree[n] = 0 <=> n \in Elements(s.order)
    BY <1>2, <1>3
  <2> QED BY <2>5, <2>6
<1> QED BY <1>2, <1>4, <1>5, <1>6 DEF topological_order, s

-----------------------------------------------------------------------------
(* Ancestors and descendants.                                              *)

LEMMA ReachedFacts ==
  ASSUME NEW N, IsFiniteSet(N), NEW succ \in [N -> SUBSET N], NEW n \in N, NEW m \in N
  PROVE  <<n, m>> \in Reached(succ) <=> m \in Walk(succ[n], succ)
<1> DEFINE W == Walk(succ[n], succ)
           closed == {S \in SUBSET N : \A k \in S : succ[k] \subseteq S}
<1>1. /\ W \subseteq N /\ succ[n] \subseteq W
      /\ \A k \in W : succ[k] \subseteq W
      /\ \A T : succ[n] \subseteq T /\ (\A k \in T \cap N : succ[k] \subseteq T) => W \subseteq T
  <2>1. succ[n] \in SUBSET N
    OBVIOUS
  <2> QED BY <2>1, WalkFacts
<1>2. <<n, m>> \in Reached(succ) <=> \A S \in closed : m \in S \/ ~(succ[n] \subseteq S)
  <2>1. DOMAIN succ = N
    OBVIOUS
  <2>2. <<n, m>> \in N \X N /\ <<n, m>>[1] = n /\ <<n, m>>[2] = m
    OBVIOUS
  <2> QED BY <2>1, <2>2 DEF Reached
<1> HIDE DEF W
<1>3. W \in closed
  BY <1>1
<1>4. ASSUME NEW S \in closed, succ[n] \subseteq S PROVE W \subseteq S
  BY <1>1, <1>4
<1> HIDE DEF closed
<1>5. m \in W <=> \A S \in closed : m \in S \/ ~(succ[n] \subseteq S)
  BY <1>1, <1>3, <1>4
<1> QED BY <1>2, <1>5 DEF W

LEMMA AncestorsFacts ==
  ASSUME NEW d, Sound(d), NEW n \in Ids(d)
  PROVE  /\ ancestors(d, n) = Walk(Parents(d, n), [m \in Ids(d) |-> Parents(d, m)])
         /\ ancestors(d, n) \subseteq Ids(d) /\ Parents(d, n) \subseteq ancestors(d, n)
         /\ \A m \in ancestors(d, n) : Parents(d, m) \subseteq ancestors(d, n)
         /\ \A T : Parents(d, n) \subseteq T /\ (\A m \in T \cap Ids(d) : Parents(d, m) \subseteq T)
              => ancestors(d, n) \subseteq T
<1> DEFINE up == [m \in Ids(d) |-> Parents(d, m)]
<1>1. ancestors(d, n) = Walk(Parents(d, n), up)
  BY SoundFacts DEF ancestors
<1>2. up \in [Ids(d) -> SUBSET Ids(d)] /\ Parents(d, n) \in SUBSET Ids(d) /\ IsFiniteSet(Ids(d))
  BY SoundFacts
<1>3. \A m \in Ids(d) : up[m] = Parents(d, m)
  OBVIOUS
<1> HIDE DEF up
<1>4. /\ Walk(Parents(d, n), up) \subseteq Ids(d) /\ Parents(d, n) \subseteq Walk(Parents(d, n), up)
      /\ \A m \in Walk(Parents(d, n), up) : up[m] \subseteq Walk(Parents(d, n), up)
      /\ \A T : Parents(d, n) \subseteq T /\ (\A m \in T \cap Ids(d) : up[m] \subseteq T)
           => Walk(Parents(d, n), up) \subseteq T
  BY <1>2, WalkFacts
<1>5. \A m \in ancestors(d, n) : Parents(d, m) \subseteq ancestors(d, n)
  BY <1>1, <1>3, <1>4
<1>6. \A T : Parents(d, n) \subseteq T /\ (\A m \in T \cap Ids(d) : Parents(d, m) \subseteq T)
        => ancestors(d, n) \subseteq T
  BY <1>1, <1>3, <1>4
<1>7. ancestors(d, n) = Walk(Parents(d, n), [m \in Ids(d) |-> Parents(d, m)])
  BY <1>1 DEF up
<1> QED BY <1>1, <1>4, <1>5, <1>6, <1>7

LEMMA DescendantsFacts ==
  ASSUME NEW d, Sound(d), NEW n \in Ids(d)
  PROVE  /\ descendants(d, n) = Walk(Children(d, n), [m \in Ids(d) |-> Children(d, m)])
         /\ descendants(d, n) \subseteq Ids(d) /\ Children(d, n) \subseteq descendants(d, n)
         /\ \A m \in descendants(d, n) : Children(d, m) \subseteq descendants(d, n)
         /\ \A T : Children(d, n) \subseteq T /\ (\A m \in T \cap Ids(d) : Children(d, m) \subseteq T)
              => descendants(d, n) \subseteq T
<1> DEFINE down == [m \in Ids(d) |-> Children(d, m)]
<1>1. descendants(d, n) = Walk(Children(d, n), down)
  BY SoundFacts DEF descendants
<1>2. down \in [Ids(d) -> SUBSET Ids(d)] /\ Children(d, n) \in SUBSET Ids(d) /\ IsFiniteSet(Ids(d))
  BY SoundFacts
<1>3. \A m \in Ids(d) : down[m] = Children(d, m)
  OBVIOUS
<1> HIDE DEF down
<1>4. /\ Walk(Children(d, n), down) \subseteq Ids(d) /\ Children(d, n) \subseteq Walk(Children(d, n), down)
      /\ \A m \in Walk(Children(d, n), down) : down[m] \subseteq Walk(Children(d, n), down)
      /\ \A T : Children(d, n) \subseteq T /\ (\A m \in T \cap Ids(d) : down[m] \subseteq T)
           => Walk(Children(d, n), down) \subseteq T
  BY <1>2, WalkFacts
<1>5. \A m \in descendants(d, n) : Children(d, m) \subseteq descendants(d, n)
  BY <1>1, <1>3, <1>4
<1>6. \A T : Children(d, n) \subseteq T /\ (\A m \in T \cap Ids(d) : Children(d, m) \subseteq T)
        => descendants(d, n) \subseteq T
  BY <1>1, <1>3, <1>4
<1>7. descendants(d, n) = Walk(Children(d, n), [m \in Ids(d) |-> Children(d, m)])
  BY <1>1 DEF down
<1> QED BY <1>1, <1>4, <1>5, <1>6, <1>7

LEMMA AncestorsNest ==
  ASSUME NEW d, Sound(d), NEW n \in Ids(d), NEW m \in ancestors(d, n)
  PROVE  m \in Ids(d) /\ ancestors(d, m) \subseteq ancestors(d, n)
<1>1. m \in Ids(d) /\ Parents(d, m) \subseteq ancestors(d, n)
  BY AncestorsFacts
<1>2. \A k \in ancestors(d, n) \cap Ids(d) : Parents(d, k) \subseteq ancestors(d, n)
  BY AncestorsFacts
<1>3. \A T : Parents(d, m) \subseteq T /\ (\A k \in T \cap Ids(d) : Parents(d, k) \subseteq T)
        => ancestors(d, m) \subseteq T
  BY <1>1, AncestorsFacts
<1> QED BY <1>1, <1>2, <1>3

LEMMA DescendantsNest ==
  ASSUME NEW d, Sound(d), NEW n \in Ids(d), NEW m \in descendants(d, n)
  PROVE  m \in Ids(d) /\ descendants(d, m) \subseteq descendants(d, n)
<1>1. m \in Ids(d) /\ Children(d, m) \subseteq descendants(d, n)
  BY DescendantsFacts
<1>2. \A k \in descendants(d, n) \cap Ids(d) : Children(d, k) \subseteq descendants(d, n)
  BY DescendantsFacts
<1>3. \A T : Children(d, m) \subseteq T /\ (\A k \in T \cap Ids(d) : Children(d, k) \subseteq T)
        => descendants(d, m) \subseteq T
  BY <1>1, DescendantsFacts
<1> QED BY <1>1, <1>2, <1>3

\* Who is a descendant of m has m among its ancestors, and the other way round.
LEMMA Duality ==
  ASSUME NEW d, Sound(d), NEW m \in Ids(d), NEW n \in Ids(d)
  PROVE  n \in descendants(d, m) <=> m \in ancestors(d, n)
<1>0. \A k, l : k \in Children(d, l) <=> l \in Parents(d, k)
  BY DEF Children, Parents, Outgoing, Incoming
<1>1. ASSUME n \in descendants(d, m) PROVE m \in ancestors(d, n)
  <2> DEFINE T == {k \in Ids(d) : m \in ancestors(d, k)}
  <2>1. ASSUME NEW k \in Ids(d), NEW l \in Children(d, k) PROVE l \in Ids(d) /\ k \in ancestors(d, l)
    BY <1>0, SoundFacts, AncestorsFacts
  <2>2. Children(d, m) \subseteq T
    BY <2>1
  <2>3. ASSUME NEW k \in T, NEW l \in Children(d, k) PROVE l \in T
    <3>1. l \in Ids(d) /\ k \in ancestors(d, l)
      BY <2>1
    <3>2. ancestors(d, k) \subseteq ancestors(d, l)
      BY <3>1, AncestorsNest
    <3> QED BY <3>1, <3>2
  <2> HIDE DEF T
  <2>4. descendants(d, m) \subseteq T
    BY <2>2, <2>3, DescendantsFacts
  <2> QED BY <1>1, <2>4 DEF T
<1>2. ASSUME m \in ancestors(d, n) PROVE n \in descendants(d, m)
  <2> DEFINE T == {k \in Ids(d) : n \in descendants(d, k)}
  <2>1. ASSUME NEW k \in Ids(d), NEW l \in Parents(d, k) PROVE l \in Ids(d) /\ k \in descendants(d, l)
    BY <1>0, SoundFacts, DescendantsFacts
  <2>2. Parents(d, n) \subseteq T
    BY <2>1
  <2>3. ASSUME NEW k \in T, NEW l \in Parents(d, k) PROVE l \in T
    <3>1. l \in Ids(d) /\ k \in descendants(d, l)
      BY <2>1
    <3>2. descendants(d, k) \subseteq descendants(d, l)
      BY <3>1, DescendantsNest
    <3> QED BY <3>1, <3>2
  <2> HIDE DEF T
  <2>4. ancestors(d, n) \subseteq T
    BY <2>2, <2>3, AncestorsFacts
  <2> QED BY <1>2, <2>4 DEF T
<1> QED BY <1>1, <1>2

\* The ancestors of a listed node are listed before it.
LEMMA AncestorsFirst ==
  ASSUME NEW d, Sound(d), NEW i \in DOMAIN topological_order(d)
  PROVE  /\ topological_order(d)[i] \in Ids(d)
         /\ \A m \in ancestors(d, topological_order(d)[i]) :
              \E j \in DOMAIN topological_order(d) : j < i /\ topological_order(d)[j] = m
<1> DEFINE order == topological_order(d)
           T == {order[j] : j \in {k \in DOMAIN order : k < i}}
<1>1. /\ order \in Seq(Ids(d)) /\ OneEach(order)
      /\ \A k \in DOMAIN order : \A m \in Parents(d, order[k]) : \E j \in DOMAIN order : j < k /\ order[j] = m
  BY OrderFacts
<1>2. DOMAIN order = 1..Len(order) /\ Len(order) \in Nat /\ \A k \in DOMAIN order : order[k] \in Ids(d)
  BY <1>1, LenProperties, ElementsType
<1> HIDE DEF order
<1>3. Parents(d, order[i]) \subseteq T
  BY <1>1 DEF order
<1>4. ASSUME NEW n \in T, NEW m \in Parents(d, n) PROVE m \in T
  <2>1. PICK k \in DOMAIN order : k < i /\ order[k] = n
    OBVIOUS
  <2>2. PICK j \in DOMAIN order : j < k /\ order[j] = m
    BY <1>1, <2>1
  <2>3. j < i
    BY <1>2, <2>1, <2>2 DEF order
  <2> QED BY <2>2, <2>3
<1>5. order[i] \in Ids(d)
  BY <1>2 DEF order
<1> HIDE DEF T
<1>6. ancestors(d, order[i]) \subseteq T
  BY <1>3, <1>4, <1>5, AncestorsFacts
<1> QED BY <1>5, <1>6 DEF T, order

OnCycle(d, n) == n \in ancestors(d, n)

\* Listed are the nodes no cycle precedes.
LEMMA ListedExactly ==
  ASSUME NEW d, Sound(d), NEW n \in Ids(d)
  PROVE  n \in Elements(topological_order(d)) <=> \A m \in ancestors(d, n) \cup {n} : ~OnCycle(d, m)
<1> DEFINE order == topological_order(d)
           L == Elements(order)
<1>1. /\ order \in Seq(Ids(d)) /\ OneEach(order) /\ L \subseteq Ids(d)
      /\ \A k \in Ids(d) : k \in L <=> Parents(d, k) \subseteq L
  BY OrderFacts
<1>2. DOMAIN order = 1..Len(order) /\ Len(order) \in Nat
  BY <1>1, LenProperties
<1>3. ASSUME NEW m \in L PROVE ancestors(d, m) \subseteq L /\ ~OnCycle(d, m)
  <2>1. PICK i \in DOMAIN order : order[i] = m
    BY DEF Elements
  <2>2. \A k \in ancestors(d, m) : \E j \in DOMAIN order : j < i /\ order[j] = k
    BY <2>1, AncestorsFirst
  <2>3. ancestors(d, m) \subseteq L
    BY <2>2 DEF Elements
  <2>4. ASSUME m \in ancestors(d, m) PROVE FALSE
    <3>1. PICK j \in DOMAIN order : j < i /\ order[j] = m
      BY <2>2, <2>4
    <3>2. j = i
      BY <1>1, <2>1, <3>1 DEF OneEach
    <3> QED BY <1>2, <2>1, <3>1, <3>2
  <2> QED BY <2>3, <2>4 DEF OnCycle
<1> HIDE DEF order, L
<1>4. ASSUME \A m \in ancestors(d, n) \cup {n} : ~OnCycle(d, m), n \notin L PROVE FALSE
  <2> DEFINE A == (ancestors(d, n) \cup {n}) \ L
             Size(m) == Cardinality(ancestors(d, m))
             sizes == {Size(m) : m \in A}
  <2>1. \A m \in Ids(d) : ancestors(d, m) \in SUBSET Ids(d) /\ IsFiniteSet(ancestors(d, m)) /\ Size(m) \in Nat
    <3> SUFFICES ASSUME NEW m \in Ids(d)
                 PROVE  ancestors(d, m) \in SUBSET Ids(d) /\ IsFiniteSet(ancestors(d, m)) /\ Size(m) \in Nat
      OBVIOUS
    <3>1. ancestors(d, m) \in SUBSET Ids(d)
      BY AncestorsFacts
    <3>2. IsFiniteSet(ancestors(d, m))
      BY <3>1, SoundFacts, FS_Subset
    <3> QED BY <3>1, <3>2, FS_CardinalityType
  <2>2. A \subseteq Ids(d) /\ n \in A
    BY <1>4, <2>1
  <2> HIDE DEF A, Size
  <2>3. sizes \in SUBSET Nat /\ sizes # {}
    BY <2>1, <2>2
  <2>4. PICK m \in A : \A k \in A : Size(m) <= Size(k)
    <3> HIDE DEF sizes
    <3>1. PICK least \in sizes : \A k \in sizes : least <= k
      BY <2>3, LeastExists
    <3>2. PICK m \in A : least = Size(m)
      BY <3>1 DEF sizes
    <3>3. \A k \in A : Size(k) \in sizes
      BY DEF sizes
    <3> QED BY <3>1, <3>2, <3>3
  <2>5. m \in Ids(d) /\ m \notin L /\ m \in ancestors(d, n) \cup {n}
    BY <2>2 DEF A
  <2>6. PICK p \in Parents(d, m) : p \notin L
    BY <1>1, <2>5
  <2>7. p \in ancestors(d, m) /\ p \in Ids(d) /\ ancestors(d, p) \subseteq ancestors(d, m)
    <3>1. p \in ancestors(d, m)
      BY <2>5, AncestorsFacts
    <3> QED BY <2>5, <3>1, AncestorsNest
  <2>8. p \in ancestors(d, n)
    BY <2>5, <2>7, AncestorsNest
  <2>9. p \in A
    BY <2>6, <2>8 DEF A
  <2>10. p \notin ancestors(d, p)
    BY <1>4, <2>8 DEF OnCycle
  <2>11. ancestors(d, p) \in SUBSET ancestors(d, m) /\ ancestors(d, p) # ancestors(d, m)
    BY <2>7, <2>10
  <2>12. Size(p) <= Size(m) /\ Size(m) # Size(p)
    BY <2>1, <2>5, <2>11, FS_Subset DEF Size
  <2> QED BY <2>1, <2>4, <2>5, <2>7, <2>9, <2>12
<1>5. ASSUME n \in L PROVE \A m \in ancestors(d, n) \cup {n} : ~OnCycle(d, m)
  BY <1>3, <1>5
<1> QED BY <1>4, <1>5 DEF L, order

\* The order is short exactly when there is a cycle.
LEMMA VerdictExact ==
  ASSUME NEW d, Sound(d)
  PROVE  Cyclic(d) <=> \E n \in Ids(d) : OnCycle(d, n)
<1> DEFINE order == topological_order(d)
<1>1. order \in Seq(Ids(d)) /\ OneEach(order) /\ Elements(order) \in SUBSET Ids(d)
  BY OrderFacts
<1>2. IsFiniteSet(Elements(order)) /\ Cardinality(Elements(order)) = Len(order)
  BY <1>1, OneEachCounts
<1>3. Len(order) = Cardinality(Ids(d)) <=> Elements(order) = Ids(d)
  BY <1>1, <1>2, SoundFacts, FS_Subset
<1>4. Elements(order) = Ids(d) <=> \A n \in Ids(d) : ~OnCycle(d, n)
  <2>1. \A n \in Ids(d) : n \in Elements(order) <=> \A m \in ancestors(d, n) \cup {n} : ~OnCycle(d, m)
    BY ListedExactly
  <2>2. \A n \in Ids(d) : ancestors(d, n) \subseteq Ids(d)
    BY AncestorsFacts
  <2>3. ASSUME Elements(order) = Ids(d) PROVE \A n \in Ids(d) : ~OnCycle(d, n)
    <3> SUFFICES ASSUME NEW n \in Ids(d) PROVE ~OnCycle(d, n)
      OBVIOUS
    <3>1. n \in Elements(order)
      BY <2>3
    <3> QED BY <2>1, <3>1
  <2>4. ASSUME \A n \in Ids(d) : ~OnCycle(d, n) PROVE Elements(order) = Ids(d)
    <3>1. ASSUME NEW n \in Ids(d) PROVE n \in Elements(order)
      <4>1. \A m \in ancestors(d, n) \cup {n} : ~OnCycle(d, m)
        BY <2>2, <2>4
      <4> QED BY <2>1, <4>1
    <3> QED BY <1>1, <3>1
  <2> QED BY <2>3, <2>4
<1> QED BY <1>3, <1>4 DEF Cyclic

-----------------------------------------------------------------------------
\* The component of a node, as the walk along neighbours collects it.
Class(d, n) == Walk({n}, [m \in Ids(d) |-> Neighbours(d, m)])

LEMMA ClassFacts ==
  ASSUME NEW d, Sound(d), NEW n \in Ids(d)
  PROVE  /\ n \in Class(d, n) /\ Class(d, n) \subseteq Ids(d)
         /\ \A m \in Class(d, n) : Neighbours(d, m) \subseteq Class(d, n)
         /\ \A T : n \in T /\ (\A m \in T \cap Ids(d) : Neighbours(d, m) \subseteq T) => Class(d, n) \subseteq T
<1> DEFINE near == [m \in Ids(d) |-> Neighbours(d, m)]
<1>1. near \in [Ids(d) -> SUBSET Ids(d)] /\ {n} \in SUBSET Ids(d) /\ IsFiniteSet(Ids(d))
  BY SoundFacts
<1>2. \A m \in Ids(d) : near[m] = Neighbours(d, m)
  OBVIOUS
<1>3. Class(d, n) = Walk({n}, near)
  BY DEF Class
<1> HIDE DEF near
<1>4. /\ Walk({n}, near) \subseteq Ids(d) /\ {n} \subseteq Walk({n}, near)
      /\ \A m \in Walk({n}, near) : near[m] \subseteq Walk({n}, near)
      /\ \A T : {n} \subseteq T /\ (\A m \in T \cap Ids(d) : near[m] \subseteq T) => Walk({n}, near) \subseteq T
  BY <1>1, WalkFacts
<1>5. \A m \in Class(d, n) : Neighbours(d, m) \subseteq Class(d, n)
  BY <1>2, <1>3, <1>4
<1>6. \A T : n \in T /\ (\A m \in T \cap Ids(d) : Neighbours(d, m) \subseteq T) => Class(d, n) \subseteq T
  BY <1>2, <1>3, <1>4
<1> QED BY <1>3, <1>4, <1>5, <1>6

LEMMA NeighboursSymmetric ==
  ASSUME NEW d, NEW m \in Ids(d), NEW k \in Neighbours(d, m)
  PROVE  k \in Ids(d) /\ m \in Neighbours(d, k)
BY DEF Neighbours, Joined

LEMMA ClassNests ==
  ASSUME NEW d, Sound(d), NEW n \in Ids(d), NEW m \in Class(d, n)
  PROVE  m \in Ids(d) /\ Class(d, m) \subseteq Class(d, n)
<1>1. m \in Ids(d)
  BY ClassFacts
<1> QED BY <1>1, ClassFacts

\* A component is the component of each of its nodes.
LEMMA ClassShared ==
  ASSUME NEW d, Sound(d), NEW n \in Ids(d), NEW m \in Class(d, n)
  PROVE  Class(d, m) = Class(d, n)
<1> DEFINE T == {k \in Ids(d) : n \in Class(d, k)}
<1>1. m \in Ids(d) /\ Class(d, m) \subseteq Class(d, n)
  BY ClassNests
<1>2. n \in T
  BY ClassFacts
<1>3. ASSUME NEW k \in T, NEW j \in Neighbours(d, k) PROVE j \in T
  <2>1. j \in Ids(d) /\ k \in Neighbours(d, j)
    BY NeighboursSymmetric
  <2>2. k \in Class(d, j)
    BY <2>1, ClassFacts
  <2>3. Class(d, k) \subseteq Class(d, j)
    BY <2>1, <2>2, ClassNests
  <2> QED BY <2>1, <2>3
<1> HIDE DEF T
<1>4. n \in T /\ \A k \in T \cap Ids(d) : Neighbours(d, k) \subseteq T
  BY <1>2, <1>3
<1>5. Class(d, n) \subseteq T
  BY <1>4, ClassFacts
<1>6. n \in Class(d, m)
  BY <1>5 DEF T
<1>7. Class(d, n) \subseteq Class(d, m)
  BY <1>1, <1>6, ClassNests
<1> QED BY <1>1, <1>7

\* A component is a node with the nodes that the closure links to it.
LEMMA ClassLinked ==
  ASSUME NEW d, Sound(d), NEW n \in Ids(d)
  PROVE  Class(d, n)
           = {n} \cup {m \in Ids(d) : <<n, m>> \in Reached([k \in Ids(d) |-> Neighbours(d, k)])}
<1> DEFINE near == [k \in Ids(d) |-> Neighbours(d, k)]
           W == Walk(near[n], near)
<1>1. near \in [Ids(d) -> SUBSET Ids(d)] /\ IsFiniteSet(Ids(d))
  BY SoundFacts
<1>2. \A k \in Ids(d) : near[k] = Neighbours(d, k)
  OBVIOUS
<1> HIDE DEF near
<1>3. near[n] \in SUBSET Ids(d)
  BY <1>1
<1>4. /\ W \subseteq Ids(d) /\ near[n] \subseteq W /\ \A m \in W : near[m] \subseteq W
      /\ \A T : near[n] \subseteq T /\ (\A m \in T \cap Ids(d) : near[m] \subseteq T) => W \subseteq T
  BY <1>1, <1>3, WalkFacts
<1>5. \A m \in Ids(d) : <<n, m>> \in Reached(near) <=> m \in W
  BY <1>1, ReachedFacts
<1> HIDE DEF W
<1>6. Class(d, n) \subseteq {n} \cup W
  <2> DEFINE T == {n} \cup W
  <2>1. n \in T /\ \A m \in T \cap Ids(d) : Neighbours(d, m) \subseteq T
    BY <1>2, <1>4
  <2> HIDE DEF T
  <2>2. Class(d, n) \subseteq T
    BY <2>1, ClassFacts
  <2> QED BY <2>2 DEF T
<1>7. W \subseteq Class(d, n)
  <2>1. near[n] \subseteq Class(d, n) /\ \A m \in Class(d, n) \cap Ids(d) : near[m] \subseteq Class(d, n)
    BY <1>2, ClassFacts
  <2> QED BY <1>4, <2>1
<1>8. n \in Class(d, n)
  BY ClassFacts
<1>9. Class(d, n) = {n} \cup {m \in Ids(d) : <<n, m>> \in Reached(near)}
  BY <1>4, <1>5, <1>6, <1>7, <1>8
<1> QED BY <1>9 DEF near

Groups(d) == [remaining : SUBSET Ids(d), found : Seq(SUBSET Ids(d))]

LEMMA TakeFacts ==
  ASSUME NEW d, Sound(d), NEW s \in Groups(d)
  PROVE  /\ TakeComponent(d, s) \in Groups(d)
         /\ s.remaining = {} => TakeComponent(d, s) = s
         /\ s.remaining # {} =>
              \E n \in s.remaining : TakeComponent(d, s)
                = [remaining |-> s.remaining \ Class(d, n), found |-> Append(s.found, Class(d, n))]
<1>1. s.remaining \in SUBSET Ids(d) /\ s.found \in Seq(SUBSET Ids(d))
  BY DEF Groups
<1>2. CASE s.remaining = {}
  BY <1>2 DEF TakeComponent
<1>3. CASE s.remaining # {}
  <2> DEFINE start == CHOOSE n \in s.remaining : \A m \in s.remaining : n <= m
  <2>1. s.remaining \in SUBSET Nat
    BY <1>1, SoundFacts
  <2>2. \E n \in s.remaining : \A m \in s.remaining : n <= m
    BY <1>3, <2>1, LeastExists
  <2>3. start \in s.remaining
    BY <2>2
  <2>4. TakeComponent(d, s)
          = [remaining |-> s.remaining \ Class(d, start), found |-> Append(s.found, Class(d, start))]
    BY <1>3 DEF TakeComponent, Class
  <2> HIDE DEF start
  <2>5. Class(d, start) \in SUBSET Ids(d)
    BY <1>1, <2>3, ClassFacts
  <2>6. Append(s.found, Class(d, start)) \in Seq(SUBSET Ids(d))
    BY <1>1, <2>5
  <2>7. TakeComponent(d, s) \in Groups(d)
    BY <1>1, <2>4, <2>6 DEF Groups
  <2> QED BY <1>3, <2>3, <2>4, <2>7
<1> QED BY <1>2, <1>3

\* Every node is in a component that was taken or remains, and what was taken
\* is the component of each of its nodes.
Grouped(d, s) ==
  /\ s \in Groups(d)
  /\ s.remaining \cup (UNION Elements(s.found)) = Ids(d)
  /\ \A part \in Elements(s.found) : \A n \in part : part = Class(d, n)

LEMMA TakeGrouped ==
  ASSUME NEW d, Sound(d), NEW s, Grouped(d, s), s.remaining # {}
  PROVE  /\ Grouped(d, TakeComponent(d, s))
         /\ TakeComponent(d, s).remaining \subseteq s.remaining
         /\ TakeComponent(d, s).remaining # s.remaining
<1>1. s \in Groups(d) /\ s.remaining \in SUBSET Ids(d) /\ s.found \in Seq(SUBSET Ids(d))
  BY DEF Grouped, Groups
<1>2. TakeComponent(d, s) \in Groups(d)
  BY <1>1, TakeFacts
<1>3. PICK n \in s.remaining : TakeComponent(d, s)
        = [remaining |-> s.remaining \ Class(d, n), found |-> Append(s.found, Class(d, n))]
  BY <1>1, TakeFacts
<1>4. TakeComponent(d, s).remaining = s.remaining \ Class(d, n)
      /\ TakeComponent(d, s).found = Append(s.found, Class(d, n))
  BY <1>3
<1>5. n \in Ids(d) /\ n \in Class(d, n) /\ Class(d, n) \in SUBSET Ids(d)
  BY <1>1, ClassFacts
<1>6. Elements(Append(s.found, Class(d, n))) = Elements(s.found) \cup {Class(d, n)}
  BY <1>1, <1>5, AppendElements
<1>7. \A m \in Class(d, n) : Class(d, n) = Class(d, m)
  BY <1>5, ClassShared
<1>8. TakeComponent(d, s).remaining \cup (UNION Elements(TakeComponent(d, s).found)) = Ids(d)
  BY <1>4, <1>5, <1>6 DEF Grouped
<1>9. \A part \in Elements(TakeComponent(d, s).found) : \A m \in part : part = Class(d, m)
  BY <1>4, <1>6, <1>7 DEF Grouped
<1>10. Grouped(d, TakeComponent(d, s))
  BY <1>2, <1>8, <1>9 DEF Grouped
<1>11. TakeComponent(d, s).remaining \subseteq s.remaining /\ TakeComponent(d, s).remaining # s.remaining
  BY <1>4, <1>5
<1> QED BY <1>10, <1>11

LEMMA ComponentsLoop ==
  ASSUME NEW d, Sound(d)
  PROVE  \E f \in [0..Cardinality(Ids(d)) -> Groups(d)] :
           /\ f[0] = [remaining |-> Ids(d), found |-> <<>>]
           /\ \A i \in 1..Cardinality(Ids(d)) : f[i] = TakeComponent(d, f[i - 1])
           /\ connected_components(d) = f[Cardinality(Ids(d))].found
<1>0. SUFFICES ASSUME NEW K \in Nat, K = Cardinality(Ids(d))
             PROVE  \E f \in [0..K -> Groups(d)] :
                      /\ f[0] = [remaining |-> Ids(d), found |-> <<>>]
                      /\ \A i \in 1..K : f[i] = TakeComponent(d, f[i - 1])
                      /\ connected_components(d) = f[K].found
  BY SoundFacts, FS_CardinalityType
<1> DEFINE first == [remaining |-> Ids(d), found |-> <<>>]
           Taken(f) == f = [i \in 0..K |-> IF i = 0 THEN first ELSE TakeComponent(d, f[i - 1])]
           take == [t \in Groups(d) |-> TakeComponent(d, t)]
           body == [i \in 1..K |-> take]
<1>1. first \in Groups(d)
  <2>1. <<>> \in Seq(SUBSET Ids(d))
    OBVIOUS
  <2> QED BY <2>1 DEF Groups
<1>3. body \in [1..K -> [Groups(d) -> Groups(d)]]
  BY TakeFacts
<1>10. connected_components(d) = (CHOOSE g : Taken(g))[K].found
  BY <1>0 DEF connected_components
<1> HIDE DEF first
<1>4. Steps(Groups(d), first, K, body)
  BY <1>1, <1>3 DEF Steps
<1>5. PICK f : Iterates(Groups(d), first, K, body, f)
  BY <1>4, Iteration
<1>6. f \in [0..K -> Groups(d)] /\ f[0] = first /\ \A i \in 1..K : f[i] = body[i][f[i - 1]]
  BY <1>5 DEF Iterates
<1>7. ASSUME NEW i \in 1..K PROVE f[i] = TakeComponent(d, f[i - 1])
  <2>1. i - 1 \in 0..K /\ f[i - 1] \in Groups(d)
    BY <1>6
  <2> QED BY <1>6, <2>1
<1>8. Taken(f)
  <2>1. \A i \in 0..K : f[i] = IF i = 0 THEN first ELSE TakeComponent(d, f[i - 1])
    BY <1>6, <1>7
  <2> QED BY <1>6, <2>1
<1> DEFINE taken == CHOOSE g : Taken(g)
<1>9. Taken(taken)
  <2> HIDE DEF Taken
  <2> QED BY <1>8
<1>13. connected_components(d) = taken[K].found
  BY <1>10
<1> HIDE DEF taken
<1>11. taken[0] = first
         /\ \A i \in 1..K : taken[i - 1] \in Groups(d) => taken[i] = body[i][taken[i - 1]]
  <2>1. 0 \in 0..K /\ \A i \in 1..K : i \in 0..K /\ i # 0
    OBVIOUS
  <2>2. taken[0] = first /\ \A i \in 1..K : taken[i] = TakeComponent(d, taken[i - 1])
    BY <1>9, <2>1
  <2> QED BY <2>2
<1> HIDE DEF body
<1>12. taken[K] = f[K]
  BY <1>4, <1>5, <1>11, IterationUnique
<1>14. f[0] = [remaining |-> Ids(d), found |-> <<>>]
  BY <1>6 DEF first
<1> QED BY <1>6, <1>7, <1>12, <1>13, <1>14

\* The components partition the nodes.
LEMMA ComponentsExact ==
  ASSUME NEW d, Sound(d)
  PROVE  /\ UNION Elements(connected_components(d)) = Ids(d)
         /\ \A part \in Elements(connected_components(d)) : \A n \in part : n \in Ids(d) /\ part = Class(d, n)
<1>0. SUFFICES ASSUME NEW K \in Nat, K = Cardinality(Ids(d))
             PROVE  /\ UNION Elements(connected_components(d)) = Ids(d)
                    /\ \A part \in Elements(connected_components(d)) : \A n \in part : n \in Ids(d) /\ part = Class(d, n)
  BY SoundFacts, FS_CardinalityType
<1>1. PICK f \in [0..K -> Groups(d)] :
        /\ f[0] = [remaining |-> Ids(d), found |-> <<>>]
        /\ \A i \in 1..K : f[i] = TakeComponent(d, f[i - 1])
        /\ connected_components(d) = f[K].found
  BY <1>0, ComponentsLoop
<1> DEFINE Round(i) == Grouped(d, f[i]) /\ Cardinality(f[i].remaining) <= K - i
           S == {i \in Nat : i <= K => Round(i)}
<1>2. \A s \in Groups(d) : s.remaining \in SUBSET Ids(d) /\ IsFiniteSet(s.remaining)
                           /\ Cardinality(s.remaining) \in Nat
  <2> SUFFICES ASSUME NEW s \in Groups(d)
               PROVE  s.remaining \in SUBSET Ids(d) /\ IsFiniteSet(s.remaining) /\ Cardinality(s.remaining) \in Nat
    OBVIOUS
  <2>1. s.remaining \in SUBSET Ids(d)
    BY DEF Groups
  <2>2. IsFiniteSet(s.remaining)
    BY <2>1, SoundFacts, FS_Subset
  <2> QED BY <2>1, <2>2, FS_CardinalityType
<1>3. 0 \in S
  <2>1. f[0].remaining = Ids(d) /\ f[0].found = <<>> /\ f[0] \in Groups(d)
    BY <1>1
  <2>2. Elements(f[0].found) = {}
    BY <2>1 DEF Elements
  <2>3. Grouped(d, f[0])
    BY <2>1, <2>2 DEF Grouped
  <2>4. Cardinality(f[0].remaining) <= K - 0
    BY <1>0, <2>1
  <2> QED BY <2>3, <2>4
<1>4. ASSUME NEW i \in Nat, i \in S PROVE i + 1 \in S
  <2> SUFFICES ASSUME i + 1 <= K PROVE Round(i + 1)
    OBVIOUS
  <2>1. i + 1 \in 1..K /\ (i + 1) - 1 = i /\ i \in 0..K /\ i + 1 \in 0..K
    OBVIOUS
  <2>2. Grouped(d, f[i]) /\ Cardinality(f[i].remaining) <= K - i
    BY <1>4, <2>1
  <2>3. f[i + 1] = TakeComponent(d, f[i]) /\ f[i] \in Groups(d) /\ f[i + 1] \in Groups(d)
    BY <1>1, <2>1
  <2>4. CASE f[i].remaining = {}
    <3>1. f[i + 1] = f[i]
      BY <2>3, <2>4, TakeFacts
    <3>2. Cardinality(f[i + 1].remaining) = 0
      BY <2>4, <3>1, FS_EmptySet
    <3>3. Cardinality(f[i + 1].remaining) <= K - (i + 1)
      BY <3>2
    <3> QED BY <2>2, <3>1, <3>3
  <2>5. CASE f[i].remaining # {}
    <3>1. Grouped(d, f[i + 1]) /\ f[i + 1].remaining \subseteq f[i].remaining
          /\ f[i + 1].remaining # f[i].remaining
      BY <2>2, <2>3, <2>5, TakeGrouped
    <3>2. IsFiniteSet(f[i].remaining) /\ Cardinality(f[i].remaining) \in Nat
          /\ Cardinality(f[i + 1].remaining) \in Nat
      BY <1>2, <2>3
    <3>3. Cardinality(f[i + 1].remaining) <= Cardinality(f[i].remaining)
          /\ Cardinality(f[i + 1].remaining) # Cardinality(f[i].remaining)
      BY <3>1, <3>2, FS_Subset
    <3>4. Cardinality(f[i + 1].remaining) <= K - (i + 1)
      <4> SUFFICES ASSUME NEW a \in Nat, NEW b \in Nat, a <= b, a # b, b <= K - i PROVE a <= K - (i + 1)
        BY <2>2, <3>2, <3>3
      <4> QED OBVIOUS
    <3> QED BY <3>1, <3>4
  <2> QED BY <2>4, <2>5
<1> HIDE DEF S
<1>5. \A i \in Nat : i \in S
  BY <1>3, <1>4, Induction
<1>6. Round(K)
  BY <1>5 DEF S
<1>7. f[K] \in Groups(d) /\ Cardinality(f[K].remaining) = 0
  <2>1. f[K] \in Groups(d)
    BY <1>1
  <2>2. Cardinality(f[K].remaining) \in Nat
    BY <1>2, <2>1
  <2> QED BY <1>6, <2>1, <2>2
<1>8. f[K].remaining = {}
  <2>1. IsFiniteSet(f[K].remaining)
    BY <1>2, <1>7
  <2> QED BY <1>7, <2>1, FS_EmptySet
<1>9. UNION Elements(f[K].found) = Ids(d)
  BY <1>6, <1>8 DEF Grouped
<1>10. \A part \in Elements(f[K].found) : \A n \in part : n \in Ids(d) /\ part = Class(d, n)
  BY <1>6, <1>9 DEF Grouped
<1> QED BY <1>1, <1>9, <1>10

-----------------------------------------------------------------------------
\* A trace ends at its node: the order has the node after all its ancestors.
LEMMA TraceEnds ==
  ASSUME NEW d, Sound(d), NEW n \in Ids(d), n \in Elements(topological_order(d))
  PROVE  trace_to_sources(d, n)[Len(trace_to_sources(d, n))] = n
<1> DEFINE order == topological_order(d)
           S == ancestors(d, n) \cup {n}
<1>1. order \in Seq(Ids(d)) /\ OneEach(order)
  BY OrderFacts
<1>2. PICK i \in DOMAIN order : order[i] = n
  BY DEF Elements
<1>3. DOMAIN order = 1..Len(order) /\ Len(order) \in Nat
  BY <1>1, LenProperties
<1>4. ASSUME NEW j \in DOMAIN order, order[j] \in S PROVE j <= i
  <2>1. CASE order[j] = n
    BY <1>1, <1>2, <1>3, <2>1 DEF OneEach
  <2>2. CASE order[j] \in ancestors(d, n)
    <3>1. PICK k \in DOMAIN order : k < i /\ order[k] = order[j]
      BY <1>2, <2>2, AncestorsFirst
    <3>2. k = j
      BY <1>1, <3>1 DEF OneEach
    <3> QED BY <1>3, <3>1, <3>2
  <2> QED BY <1>4, <2>1, <2>2
<1>5. trace_to_sources(d, n) = Among(order, S)
  BY DEF trace_to_sources
<1>6. order[i] \in S
  BY <1>2
<1> HIDE DEF order, S
<1>7. Among(order, S)[Len(Among(order, S))] = order[i]
  BY <1>1, <1>4, <1>6, AmongEndsWith
<1> QED BY <1>2, <1>5, <1>7

\* The queries of the graph (graph.py:25-109) are exact for every document
\* whose edges join its nodes: whatever its size, the order, the cycle verdict,
\* the closures, the components and the traces say what the edges' least
\* closed sets say.
THEOREM QueriesAreExact ==
  ASSUME NEW d, WellFormed(d), Joined(d) = d.edges
  PROVE  QueriesExact(d)
<1> DEFINE order == topological_order(d)
           succ == [n \in Ids(d) |-> Children(d, n)]
           near == [n \in Ids(d) |-> Neighbours(d, n)]
           reach == Reached(succ)
           linked == Reached(near)
           cyclic == {n \in Ids(d) : <<n, n>> \in reach}
           parts == Elements(connected_components(d))
<1>1. Sound(d)
  BY DEF Sound
<1>2. succ \in [Ids(d) -> SUBSET Ids(d)] /\ IsFiniteSet(Ids(d)) /\ \A n \in Ids(d) : succ[n] = Children(d, n)
  BY <1>1, SoundFacts
<1>3. \A n \in Ids(d) : descendants(d, n) = Walk(Children(d, n), succ) /\ descendants(d, n) \subseteq Ids(d)
  BY <1>1, DescendantsFacts
<1> HIDE DEF succ
<1>4. ASSUME NEW n \in Ids(d), NEW m \in Ids(d)
      PROVE  /\ <<n, m>> \in reach <=> m \in descendants(d, n)
             /\ <<n, m>> \in reach <=> n \in ancestors(d, m)
  <2>1. <<n, m>> \in reach <=> m \in Walk(succ[n], succ)
    BY <1>2, ReachedFacts
  <2>2. m \in descendants(d, n) <=> n \in ancestors(d, m)
    BY <1>1, Duality
  <2> QED BY <1>2, <1>3, <2>1, <2>2
<1>5. \A n \in Ids(d) : ancestors(d, n) \subseteq Ids(d)
  BY <1>1, AncestorsFacts
<1> HIDE DEF reach
<1>6. ~Topological(d).raised /\ order \in Seq(Ids(d)) /\ OneEach(order)
  BY <1>1, OrderFacts
<1>7. \A n \in Ids(d) : n \in cyclic <=> OnCycle(d, n)
  BY <1>4 DEF OnCycle
<1> HIDE DEF cyclic
<1>8. ASSUME NEW n \in Ids(d)
      PROVE  /\ ancestors(d, n) = {m \in Ids(d) : <<m, n>> \in reach}
             /\ descendants(d, n) = {m \in Ids(d) : <<n, m>> \in reach}
             /\ n \in Elements(order) <=> (cyclic \cap (ancestors(d, n) \cup {n}) = {})
             /\ n \in Elements(order) => trace_to_sources(d, n)[Len(trace_to_sources(d, n))] = n
  <2>1. ancestors(d, n) = {m \in Ids(d) : <<m, n>> \in reach}
    BY <1>4, <1>5
  <2>2. descendants(d, n) = {m \in Ids(d) : <<n, m>> \in reach}
    BY <1>3, <1>4
  <2>3. n \in Elements(order) <=> \A m \in ancestors(d, n) \cup {n} : ~OnCycle(d, m)
    BY <1>1, ListedExactly
  <2>4. n \in Elements(order) <=> (cyclic \cap (ancestors(d, n) \cup {n}) = {})
    BY <1>5, <1>7, <2>3
  <2>5. n \in Elements(order) => trace_to_sources(d, n)[Len(trace_to_sources(d, n))] = n
    BY <1>1, TraceEnds
  <2> QED BY <2>1, <2>2, <2>4, <2>5
<1>9. ASSUME NEW i \in DOMAIN order, NEW j \in DOMAIN order
      PROVE  (<<order[i], order[j]>> \in reach => i < j) /\ (order[i] = order[j] => i = j)
  <2>1. order[i] = order[j] => i = j
    BY <1>6 DEF OneEach
  <2>2. order[i] \in Ids(d) /\ order[j] \in Ids(d)
    BY <1>1, AncestorsFirst
  <2>3. ASSUME <<order[i], order[j]>> \in reach PROVE i < j
    <3>1. order[i] \in ancestors(d, order[j])
      BY <1>4, <2>2, <2>3
    <3>2. PICK k \in DOMAIN order : k < j /\ order[k] = order[i]
      BY <1>1, <3>1, AncestorsFirst
    <3>3. k = i
      BY <1>6, <3>2 DEF OneEach
    <3> QED BY <3>2, <3>3
  <2> QED BY <2>1, <2>3
<1>10. Cyclic(d) <=> cyclic # {}
  <2>1. Cyclic(d) <=> \E n \in Ids(d) : OnCycle(d, n)
    BY <1>1, VerdictExact
  <2>2. cyclic \subseteq Ids(d)
    BY DEF cyclic
  <2> QED BY <1>7, <2>1, <2>2
<1>11. UNION parts = Ids(d) /\ \A part \in parts : \A n \in part : n \in Ids(d) /\ part = Class(d, n)
  BY <1>1, ComponentsExact
<1>12. \A n \in Ids(d) : Class(d, n) = {n} \cup {m \in Ids(d) : <<n, m>> \in linked}
  BY <1>1, ClassLinked
<1> HIDE DEF parts, linked, order
<1>13. \A part \in parts : \A n \in part : part = {n} \cup {m \in Ids(d) : <<n, m>> \in linked}
  BY <1>11, <1>12
<1>14. /\ ~Topological(d).raised
       /\ \A n \in Ids(d) :
            /\ ancestors(d, n) = {m \in Ids(d) : <<m, n>> \in reach}
            /\ descendants(d, n) = {m \in Ids(d) : <<n, m>> \in reach}
            /\ n \in Elements(order) <=> (cyclic \cap (ancestors(d, n) \cup {n}) = {})
            /\ n \in Elements(order) => trace_to_sources(d, n)[Len(trace_to_sources(d, n))] = n
       /\ \A i, j \in DOMAIN order :
            (<<order[i], order[j]>> \in reach => i < j) /\ (order[i] = order[j] => i = j)
       /\ Cyclic(d) <=> cyclic # {}
       /\ \A part \in parts : \A n \in part : part = {n} \cup {m \in Ids(d) : <<n, m>> \in linked}
       /\ UNION parts = Ids(d)
  BY <1>6, <1>8, <1>9, <1>10, <1>11, <1>13
<1> QED BY <1>14 DEF QueriesExact, order, reach, succ, linked, near, cyclic, parts

-----------------------------------------------------------------------------
(* What is drawn.                                                          *)

\* A drawn document has edges of its palette, and nodes of it.
DrawnFrom(p) ==
  /\ p \in Palettes
  /\ Doc.edges \subseteq p.edges /\ Ids(Doc) \subseteq Ids(p)
  /\ \A n \in Ids(Doc) : Doc.nodes[n] = p.nodes[n]

\* What the compilers made is what they make of it.
Current ==
  /\ lowered = Lowered(Doc)
  /\ python = generate_python_project(lowered)
  /\ sql = generate_sql_project(lowered)

OnCanvas == DrawnFrom(palette) /\ Current

LEMMA LoweredDocument ==
  ASSUME NEW d
  PROVE  Lowered(d).document = d
BY DEF Lowered, Compiled

LEMMA DrawnNodes ==
  ASSUME NEW edges
  PROVE  /\ Drawn(edges).edges = edges /\ Ids(Drawn(edges)) \subseteq Ids(palette)
         /\ \A n \in Ids(Drawn(edges)) : Drawn(edges).nodes[n] = palette.nodes[n]
BY DEF Drawn, Ids

LEMMA BlankDrawn == Blank => OnCanvas
<1> SUFFICES ASSUME Blank PROVE OnCanvas
  OBVIOUS
<1>1. Doc = [nodes |-> <<>>, edges |-> {}]
  BY LoweredDocument DEF Blank, Doc
<1>2. DOMAIN <<>> = {}
  OBVIOUS
<1>3. DrawnFrom(palette)
  BY <1>1, <1>2 DEF Blank, DrawnFrom, Ids
<1>4. Current
  BY <1>1 DEF Blank, Current
<1> QED BY <1>3, <1>4 DEF OnCanvas

LEMMA DrawDrawn == OnCanvas /\ [Draw]_canvas => OnCanvas'
<1> SUFFICES ASSUME OnCanvas, [Draw]_canvas PROVE OnCanvas'
  OBVIOUS
<1>1. CASE UNCHANGED canvas
  BY <1>1 DEF OnCanvas, DrawnFrom, Current, Doc, canvas
<1>2. CASE Draw
  <2>1. PICK e \in palette.edges \ Doc.edges : Compile(Drawn(Doc.edges \cup {e})) /\ UNCHANGED palette
    BY <1>2 DEF Draw
  <2>2. Doc' = Drawn(Doc.edges \cup {e})
    BY <2>1, LoweredDocument DEF Compile, Doc
  <2>3. /\ Doc'.edges = Doc.edges \cup {e} /\ Ids(Doc') \subseteq Ids(palette)
        /\ \A n \in Ids(Doc') : Doc'.nodes[n] = palette.nodes[n]
    BY <2>2, DrawnNodes
  <2>4. DrawnFrom(palette)'
    BY <2>1, <2>3 DEF OnCanvas, DrawnFrom, Ids
  <2>5. Current'
    BY <2>1, <2>2 DEF Compile, Current
  <2> QED BY <2>4, <2>5 DEF OnCanvas
<1> QED BY <1>1, <1>2

LEMMA DrawnIsWellFormed == OnCanvas => WellFormed(Doc)
<1> SUFFICES ASSUME OnCanvas PROVE WellFormed(Doc)
  OBVIOUS
<1>1. WellFormed(palette) /\ Ids(Doc) \in SUBSET Ids(palette) /\ Doc.edges \in SUBSET palette.edges
  BY PalettesAssumption DEF OnCanvas, DrawnFrom
<1>2. IsFiniteSet(Ids(palette)) /\ IsFiniteSet(palette.edges)
  BY <1>1 DEF WellFormed
<1>3. IsFiniteSet(Ids(Doc))
  BY <1>1, <1>2, FS_Subset
<1>4. IsFiniteSet(Doc.edges)
  BY <1>1, <1>2, FS_Subset
<1> QED BY <1>1, <1>3, <1>4 DEF WellFormed, ensure_unique_ids

\* Whatever is drawn, from whatever palette: the queries of its graph are exact
\* (GraphIndex, graph.py:25-109) as soon as its edges join nodes it has.
THEOREM QueriesStayExact == Drawing => []GraphQueriesExact
<1>1. OnCanvas => GraphQueriesExact
  BY DrawnIsWellFormed, QueriesAreExact DEF GraphQueriesExact
<1> QED BY <1>1, BlankDrawn, DrawDrawn, PTL DEF Drawing

-----------------------------------------------------------------------------
(* The catalogue.                                                          *)

LEMMA TypeSets ==
  /\ SourceTypes = {"source.table", "source.file", "source.jdbc", "source.kafka", "source.sql_query",
                    "source.dataset_reference", "source.generic", "source.custom_pyspark"}
  /\ Outputs = {"dataset.materialized_view", "dataset.streaming_table", "dataset.temporary_view",
                "dataset.auto_cdc_scd1", "sink.external"}
  /\ QualityTypes = {"quality.column_rule", "quality.null_rate", "quality.uniqueness",
                     "quality.schema_contract", "quality.profile_probe", "quality.row_count_range",
                     "quality.referential_sample", "quality.quarantine_split"}
<1>1. SourceTypes = {"source.table", "source.file", "source.jdbc", "source.kafka", "source.sql_query",
                    "source.dataset_reference", "source.generic", "source.custom_pyspark"}
  BY DEF SourceTypes, TypesOf, SourceOps, Source, Op
<1>2. Outputs = {"dataset.materialized_view", "dataset.streaming_table", "dataset.temporary_view",
                "dataset.auto_cdc_scd1", "sink.external"}
  BY DEF Outputs, TypesOf, OutputOps, Unary, Op
<1>3. QualityTypes = {"quality.column_rule", "quality.null_rate", "quality.uniqueness",
                     "quality.schema_contract", "quality.profile_probe", "quality.row_count_range",
                     "quality.referential_sample", "quality.quarantine_split"}
  BY DEF QualityTypes, TypesOf, QualityOps, Unary, Op
<1> QED BY <1>1, <1>2, <1>3

\* What the compilers rely on: sources and component inputs have no input, an
\* output has one that must be fed and a name, a split has its two branches.
Entry(op) ==
  /\ op.id \in SourceTypes \cup {"utility.component_input"} => op.in = {}
  /\ op.id \in Outputs => op.in = {"in"} /\ op.optional = {} /\ "name" \in op.required
  /\ op.id = "quality.quarantine_split" => op.out = {"accepted", "quarantine"}

LEMMA Entries == \A op \in BUILTIN_OPERATORS : Entry(op)
<1>1. \A op \in SourceOps : Entry(op)
  BY TypeSets DEF Entry, SourceOps, Source, Op
<1>2. \A op \in UtilityOps : Entry(op)
  BY TypeSets DEF Entry, UtilityOps, Source, Unary, Op
<1>3. \A op \in ProjectionOps : Entry(op)
  BY TypeSets DEF Entry, ProjectionOps, Unary, Op
<1>4. \A op \in SetOps : Entry(op)
  BY TypeSets DEF Entry, SetOps, Unary, Binary, Op
<1>5. \A op \in StructureOps : Entry(op)
  BY TypeSets DEF Entry, StructureOps, Unary, Binary, Op
<1>6. \A op \in QualityOps : Entry(op)
  BY TypeSets DEF Entry, QualityOps, Unary, Op
<1>7. \A op \in OutputOps : Entry(op)
  BY TypeSets DEF Entry, OutputOps, Unary, Op
<1> QED BY <1>1, <1>2, <1>3, <1>4, <1>5, <1>6, <1>7 DEF BUILTIN_OPERATORS

Known == SourceTypes \cup Outputs \cup {"utility.component_input", "quality.quarantine_split"}

LEMMA Catalogue ==
  ASSUME NEW t \in Known
  PROVE  /\ t \in DOMAIN operator_catalog /\ Entry(operator_catalog[t]) /\ operator_catalog[t].id = t
         /\ builtin_registry[t] = operator_catalog[t]
<1>1. t \in BuiltinTypes
  <2>1. SourceTypes \subseteq BuiltinTypes /\ Outputs \subseteq BuiltinTypes
    BY DEF SourceTypes, Outputs, BuiltinTypes, TypesOf, BUILTIN_OPERATORS
  <2>2. "utility.component_input" \in BuiltinTypes
    <3>1. "utility.component_input" \in TypesOf(UtilityOps)
      BY DEF TypesOf, UtilityOps, Source, Unary, Op
    <3> QED BY <3>1 DEF BuiltinTypes, TypesOf, BUILTIN_OPERATORS
  <2>3. "quality.quarantine_split" \in BuiltinTypes
    <3>1. "quality.quarantine_split" \in QualityTypes
      BY TypeSets
    <3> QED BY <3>1 DEF QualityTypes, BuiltinTypes, TypesOf, BUILTIN_OPERATORS
  <2> QED BY <2>1, <2>2, <2>3 DEF Known
<1>2. \E op \in BUILTIN_OPERATORS : op.id = t
  BY <1>1 DEF BuiltinTypes, TypesOf
<1>3. Builtin(t) \in BUILTIN_OPERATORS /\ Builtin(t).id = t
  BY <1>2 DEF Builtin
<1>4. t \in DOMAIN operator_catalog /\ operator_catalog[t] = Builtin(t)
  BY <1>1 DEF operator_catalog
<1>5. builtin_registry[t] = Builtin(t)
  BY <1>1 DEF builtin_registry
<1> QED BY <1>3, <1>4, <1>5, Entries

-----------------------------------------------------------------------------
(* A document that is compiled.                                            *)

\* Validation returns, and finds nothing but warnings.
Clean(d) ==
  /\ WellFormed(d) /\ ~ValidationRaises(d) /\ ~has_errors(validate_graph(d))
  /\ \A n \in Ids(d) : d.nodes[n].name = "" => "name" \in d.nodes[n].unset

LEMMA NoErrors ==
  ASSUME NEW d, Clean(d), NEW p \in validate_graph(d)
  PROVE  p[1] \in {"SDPS-GRAPH-009", "SDPS-PERF-001", "SDPS-SEM-001", "SDPS-PERF-002"}
BY DEF Clean, has_errors, Warnings

LEMMA CleanEdges ==
  ASSUME NEW d, Clean(d), NEW e \in d.edges
  PROVE  /\ e \in Joined(d)
         /\ e.fport \in OpOf(d, e.from).out /\ e.tport \in OpOf(d, e.to).in
<1>1. EdgeProblems(d, e) \subseteq validate_graph(d)
  BY DEF validate_graph
<1>2. \A p \in EdgeProblems(d, e) :
        p[1] \in {"SDPS-GRAPH-009", "SDPS-PERF-001", "SDPS-SEM-001", "SDPS-PERF-002"}
  BY <1>1, NoErrors
<1>3. e \in Joined(d)
  <2>1. <<"SDPS-GRAPH-003", 0>> \notin EdgeProblems(d, e)
    BY <1>2
  <2> QED BY <2>1 DEF EdgeProblems
<1>4. e.fport \in OpOf(d, e.from).out
  <2>1. <<"SDPS-GRAPH-004", e.from>> \notin EdgeProblems(d, e)
    BY <1>2
  <2> QED BY <1>3, <2>1 DEF EdgeProblems
<1>5. e.tport \in OpOf(d, e.to).in
  <2>1. <<"SDPS-GRAPH-005", e.to>> \notin EdgeProblems(d, e)
    BY <1>2
  <2> QED BY <1>3, <2>1 DEF EdgeProblems
<1> QED BY <1>3, <1>4, <1>5

LEMMA CleanGraph ==
  ASSUME NEW d, Clean(d)
  PROVE  Sound(d) /\ Elements(topological_order(d)) = Ids(d) /\ \A n \in Ids(d) : ~OnCycle(d, n)
<1>1. Sound(d)
  <2>1. Joined(d) = d.edges
    BY CleanEdges DEF Joined
  <2> QED BY <2>1 DEF Sound, Clean
<1>2. ~Cyclic(d)
  <2>1. CycleProblems(d) \subseteq validate_graph(d)
    BY DEF validate_graph
  <2>2. <<"SDPS-GRAPH-001", 0>> \notin CycleProblems(d)
    BY <2>1, NoErrors
  <2> QED BY <2>2 DEF CycleProblems
<1>3. \A n \in Ids(d) : ~OnCycle(d, n)
  BY <1>1, <1>2, VerdictExact
<1>4. ASSUME NEW n \in Ids(d) PROVE n \in Elements(topological_order(d))
  <2>1. ancestors(d, n) \subseteq Ids(d)
    BY <1>1, AncestorsFacts
  <2>2. \A m \in ancestors(d, n) \cup {n} : ~OnCycle(d, m)
    BY <1>3, <2>1
  <2> QED BY <1>1, <2>2, ListedExactly
<1>5. Elements(topological_order(d)) \subseteq Ids(d)
  BY <1>1, OrderFacts
<1> QED BY <1>1, <1>3, <1>4, <1>5

\* Sources are fed by nothing, an output by one edge.
LEMMA CleanPorts ==
  ASSUME NEW d, Clean(d), NEW n \in Ids(d)
  PROVE  /\ d.nodes[n].type \in SourceTypes \cup {"utility.component_input"} => Incoming(d, n) = {}
         /\ d.nodes[n].type \in Outputs => d.nodes[n].name # "" /\ \E e \in d.edges : Incoming(d, n) = {e}
         /\ d.nodes[n].type = "quality.quarantine_split" =>
              \A e \in d.edges : e.from = n => e.fport \in {"accepted", "quarantine"}
<1> DEFINE t == d.nodes[n].type
<1>1. ASSUME t \in Known
      PROVE  Catalogued(d, n) /\ Entry(OpOf(d, n)) /\ OpOf(d, n).id = t /\ builtin_registry[t] = OpOf(d, n)
  BY <1>1, Catalogue DEF Catalogued, OpOf
<1>2. CASE t \in SourceTypes \cup {"utility.component_input"}
  <2>1. OpOf(d, n).in = {}
    BY <1>1, <1>2 DEF Known, Entry
  <2>2. \A e \in d.edges : e.to # n
    BY <2>1, CleanEdges
  <2>3. t \notin Outputs /\ t # "quality.quarantine_split"
    BY <1>2, TypeSets
  <2> QED BY <2>2, <2>3 DEF Incoming
<1>3. CASE t \in Outputs
  <2>1. /\ OpOf(d, n).in = {"in"} /\ OpOf(d, n).optional = {} /\ "name" \in OpOf(d, n).required
        /\ Catalogued(d, n) /\ builtin_registry[t] = OpOf(d, n)
    BY <1>1, <1>3 DEF Known, Entry
  <2>2. PortProblems(d, n) \subseteq validate_graph(d) /\ NodeProblems(d, n) \subseteq validate_graph(d)
    BY DEF validate_graph
  <2>3. <<"SDPS-GRAPH-002", n>> \notin PortProblems(d, n) /\ <<"SDPS-GRAPH-007", n>> \notin PortProblems(d, n)
        /\ <<"SDPS-OPERATOR-001", n>> \notin NodeProblems(d, n)
    BY <2>2, NoErrors
  <2>4. d.nodes[n].name # ""
    <3>1. "name" \notin d.nodes[n].unset
      BY <2>1, <2>3 DEF NodeProblems, validate_config
    <3> QED BY <3>1 DEF Clean
  <2> DEFINE into == {e \in Incoming(d, n) : e.tport = "in"}
  <2>5. into # {} /\ ~(Cardinality(into) > 1)
    BY <2>1, <2>3 DEF PortProblems
  <2>6. Incoming(d, n) = into
    BY <2>1, CleanEdges DEF Incoming
  <2>7. PICK e : e \in into
    BY <2>5
  <2>8. into \in SUBSET d.edges /\ IsFiniteSet(d.edges)
    BY DEF Incoming, Clean, WellFormed
  <2> HIDE DEF into
  <2>9. IsFiniteSet(into)
    BY <2>8, FS_Subset
  <2>10. ASSUME NEW f \in into, f # e PROVE FALSE
    <3>1. {e, f} \subseteq into /\ Cardinality({e, f}) = 2
      <4>1. IsFiniteSet({e}) /\ Cardinality({e}) = 1 /\ f \notin {e}
        BY <2>10, FS_Singleton
      <4>2. Cardinality({e} \cup {f}) = Cardinality({e}) + 1
        BY <4>1, FS_AddElement
      <4>3. {e} \cup {f} = {e, f}
        OBVIOUS
      <4> QED BY <2>7, <4>1, <4>2, <4>3
    <3>2. Cardinality({e, f}) <= Cardinality(into)
      BY <2>9, <3>1, FS_Subset
    <3>3. Cardinality(into) \in Nat
      BY <2>9, FS_CardinalityType
    <3> QED BY <2>5, <3>1, <3>2, <3>3
  <2>11. into = {e}
    BY <2>7, <2>10
  <2>12. t \notin SourceTypes \cup {"utility.component_input"} /\ t # "quality.quarantine_split"
    BY <1>3, TypeSets
  <2> QED BY <2>4, <2>6, <2>7, <2>8, <2>11, <2>12
<1>4. CASE t = "quality.quarantine_split"
  <2>1. OpOf(d, n).out = {"accepted", "quarantine"}
    BY <1>1, <1>4 DEF Known, Entry
  <2>2. t \notin Outputs /\ t \notin SourceTypes \cup {"utility.component_input"}
    BY <1>4, TypeSets
  <2> QED BY <2>1, <2>2, CleanEdges
<1> QED BY <1>2, <1>3, <1>4

-----------------------------------------------------------------------------
(* What the compilers are given: the view of a clean document has all of   *)
(* it, and an order of its nodes.                                          *)

Pictures(v, d) ==
  /\ Ids(v) = Ids(d) /\ v.edges = d.edges /\ \A n \in Ids(d) : v.nodes[n] = d.nodes[n]

LEMMA SameAncestors ==
  ASSUME NEW v, NEW d, Pictures(v, d)
  PROVE  /\ \A n : Incoming(v, n) = Incoming(d, n) /\ Parents(v, n) = Parents(d, n)
         /\ \A n : ancestors(v, n) = ancestors(d, n)
<1>1. \A n : Incoming(v, n) = Incoming(d, n) /\ Parents(v, n) = Parents(d, n)
  BY DEF Pictures, Incoming, Parents
<1>2. Mentioned(v) = Mentioned(d)
  BY DEF Pictures, Mentioned
<1> SUFFICES ASSUME NEW n PROVE ancestors(v, n) = ancestors(d, n)
  BY <1>1
<1>3. [m \in Mentioned(v) |-> Parents(v, m)] = [m \in Mentioned(d) |-> Parents(d, m)]
  BY <1>1, <1>2
<1>4. Parents(v, n) = Parents(d, n)
  BY <1>1
<1> QED BY <1>3, <1>4 DEF ancestors

LEMMA ShownIsSound ==
  ASSUME NEW v, NEW d, Pictures(v, d), Sound(d)
  PROVE  Sound(v)
BY DEF Pictures, Sound, WellFormed, Joined, ensure_unique_ids

\* An order of all nodes, parents first.
Orders(order, d) ==
  /\ order \in Seq(Ids(d)) /\ OneEach(order) /\ Elements(order) = Ids(d)
  /\ \A i \in DOMAIN order : \A m \in Parents(d, order[i]) : \E j \in DOMAIN order : j < i /\ order[j] = m

LEMMA OrderOfShown ==
  ASSUME NEW v, NEW d, Pictures(v, d), Sound(d), \A n \in Ids(d) : ~OnCycle(d, n)
  PROVE  Orders(topological_order(v), d) /\ ~Topological(v).raised
<1>1. Sound(v)
  BY ShownIsSound
<1>2. Ids(v) = Ids(d)
  BY DEF Pictures
<1>3. \A n \in Ids(v) : ancestors(v, n) \subseteq Ids(v)
  BY <1>1, AncestorsFacts
<1>4. \A n \in Ids(v) : ~OnCycle(v, n)
  BY <1>2, SameAncestors DEF OnCycle
<1>5. ASSUME NEW n \in Ids(v) PROVE n \in Elements(topological_order(v))
  <2>1. \A m \in ancestors(v, n) \cup {n} : ~OnCycle(v, m)
    BY <1>3, <1>4
  <2> QED BY <1>1, <2>1, ListedExactly
<1>6. /\ ~Topological(v).raised
      /\ topological_order(v) \in Seq(Ids(v)) /\ OneEach(topological_order(v))
      /\ Elements(topological_order(v)) \subseteq Ids(v)
      /\ \A i \in DOMAIN topological_order(v) : \A m \in Parents(v, topological_order(v)[i]) :
           \E j \in DOMAIN topological_order(v) : j < i /\ topological_order(v)[j] = m
  BY <1>1, OrderFacts
<1>7. \A n : Parents(v, n) = Parents(d, n)
  BY SameAncestors
<1> QED BY <1>2, <1>5, <1>6, <1>7 DEF Orders

\* The view that the compilers read.
Viewed(v, d) == Pictures(v, d) /\ Orders(v.order, d) /\ ~v.raised

LEMMA ViewFacts ==
  ASSUME NEW d, Clean(d)
  PROVE  /\ Viewed(Lowered(d).view, d)
         /\ \E g : Pictures(g, d) /\ Orders(topological_order(g), d) /\ Lowered(d).view.modes = Modes(g)
<1> DEFINE g == [nodes |-> [n \in Elements(topological_order(d)) |-> d.nodes[n]], edges |-> d.edges]
<1>1. Sound(d) /\ Elements(topological_order(d)) = Ids(d) /\ \A n \in Ids(d) : ~OnCycle(d, n)
  BY CleanGraph
<1>2. g = graph_view(lower_pipeline(d))
  BY DEF graph_view, lower_pipeline
<1>3. g.nodes = [n \in Ids(d) |-> d.nodes[n]] /\ g.edges = d.edges
  BY <1>1
<1>4. Lowered(d).view = View(g)
  BY <1>2 DEF Lowered, Compiled
<1> HIDE DEF g
<1>5. Pictures(g, d)
  BY <1>3 DEF Pictures, Ids
<1>6. Orders(topological_order(g), d) /\ ~Topological(g).raised
  BY <1>1, <1>5, OrderOfShown
<1>7. /\ Lowered(d).view.nodes = g.nodes /\ Lowered(d).view.edges = g.edges
      /\ Lowered(d).view.order = topological_order(g) /\ Lowered(d).view.modes = Modes(g)
      /\ Lowered(d).view.raised = Topological(g).raised
  BY <1>4 DEF View
<1>8. Pictures(Lowered(d).view, d)
  BY <1>5, <1>7 DEF Pictures, Ids
<1> QED BY <1>5, <1>6, <1>7, <1>8 DEF Viewed

LEMMA LoweredFacts ==
  ASSUME NEW d
  PROVE  /\ Lowered(d).document = d /\ Lowered(d).raised = ValidationRaises(d)
         /\ ~ValidationRaises(d) => Lowered(d).problems = validate_graph(d)
BY DEF Lowered, Compiled, lower_pipeline

-----------------------------------------------------------------------------
(* Modes.                                                                  *)

\* What a loop over an order collects grows, and a node enters in its round.
LEMMA Grows ==
  ASSUME NEW X, NEW K \in Nat, NEW f \in [0..K -> SUBSET X],
         \A i \in 1..K : f[i - 1] \subseteq f[i],
         NEW i \in 0..K, NEW j \in i..K
  PROVE  f[i] \subseteq f[j]
<1> DEFINE S == {k \in Nat : i + k <= K => f[i] \subseteq f[i + k]}
<1>1. 0 \in S
  OBVIOUS
<1>2. ASSUME NEW k \in Nat, k \in S PROVE k + 1 \in S
  <2> SUFFICES ASSUME i + (k + 1) <= K PROVE f[i] \subseteq f[i + (k + 1)]
    OBVIOUS
  <2>1. i + k <= K /\ i + (k + 1) \in 1..K /\ (i + (k + 1)) - 1 = i + k
    OBVIOUS
  <2>2. f[i + k] \subseteq f[i + (k + 1)]
    <3>1. f[(i + (k + 1)) - 1] \subseteq f[i + (k + 1)]
      BY <2>1
    <3> QED BY <2>1, <3>1
  <2> QED BY <1>2, <2>1, <2>2
<1> HIDE DEF S
<1>3. \A k \in Nat : k \in S
  BY <1>1, <1>2, Induction
<1>4. j - i \in Nat /\ i + (j - i) = j
  OBVIOUS
<1>5. j - i \in S
  BY <1>3, <1>4
<1> QED BY <1>4, <1>5 DEF S

LEMMA EntersInItsRound ==
  ASSUME NEW N, NEW order \in Seq(N), OneEach(order),
         NEW f \in [0..Len(order) -> SUBSET N], f[0] = {},
         \A i \in 1..Len(order) : f[i - 1] \subseteq f[i] /\ f[i] \subseteq f[i - 1] \cup {order[i]},
         NEW j \in 1..Len(order), order[j] \in f[Len(order)], NEW i \in 1..Len(order), j < i
  PROVE  order[j] \in f[i - 1]
<1>1. Len(order) \in Nat /\ DOMAIN order = 1..Len(order)
  BY LenProperties
<1>2. order[j] \in f[j]
  <2> SUFFICES ASSUME order[j] \notin f[j] PROVE FALSE
    OBVIOUS
  <2> DEFINE S == {k \in Nat : j + k <= Len(order) => order[j] \notin f[j + k]}
  <2>1. 0 \in S
    OBVIOUS
  <2>2. ASSUME NEW k \in Nat, k \in S PROVE k + 1 \in S
    <3> SUFFICES ASSUME j + (k + 1) <= Len(order) PROVE order[j] \notin f[j + (k + 1)]
      OBVIOUS
    <3>1. j + (k + 1) \in 1..Len(order) /\ (j + (k + 1)) - 1 = j + k /\ j + k <= Len(order) /\ j # j + (k + 1)
      BY <1>1
    <3>2. f[j + (k + 1)] \subseteq f[j + k] \cup {order[j + (k + 1)]}
      <4>1. f[j + (k + 1)] \subseteq f[(j + (k + 1)) - 1] \cup {order[j + (k + 1)]}
        BY <3>1
      <4> QED BY <3>1, <4>1
    <3>3. order[j] # order[j + (k + 1)]
      BY <1>1, <3>1 DEF OneEach
    <3> QED BY <2>2, <3>1, <3>2, <3>3
  <2> HIDE DEF S
  <2>3. \A k \in Nat : k \in S
    BY <2>1, <2>2, Induction
  <2>4. Len(order) - j \in Nat /\ j + (Len(order) - j) = Len(order)
    BY <1>1
  <2>5. Len(order) - j \in S
    BY <2>3, <2>4
  <2> QED BY <2>4, <2>5 DEF S
<1>3. j \in 0..Len(order) /\ i - 1 \in j..Len(order)
  BY <1>1
<1>4. f[j] \subseteq f[i - 1]
  BY <1>1, <1>3, Grows
<1> QED BY <1>2, <1>4

LEMMA ModesLoop ==
  ASSUME NEW g, topological_order(g) \in Seq(Ids(g))
  PROVE  \E f \in [0..Len(topological_order(g)) -> SUBSET Ids(g)] :
           /\ f[0] = {}
           /\ \A i \in 1..Len(topological_order(g)) :
                f[i] = f[i - 1] \cup {n \in {topological_order(g)[i]} : Streaming(g, n, f[i - 1])}
           /\ Modes(g) = f[Len(topological_order(g))]
<1> DEFINE order == topological_order(g)
<1>0. SUFFICES ASSUME NEW K \in Nat, K = Len(order)
             PROVE  \E f \in [0..K -> SUBSET Ids(g)] :
                      /\ f[0] = {}
                      /\ \A i \in 1..K : f[i] = f[i - 1] \cup {n \in {order[i]} : Streaming(g, n, f[i - 1])}
                      /\ Modes(g) = f[K]
  BY LenProperties
<1>1. \A i \in 1..K : order[i] \in Ids(g)
  BY <1>0, ElementOfSeq
<1> DEFINE after(i, known) == known \cup {n \in {order[i]} : Streaming(g, n, known)}
           Collected(f) == f = [i \in 0..K |-> IF i = 0 THEN {} ELSE after(i, f[i - 1])]
           body == [i \in 1..K |-> [known \in SUBSET Ids(g) |-> after(i, known)]]
<1>2. Modes(g) = (CHOOSE f : Collected(f))[K]
  BY <1>0 DEF Modes
<1>3. body \in [1..K -> [SUBSET Ids(g) -> SUBSET Ids(g)]]
  BY <1>1
<1> HIDE DEF order
<1>4. Steps(SUBSET Ids(g), {}, K, body)
  BY <1>3 DEF Steps
<1>5. PICK f : Iterates(SUBSET Ids(g), {}, K, body, f)
  BY <1>4, Iteration
<1>6. f \in [0..K -> SUBSET Ids(g)] /\ f[0] = {} /\ \A i \in 1..K : f[i] = body[i][f[i - 1]]
  BY <1>5 DEF Iterates
<1>7. ASSUME NEW i \in 1..K PROVE f[i] = after(i, f[i - 1])
  <2>1. i - 1 \in 0..K /\ f[i - 1] \in SUBSET Ids(g)
    BY <1>6
  <2> QED BY <1>6, <2>1
<1>8. Collected(f)
  <2> HIDE DEF after
  <2>1. \A i \in 0..K : f[i] = IF i = 0 THEN {} ELSE after(i, f[i - 1])
    BY <1>6, <1>7
  <2> QED BY <1>6, <2>1
<1> DEFINE given == CHOOSE h : Collected(h)
<1>9. Collected(given)
  <2> HIDE DEF Collected
  <2> QED BY <1>8
<1>10. Modes(g) = given[K]
  BY <1>2
<1> HIDE DEF given
<1>11. given[0] = {} /\ \A i \in 1..K : given[i - 1] \in SUBSET Ids(g) => given[i] = body[i][given[i - 1]]
  <2>1. 0 \in 0..K /\ \A i \in 1..K : i \in 0..K /\ i # 0
    OBVIOUS
  <2>2. given[0] = {} /\ \A i \in 1..K : given[i] = after(i, given[i - 1])
    <3> HIDE DEF after
    <3> QED BY <1>9, <2>1
  <2> QED BY <2>2
<1>12. \A i \in 1..K : f[i] = f[i - 1] \cup {n \in {order[i]} : Streaming(g, n, f[i - 1])}
  BY <1>7
<1> HIDE DEF body
<1> HIDE DEF after, Collected
<1>13. given[K] = f[K]
  <2> DEFINE X == SUBSET Ids(g)
             none == {}
  <2>1. Steps(X, none, K, body) /\ Iterates(X, none, K, body, f)
    BY <1>4, <1>5
  <2>2. given[0] = none /\ \A i \in 1..K : given[i - 1] \in X => given[i] = body[i][given[i - 1]]
    BY <1>11
  <2> HIDE DEF X, none
  <2> QED BY <2>1, <2>2, IterationUnique
<1> QED BY <1>6, <1>10, <1>12, <1>13

\* A source that streams is in the modes, and so is what is fed by one of them.
LEMMA ModesFacts ==
  ASSUME NEW d, NEW g, Pictures(g, d), Orders(topological_order(g), d)
  PROVE  /\ \A n \in Ids(d) : d.nodes[n].type \in SourceTypes
              /\ (d.nodes[n].type = "source.kafka" \/ d.nodes[n].streaming) => n \in Modes(g)
         /\ \A e \in d.edges : e.from \in Modes(g) /\ e.to \in Ids(d)
              /\ d.nodes[e.to].type \notin SourceTypes => e.to \in Modes(g)
<1> DEFINE order == topological_order(g)
<1>1. Ids(g) = Ids(d) /\ g.edges = d.edges /\ \A n \in Ids(d) : g.nodes[n] = d.nodes[n]
  BY DEF Pictures
<1>2. /\ order \in Seq(Ids(g)) /\ OneEach(order) /\ Elements(order) = Ids(d)
      /\ \A i \in DOMAIN order : \A m \in Parents(d, order[i]) : \E j \in DOMAIN order : j < i /\ order[j] = m
  BY <1>1 DEF Orders
<1>3. PICK f \in [0..Len(order) -> SUBSET Ids(g)] :
        /\ f[0] = {}
        /\ \A i \in 1..Len(order) : f[i] = f[i - 1] \cup {n \in {order[i]} : Streaming(g, n, f[i - 1])}
        /\ Modes(g) = f[Len(order)]
  BY <1>2, ModesLoop
<1>4. Len(order) \in Nat /\ DOMAIN order = 1..Len(order)
  BY <1>2, LenProperties
<1> HIDE DEF order
<1>5. \A i \in 1..Len(order) : f[i - 1] \subseteq f[i] /\ f[i] \subseteq f[i - 1] \cup {order[i]}
  BY <1>3
<1>6. \A i \in 1..Len(order) : f[i] \subseteq Modes(g)
  <2> SUFFICES ASSUME NEW i \in 1..Len(order) PROVE f[i] \subseteq f[Len(order)]
    BY <1>3
  <2>1. i \in 0..Len(order) /\ Len(order) \in i..Len(order)
    BY <1>4
  <2> QED BY <1>4, <1>5, <2>1, Grows
<1>7. ASSUME NEW n \in Ids(d), d.nodes[n].type \in SourceTypes,
             d.nodes[n].type = "source.kafka" \/ d.nodes[n].streaming
      PROVE  n \in Modes(g)
  <2>1. PICK i \in 1..Len(order) : order[i] = n
    BY <1>2, <1>4 DEF Elements
  <2>2. Streaming(g, n, f[i - 1])
    BY <1>1, <1>7 DEF Streaming
  <2>3. n \in f[i]
    BY <1>3, <2>1, <2>2
  <2> QED BY <1>6, <2>3
<1>8. ASSUME NEW e \in d.edges, e.from \in Modes(g), e.to \in Ids(d), d.nodes[e.to].type \notin SourceTypes
      PROVE  e.to \in Modes(g)
  <2>1. PICK i \in 1..Len(order) : order[i] = e.to
    BY <1>2, <1>4, <1>8 DEF Elements
  <2>2. e.from \in Parents(d, order[i])
    BY <2>1 DEF Parents, Incoming
  <2>3. PICK j \in 1..Len(order) : j < i /\ order[j] = e.from
    BY <1>2, <1>4, <2>2
  <2>4. order[j] \in f[Len(order)]
    BY <1>3, <1>8, <2>3
  <2>5. order[j] \in f[i - 1]
    BY <1>2, <1>3, <1>5, <2>3, <2>4, EntersInItsRound
  <2>6. Streaming(g, e.to, f[i - 1])
    BY <1>1, <1>8, <2>3, <2>5 DEF Streaming, Incoming
  <2>7. e.to \in f[i]
    BY <1>3, <2>1, <2>6
  <2> QED BY <1>6, <2>7
<1> QED BY <1>7, <1>8

-----------------------------------------------------------------------------
(* What a definition is made of.                                           *)

\* What the compilers read of a document and of its view is the same.
LEMMA SameDocument ==
  ASSUME NEW v, NEW d, Pictures(v, d)
  PROVE  /\ \A n \in Ids(d) : IsDataset(v, n) = IsDataset(d, n) /\ IsOutput(v, n) = IsOutput(d, n)
         /\ materialization_boundaries(v) = materialization_boundaries(d)
         /\ \A start : ScopeOf(v, start) = ScopeOf(d, start)
         /\ \A n \in Ids(d) : Var(v, n) = Var(d, n)
<1>1. \A n \in Ids(d) : v.nodes[n] = d.nodes[n]
  BY DEF Pictures
<1>2. Ids(v) = Ids(d) /\ \A n : Parents(v, n) = Parents(d, n)
  BY SameAncestors DEF Pictures
<1>3. \A n \in Ids(d) : IsDataset(v, n) = IsDataset(d, n) /\ IsOutput(v, n) = IsOutput(d, n)
  BY <1>1 DEF IsDataset, IsOutput
<1>4. materialization_boundaries(v) = materialization_boundaries(d)
  BY <1>2, <1>3 DEF materialization_boundaries
<1>5. ASSUME NEW start PROVE ScopeOf(v, start) = ScopeOf(d, start)
  <2>1. [n \in Ids(v) |-> IF IsDataset(v, n) THEN {} ELSE Parents(v, n)]
          = [n \in Ids(d) |-> IF IsDataset(d, n) THEN {} ELSE Parents(d, n)]
    BY <1>2, <1>3
  <2> QED BY <2>1 DEF ScopeOf
<1>6. \A n \in Ids(d) : Var(v, n) = Var(d, n)
  BY <1>1 DEF Var, _var
<1> QED BY <1>3, <1>4, <1>5, <1>6

\* A scope has the parents of its members, a dataset's excepted, and nothing
\* that this does not call for.
LEMMA ScopeFacts ==
  ASSUME NEW d, Sound(d), NEW start \in SUBSET Ids(d)
  PROVE  /\ ScopeOf(d, start) \subseteq Ids(d) /\ start \subseteq ScopeOf(d, start)
         /\ \A n \in ScopeOf(d, start) : ~IsDataset(d, n) => Parents(d, n) \subseteq ScopeOf(d, start)
         /\ \A T : start \subseteq T /\ (\A n \in T \cap Ids(d) : ~IsDataset(d, n) => Parents(d, n) \subseteq T)
              => ScopeOf(d, start) \subseteq T
<1> DEFINE succ == [n \in Ids(d) |-> IF IsDataset(d, n) THEN {} ELSE Parents(d, n)]
<1>1. IsFiniteSet(Ids(d)) /\ \A n : Parents(d, n) \subseteq Ids(d)
  BY SoundFacts
<1>2. succ \in [Ids(d) -> SUBSET Ids(d)]
  BY <1>1
<1>3. \A n \in Ids(d) : succ[n] = IF IsDataset(d, n) THEN {} ELSE Parents(d, n)
  OBVIOUS
<1>4. ScopeOf(d, start) = Walk(start, succ)
  BY DEF ScopeOf
<1> HIDE DEF succ
<1>5. /\ Walk(start, succ) \subseteq Ids(d) /\ start \subseteq Walk(start, succ)
      /\ \A n \in Walk(start, succ) : succ[n] \subseteq Walk(start, succ)
      /\ \A T : start \subseteq T /\ (\A n \in T \cap Ids(d) : succ[n] \subseteq T) => Walk(start, succ) \subseteq T
  BY <1>1, <1>2, WalkFacts
<1>6. \A n \in Walk(start, succ) : ~IsDataset(d, n) => Parents(d, n) \subseteq Walk(start, succ)
  BY <1>3, <1>5
<1>7. ASSUME NEW T, start \subseteq T, \A n \in T \cap Ids(d) : ~IsDataset(d, n) => Parents(d, n) \subseteq T
      PROVE  Walk(start, succ) \subseteq T
  <2>1. \A n \in T \cap Ids(d) : succ[n] \subseteq T
    BY <1>3, <1>7
  <2> QED BY <1>5, <1>7, <2>1
<1> QED BY <1>4, <1>5, <1>6, <1>7

\* The statements of a definition follow the order: a parent that has one has
\* an earlier one.
LEMMA StatementsInOrder ==
  ASSUME NEW order, NEW d, Orders(order, d), NEW S \in SUBSET Ids(d)
  PROVE  /\ Among(order, S) \in Seq(Ids(d)) /\ DOMAIN Among(order, S) = 1..Len(Among(order, S))
         /\ Len(Among(order, S)) \in Nat
         /\ Elements(Among(order, S)) = S
         /\ \A i \in DOMAIN Among(order, S) : \A m \in Parents(d, Among(order, S)[i]) \cap S :
              \E j \in 1..(i - 1) : j \in DOMAIN Among(order, S) /\ Among(order, S)[j] = m
<1>1. /\ order \in Seq(Ids(d)) /\ OneEach(order) /\ Elements(order) = Ids(d)
      /\ \A i \in DOMAIN order : \A m \in Parents(d, order[i]) : \E j \in DOMAIN order : j < i /\ order[j] = m
  BY DEF Orders
<1>2. DOMAIN order = 1..Len(order) /\ Len(order) \in Nat
  BY <1>1, LenProperties
<1>3. PICK at \in Seq(DOMAIN order) :
        /\ \A i, j \in DOMAIN at : i < j => at[i] < at[j]
        /\ Elements(at) = {i \in DOMAIN order : order[i] \in S}
        /\ Len(at) \in Nat /\ DOMAIN at = 1..Len(at)
        /\ Among(order, S) = [k \in DOMAIN at |-> order[at[k]]]
        /\ Among(order, S) \in Seq(Ids(d)) /\ Len(Among(order, S)) = Len(at)
        /\ Elements(Among(order, S)) = Elements(order) \cap S
  <2>1. order \in Seq(Ids(d))
    BY <1>1
  <2> QED BY <2>1, AmongFacts
<1>4. ASSUME NEW i \in DOMAIN Among(order, S), NEW m \in Parents(d, Among(order, S)[i]), m \in S
      PROVE  \E j \in 1..(i - 1) : j \in DOMAIN Among(order, S) /\ Among(order, S)[j] = m
  <2>1. i \in DOMAIN at /\ Among(order, S)[i] = order[at[i]]
    BY <1>3
  <2>2. at[i] \in DOMAIN order
    BY <2>1, <1>3, ElementsType
  <2>3. PICK k \in DOMAIN order : k < at[i] /\ order[k] = m
    BY <1>1, <1>4, <2>1, <2>2
  <2>4. k \in Elements(at)
    BY <1>3, <1>4, <2>3
  <2>5. PICK j \in DOMAIN at : at[j] = k
    BY <2>4 DEF Elements
  <2>6. j < i
    <3>1. i \in Nat /\ j \in Nat
      BY <1>3, <2>1, <2>5
    <3>2. at[i] \in Nat /\ k \in Nat
      BY <1>2, <2>2, <2>3
    <3>3. ~(at[i] < k) /\ at[i] # k
      BY <2>3, <3>2
    <3>4. ~(i < j)
      BY <1>3, <2>1, <2>5, <3>3
    <3>5. i # j
      BY <2>5, <3>3
    <3> QED BY <3>1, <3>4, <3>5
  <2>7. j \in 1..(i - 1)
    BY <1>3, <2>1, <2>5, <2>6
  <2> QED BY <1>3, <2>3, <2>5, <2>7
<1>5. Among(order, S) \in Seq(Ids(d)) /\ DOMAIN Among(order, S) = 1..Len(Among(order, S))
      /\ Len(Among(order, S)) \in Nat
  BY <1>3
<1>6. Elements(Among(order, S)) = S
  BY <1>1, <1>3
<1> QED BY <1>4, <1>5, <1>6

\* An assignment binds the variable of its node; what it reads from outside is
\* its own node, when that is a source or a dataset.
LEMMA AssignmentFacts ==
  ASSUME NEW d, NEW n
  PROVE  /\ Assignment(d, n).node = n
         /\ \A name \in Assignment(d, n).bind : name[1] = d.nodes[n].tail
         /\ Var(d, n) \in Assignment(d, n).bind
         /\ d.nodes[n].type = "quality.quarantine_split"
              => _var(d, n, "quarantine") \in Assignment(d, n).bind
         /\ ReadsOutside(d.nodes[n]) \/ IsDataset(d, n) =>
              /\ Assignment(d, n).use = {}
              /\ \E kind \in {"stream", "table"} : Assignment(d, n).reads = {<<kind, n>>}
         /\ ~(ReadsOutside(d.nodes[n]) \/ IsDataset(d, n)) =>
              /\ Assignment(d, n).use = {BranchVar(d, e) : e \in _transform_uses(d, n)}
              /\ Assignment(d, n).reads = {}
<1>0. Var(d, n)[1] = d.nodes[n].tail /\ _var(d, n, "quarantine")[1] = d.nodes[n].tail
  BY DEF Var, _var
<1>1. CASE ReadsOutside(d.nodes[n])
  <2>1. Assignment(d, n) = _source_expr(d, n)
    BY <1>1 DEF Assignment
  <2>2. d.nodes[n].type # "quality.quarantine_split"
    BY <1>1, TypeSets DEF ReadsOutside
  <2>3. Assignment(d, n).node = n
        /\ Assignment(d, n).bind = {Var(d, n)} /\ Assignment(d, n).use = {}
        /\ \E kind \in {"stream", "table"} : Assignment(d, n).reads = {<<kind, n>>}
    BY <2>1 DEF _source_expr
  <2> QED BY <1>0, <1>1, <2>2, <2>3
<1>2. CASE ~ReadsOutside(d.nodes[n]) /\ IsDataset(d, n)
  <2>1. Assignment(d, n) = _dataset_reference_expr(d, n)
    BY <1>2 DEF Assignment
  <2>2. d.nodes[n].type # "quality.quarantine_split"
    BY <1>2, TypeSets DEF IsDataset, DatasetTypes
  <2>3. Assignment(d, n).node = n
        /\ Assignment(d, n).bind = {Var(d, n)} /\ Assignment(d, n).use = {}
        /\ \E kind \in {"stream", "table"} : Assignment(d, n).reads = {<<kind, n>>}
    BY <2>1 DEF _dataset_reference_expr
  <2> QED BY <1>0, <1>2, <2>2, <2>3
<1>3. CASE ~ReadsOutside(d.nodes[n]) /\ ~IsDataset(d, n)
  <2>1. Assignment(d, n) = _transform_expr(d, n)
    BY <1>3 DEF Assignment
  <2> QED BY <1>0, <1>3, <2>1 DEF _transform_expr
<1> QED BY <1>1, <1>2, <1>3

\* The variable an edge brings is bound by the assignment it comes from, or is
\* the open branch of a split.
LEMMA EdgeVariable ==
  ASSUME NEW d, Clean(d), NEW v, Pictures(v, d), NEW e \in v.edges
  PROVE  BranchVar(v, e)[2] = "accepted" \/ BranchVar(v, e) \in Assignment(v, e.from).bind
<1>1. e \in d.edges /\ e.from \in Ids(d) /\ v.nodes[e.from] = d.nodes[e.from]
  BY CleanEdges DEF Pictures, Joined
<1>2. CASE v.nodes[e.from].type = "quality.quarantine_split"
  <2>1. e.fport \in {"accepted", "quarantine"}
    BY <1>1, <1>2, CleanPorts
  <2>2. BranchVar(v, e) = _var(v, e.from, e.fport)
    BY <1>2 DEF BranchVar
  <2>3. CASE e.fport = "accepted"
    BY <2>2, <2>3 DEF _var
  <2>4. CASE e.fport = "quarantine"
    BY <1>2, <2>2, <2>4, AssignmentFacts
  <2> QED BY <2>1, <2>3, <2>4
<1>3. CASE v.nodes[e.from].type # "quality.quarantine_split"
  BY <1>3, AssignmentFacts DEF BranchVar
<1> QED BY <1>2, <1>3

-----------------------------------------------------------------------------
(* What the Python backend emits.                                          *)

NameIsField(d) == \A n \in Ids(d) : d.nodes[n].name = "" => "name" \in d.nodes[n].unset


\* A Python project is emitted of a clean document of which the backend has
\* nothing to say.
LEMMA PythonFiles ==
  ASSUME NEW d, WellFormed(d), NameIsField(d), generate_python_project(Lowered(d)).how = "files"
  PROVE  /\ Clean(d) /\ SplitProblems(Lowered(d).view) = {}
         /\ _semantic_problems(Lowered(d).view) = {}
         /\ generate_python_project(Lowered(d)).definitions
              = [o \in materialization_boundaries(Lowered(d).view) |-> Definition(Lowered(d).view, o)]
<1> DEFINE low == Lowered(d)
           problems == low.problems \cup _semantic_problems(low.view)
<1>1. /\ ~low.raised /\ ~has_errors(problems) /\ SplitProblems(low.view) = {}
      /\ generate_python_project(low).definitions
           = [o \in materialization_boundaries(low.view) |-> Definition(low.view, o)]
  BY DEF generate_python_project, Raised, Refused, Files
<1>2. ~ValidationRaises(d) /\ low.problems = validate_graph(d)
  BY <1>1, LoweredFacts
<1>3. Clean(d)
  BY <1>1, <1>2 DEF Clean, has_errors, NameIsField
<1>4. \A p \in _semantic_problems(low.view) : p[1] \in Warnings
  BY <1>1 DEF has_errors
<1>5. \A p \in _semantic_problems(low.view) : p[1] \notin Warnings
  <2> DEFINE v == low.view
  <2>1. ASSUME NEW A, NEW B, NEW C, NEW D, NEW E, NEW F,
               _semantic_problems(v) = {<<"SDPS-SDP-001", n>> : n \in A}
                 \cup {<<"SDPS-SDP-002", n>> : n \in B} \cup {<<"SDPS-SDP-003", n>> : n \in C}
                 \cup {<<"SDPS-JOIN-001", n>> : n \in D} \cup {<<"SDPS-SDP-004", n>> : n \in E}
                 \cup {<<"SDPS-CODEGEN-001", n>> : n \in F}
        PROVE  \A p \in _semantic_problems(v) : p[1] \notin Warnings
    BY <2>1 DEF Warnings
  <2> QED BY <2>1 DEF _semantic_problems
<1>6. _semantic_problems(low.view) = {}
  BY <1>4, <1>5
<1> QED BY <1>1, <1>3, <1>6

\* Otherwise nothing is defined.
LEMMA PythonNothing ==
  ASSUME NEW low, generate_python_project(low).how # "files"
  PROVE  DOMAIN generate_python_project(low).definitions = {}
BY DEF generate_python_project, Raised, Refused, Files

\* The backend has nothing to say of the modes, nor of the functions' names.
LEMMA NothingSemantic ==
  ASSUME NEW v, _semantic_problems(v) = {}
  PROVE  /\ \A n \in Ids(v) : v.nodes[n].type = "dataset.materialized_view" => n \notin v.modes
         /\ \A n \in Ids(v) : v.nodes[n].type = "dataset.streaming_table" => n \in v.modes
         /\ \A m, n \in Ids(v) :
              /\ IsOutput(v, m) /\ v.nodes[m].name # "" /\ IsOutput(v, n) /\ v.nodes[n].name # ""
              /\ v.nodes[m].ident = v.nodes[n].ident
              => ~Earlier(v, m, n)
<1>1. ASSUME NEW n \in Ids(v), v.nodes[n].type = "dataset.materialized_view", n \in v.modes PROVE FALSE
  <2>1. <<"SDPS-SDP-001", n>> \in _semantic_problems(v)
    BY <1>1 DEF _semantic_problems
  <2> QED BY <2>1
<1>2. ASSUME NEW n \in Ids(v), v.nodes[n].type = "dataset.streaming_table", n \notin v.modes PROVE FALSE
  <2>1. <<"SDPS-SDP-002", n>> \in _semantic_problems(v)
    BY <1>2 DEF _semantic_problems
  <2> QED BY <2>1
<1>3. ASSUME NEW m \in Ids(v), NEW n \in Ids(v),
             IsOutput(v, m), v.nodes[m].name # "", IsOutput(v, n), v.nodes[n].name # "",
             v.nodes[m].ident = v.nodes[n].ident, Earlier(v, m, n)
      PROVE  FALSE
  <2>1. <<"SDPS-CODEGEN-001", n>> \in _semantic_problems(v)
    BY <1>3 DEF _semantic_problems
  <2> QED BY <2>1
<1> QED BY <1>1, <1>2, <1>3

\* A definition of an output: its statements, one for each node of its scope.
LEMMA DefinitionFacts ==
  ASSUME NEW d, Clean(d), NEW v, Viewed(v, d), NEW o \in materialization_boundaries(v)
  PROVE  \E scope \in Seq(Ids(v)) :
           /\ DOMAIN scope = 1..Len(scope) /\ Len(scope) \in Nat
           /\ Elements(scope) = ScopeOf(v, Parents(v, o))
           /\ \A i \in DOMAIN scope : \A m \in Parents(v, scope[i]) :
                ~IsDataset(v, scope[i]) => \E j \in 1..(i - 1) : j \in DOMAIN scope /\ scope[j] = m
           /\ Definition(v, o).statements = [i \in DOMAIN scope |-> Assignment(v, scope[i])]
           /\ \E e \in v.edges : Incoming(v, o) = {e} /\ Definition(v, o).returns = BranchVar(v, e)
<1> DEFINE S == ScopeOf(v, Parents(v, o))
           scope == Among(v.order, S)
<1>1. Sound(d) /\ Pictures(v, d) /\ Orders(v.order, d)
  BY CleanGraph DEF Viewed
<1>2. Ids(v) = Ids(d) /\ v.edges = d.edges /\ \A n : Parents(v, n) = Parents(d, n) /\ Incoming(v, n) = Incoming(d, n)
  BY <1>1, SameAncestors DEF Pictures
<1>3. Sound(v)
  BY <1>1, ShownIsSound
<1>4. Parents(v, o) \in SUBSET Ids(v)
  BY <1>3, SoundFacts
<1>5. S \subseteq Ids(v) /\ \A n \in S : ~IsDataset(v, n) => Parents(v, n) \subseteq S
  BY <1>3, <1>4, ScopeFacts
<1>6. Definition(v, o).statements = [i \in DOMAIN scope |-> Assignment(v, scope[i])]
  BY DEF Definition, _definition_scope
<1>7. \E e \in v.edges : Incoming(v, o) = {e} /\ Definition(v, o).returns = BranchVar(v, e)
  <2>1. o \in Ids(d) /\ d.nodes[o].type \in Outputs
    BY <1>1 DEF materialization_boundaries, IsOutput, Pictures
  <2>2. PICK e \in d.edges : Incoming(d, o) = {e}
    BY <2>1, CleanPorts
  <2>3. (CHOOSE f \in Incoming(v, o) : TRUE) = e
    BY <1>2, <2>2
  <2>4. Definition(v, o).returns = BranchVar(v, e)
    BY <2>3 DEF Definition
  <2> QED BY <1>2, <2>2, <2>4
<1> HIDE DEF S
<1>8. S \in SUBSET Ids(d)
  BY <1>2, <1>5
<1>9. /\ scope \in Seq(Ids(d)) /\ DOMAIN scope = 1..Len(scope) /\ Len(scope) \in Nat /\ Elements(scope) = S
      /\ \A i \in DOMAIN scope : \A m \in Parents(d, scope[i]) \cap S :
           \E j \in 1..(i - 1) : j \in DOMAIN scope /\ scope[j] = m
  BY <1>1, <1>8, StatementsInOrder
<1> HIDE DEF scope
<1>10. \A i \in DOMAIN scope : scope[i] \in S
  BY <1>9 DEF Elements
<1>11. \A i \in DOMAIN scope : \A m \in Parents(v, scope[i]) :
         ~IsDataset(v, scope[i]) => \E j \in 1..(i - 1) : j \in DOMAIN scope /\ scope[j] = m
  BY <1>2, <1>5, <1>9, <1>10
<1>12. scope \in Seq(Ids(v)) /\ DOMAIN scope = 1..Len(scope) /\ Len(scope) \in Nat
       /\ Elements(scope) = ScopeOf(v, Parents(v, o))
  BY <1>2, <1>9 DEF S
<1> QED BY <1>6, <1>7, <1>11, <1>12

\* On the canvas: the document, its lowering and what they have in common.
LEMMA CanvasFacts ==
  ASSUME OnCanvas
  PROVE  /\ WellFormed(Doc) /\ NameIsField(Doc) /\ lowered = Lowered(Doc)
         /\ python = generate_python_project(Lowered(Doc)) /\ sql = generate_sql_project(Lowered(Doc))
         /\ Doc = lowered.document
<1>1. NameIsField(Doc)
  BY PalettesAssumption DEF OnCanvas, DrawnFrom, NameIsField
<1> QED BY <1>1, DrawnIsWellFormed DEF OnCanvas, Current, Doc

\* What a Python project that is emitted was made of.
Emitted(v) ==
  /\ Clean(Doc) /\ Viewed(v, Doc) /\ v = Lowered(Doc).view
  /\ _semantic_problems(v) = {} /\ SplitProblems(v) = {}
  /\ python.definitions = [o \in materialization_boundaries(v) |-> Definition(v, o)]

LEMMA EmittedPython ==
  ASSUME OnCanvas, python.how = "files"
  PROVE  Emitted(lowered.view)
BY CanvasFacts, PythonFiles, ViewFacts DEF Emitted

LEMMA NoPython ==
  ASSUME OnCanvas, python.how # "files"
  PROVE  DOMAIN python.definitions = {}
BY CanvasFacts, PythonNothing

\* The nodes whose assignments before the i-th bind a name; nodes whose variable
\* is another's; and what PythonNamesResolve says of a name.
Binders(def, i, name) ==
  {def.statements[j].node : j \in {k \in 1..(i - 1) : name \in def.statements[k].bind}}
Shared(d, n) == \E m \in Ids(d) \ {n} : d.nodes[m].tail = d.nodes[n].tail
Resolves(d, def, i, name, n) ==
  \/ name[2] = "accepted"
  \/ /\ \E e \in Incoming(d, n) : e.from \in Binders(def, i, name)
     /\ \A m \in Binders(def, i, name) : (\E e \in Incoming(d, n) : e.from = m) \/ Shared(d, m)

\* An edge into a node, behind the assignment of the node it comes from: what
\* else binds its name has an id of the same tail.
LEMMA BoundByFeeder ==
  ASSUME NEW d, NEW v, Pictures(v, d), NEW scope \in Seq(Ids(v)), DOMAIN scope = 1..Len(scope),
         Len(scope) \in Nat, NEW def,
         def.statements = [k \in DOMAIN scope |-> Assignment(v, scope[k])],
         NEW n, NEW e \in Incoming(d, n), NEW i \in 1..(Len(scope) + 1), NEW j \in 1..(i - 1),
         scope[j] = e.from, NEW name \in Assignment(v, e.from).bind
  PROVE  Resolves(d, def, i, name, n)
<1>1. \A k \in 1..(i - 1) : k \in DOMAIN scope /\ def.statements[k] = Assignment(v, scope[k])
  OBVIOUS
<1>2. \A k \in 1..(i - 1) : scope[k] \in Ids(v) /\ def.statements[k].node = scope[k]
  BY <1>1, AssignmentFacts, ElementsType
<1>3. e.from \in Binders(def, i, name)
  BY <1>1, <1>2 DEF Binders
<1>4. ASSUME NEW m \in Binders(def, i, name), m # e.from
      PROVE  Shared(d, m)
  <2>1. PICK k \in 1..(i - 1) : name \in def.statements[k].bind /\ m = scope[k]
    BY <1>2, <1>4 DEF Binders
  <2>2. name[1] = v.nodes[m].tail /\ name[1] = v.nodes[e.from].tail
    BY <1>1, <2>1, AssignmentFacts
  <2>3. m \in Ids(d) /\ e.from \in Ids(d) /\ v.nodes[m] = d.nodes[m] /\ v.nodes[e.from] = d.nodes[e.from]
    BY <1>2, <2>1 DEF Pictures
  <2> QED BY <1>4, <2>2, <2>3 DEF Shared
<1> QED BY <1>3, <1>4 DEF Resolves

\* The names of one definition.
LEMMA NamesOfDefinition ==
  ASSUME NEW d, Clean(d), NEW v, Viewed(v, d), NEW o \in materialization_boundaries(v),
         NEW def, def = Definition(v, o)
  PROVE  /\ \A i \in DOMAIN def.statements : \A name \in def.statements[i].use :
              Resolves(d, def, i, name, def.statements[i].node)
         /\ Resolves(d, def, Len(def.statements) + 1, def.returns, o)
<1>0. PICK scope \in Seq(Ids(v)) :
           /\ DOMAIN scope = 1..Len(scope) /\ Len(scope) \in Nat
           /\ Elements(scope) = ScopeOf(v, Parents(v, o))
           /\ \A i \in DOMAIN scope : \A m \in Parents(v, scope[i]) :
                ~IsDataset(v, scope[i]) => \E j \in 1..(i - 1) : j \in DOMAIN scope /\ scope[j] = m
           /\ Definition(v, o).statements = [i \in DOMAIN scope |-> Assignment(v, scope[i])]
           /\ \E e \in v.edges : Incoming(v, o) = {e} /\ Definition(v, o).returns = BranchVar(v, e)
  BY DefinitionFacts
<1>1. /\ DOMAIN scope = 1..Len(scope) /\ Len(scope) \in Nat
      /\ Elements(scope) = ScopeOf(v, Parents(v, o))
      /\ \A i \in DOMAIN scope : \A m \in Parents(v, scope[i]) :
           ~IsDataset(v, scope[i]) => \E j \in 1..(i - 1) : j \in DOMAIN scope /\ scope[j] = m
      /\ def.statements = [i \in DOMAIN scope |-> Assignment(v, scope[i])]
      /\ \E e \in v.edges : Incoming(v, o) = {e} /\ def.returns = BranchVar(v, e)
  BY <1>0
<1>2. Pictures(v, d) /\ Sound(d)
  BY CleanGraph DEF Viewed
<1>3. DOMAIN def.statements = DOMAIN scope /\ \A i \in DOMAIN scope : def.statements[i] = Assignment(v, scope[i])
  BY <1>1
<1>7. scope \in Seq(Ids(v)) /\ \A n : Incoming(v, n) = Incoming(d, n)
  BY <1>0, <1>2, SameAncestors
<1>4. ASSUME NEW i \in DOMAIN scope, NEW name \in Assignment(v, scope[i]).use, name[2] # "accepted"
      PROVE  Resolves(d, def, i, name, scope[i])
  <2> DEFINE n == scope[i]
  <2>1. ~IsDataset(v, n) /\ Assignment(v, n).use = {BranchVar(v, e) : e \in _transform_uses(v, n)}
    BY <1>4, AssignmentFacts
  <2>2. PICK e \in _transform_uses(v, n) : name = BranchVar(v, e)
    BY <1>4, <2>1
  <2>3. e \in v.edges /\ e \in Incoming(v, n) /\ e.from \in Parents(v, n)
    BY <2>2 DEF _transform_uses, Incoming, Parents
  <2>4. name \in Assignment(v, e.from).bind
    BY <1>2, <1>4, <2>2, <2>3, EdgeVariable
  <2>5. PICK j \in 1..(i - 1) : j \in DOMAIN scope /\ scope[j] = e.from
    BY <1>1, <2>1, <2>3
  <2>6. i \in 1..(Len(scope) + 1) /\ e \in Incoming(d, n)
    BY <1>1, <1>7, <2>3
  <2> HIDE DEF n
  <2>7. Resolves(d, def, i, name, n)
    BY <1>1, <1>2, <1>7, <2>4, <2>5, <2>6, BoundByFeeder
  <2> QED BY <2>7 DEF n
<1>8. Len(def.statements) = Len(scope)
  <2>1. def.statements \in [1..Len(scope) -> {Assignment(v, n) : n \in Ids(v)}]
    <3>1. \A i \in DOMAIN scope : scope[i] \in Ids(v)
      BY <1>1, <1>7, ElementsType
    <3> QED BY <1>1, <3>1
  <2>2. Len(scope) \in Nat
    BY <1>1
  <2> QED BY <2>1, <2>2, SequenceOf
<1>5. ASSUME def.returns[2] # "accepted"
      PROVE  Resolves(d, def, Len(def.statements) + 1, def.returns, o)
  <2>1. PICK e \in v.edges : Incoming(v, o) = {e} /\ def.returns = BranchVar(v, e)
    BY <1>1
  <2>2. e.from \in Parents(v, o)
    BY <2>1 DEF Parents
  <2>3. def.returns \in Assignment(v, e.from).bind
    BY <1>2, <1>5, <2>1, EdgeVariable
  <2>4. Sound(v) /\ Parents(v, o) \in SUBSET Ids(v)
    <3>1. Sound(v)
      BY <1>2, ShownIsSound
    <3> QED BY <3>1, SoundFacts
  <2>5. Parents(v, o) \subseteq ScopeOf(v, Parents(v, o))
    BY <2>4, ScopeFacts
  <2>6. e.from \in Elements(scope)
    BY <1>1, <2>2, <2>5
  <2>7. PICK j \in DOMAIN scope : scope[j] = e.from
    BY <2>6 DEF Elements
  <2> DEFINE last == Len(scope) + 1
             name == def.returns
  <2>8. last \in 1..(Len(scope) + 1) /\ j \in 1..(last - 1)
    BY <1>1, <2>7
  <2>9. e \in Incoming(d, o)
    BY <1>7, <2>1
  <2> HIDE DEF last, name
  <2>10. name \in Assignment(v, e.from).bind
    BY <2>3 DEF name
  <2>11. Resolves(d, def, last, name, o)
    BY <1>1, <1>2, <1>7, <2>7, <2>8, <2>9, <2>10, BoundByFeeder
  <2> QED BY <1>8, <2>11 DEF last, name
<1>6. ASSUME NEW i \in DOMAIN def.statements, NEW name \in def.statements[i].use
      PROVE  Resolves(d, def, i, name, def.statements[i].node)
  <2>1. def.statements[i].node = scope[i] /\ name \in Assignment(v, scope[i]).use /\ i \in DOMAIN scope
    BY <1>3, <1>6, AssignmentFacts
  <2> QED BY <1>4, <2>1 DEF Resolves
<1>9. Resolves(d, def, Len(def.statements) + 1, def.returns, o)
  <2>1. CASE def.returns[2] = "accepted"
    BY <2>1 DEF Resolves
  <2> QED BY <1>5, <2>1
<1> QED BY <1>6, <1>9

\* Two definitions have different identifiers.
LEMMA FunctionsDiffer ==
  ASSUME NEW d, Clean(d), NEW v, Viewed(v, d), _semantic_problems(v) = {},
         NEW o \in materialization_boundaries(v), NEW p \in materialization_boundaries(v),
         d.nodes[p].ident = d.nodes[o].ident
  PROVE  p = o
<1>1. Ids(v) = Ids(d) /\ \A n \in Ids(d) : v.nodes[n] = d.nodes[n]
  BY DEF Viewed, Pictures
<1>2. /\ o \in Ids(v) /\ IsOutput(v, o) /\ p \in Ids(v) /\ IsOutput(v, p)
      /\ v.nodes[o].ident = v.nodes[p].ident
  BY <1>1 DEF materialization_boundaries
<1>3. v.nodes[o].name # "" /\ v.nodes[p].name # ""
  BY <1>1, <1>2, CleanPorts DEF IsOutput
<1>4. ~Earlier(v, o, p) /\ ~Earlier(v, p, o)
  BY <1>2, <1>3, NothingSemantic
<1>5. v.order \in Seq(Ids(d)) /\ Elements(v.order) = Ids(d)
  BY DEF Viewed, Orders
<1>6. DOMAIN v.order \subseteq Nat
  BY <1>5, LenProperties
<1>7. PICK i \in DOMAIN v.order : v.order[i] = o
  BY <1>1, <1>2, <1>5 DEF Elements
<1>8. PICK j \in DOMAIN v.order : v.order[j] = p
  BY <1>1, <1>2, <1>5 DEF Elements
<1>9. ~(i < j) /\ ~(j < i)
  BY <1>4, <1>7, <1>8 DEF Earlier
<1>10. i = j
  BY <1>6, <1>9
<1> QED BY <1>7, <1>8, <1>10

\* The identifiers of a document are a palette's.
LEMMA FlowsDiffer ==
  ASSUME OnCanvas, NEW m \in Ids(Doc), NEW n \in Ids(Doc),
         Flow(Doc.nodes[m].ident) = Flow(Doc.nodes[n].ident)
  PROVE  Doc.nodes[m].ident = Doc.nodes[n].ident
BY PalettesAssumption DEF OnCanvas, DrawnFrom

\* Whatever is drawn: every name that a generated Python function uses or
\* returns is bound before (python_backend.py) by a node that an edge of the
\* document brings to where it is used, and two functions have different names;
\* the accepted branch of a split, ids of one tail, and a dataset with the name
\* of a sink's flow excepted.
THEOREM NamesAlwaysResolve == Drawing => []PythonNamesResolve
<1>1. ASSUME OnCanvas PROVE PythonNamesResolve
  <2>1. CASE python.how # "files"
    BY <1>1, <2>1, NoPython DEF PythonNamesResolve
  <2>2. CASE python.how = "files"
    <3> DEFINE v == lowered.view
               Sink(n) == Doc.nodes[n].type = "sink.external"
    <3>1. /\ Clean(Doc) /\ Viewed(v, Doc) /\ _semantic_problems(v) = {}
          /\ python.definitions = [o \in materialization_boundaries(v) |-> Definition(v, o)]
      BY <1>1, <2>2, EmittedPython DEF Emitted
    <3> HIDE DEF v
    <3>2. ASSUME NEW o \in materialization_boundaries(v), NEW p \in materialization_boundaries(v) \ {o},
                 FunctionName(Doc.nodes[p]) = FunctionName(Doc.nodes[o])
          PROVE  Sink(p) # Sink(o)
      <4>1. o \in Ids(Doc) /\ p \in Ids(Doc)
        BY <3>1, <3>2 DEF Viewed, Pictures, materialization_boundaries
      <4>2. Doc.nodes[p].ident # Doc.nodes[o].ident
        BY <3>1, <3>2, FunctionsDiffer
      <4>3. CASE Sink(p) /\ Sink(o)
        BY <1>1, <3>2, <4>1, <4>2, <4>3, FlowsDiffer DEF FunctionName
      <4>4. CASE ~Sink(p) /\ ~Sink(o)
        BY <3>2, <4>2, <4>4 DEF FunctionName
      <4> QED BY <4>3, <4>4
    <3>3. ASSUME NEW o \in materialization_boundaries(v), NEW def, def = Definition(v, o)
          PROVE  /\ \A i \in DOMAIN def.statements : \A name \in def.statements[i].use :
                      Resolves(Doc, def, i, name, def.statements[i].node)
                 /\ Resolves(Doc, def, Len(def.statements) + 1, def.returns, o)
      BY <3>1, <3>3, NamesOfDefinition
    <3>4. ASSUME NEW o \in DOMAIN python.definitions
          PROVE  /\ \A i \in DOMAIN python.definitions[o].statements :
                      \A name \in python.definitions[o].statements[i].use :
                        Resolves(Doc, python.definitions[o], i, name, python.definitions[o].statements[i].node)
                 /\ Resolves(Doc, python.definitions[o], Len(python.definitions[o].statements) + 1,
                             python.definitions[o].returns, o)
                 /\ \A p \in DOMAIN python.definitions \ {o} :
                      FunctionName(Doc.nodes[p]) = FunctionName(Doc.nodes[o]) => Sink(p) # Sink(o)
      <4>1. o \in materialization_boundaries(v) /\ DOMAIN python.definitions = materialization_boundaries(v)
        BY <3>1, <3>4
      <4>2. python.definitions[o] = Definition(v, o)
        BY <3>1, <4>1
      <4> QED BY <3>2, <3>3, <4>1, <4>2
    <3> QED BY <3>4, ZenonT(60) DEF PythonNamesResolve, Resolves, Binders, Shared
  <2> QED BY <2>1, <2>2
<1> QED BY <1>1, BlankDrawn, DrawDrawn, PTL DEF Drawing

\* What a statement reads as a stream.
Streams(node) ==
  \/ node.type \in SourceTypes /\ (node.type = "source.kafka" \/ node.streaming)
  \/ node.type = "dataset.streaming_table"

LEMMA StreamRead ==
  ASSUME NEW d, NEW n, NEW r \in Assignment(d, n).reads, r[1] = "stream"
  PROVE  Streams(d.nodes[n])
<1>1. CASE ReadsOutside(d.nodes[n])
  <2>1. Assignment(d, n) = _source_expr(d, n)
    BY <1>1 DEF Assignment
  <2>2. \/ d.nodes[n].type = "source.kafka"
        \/ /\ d.nodes[n].streaming
           /\ d.nodes[n].type \in {"source.table", "source.file", "source.dataset_reference", "source.generic"}
    BY <2>1 DEF _source_expr
  <2> QED BY <2>2, TypeSets DEF Streams
<1>2. CASE ~ReadsOutside(d.nodes[n]) /\ IsDataset(d, n)
  <2>1. Assignment(d, n) = _dataset_reference_expr(d, n)
    BY <1>2 DEF Assignment
  <2> QED BY <2>1 DEF _dataset_reference_expr, Streams
<1>3. CASE ~ReadsOutside(d.nodes[n]) /\ ~IsDataset(d, n)
  BY <1>3, AssignmentFacts
<1> QED BY <1>1, <1>2, <1>3

\* A definition that has a stream in its scope is itself given the mode.
LEMMA StreamsReachTheOutput ==
  ASSUME NEW d, Clean(d), NEW v, v = Lowered(d).view, _semantic_problems(v) = {},
         NEW o \in materialization_boundaries(v),
         NEW m \in ScopeOf(v, Parents(v, o)), Streams(v.nodes[m])
  PROVE  o \in v.modes
<1>1. Viewed(v, d)
  BY ViewFacts
<1>2. PICK g : Pictures(g, d) /\ Orders(topological_order(g), d) /\ v.modes = Modes(g)
  BY ViewFacts
<1>3. /\ Ids(v) = Ids(d) /\ v.edges = d.edges /\ \A n \in Ids(d) : v.nodes[n] = d.nodes[n]
      /\ \A n : Parents(v, n) = Parents(d, n)
  BY <1>1, SameAncestors DEF Viewed, Pictures
<1>4. /\ \A n \in Ids(d) : d.nodes[n].type \in SourceTypes
           /\ (d.nodes[n].type = "source.kafka" \/ d.nodes[n].streaming) => n \in v.modes
      /\ \A e \in d.edges : e.from \in v.modes /\ e.to \in Ids(d)
           /\ d.nodes[e.to].type \notin SourceTypes => e.to \in v.modes
  BY <1>2, ModesFacts
<1>5. Sound(v)
  BY <1>1, CleanGraph, ShownIsSound DEF Viewed
<1>6. Parents(v, o) \in SUBSET Ids(v) /\ \A n : Parents(v, n) \subseteq Ids(v)
  BY <1>5, SoundFacts
<1>7. m \in Ids(v)
  BY <1>5, <1>6, ScopeFacts
<1>8. m \in v.modes
  BY <1>3, <1>4, <1>7, NothingSemantic DEF Streams
<1>9. o \in Ids(d) /\ d.nodes[o].type \notin SourceTypes
  BY <1>3, TypeSets DEF materialization_boundaries, IsOutput
<1> DEFINE T == {n \in Ids(d) : n \notin v.modes}
<1>10. ASSUME NEW n \in Ids(d), n \notin v.modes PROVE Parents(v, n) \subseteq T
  <2> SUFFICES ASSUME NEW e \in d.edges, e.to = n PROVE e.from \in Ids(d) /\ e.from \notin v.modes
    BY <1>3 DEF Parents, Incoming
  <2>1. e.from \in Ids(d)
    BY CleanEdges DEF Joined
  <2>2. d.nodes[n].type \notin SourceTypes
    BY <1>10, CleanPorts DEF Incoming
  <2> QED BY <1>4, <1>10, <2>1, <2>2
<1>11. \A n \in T \cap Ids(v) : ~IsDataset(v, n) => Parents(v, n) \subseteq T
  BY <1>10
<1>12. Parents(v, o) \subseteq T => ScopeOf(v, Parents(v, o)) \subseteq T
  <2> HIDE DEF T
  <2> QED BY <1>5, <1>6, <1>11, ScopeFacts
<1> QED BY <1>8, <1>9, <1>10, <1>12

\* The scope of a definition is what its statements are about.
LEMMA StatementsOfScope ==
  ASSUME NEW d, Clean(d), NEW v, Viewed(v, d), NEW o \in materialization_boundaries(v)
  PROVE  /\ \A i \in DOMAIN Definition(v, o).statements :
              \E m \in ScopeOf(v, Parents(v, o)) : Definition(v, o).statements[i] = Assignment(v, m)
         /\ \A m \in ScopeOf(v, Parents(v, o)) :
              \E i \in DOMAIN Definition(v, o).statements : Definition(v, o).statements[i] = Assignment(v, m)
<1>1. PICK scope \in Seq(Ids(v)) :
           /\ DOMAIN scope = 1..Len(scope) /\ Len(scope) \in Nat
           /\ Elements(scope) = ScopeOf(v, Parents(v, o))
           /\ \A i \in DOMAIN scope : \A m \in Parents(v, scope[i]) :
                ~IsDataset(v, scope[i]) => \E j \in 1..(i - 1) : j \in DOMAIN scope /\ scope[j] = m
           /\ Definition(v, o).statements = [i \in DOMAIN scope |-> Assignment(v, scope[i])]
           /\ \E e \in v.edges : Incoming(v, o) = {e} /\ Definition(v, o).returns = BranchVar(v, e)
  BY DefinitionFacts
<1>2. Elements(scope) = ScopeOf(v, Parents(v, o))
      /\ Definition(v, o).statements = [i \in DOMAIN scope |-> Assignment(v, scope[i])]
  BY <1>1
<1> QED BY <1>2 DEF Elements

\* A runtime of batches is accepted for a document without any stream.
LEMMA BatchDocument ==
  ASSUME NEW d, validate_capabilities(d.nodes, BatchRuntime) = {}
  PROVE  \A n \in Ids(d) : /\ d.nodes[n].type \in Outputs => d.nodes[n].type \in BatchRuntime.present
                           /\ ~Streams(d.nodes[n])
<1>1. RequiredCapabilities(d.nodes) \subseteq BatchRuntime.present
  BY DEF validate_capabilities
<1>2. BatchRuntime.present = {"dataset.materialized_view", "dataset.temporary_view"}
  BY DEF BatchRuntime
<1>3. \A n \in Ids(d) : d.nodes[n].type \in DatasetTypes => d.nodes[n].type \in BatchRuntime.present
  BY <1>1 DEF RequiredCapabilities, Ids
<1>4. \A n \in Ids(d) : d.nodes[n].type # "sink.external"
  <2>1. "sink" \notin RequiredCapabilities(d.nodes)
    BY <1>1, <1>2
  <2> QED BY <2>1 DEF RequiredCapabilities, Ids
<1>5. \A n \in Ids(d) : d.nodes[n].type # "source.kafka" /\ ~d.nodes[n].streaming
  <2>1. "dataset.streaming_table" \notin RequiredCapabilities(d.nodes)
    BY <1>1, <1>2
  <2> QED BY <2>1 DEF RequiredCapabilities, Ids
<1>6. \A n \in Ids(d) : d.nodes[n].type # "dataset.streaming_table"
  <2>1. "dataset.streaming_table" \in DatasetTypes
    BY TypeSets DEF DatasetTypes
  <2> QED BY <1>2, <1>3, <2>1
<1>7. \A n \in Ids(d) : d.nodes[n].type \in Outputs => d.nodes[n].type \in BatchRuntime.present
  BY <1>3, <1>4 DEF DatasetTypes
<1> QED BY <1>5, <1>6, <1>7 DEF Streams

\* Whatever is drawn: a definition that is computed as a batch, a materialized
\* view or anything on a runtime without streaming, reads no stream
\* (python_backend.py, ir.py:239-256, capabilities of the runtime).
THEOREM StreamsStayWhereAllowed == Drawing => []StreamsOnlyWhereAllowed
<1>1. ASSUME OnCanvas PROVE StreamsOnlyWhereAllowed
  <2>1. CASE python.how # "files"
    BY <1>1, <2>1, NoPython DEF StreamsOnlyWhereAllowed
  <2>2. CASE python.how = "files"
    <3> DEFINE v == lowered.view
               batch == validate_capabilities(Doc.nodes, BatchRuntime) = {}
    <3>1. /\ Clean(Doc) /\ Viewed(v, Doc) /\ v = Lowered(Doc).view /\ _semantic_problems(v) = {}
          /\ python.definitions = [o \in materialization_boundaries(v) |-> Definition(v, o)]
      BY <1>1, <2>2, EmittedPython DEF Emitted
    <3> HIDE DEF v
    <3> SUFFICES ASSUME NEW o \in materialization_boundaries(v)
                 PROVE  /\ batch => Doc.nodes[o].type \in BatchRuntime.present
                        /\ batch \/ Doc.nodes[o].type = "dataset.materialized_view" =>
                             \A i \in DOMAIN Definition(v, o).statements :
                               \A r \in Definition(v, o).statements[i].reads : r[1] # "stream"
      BY <3>1 DEF StreamsOnlyWhereAllowed
    <3>2. /\ Ids(v) = Ids(Doc) /\ \A n \in Ids(Doc) : v.nodes[n] = Doc.nodes[n]
          /\ o \in Ids(Doc) /\ Doc.nodes[o].type \in Outputs
      BY <3>1 DEF Viewed, Pictures, materialization_boundaries, IsOutput
    <3>3. batch => Doc.nodes[o].type \in BatchRuntime.present
      BY <3>2, BatchDocument
    <3>4. ASSUME batch \/ Doc.nodes[o].type = "dataset.materialized_view",
                 NEW i \in DOMAIN Definition(v, o).statements,
                 NEW r \in Definition(v, o).statements[i].reads, r[1] = "stream"
          PROVE  FALSE
      <4>1. PICK m \in ScopeOf(v, Parents(v, o)) : Definition(v, o).statements[i] = Assignment(v, m)
        BY <3>1, StatementsOfScope
      <4>2. Streams(v.nodes[m])
        BY <3>4, <4>1, StreamRead
      <4>3. m \in Ids(v)
        <5>1. Sound(v)
          BY <3>1, CleanGraph, ShownIsSound DEF Viewed
        <5>2. Parents(v, o) \in SUBSET Ids(v)
          BY <5>1, SoundFacts
        <5> QED BY <5>1, <5>2, ScopeFacts
      <4>4. o \in v.modes
        BY <3>1, <4>2, StreamsReachTheOutput
      <4>5. Doc.nodes[o].type # "dataset.materialized_view"
        BY <3>1, <3>2, <4>4, NothingSemantic
      <4>6. ~batch
        BY <3>2, <4>2, <4>3, BatchDocument
      <4> QED BY <3>4, <4>5, <4>6
    <3> QED BY <3>3, <3>4
  <2> QED BY <2>1, <2>2
<1> QED BY <1>1, BlankDrawn, DrawDrawn, PTL DEF Drawing

-----------------------------------------------------------------------------
(* What SQL can express.                                                   *)

SqlTypes == SqlSources \cup SqlTwoSided \cup SqlTransforms \cup {"quality.quarantine_split"}

\* A node whose inputs all have an expression in `known`.
Supplied(d, n, known) == \A e \in Incoming(d, n) : \E q : <<e.from, q>> \in known

LEMMA AbleFacts ==
  ASSUME NEW d, NEW n, NEW port, NEW known, Able(d, n, port, known)
  PROVE  d.nodes[n].type \in SqlTypes /\ (ReadsOutside(d.nodes[n]) \/ Supplied(d, n, known))
<1>1. CASE ReadsOutside(d.nodes[n])
  BY <1>1 DEF Able, SqlTypes
<1>2. CASE ~ReadsOutside(d.nodes[n]) /\ d.nodes[n].type \in SqlTwoSided
  BY <1>2 DEF Able, SqlTypes, Supplied
<1>3. CASE /\ ~ReadsOutside(d.nodes[n]) /\ d.nodes[n].type \notin SqlTwoSided
           /\ d.nodes[n].type = "quality.quarantine_split"
  BY <1>3 DEF Able, SqlTypes, Supplied
<1>4. CASE /\ ~ReadsOutside(d.nodes[n]) /\ d.nodes[n].type \notin SqlTwoSided
           /\ d.nodes[n].type # "quality.quarantine_split"
  BY <1>4 DEF Able, SqlTypes, Supplied
<1> QED BY <1>1, <1>2, <1>3, <1>4

\* Expressions are found along the order.
LEMMA ExpressibleLoop ==
  ASSUME NEW v, v.order \in Seq(Ids(v))
  PROVE  \E f \in [0..Len(v.order) -> SUBSET (Ids(v) \X SqlPorts)] :
           /\ f[0] = {}
           /\ \A i \in 1..Len(v.order) :
                f[i] = f[i - 1] \cup
                         {<<v.order[i], p>> : p \in {q \in SqlPorts : Able(v, v.order[i], q, f[i - 1])}}
           /\ Expressible(v) = f[Len(v.order)]
<1> DEFINE order == v.order
           Pairs == Ids(v) \X SqlPorts
           after(i, set) == set \cup {<<order[i], p>> : p \in {q \in SqlPorts : Able(v, order[i], q, set)}}
<1>0. SUFFICES ASSUME NEW K \in Nat, K = Len(order)
             PROVE  \E f \in [0..K -> SUBSET Pairs] :
                      f[0] = {} /\ (\A i \in 1..K : f[i] = after(i, f[i - 1])) /\ Expressible(v) = f[K]
  BY LenProperties
<1>1. \A i \in 1..K : order[i] \in Ids(v)
  BY <1>0, ElementOfSeq
<1> DEFINE Collected(f) == f = [i \in 0..K |-> IF i = 0 THEN {} ELSE after(i, f[i - 1])]
           body == [i \in 1..K |-> [set \in SUBSET Pairs |-> after(i, set)]]
<1>2. Expressible(v) = (CHOOSE f : Collected(f))[K]
  BY <1>0 DEF Expressible
<1>3. body \in [1..K -> [SUBSET Pairs -> SUBSET Pairs]]
  <2>1. \A i \in 1..K : \A set \in SUBSET Pairs : after(i, set) \in SUBSET Pairs
    BY <1>1
  <2> HIDE DEF after, Pairs
  <2> QED BY <2>1
<1> HIDE DEF order, after, Pairs
<1>4. Steps(SUBSET Pairs, {}, K, body)
  BY <1>3 DEF Steps
<1>5. PICK f : Iterates(SUBSET Pairs, {}, K, body, f)
  BY <1>4, Iteration
<1>6. f \in [0..K -> SUBSET Pairs] /\ f[0] = {} /\ \A i \in 1..K : f[i] = body[i][f[i - 1]]
  BY <1>5 DEF Iterates
<1>7. ASSUME NEW i \in 1..K PROVE f[i] = after(i, f[i - 1])
  <2>1. i - 1 \in 0..K /\ f[i - 1] \in SUBSET Pairs
    BY <1>6
  <2> QED BY <1>6, <2>1
<1>8. Collected(f)
  <2>1. \A i \in 0..K : f[i] = IF i = 0 THEN {} ELSE after(i, f[i - 1])
    BY <1>6, <1>7
  <2> QED BY <1>6, <2>1
<1> DEFINE given == CHOOSE h : Collected(h)
<1>9. Collected(given)
  <2> HIDE DEF Collected
  <2> QED BY <1>8
<1>10. Expressible(v) = given[K]
  BY <1>2
<1> HIDE DEF given
<1>11. given[0] = {} /\ \A i \in 1..K : given[i - 1] \in SUBSET Pairs => given[i] = body[i][given[i - 1]]
  <2>1. 0 \in 0..K /\ \A i \in 1..K : i \in 0..K /\ i # 0
    OBVIOUS
  <2>2. given[0] = {} /\ \A i \in 1..K : given[i] = after(i, given[i - 1])
    BY <1>9, <2>1
  <2> QED BY <2>2
<1> HIDE DEF body, Collected
<1>12. given[K] = f[K]
  <2> DEFINE X == SUBSET Pairs
             none == {}
  <2>1. Steps(X, none, K, body) /\ Iterates(X, none, K, body, f)
    BY <1>4, <1>5
  <2>2. given[0] = none /\ \A i \in 1..K : given[i - 1] \in X => given[i] = body[i][given[i - 1]]
    BY <1>11
  <2> HIDE DEF X, none
  <2> QED BY <2>1, <2>2, IterationUnique
<1>13. \A i \in 1..K : f[i] = after(i, f[i - 1])
  BY <1>7
<1> QED BY <1>6, <1>10, <1>12, <1>13

\* What has an expression is of a type SQL knows, and its inputs have one.
LEMMA ExpressibleFacts ==
  ASSUME NEW v, v.order \in Seq(Ids(v)), NEW n, NEW port, <<n, port>> \in Expressible(v)
  PROVE  /\ n \in Ids(v) /\ v.nodes[n].type \in SqlTypes
         /\ ReadsOutside(v.nodes[n]) \/ Supplied(v, n, Expressible(v))
<1> DEFINE order == v.order
           Pairs == Ids(v) \X SqlPorts
           Good(m) == /\ v.nodes[m].type \in SqlTypes
                      /\ ReadsOutside(v.nodes[m]) \/ Supplied(v, m, Expressible(v))
<1>1. PICK f \in [0..Len(order) -> SUBSET Pairs] :
           /\ f[0] = {}
           /\ \A i \in 1..Len(order) :
                f[i] = f[i - 1] \cup
                         {<<order[i], p>> : p \in {q \in SqlPorts : Able(v, order[i], q, f[i - 1])}}
           /\ Expressible(v) = f[Len(order)]
  BY ExpressibleLoop
<1>2. Len(order) \in Nat
  BY LenProperties
<1> HIDE DEF order, Pairs
<1>3. \A i \in 1..Len(order) : f[i - 1] \subseteq f[i]
  BY <1>1
<1>4. \A i \in 0..Len(order) : f[i] \subseteq Expressible(v)
  <2> SUFFICES ASSUME NEW i \in 0..Len(order) PROVE f[i] \subseteq f[Len(order)]
    BY <1>1
  <2>1. Len(order) \in i..Len(order)
    BY <1>2
  <2> QED BY <1>2, <1>3, <2>1, Grows
<1> DEFINE S == {i \in Nat : i <= Len(order) => \A m, p : <<m, p>> \in f[i] => Good(m)}
<1>5. 0 \in S
  BY <1>1
<1>6. ASSUME NEW i \in Nat, i \in S PROVE i + 1 \in S
  <2> SUFFICES ASSUME i + 1 <= Len(order), NEW m, NEW p, <<m, p>> \in f[i + 1] PROVE Good(m)
    BY <1>6
  <2>1. i \in 0..Len(order) /\ i + 1 \in 1..Len(order) /\ (i + 1) - 1 = i
    BY <1>2
  <2>2. CASE <<m, p>> \in f[i]
    BY <1>6, <2>1, <2>2
  <2>3. CASE <<m, p>> \notin f[i]
    <3>1. f[i + 1] = f[i] \cup {<<order[i + 1], q>> : q \in {r \in SqlPorts : Able(v, order[i + 1], r, f[i])}}
      <4>1. f[i + 1] = f[(i + 1) - 1] \cup
              {<<order[i + 1], q>> : q \in {r \in SqlPorts : Able(v, order[i + 1], r, f[(i + 1) - 1])}}
        BY <1>1, <2>1
      <4> QED BY <2>1, <4>1
    <3>2. PICK q \in SqlPorts : <<m, p>> = <<order[i + 1], q>> /\ Able(v, order[i + 1], q, f[i])
      BY <2>3, <3>1
    <3>3. Able(v, m, q, f[i])
      BY <3>2
    <3>4. v.nodes[m].type \in SqlTypes /\ (ReadsOutside(v.nodes[m]) \/ Supplied(v, m, f[i]))
      BY <3>3, AbleFacts
    <3>5. Supplied(v, m, f[i]) => Supplied(v, m, Expressible(v))
      BY <1>4, <2>1 DEF Supplied
    <3> QED BY <3>4, <3>5
  <2> QED BY <2>2, <2>3
<1> HIDE DEF S, Good
<1>7. \A i \in Nat : i \in S
  BY <1>5, <1>6, Induction
<1>8. Len(order) \in S
  BY <1>2, <1>7
<1>9. Good(n)
  BY <1>1, <1>2, <1>8 DEF S
<1>10. n \in Ids(v)
  <2>1. Expressible(v) \subseteq Pairs
    BY <1>1, <1>2
  <2> QED BY <2>1 DEF Pairs
<1> QED BY <1>9, <1>10 DEF Good

LEMMA SqlTypesFacts ==
  SqlTypes \cap (DatasetTypes \cup {"utility.custom_code", "transform.drop", "transform.flatten_struct"}) = {}
BY TypeSets DEF SqlTypes, SqlSources, SqlTwoSided, SqlTransforms, DatasetTypes

\* Behind an input with an expression SQL knows every type, so no dataset.
LEMMA ExpressibleBehind ==
  ASSUME NEW d, Clean(d), NEW v, Viewed(v, d), NEW o \in Ids(v),
         \A e \in Incoming(v, o) : <<e.from, e.fport>> \in Expressible(v)
  PROVE  /\ \A n \in ancestors(v, o) : v.nodes[n].type \in SqlTypes
         /\ ScopeOf(v, Parents(v, o)) = ancestors(v, o)
<1> DEFINE X == {n \in Ids(v) : \E p : <<n, p>> \in Expressible(v)}
<1>1. Sound(v) /\ Pictures(v, d) /\ v.order \in Seq(Ids(v))
  BY CleanGraph, ShownIsSound DEF Viewed, Orders, Pictures
<1>2. Ids(v) = Ids(d) /\ \A n \in Ids(v) : v.nodes[n] = d.nodes[n] /\ Incoming(v, n) = Incoming(d, n)
  BY <1>1, SameAncestors DEF Pictures
<1>3. \A n, p : <<n, p>> \in Expressible(v) =>
        n \in Ids(v) /\ v.nodes[n].type \in SqlTypes
        /\ (ReadsOutside(v.nodes[n]) \/ Supplied(v, n, Expressible(v)))
  BY <1>1, ExpressibleFacts
<1>4. Parents(v, o) \subseteq X
  BY <1>3 DEF Parents
<1>5. ASSUME NEW n \in X PROVE Parents(v, n) \subseteq X
  <2>1. v.nodes[n].type \in SourceTypes \cup {"utility.component_input"} => Incoming(v, n) = {}
    BY <1>2, CleanPorts
  <2>2. ReadsOutside(v.nodes[n]) => Incoming(v, n) = {}
    BY <2>1 DEF ReadsOutside
  <2>3. Supplied(v, n, Expressible(v))
    BY <1>3, <2>2 DEF Supplied
  <2>4. \A e \in Incoming(v, n) : e.from \in X
    BY <1>3, <2>3 DEF Supplied
  <2> HIDE DEF X
  <2> QED BY <2>4 DEF Parents
<1>6. \A n \in X : v.nodes[n].type \in SqlTypes
  BY <1>3
<1> HIDE DEF X
<1>7. ancestors(v, o) \subseteq X
  BY <1>1, <1>4, <1>5, AncestorsFacts
<1>8. \A n \in ancestors(v, o) : v.nodes[n].type \in SqlTypes
  BY <1>6, <1>7
<1>9. \A n \in ancestors(v, o) : ~IsDataset(v, n)
  BY <1>8, SqlTypesFacts DEF IsDataset
<1> DEFINE S == ScopeOf(v, Parents(v, o))
<1>10. Parents(v, o) \in SUBSET Ids(v)
  BY <1>1, SoundFacts
<1>11. /\ Parents(v, o) \subseteq ancestors(v, o) /\ \A m \in ancestors(v, o) : Parents(v, m) \subseteq ancestors(v, o)
       /\ ancestors(v, o) \subseteq Ids(v)
  BY <1>1, AncestorsFacts
<1>12. S \subseteq ancestors(v, o)
  BY <1>1, <1>10, <1>11, ScopeFacts
<1>13. Parents(v, o) \subseteq S /\ \A n \in S : ~IsDataset(v, n) => Parents(v, n) \subseteq S
  BY <1>1, <1>10, ScopeFacts
<1> HIDE DEF S
<1>14. \A n \in S \cap Ids(v) : Parents(v, n) \subseteq S
  BY <1>9, <1>12, <1>13
<1>15. ancestors(v, o) \subseteq S
  BY <1>1, <1>13, <1>14, AncestorsFacts
<1> QED BY <1>8, <1>12, <1>15 DEF S

\* A SQL project is emitted of a clean document whose datasets are expressible.
LEMMA SqlFiles ==
  ASSUME NEW d, WellFormed(d), NameIsField(d), ~Lowered(d).raised,
         generate_sql_project(Lowered(d)).how # "refused"
  PROVE  /\ Clean(d) /\ generate_sql_project(Lowered(d)).how = "files"
         /\ \A o \in Ids(Lowered(d).view) : IsDataset(Lowered(d).view, o) =>
              \A e \in Incoming(Lowered(d).view, o) : <<e.from, e.fport>> \in Expressible(Lowered(d).view)
         /\ generate_sql_project(Lowered(d)).definitions
              = [o \in {n \in Ids(Lowered(d).view) : IsDataset(Lowered(d).view, n)} |-> SqlReads(Lowered(d).view, o)]
<1> DEFINE low == Lowered(d)
           v == low.view
           open == {o \in {n \in Ids(v) : IsDataset(v, n)} :
                      \E e \in Incoming(v, o) : <<e.from, e.fport>> \notin Expressible(v)}
<1> HIDE DEF low
<1>1. /\ ~has_errors(low.problems) /\ {<<"SDPS-CODEGEN-001", o>> : o \in open} = {}
      /\ generate_sql_project(low).how = "files"
      /\ generate_sql_project(low).definitions = [o \in {n \in Ids(v) : IsDataset(v, n)} |-> SqlReads(v, o)]
  BY DEF generate_sql_project, Raised, Refused, Files, low
<1>2. ~ValidationRaises(d) /\ low.problems = validate_graph(d)
  BY LoweredFacts DEF low
<1>3. Clean(d)
  BY <1>1, <1>2 DEF Clean, NameIsField
<1>4. open = {}
  BY <1>1
<1> QED BY <1>1, <1>3, <1>4 DEF low

\* What the statements of a definition read: the sources and datasets of its
\* scope.
LEMMA ReadsOfDefinition ==
  ASSUME NEW d, Clean(d), NEW v, Viewed(v, d), NEW o \in materialization_boundaries(v)
  PROVE  UNION {{r[2] : r \in Definition(v, o).statements[i].reads} : i \in DOMAIN Definition(v, o).statements}
           = {m \in ScopeOf(v, Parents(v, o)) : ReadsOutside(v.nodes[m]) \/ IsDataset(v, m)}
<1> DEFINE def == Definition(v, o)
           S == ScopeOf(v, Parents(v, o))
           Outside(m) == ReadsOutside(v.nodes[m]) \/ IsDataset(v, m)
<1>1. /\ \A i \in DOMAIN def.statements : \E m \in S : def.statements[i] = Assignment(v, m)
      /\ \A m \in S : \E i \in DOMAIN def.statements : def.statements[i] = Assignment(v, m)
  BY StatementsOfScope
<1>2. \A m : /\ Outside(m) => {r[2] : r \in Assignment(v, m).reads} = {m}
             /\ ~Outside(m) => {r[2] : r \in Assignment(v, m).reads} = {}
  <2> SUFFICES ASSUME NEW m
               PROVE  /\ Outside(m) => {r[2] : r \in Assignment(v, m).reads} = {m}
                      /\ ~Outside(m) => {r[2] : r \in Assignment(v, m).reads} = {}
    OBVIOUS
  <2>1. CASE Outside(m)
    <3>1. PICK kind \in {"stream", "table"} : Assignment(v, m).reads = {<<kind, m>>}
      BY <2>1, AssignmentFacts
    <3> QED BY <2>1, <3>1
  <2>2. CASE ~Outside(m)
    BY <2>2, AssignmentFacts
  <2> QED BY <2>1, <2>2
<1> HIDE DEF def, S, Outside
<1>3. ASSUME NEW i \in DOMAIN def.statements, NEW x \in {r[2] : r \in def.statements[i].reads}
      PROVE  x \in S /\ Outside(x)
  <2>1. PICK m \in S : def.statements[i] = Assignment(v, m)
    BY <1>1
  <2>2. x \in {r[2] : r \in Assignment(v, m).reads}
    BY <1>3, <2>1
  <2> QED BY <1>2, <2>2
<1>4. ASSUME NEW m \in S, Outside(m)
      PROVE  \E i \in DOMAIN def.statements : m \in {r[2] : r \in def.statements[i].reads}
  <2>1. PICK i \in DOMAIN def.statements : def.statements[i] = Assignment(v, m)
    BY <1>1
  <2>2. m \in {r[2] : r \in Assignment(v, m).reads}
    BY <1>2, <1>4
  <2> QED BY <2>1, <2>2
<1>5. UNION {{r[2] : r \in def.statements[i].reads} : i \in DOMAIN def.statements} = {m \in S : Outside(m)}
  BY <1>3, <1>4
<1> QED BY <1>5 DEF def, S, Outside

\* Whatever is drawn: when both backends emit, SQL defines the datasets of the
\* Python project, each from the same tables (sql_backend.py, python_backend.py).
THEOREM BackendsAlwaysAgree == Drawing => []BackendsAgree
<1>1. ASSUME OnCanvas PROVE BackendsAgree
  <2> DEFINE v == lowered.view
  <2> SUFFICES ASSUME python.how = "files", sql.how = "files"
               PROVE  /\ DOMAIN sql.definitions = {o \in DOMAIN python.definitions : IsDataset(Doc, o)}
                      /\ \A o \in DOMAIN sql.definitions :
                           UNION {{r[2] : r \in python.definitions[o].statements[i].reads} :
                                    i \in DOMAIN python.definitions[o].statements}
                             = {r[2] : r \in sql.definitions[o]}
    BY DEF BackendsAgree
  <2>1. /\ Clean(Doc) /\ Viewed(v, Doc) /\ v = Lowered(Doc).view
        /\ python.definitions = [o \in materialization_boundaries(v) |-> Definition(v, o)]
    BY <1>1, EmittedPython DEF Emitted
  <2>2. ~Lowered(Doc).raised /\ sql = generate_sql_project(Lowered(Doc)) /\ WellFormed(Doc) /\ NameIsField(Doc)
    BY <1>1, <2>1, CanvasFacts, LoweredFacts DEF Clean
  <2>3. /\ \A o \in Ids(v) : IsDataset(v, o) =>
             \A e \in Incoming(v, o) : <<e.from, e.fport>> \in Expressible(v)
        /\ sql.definitions = [o \in {n \in Ids(v) : IsDataset(v, n)} |-> SqlReads(v, o)]
    BY <2>1, <2>2, SqlFiles
  <2> HIDE DEF v
  <2>4. Ids(v) = Ids(Doc) /\ \A n \in Ids(v) : IsDataset(v, n) = IsDataset(Doc, n)
    BY <2>1, SameDocument DEF Viewed, Pictures
  <2>5. \A n : IsDataset(v, n) => IsOutput(v, n)
    BY DEF IsDataset, IsOutput, DatasetTypes
  <2>6. DOMAIN sql.definitions = {o \in DOMAIN python.definitions : IsDataset(Doc, o)}
    BY <2>1, <2>3, <2>4, <2>5 DEF materialization_boundaries
  <2>7. ASSUME NEW o \in DOMAIN sql.definitions
        PROVE  UNION {{r[2] : r \in python.definitions[o].statements[i].reads} :
                        i \in DOMAIN python.definitions[o].statements}
                 = {r[2] : r \in sql.definitions[o]}
    <3>1. o \in Ids(v) /\ IsDataset(v, o) /\ o \in materialization_boundaries(v)
      BY <2>3, <2>5 DEF materialization_boundaries
    <3>2. python.definitions[o] = Definition(v, o) /\ sql.definitions[o] = SqlReads(v, o)
      BY <2>1, <2>3, <3>1
    <3>3. \A e \in Incoming(v, o) : <<e.from, e.fport>> \in Expressible(v)
      BY <2>3, <3>1
    <3>4. /\ \A n \in ancestors(v, o) : v.nodes[n].type \in SqlTypes
          /\ ScopeOf(v, Parents(v, o)) = ancestors(v, o)
      BY <2>1, <3>1, <3>3, ExpressibleBehind
    <3>5. \A n \in ancestors(v, o) : ~IsDataset(v, n)
      BY <3>4, SqlTypesFacts DEF IsDataset
    <3>6. {r[2] : r \in SqlReads(v, o)} = {m \in ancestors(v, o) : ReadsOutside(v.nodes[m])}
      <4> DEFINE R == {m \in ancestors(v, o) : ReadsOutside(v.nodes[m])}
      <4>1. SqlReads(v, o) = {<<"table", m>> : m \in R}
        BY DEF SqlReads
      <4> HIDE DEF R
      <4>2. ASSUME NEW m \in R PROVE m \in {r[2] : r \in SqlReads(v, o)}
        <5>1. <<"table", m>> \in SqlReads(v, o) /\ <<"table", m>>[2] = m
          BY <4>1
        <5> QED BY <5>1
      <4>3. ASSUME NEW r \in SqlReads(v, o) PROVE r[2] \in R
        <5>1. PICK m \in R : r = <<"table", m>>
          BY <4>1
        <5> QED BY <5>1
      <4>4. {r[2] : r \in SqlReads(v, o)} = R
        BY <4>2, <4>3
      <4> QED BY <4>4 DEF R
    <3>7. UNION {{r[2] : r \in Definition(v, o).statements[i].reads} : i \in DOMAIN Definition(v, o).statements}
            = {m \in ancestors(v, o) : ReadsOutside(v.nodes[m]) \/ IsDataset(v, m)}
      <4>1. UNION {{r[2] : r \in Definition(v, o).statements[i].reads} : i \in DOMAIN Definition(v, o).statements}
              = {m \in ScopeOf(v, Parents(v, o)) : ReadsOutside(v.nodes[m]) \/ IsDataset(v, m)}
        BY <2>1, <3>1, ReadsOfDefinition
      <4> QED BY <3>4, <4>1
    <3>8. {m \in ancestors(v, o) : ReadsOutside(v.nodes[m]) \/ IsDataset(v, m)}
            = {m \in ancestors(v, o) : ReadsOutside(v.nodes[m])}
      BY <3>5
    <3> QED BY <3>2, <3>6, <3>7, <3>8
  <2> QED BY <2>6, <2>7
<1> QED BY <1>1, BlankDrawn, DrawDrawn, PTL DEF Drawing

\* Whatever is drawn: the plan gives a dataset to Python (planner.py) only where
\* the SQL backend would refuse the project, the set operations apart.
THEOREM PythonAlwaysForCause == Drawing => []PythonOnlyForCause
<1>1. ASSUME OnCanvas PROVE PythonOnlyForCause
  <2> DEFINE v == lowered.view
             plan == plan_pipeline(lowered)
  <2> SUFFICES ASSUME ~lowered.raised, NEW o \in DOMAIN plan, plan[o] = "python",
                      \A n \in ancestors(Doc, o) :
                        Doc.nodes[n].type \notin {"transform.intersect", "transform.except"},
                      sql.how # "refused"
               PROVE  FALSE
    BY DEF PythonOnlyForCause
  <2>1. lowered = Lowered(Doc) /\ sql = generate_sql_project(Lowered(Doc)) /\ WellFormed(Doc) /\ NameIsField(Doc)
    BY <1>1, CanvasFacts
  <2>2. /\ Clean(Doc)
        /\ \A p \in Ids(v) : IsDataset(v, p) =>
             \A e \in Incoming(v, p) : <<e.from, e.fport>> \in Expressible(v)
    BY <2>1, SqlFiles
  <2>3. Viewed(v, Doc)
    BY <2>1, <2>2, ViewFacts
  <2>4. o \in Ids(v) /\ IsDataset(v, o)
    BY DEF plan_pipeline
  <2>5. PICK n \in ancestors(v, o) : v.nodes[n].type \in _SQL_UNSUPPORTED
    BY <2>4 DEF plan_pipeline
  <2>6. n \in ancestors(Doc, o) /\ v.nodes[n] = Doc.nodes[n]
    <3>1. Sound(v) /\ Pictures(v, Doc)
      BY <2>2, <2>3, CleanGraph, ShownIsSound DEF Viewed
    <3>2. n \in Ids(v)
      BY <2>4, <3>1, AncestorsFacts
    <3>3. ancestors(v, o) = ancestors(Doc, o)
      BY <3>1, SameAncestors
    <3> QED BY <3>1, <3>2, <3>3 DEF Pictures
  <2>7. v.nodes[n].type \in {"utility.custom_code", "transform.drop", "transform.flatten_struct"}
    BY <2>5, <2>6 DEF _SQL_UNSUPPORTED
  <2> HIDE DEF v
  <2>8. v.nodes[n].type \in SqlTypes
    BY <2>2, <2>3, <2>4, ExpressibleBehind
  <2> QED BY <2>7, <2>8, SqlTypesFacts
<1> QED BY <1>1, BlankDrawn, DrawDrawn, PTL DEF Drawing

-----------------------------------------------------------------------------
(* Previews.                                                               *)

\* The program that computes the root, given the order of the nodes.
Computes(def, d, order, root) ==
  /\ def.statements = [i \in DOMAIN Among(order, ScopeOf(d, {root})) |->
                         PreviewAssignment(d, Among(order, ScopeOf(d, {root}))[i])]
  /\ def.returns = Var(d, root)

\* The node a preview of n computes; its scope has no stream, and no operator
\* that nothing feeds.
Root(d, n, root) ==
  /\ ~IsOutput(d, n) => root = n
  /\ IsOutput(d, n) => Parents(d, n) = {root}
  /\ \A m \in ScopeOf(d, {root}) :
       /\ ~Unmaterialized(d.nodes[m])
       /\ d.nodes[m].type \notin SourceTypes /\ ~IsDataset(d, m) => Incoming(d, m) # {}

\* A preview is made of a clean document, of the scope of its root.
LEMMA PreviewFiles ==
  ASSUME NEW d, WellFormed(d), NameIsField(d), NEW n \in Ids(d), NEW confirmed \in BOOLEAN,
         NEW low, low = Lowered(d),
         NEW made, made = generate_preview_script(low, n, TRUE, confirmed), made.how = "files"
  PROVE  /\ Clean(d)
         /\ \E root \in Ids(d) :
              /\ Root(d, n, root)
              /\ Computes(made.definitions[n], d, low.view.order, root)
<1> DEFINE target == _preview_scope(d, n)
           streams == {k \in target.scope : Unmaterialized(d.nodes[k])}
           transforms == {m \in target.scope : d.nodes[m].type \notin SourceTypes /\ ~IsDataset(d, m)}
           order == Among(low.view.order, target.scope)
           program == [statements |-> [i \in DOMAIN order |-> PreviewAssignment(d, order[i])],
                       returns |-> Var(d, target.root)]
<1>1. low.document = d
  BY LoweredFacts
<1>2. /\ ~low.raised /\ ~has_errors(low.problems)
      /\ ~(IsOutput(d, n) /\ Incoming(d, n) = {})
      /\ {<<"SDPS-PREVIEW-004", m>> : m \in streams} = {}
      /\ \A m \in transforms : ~_transform_raises(d, m)
      /\ made.definitions
           = [m \in {n} |-> program]
  BY <1>1 DEF generate_preview_script, Raised, Refused, Files
<1>3. ~ValidationRaises(d) /\ low.problems = validate_graph(d)
  BY <1>2, LoweredFacts
<1>4. Clean(d)
  BY <1>2, <1>3 DEF Clean, NameIsField
<1>5. streams = {}
  BY <1>2
<1>6. \A m \in transforms : Incoming(d, m) # {}
  BY <1>2 DEF _transform_raises
<1>7. /\ target.root \in Ids(d) /\ target.scope = ScopeOf(d, {target.root})
      /\ ~IsOutput(d, n) => target.root = n
      /\ IsOutput(d, n) => Parents(d, n) = {target.root}
  <2>1. CASE ~IsOutput(d, n)
    BY <2>1 DEF _preview_scope
  <2>2. CASE IsOutput(d, n)
    <3>1. PICK e \in d.edges : Incoming(d, n) = {e}
      BY <1>4, <2>2, CleanPorts DEF IsOutput
    <3>2. (CHOOSE f \in Incoming(d, n) : TRUE) = e
      BY <3>1
    <3>3. target = [root |-> e.from, scope |-> ScopeOf(d, {e.from})]
      BY <2>2, <3>2 DEF _preview_scope
    <3>4. e.from \in Ids(d)
      BY <1>4, CleanEdges DEF Joined
    <3>5. Parents(d, n) = {e.from}
      BY <3>1 DEF Parents
    <3> QED BY <2>2, <3>3, <3>4, <3>5
  <2> QED BY <2>1, <2>2
<1> DEFINE root == target.root
<1>8. \A m \in ScopeOf(d, {root}) :
        /\ ~Unmaterialized(d.nodes[m])
        /\ d.nodes[m].type \notin SourceTypes /\ ~IsDataset(d, m) => Incoming(d, m) # {}
  BY <1>5, <1>6, <1>7
<1>9. order = Among(low.view.order, ScopeOf(d, {root}))
  BY <1>7
<1>10. /\ made.definitions[n].statements = [i \in DOMAIN order |-> PreviewAssignment(d, order[i])]
       /\ made.definitions[n].returns = Var(d, root)
  <2>1. made.definitions = [m \in {n} |-> program]
    BY <1>2
  <2>2. /\ program.statements = [i \in DOMAIN order |-> PreviewAssignment(d, order[i])]
        /\ program.returns = Var(d, root)
    OBVIOUS
  <2> HIDE DEF program
  <2>3. made.definitions[n] = program
    BY <2>1
  <2> HIDE DEF order, root
  <2> QED BY <2>2, <2>3
<1> HIDE DEF order, target, transforms, streams
<1>11. Computes(made.definitions[n], d, low.view.order, root)
  <2> DEFINE seq == Among(low.view.order, ScopeOf(d, {root}))
             def == made.definitions[n]
  <2>1. order = seq
    BY <1>9
  <2>2. def.statements = [i \in DOMAIN order |-> PreviewAssignment(d, order[i])] /\ def.returns = Var(d, root)
    BY <1>10
  <2> HIDE DEF def, seq
  <2>3. def.statements = [i \in DOMAIN seq |-> PreviewAssignment(d, seq[i])]
    BY <2>1, <2>2
  <2> QED BY <2>2, <2>3, Zenon DEF Computes, def, seq
<1>12. root \in Ids(d) /\ Root(d, n, root)
  BY <1>7, <1>8 DEF Root
<1> QED BY <1>4, <1>11, <1>12

\* What a statement of a preview binds, uses and reads.
LEMMA PreviewAssignmentFacts ==
  ASSUME NEW d, NEW n, ~Unmaterialized(d.nodes[n])
  PROVE  /\ PreviewAssignment(d, n).bind = {Var(d, n)}
         /\ d.nodes[n].type \in SourceTypes \/ IsDataset(d, n) =>
              PreviewAssignment(d, n).use = {} /\ PreviewAssignment(d, n).reads = {<<"table", n>>}
         /\ ~(d.nodes[n].type \in SourceTypes \/ IsDataset(d, n)) =>
              /\ PreviewAssignment(d, n).use = {Var(d, e.from) : e \in _transform_uses(d, n)}
              /\ PreviewAssignment(d, n).reads = {}
<1>1. CASE d.nodes[n].type \in SourceTypes
  <2>0. ~IsDataset(d, n)
    BY <1>1, TypeSets DEF IsDataset, DatasetTypes
  <2>1. PreviewAssignment(d, n) = _source_expr(d, n)
    BY <1>1, <2>0 DEF PreviewAssignment
  <2>2. d.nodes[n].type # "source.kafka" /\ ~d.nodes[n].streaming
    BY <1>1 DEF Unmaterialized
  <2> QED BY <1>1, <2>1, <2>2 DEF _source_expr
<1>2. CASE d.nodes[n].type \notin SourceTypes /\ IsDataset(d, n)
  BY <1>2 DEF PreviewAssignment
<1>3. CASE d.nodes[n].type \notin SourceTypes /\ ~IsDataset(d, n)
  BY <1>3 DEF PreviewAssignment
<1> QED BY <1>1, <1>2, <1>3

\* A preview reads tables, binds names before they are used, and reads the
\* sources and datasets of the scope of its root.
Bounded(def, d, root) ==
  /\ \A r \in UNION {def.statements[i].reads : i \in DOMAIN def.statements} : r[1] = "table"
  /\ \A i \in DOMAIN def.statements : \A name \in def.statements[i].use :
       \E j \in 1..(i - 1) : name \in def.statements[j].bind
  /\ \E i \in DOMAIN def.statements : def.returns \in def.statements[i].bind
  /\ {r[2] : r \in UNION {def.statements[i].reads : i \in DOMAIN def.statements}}
       = {m \in ScopeOf(d, {root}) : ReadsOutside(d.nodes[m]) \/ IsDataset(d, m)}

LEMMA PreviewDefinition ==
  ASSUME NEW d, Clean(d), NEW view, Orders(view, d), NEW n, NEW root \in Ids(d), Root(d, n, root),
         NEW def, Computes(def, d, view, root)
  PROVE  Bounded(def, d, root)
<1> DEFINE S == ScopeOf(d, {root})
           Outside(m) == d.nodes[m].type \in SourceTypes \/ IsDataset(d, m)
           order == Among(view, S)
           statements == def.statements
<1>0. statements = [i \in DOMAIN order |-> PreviewAssignment(d, order[i])] /\ def.returns = Var(d, root)
  BY DEF Computes
<1> HIDE DEF statements
<1>1. /\ Sound(d)
      /\ \A m \in S :
           /\ ~Unmaterialized(d.nodes[m])
           /\ d.nodes[m].type \notin SourceTypes /\ ~IsDataset(d, m) => Incoming(d, m) # {}
  BY CleanGraph DEF Root
<1>2. /\ S \subseteq Ids(d) /\ root \in S
      /\ \A m \in S : ~IsDataset(d, m) => Parents(d, m) \subseteq S
  BY <1>1, ScopeFacts
<1>3. S \in SUBSET Ids(d)
  BY <1>2
<1>4. \A m \in S : ReadsOutside(d.nodes[m]) => d.nodes[m].type \in SourceTypes
  <2> SUFFICES ASSUME NEW m \in S, d.nodes[m].type = "utility.component_input" PROVE FALSE
    BY DEF ReadsOutside
  <2>1. d.nodes[m].type \notin SourceTypes /\ ~IsDataset(d, m)
    BY TypeSets DEF IsDataset, DatasetTypes
  <2>2. Incoming(d, m) = {}
    BY <1>2, CleanPorts
  <2> QED BY <1>1, <2>1, <2>2
<1>5. \A m \in S :
        /\ PreviewAssignment(d, m).bind = {Var(d, m)}
        /\ Outside(m) => PreviewAssignment(d, m).use = {} /\ PreviewAssignment(d, m).reads = {<<"table", m>>}
        /\ ~Outside(m) =>
              /\ PreviewAssignment(d, m).use = {Var(d, e.from) : e \in _transform_uses(d, m)}
              /\ PreviewAssignment(d, m).reads = {}
  BY <1>1, PreviewAssignmentFacts
<1>6. {m \in S : Outside(m)} = {m \in S : ReadsOutside(d.nodes[m]) \/ IsDataset(d, m)}
  BY <1>4 DEF ReadsOutside
<1> HIDE DEF S, Outside
<1>7. /\ DOMAIN order = 1..Len(order) /\ Elements(order) = S
      /\ \A i \in DOMAIN order : \A m \in Parents(d, order[i]) \cap S :
           \E j \in 1..(i - 1) : j \in DOMAIN order /\ order[j] = m
  <2>1. Among(view, S) \in Seq(Ids(d)) /\ DOMAIN Among(view, S) = 1..Len(Among(view, S))
        /\ Elements(Among(view, S)) = S
        /\ \A i \in DOMAIN Among(view, S) : \A m \in Parents(d, Among(view, S)[i]) \cap S :
             \E j \in 1..(i - 1) : j \in DOMAIN Among(view, S) /\ Among(view, S)[j] = m
    BY <1>3, StatementsInOrder
  <2> QED BY <2>1
<1> HIDE DEF order
<1>8. DOMAIN statements = DOMAIN order /\ \A i \in DOMAIN order :
        order[i] \in S /\ statements[i] = PreviewAssignment(d, order[i])
  BY <1>0, <1>7 DEF Elements
<1>9. ASSUME NEW i \in DOMAIN statements, NEW name \in statements[i].use
      PROVE  \E j \in 1..(i - 1) : name \in statements[j].bind
  <2>1. order[i] \in S /\ ~Outside(order[i])
        /\ name \in {Var(d, e.from) : e \in _transform_uses(d, order[i])}
    BY <1>5, <1>8, <1>9
  <2>2. PICK e \in _transform_uses(d, order[i]) : name = Var(d, e.from)
    BY <2>1
  <2>3. e.from \in Parents(d, order[i])
    BY <2>2 DEF _transform_uses, Parents
  <2>4. e.from \in S
    BY <1>2, <2>1, <2>3 DEF S, Outside
  <2>5. PICK j \in 1..(i - 1) : j \in DOMAIN order /\ order[j] = e.from
    BY <1>7, <1>8, <2>3, <2>4
  <2>6. statements[j].bind = {Var(d, e.from)}
    BY <1>5, <1>8, <2>5
  <2> QED BY <2>2, <2>5, <2>6
<1>10. \E i \in DOMAIN statements : Var(d, root) \in statements[i].bind
  <2>1. root \in Elements(order)
    BY <1>2, <1>7 DEF S
  <2>2. PICK i \in DOMAIN order : order[i] = root
    BY <2>1 DEF Elements
  <2>3. statements[i].bind = {Var(d, root)}
    BY <1>5, <1>8, <2>2
  <2> QED BY <1>8, <2>2, <2>3
<1> DEFINE reads == UNION {statements[i].reads : i \in DOMAIN statements}
<1>11. ASSUME NEW r \in reads PROVE \E m \in S : Outside(m) /\ r = <<"table", m>>
  <2>1. PICK i \in DOMAIN statements : r \in statements[i].reads
    OBVIOUS
  <2>2. order[i] \in S /\ r \in PreviewAssignment(d, order[i]).reads
    BY <1>8, <2>1
  <2>3. PreviewAssignment(d, order[i]).reads # {}
    BY <2>2
  <2>4. Outside(order[i]) /\ PreviewAssignment(d, order[i]).reads = {<<"table", order[i]>>}
    BY <1>5, <2>2, <2>3
  <2> QED BY <2>2, <2>4
<1>12. ASSUME NEW m \in S, Outside(m) PROVE <<"table", m>> \in reads
  <2>1. PICK i \in DOMAIN order : order[i] = m
    BY <1>7 DEF Elements
  <2>2. statements[i].reads = {<<"table", m>>}
    BY <1>5, <1>8, <1>12, <2>1
  <2> QED BY <1>8, <2>2
<1> HIDE DEF reads
<1>13. \A r \in reads : r[1] = "table"
  BY <1>11
<1>14. {r[2] : r \in reads} = {m \in S : Outside(m)}
  <2>1. ASSUME NEW m \in S, Outside(m) PROVE m \in {r[2] : r \in reads}
    <3>1. <<"table", m>> \in reads /\ <<"table", m>>[2] = m
      BY <1>12, <2>1
    <3> QED BY <3>1
  <2>2. ASSUME NEW r \in reads PROVE r[2] \in S /\ Outside(r[2])
    <3>1. PICK m \in S : Outside(m) /\ r = <<"table", m>>
      BY <1>11
    <3>2. r[2] = m
      BY <3>1
    <3> QED BY <3>1, <3>2
  <2> QED BY <2>1, <2>2
<1>15. {r[2] : r \in reads} = {m \in S : ReadsOutside(d.nodes[m]) \/ IsDataset(d, m)}
  BY <1>6, <1>14
<1>16. \E i \in DOMAIN statements : def.returns \in statements[i].bind
  BY <1>0, <1>10
<1>17. /\ \A r \in UNION {def.statements[i].reads : i \in DOMAIN def.statements} : r[1] = "table"
       /\ {r[2] : r \in UNION {def.statements[i].reads : i \in DOMAIN def.statements}}
            = {m \in S : ReadsOutside(d.nodes[m]) \/ IsDataset(d, m)}
  BY <1>13, <1>15, Zenon DEF reads, statements
<1>18. /\ \A i \in DOMAIN def.statements : \A name \in def.statements[i].use :
            \E j \in 1..(i - 1) : name \in def.statements[j].bind
       /\ \E i \in DOMAIN def.statements : def.returns \in def.statements[i].bind
  BY <1>9, <1>16, Zenon DEF statements
<1> QED BY <1>17, <1>18, Zenon DEF S, Bounded

\* Whatever is drawn and whatever is previewed: a preview program (preview.py)
\* reads no stream, binds what it uses and computes its node from the tables
\* that the node's generated definition reads.
THEOREM PreviewsStayBounded == Drawing => []PreviewsAreBounded
<1>1. ASSUME OnCanvas PROVE PreviewsAreBounded
  <2> DEFINE v == lowered.view
             Made(n, confirmed) == generate_preview_script(lowered, n, TRUE, confirmed)
             def(n, confirmed) == Made(n, confirmed).definitions[n]
             reads(n, confirmed) ==
               UNION {def(n, confirmed).statements[i].reads : i \in DOMAIN def(n, confirmed).statements}
  <2> SUFFICES ASSUME NEW n \in Ids(Doc), NEW confirmed \in BOOLEAN, Made(n, confirmed).how = "files"
               PROVE  /\ \A r \in reads(n, confirmed) : r[1] = "table"
                      /\ \A i \in DOMAIN def(n, confirmed).statements :
                           \A name \in def(n, confirmed).statements[i].use :
                             \E j \in 1..(i - 1) : name \in def(n, confirmed).statements[j].bind
                      /\ \E i \in DOMAIN def(n, confirmed).statements :
                           def(n, confirmed).returns \in def(n, confirmed).statements[i].bind
                      /\ python.how = "files" /\ n \in DOMAIN python.definitions =>
                           {r[2] : r \in reads(n, confirmed)} =
                             UNION {{r[2] : r \in python.definitions[n].statements[i].reads} :
                                      i \in DOMAIN python.definitions[n].statements}
    BY DEF PreviewsAreBounded
  <2>1. lowered = Lowered(Doc) /\ WellFormed(Doc) /\ NameIsField(Doc)
    BY <1>1, CanvasFacts
  <2>2. Clean(Doc)
    BY <2>1, PreviewFiles
  <2>3. PICK root \in Ids(Doc) :
          Root(Doc, n, root) /\ Computes(def(n, confirmed), Doc, v.order, root)
    BY <2>1, PreviewFiles
  <2>4. Viewed(v, Doc)
    BY <2>1, <2>2, ViewFacts
  <2>5. Orders(v.order, Doc)
    BY <2>4 DEF Viewed
  <2> DEFINE S == {m \in ScopeOf(Doc, {root}) : ReadsOutside(Doc.nodes[m]) \/ IsDataset(Doc, m)}
             made == def(n, confirmed)
  <2>6. Computes(made, Doc, v.order, root)
    BY <2>3
  <2> HIDE DEF def, made
  <2>7. /\ \A r \in UNION {made.statements[i].reads : i \in DOMAIN made.statements} : r[1] = "table"
        /\ \A i \in DOMAIN made.statements : \A name \in made.statements[i].use :
              \E j \in 1..(i - 1) : name \in made.statements[j].bind
        /\ \E i \in DOMAIN made.statements : made.returns \in made.statements[i].bind
        /\ {r[2] : r \in UNION {made.statements[i].reads : i \in DOMAIN made.statements}} = S
    <3>1. Bounded(made, Doc, root)
      BY <2>2, <2>3, <2>5, <2>6, PreviewDefinition
    <3> QED BY <3>1 DEF Bounded
  <2>8. ASSUME python.how = "files", n \in DOMAIN python.definitions
        PROVE  S = UNION {{r[2] : r \in python.definitions[n].statements[i].reads} :
                            i \in DOMAIN python.definitions[n].statements}
    <3>1. python.definitions = [o \in materialization_boundaries(v) |-> Definition(v, o)]
      BY <1>1, <2>8, EmittedPython DEF Emitted
    <3>2. n \in materialization_boundaries(v) /\ python.definitions[n] = Definition(v, n)
      BY <2>8, <3>1
    <3>3. Pictures(v, Doc) /\ n \in materialization_boundaries(Doc)
      BY <2>4, <3>2, SameDocument DEF Viewed
    <3>4. Parents(v, n) = {root}
      BY <2>3, <3>3, SameAncestors DEF Root, materialization_boundaries
    <3>5. ScopeOf(v, Parents(v, n)) = ScopeOf(Doc, {root})
      BY <3>3, <3>4, SameDocument
    <3>6. UNION {{r[2] : r \in Definition(v, n).statements[i].reads} : i \in DOMAIN Definition(v, n).statements}
            = {m \in ScopeOf(v, Parents(v, n)) : ReadsOutside(v.nodes[m]) \/ IsDataset(v, m)}
      BY <2>2, <2>4, <3>2, ReadsOfDefinition
    <3>7. \A m \in ScopeOf(Doc, {root}) :
            ReadsOutside(v.nodes[m]) = ReadsOutside(Doc.nodes[m]) /\ IsDataset(v, m) = IsDataset(Doc, m)
      <4>1. ScopeOf(Doc, {root}) \subseteq Ids(Doc)
        <5>1. Sound(Doc) /\ {root} \in SUBSET Ids(Doc)
          BY <2>2, CleanGraph
        <5> QED BY <5>1, ScopeFacts
      <4>2. \A m \in Ids(Doc) : v.nodes[m] = Doc.nodes[m]
        BY <3>3 DEF Pictures
      <4> QED BY <4>1, <4>2 DEF IsDataset
    <3>8. {m \in ScopeOf(v, Parents(v, n)) : ReadsOutside(v.nodes[m]) \/ IsDataset(v, m)} = S
      BY <3>5, <3>7
    <3> QED BY <3>2, <3>6, <3>8
  <2> HIDE DEF S
  <2> QED BY <2>7, <2>8 DEF made
<1> QED BY <1>1, BlankDrawn, DrawDrawn, PTL DEF Drawing
-----------------------------------------------------------------------------
(* Summaries of an event log.                                              *)

Tasks == [kind : {"SparkListenerTaskEnd"}, stage : Int, launch : Int, finish : Int, run : Int, bytes : Int]

LEMMA LongerThanNothing ==
  ASSUME NEW x \in Int
  PROVE  Max({0, x}) = IF x > 0 THEN x ELSE 0
BY DEF Max

LEMMA AmongAll ==
  ASSUME NEW T, NEW s \in Seq(T), NEW S, Elements(s) \subseteq S
  PROVE  Among(s, S) = s
<1>1. Len(s) \in Nat /\ DOMAIN s = 1..Len(s) /\ s = [k \in 1..Len(s) |-> s[k]]
  BY LenProperties
<1>0. SUFFICES ASSUME NEW n \in Nat, n = Len(s)
             PROVE  Among(s, S) = s
  BY <1>1
<1>2. {i \in DOMAIN s : s[i] \in S} = 1..n
  BY <1>0, <1>1 DEF Elements
<1>3. Cardinality(1..n) = n
  BY FS_Interval
<1>4. ASSUME NEW i \in 1..n
      PROVE  (CHOOSE k \in 1..n : Cardinality({m \in 1..n : m < k}) = i - 1) = i
  <2>1. ASSUME NEW k \in 1..n PROVE Cardinality({m \in 1..n : m < k}) = k - 1
    <3>1. {m \in 1..n : m < k} = 1..(k - 1)
      OBVIOUS
    <3>2. Cardinality(1..(k - 1)) = k - 1
      BY FS_Interval
    <3> QED BY <3>1, <3>2
  <2>2. \A k \in 1..n : Cardinality({m \in 1..n : m < k}) = i - 1 <=> k = i
    BY <2>1
  <2> QED BY <2>2
<1>5. Ascending(1..n) = [i \in 1..n |-> i]
  BY <1>3, <1>4 DEF Ascending
<1> QED BY <1>0, <1>1, <1>2, <1>5 DEF Among

LEMMA TasksFacts ==
  ASSUME NEW log \in Seq(Events), NEW stage
  PROVE  /\ TasksOf(log, stage) \in Seq(Tasks)
         /\ \A i \in DOMAIN TasksOf(log, stage) : TasksOf(log, stage)[i].stage = stage
         /\ Len(TasksOf(log, stage)) \in Nat
         /\ Len(TasksOf(log, stage)) > 0 <=> \E e \in Elements(log) : TaskEnded(e) /\ e.stage = stage
<1> DEFINE S == {e \in Elements(log) : TaskEnded(e) /\ e.stage = stage}
           tasks == TasksOf(log, stage)
<1>1. tasks \in Seq(Events) /\ Elements(tasks) = Elements(log) \cap S
  BY AmongFacts DEF TasksOf
<1>2. Len(tasks) \in Nat /\ DOMAIN tasks = 1..Len(tasks)
  BY <1>1, LenProperties
<1>3. \A i \in DOMAIN tasks : tasks[i] \in S /\ tasks[i] \in Events
  BY <1>1, ElementsType
<1>4. \A e \in Events : TaskEnded(e) => e \in Tasks
  BY DEF Events, Tasks, TaskEnded
<1>5. \A i \in 1..Len(tasks) : tasks[i] \in Tasks /\ tasks[i].stage = stage
  BY <1>2, <1>3, <1>4
<1>6. Len(tasks) > 0 <=> \E e \in Elements(log) : TaskEnded(e) /\ e.stage = stage
  <2>1. Len(tasks) > 0 <=> Elements(tasks) # {}
    BY <1>2 DEF Elements
  <2> QED BY <1>1, <2>1
<1>7. tasks \in Seq(Tasks)
  BY <1>1, <1>2, <1>5
<1> QED BY <1>2, <1>5, <1>6, <1>7

\* Replaying a task from time 0 changes nothing that is summed or ranked.
LEMMA ReplayedTask ==
  ASSUME NEW e \in Tasks
  PROVE  /\ Replayed(e) \in Tasks /\ Replayed(e).stage = e.stage /\ TaskEnded(Replayed(e))
         /\ Duration(Replayed(e)) = Duration(e) /\ Duration(e) \in Nat
         /\ Replayed(e).run = e.run /\ Replayed(e).bytes = e.bytes
<1>1. e.finish \in Int /\ e.launch \in Int
  BY DEF Tasks
<1>2. Duration(e) \in Nat
  BY <1>1, LongerThanNothing DEF Duration
<1>3. /\ Replayed(e) \in Tasks /\ Replayed(e).stage = e.stage /\ TaskEnded(Replayed(e))
      /\ Replayed(e).run = e.run /\ Replayed(e).bytes = e.bytes
      /\ Replayed(e).launch = 0 /\ Replayed(e).finish = Duration(e)
  <2>1. Duration(e) \in Int
    BY <1>2
  <2>2. Replayed(e) = [kind |-> e.kind, stage |-> e.stage, launch |-> 0, finish |-> Duration(e),
                       run |-> e.run, bytes |-> e.bytes]
    <3> DEFINE D == Duration(e)
    <3> HIDE DEF D
    <3> DEFINE f == [kind |-> e.kind, stage |-> e.stage, launch |-> 0, finish |-> D,
                     run |-> e.run, bytes |-> e.bytes]
               g == [e EXCEPT !.launch = 0]
    <3>1. e = [kind |-> e.kind, stage |-> e.stage, launch |-> e.launch, finish |-> e.finish,
               run |-> e.run, bytes |-> e.bytes]
      BY DEF Tasks
    <3>2. DOMAIN e = {"kind", "stage", "launch", "finish", "run", "bytes"}
      BY <3>1
    <3>3. g = [kind |-> e.kind, stage |-> e.stage, launch |-> 0, finish |-> e.finish,
               run |-> e.run, bytes |-> e.bytes]
      BY <3>1
    <3>4. [e EXCEPT !.launch = 0, !.finish = D] = [g EXCEPT !.finish = D]
      OBVIOUS
    <3> HIDE DEF g
    <3>5. [g EXCEPT !.finish = D] = f
      BY <3>3
    <3> QED BY <3>4, <3>5 DEF Replayed, D
  <2>3. e.kind = "SparkListenerTaskEnd" /\ e.stage \in Int /\ e.run \in Int /\ e.bytes \in Int
    BY DEF Tasks
  <2> QED BY <2>1, <2>2, <2>3 DEF Tasks, TaskEnded
<1>4. Duration(Replayed(e)) = Max({0, Duration(e)})
  <2>1. Duration(e) - 0 = Duration(e)
    BY <1>2
  <2> QED BY <1>3, <2>1 DEF Duration
<1>5. Max({0, Duration(e)}) = Duration(e)
  BY <1>2, LongerThanNothing
<1> QED BY <1>2, <1>3, <1>4, <1>5

\* Tasks that are summarized alike.
Alike(s, t) ==
  /\ DOMAIN s = DOMAIN t /\ Len(s) = Len(t) /\ DOMAIN s = 1..Len(s)
  /\ \A i \in DOMAIN s : Duration(s[i]) = Duration(t[i]) /\ s[i].run = t[i].run /\ s[i].bytes = t[i].bytes

LEMMA AlikeSummaries ==
  ASSUME NEW a, NEW b, NEW stage, NEW moderate, NEW severe, Alike(TasksOf(a, stage), TasksOf(b, stage))
  PROVE  StageSummary(a, stage, moderate, severe) = StageSummary(b, stage, moderate, severe)
<1> DEFINE s == TasksOf(a, stage)
           t == TasksOf(b, stage)
<1> HIDE DEF s, t
<1>1. /\ DOMAIN s = DOMAIN t /\ Len(s) = Len(t) /\ DOMAIN s = 1..Len(s)
      /\ \A i \in DOMAIN s : Duration(s[i]) = Duration(t[i]) /\ s[i].run = t[i].run /\ s[i].bytes = t[i].bytes
  BY DEF Alike, s, t
<1>2. ASSUME NEW k PROVE Nth(s, k) = Nth(t, k)
  <2>1. {Duration(s[i]) : i \in DOMAIN s} = {Duration(t[i]) : i \in DOMAIN t}
    BY <1>1
  <2>2. \A v : {i \in DOMAIN s : Duration(s[i]) <= v} = {i \in DOMAIN t : Duration(t[i]) <= v}
    BY <1>1
  <2>3. {v \in {Duration(s[i]) : i \in DOMAIN s} : Cardinality({i \in DOMAIN s : Duration(s[i]) <= v}) >= k}
         = {v \in {Duration(t[i]) : i \in DOMAIN t} : Cardinality({i \in DOMAIN t : Duration(t[i]) <= v}) >= k}
    BY <2>1, <2>2
  <2> QED BY <2>3 DEF Nth
<1>3. MedianTwice(s) = MedianTwice(t)
  BY <1>1, <1>2 DEF MedianTwice
<1>4. SkewScore(s) = SkewScore(t)
  BY <1>1, <1>2, <1>3 DEF SkewScore
<1>5. [i \in 1..Len(s) |-> s[i].bytes] = [i \in 1..Len(t) |-> t[i].bytes]
  BY <1>1
<1>6. [i \in 1..Len(s) |-> Max({0, Duration(s[i]) - s[i].run})] = [i \in 1..Len(t) |-> Max({0, Duration(t[i]) - t[i].run})]
  BY <1>1
<1> QED BY <1>1, <1>2, <1>3, <1>4, <1>5, <1>6 DEF StageSummary, s, t

\* Of a stage that ended as many tasks as are kept, or fewer, all are kept.
LEMMA KeptTasks ==
  ASSUME NEW log \in Seq(Events), NEW stage, NEW most \in Nat \ {0},
         Len(TasksOf(log, stage)) \in 1..most
  PROVE  Kept(log, stage, most) = TasksOf(log, stage)
<1> DEFINE tasks == TasksOf(log, stage)
<1>1. tasks \in Seq(Tasks) /\ Len(tasks) \in Nat /\ Len(tasks) >= 1 /\ Len(tasks) <= most
  BY TasksFacts
<1> HIDE DEF tasks
<1>2. Max({1, Len(tasks) - most + 1}) = 1
  BY <1>1 DEF Max
<1>3. SubSeq(tasks, 1, Len(tasks)) = tasks
  BY <1>1
<1> QED BY <1>2, <1>3 DEF Kept, tasks

LEMMA ReplayedAlike ==
  ASSUME NEW tasks \in Seq(Tasks), NEW stage, \A i \in DOMAIN tasks : tasks[i].stage = stage,
         NEW again, again = [i \in DOMAIN tasks |-> Replayed(tasks[i])]
  PROVE  TasksOf(again, stage) = again /\ Alike(again, tasks)
<1>1. Len(tasks) \in Nat /\ DOMAIN tasks = 1..Len(tasks) /\ \A i \in DOMAIN tasks : tasks[i] \in Tasks
  BY LenProperties
<1>2. again \in [1..Len(tasks) -> Tasks]
  BY <1>1, ReplayedTask
<1>3. again \in Seq(Tasks) /\ Len(again) = Len(tasks) /\ DOMAIN again = 1..Len(tasks)
  BY <1>1, <1>2, SequenceOf
<1>4. Elements(again) \subseteq {e \in Elements(again) : TaskEnded(e) /\ e.stage = stage}
  BY <1>1, <1>3, ReplayedTask DEF Elements
<1>5. TasksOf(again, stage) = again
  BY <1>3, <1>4, AmongAll DEF TasksOf
<1>6. Alike(again, tasks)
  BY <1>1, <1>3, ReplayedTask DEF Alike
<1> QED BY <1>5, <1>6

\* For every event log and every limit: a stage is in the summary of the stream
\* exactly when it ended a task, and with the summary of the whole log as long
\* as no task of it was given up (debug.py:732-826).
THEOREM SummariesAgree == Drawing => []BoundedSummaryAgrees
<1>1. BoundedSummaryAgrees
  <2> SUFFICES ASSUME NEW log \in EventLogs, NEW most \in TaskLimits,
                      NEW stage \in DOMAIN summarize_spark_events(log, 200, 500)
               PROVE  LET whole == summarize_spark_events(log, 200, 500)
                          bounded == summarize_spark_event_stream(log, 200, 500, most)
                      IN  /\ stage \in DOMAIN bounded <=> whole[stage].task_count > 0
                          /\ whole[stage].task_count \in 1..most => bounded[stage] = whole[stage]
    BY DEF BoundedSummaryAgrees
  <2> DEFINE whole == summarize_spark_events(log, 200, 500)
             bounded == summarize_spark_event_stream(log, 200, 500, most)
             kept == Kept(log, stage, most)
             again == [i \in DOMAIN kept |-> Replayed(kept[i])]
  <2>1. log \in Seq(Events) /\ most \in Nat \ {0}
    BY LogsAssumption
  <2>2. whole[stage] = StageSummary(log, stage, 200, 500)
    BY DEF summarize_spark_events
  <2>3. whole[stage].task_count = Len(TasksOf(log, stage))
    BY <2>2 DEF StageSummary
  <2>4. stage \in DOMAIN bounded <=> \E e \in Elements(log) : TaskEnded(e) /\ e.stage = stage
    BY DEF summarize_spark_event_stream
  <2>5. ASSUME whole[stage].task_count \in 1..most
        PROVE  bounded[stage] = whole[stage]
    <3>1. /\ TasksOf(log, stage) \in Seq(Tasks) /\ Len(TasksOf(log, stage)) \in 1..most
          /\ \A i \in DOMAIN TasksOf(log, stage) : TasksOf(log, stage)[i].stage = stage
          /\ \E e \in Elements(log) : TaskEnded(e) /\ e.stage = stage
      BY <2>1, <2>3, <2>5, TasksFacts
    <3>2. bounded[stage] = StageSummary(again, stage, 200, 500)
      BY <2>4, <3>1 DEF summarize_spark_event_stream
    <3>3. kept = TasksOf(log, stage)
      BY <2>1, <3>1, KeptTasks
    <3> HIDE DEF kept
    <3>4. TasksOf(again, stage) = again /\ Alike(again, kept)
      BY <3>1, <3>3, ReplayedAlike
    <3>5. Alike(TasksOf(again, stage), TasksOf(log, stage))
      BY <3>3, <3>4
    <3> HIDE DEF again
    <3>6. StageSummary(again, stage, 200, 500) = StageSummary(log, stage, 200, 500)
      BY <3>5, AlikeSummaries
    <3> QED BY <2>2, <3>2, <3>6
  <2>6. stage \in DOMAIN bounded <=> whole[stage].task_count > 0
    BY <2>1, <2>3, <2>4, TasksFacts
  <2> QED BY <2>5, <2>6
<1> QED BY <1>1, PTL

-----------------------------------------------------------------------------
(* What the importers find in generated code.                              *)

\* A function on the positions of a sequence is a sequence as long.
LEMMA AlongFacts ==
  ASSUME NEW T, NEW s \in Seq(T), NEW R, NEW g \in [DOMAIN s -> R]
  PROVE  /\ g \in Seq(R) /\ Len(g) = Len(s) /\ Len(s) \in Nat
         /\ DOMAIN g = DOMAIN s /\ DOMAIN s = 1..Len(s)
<1>1. Len(s) \in Nat /\ DOMAIN s = 1..Len(s)
  BY LenProperties
<1>2. g \in [1..Len(s) -> R]
  BY <1>1
<1>3. g \in Seq(R) /\ Len(g) = Len(s)
  BY <1>1, <1>2, SequenceOf
<1> QED BY <1>1, <1>3

\* The list of a loop that appends one list of one for each.
LEMMA FlattenSingles ==
  ASSUME NEW T, NEW s \in Seq(T)
  PROVE  FlattenSeq([i \in DOMAIN s |-> <<s[i]>>]) = s
<1> DEFINE n == Len(s)
           singles == [i \in DOMAIN s |-> <<s[i]>>]
           Upto(f) == f = [i \in 1..n |-> IF i = 1 THEN singles[i] ELSE f[i - 1] \o singles[i]]
           first == [i \in 1..n |-> [k \in 1..i |-> s[k]]]
<1>1. n \in Nat /\ DOMAIN s = 1..n /\ \A i \in 1..n : s[i] \in T
  BY LenProperties, ElementOfSeq
<1>2. Len(singles) = n /\ \A i \in 1..n : singles[i] = <<s[i]>>
  <2>1. singles \in [1..n -> Seq(T)]
    BY <1>1
  <2> QED BY <1>1, <2>1, SequenceOf
<1> HIDE DEF singles
<1>3. Upto(first)
  <2>1. ASSUME NEW i \in 1..n, i = 1 PROVE first[i] = singles[i]
    <3>1. [k \in 1..1 |-> s[k]] = <<s[1]>>
      OBVIOUS
    <3> QED BY <1>2, <2>1, <3>1
  <2>2. ASSUME NEW i \in 1..n, i # 1 PROVE first[i] = first[i - 1] \o singles[i]
    <3> DEFINE a == [k \in 1..(i - 1) |-> s[k]]
               b == <<s[i]>>
    <3>1. i - 1 \in 1..n /\ i - 1 \in Nat
      BY <1>1, <2>2
    <3>2. a \in [1..(i - 1) -> T]
      BY <1>1, <3>1
    <3>3. a \in Seq(T) /\ Len(a) = i - 1
      BY <3>1, <3>2, SequenceOf
    <3>4. \A k \in 1..(i - 1) : a[k] = s[k]
      OBVIOUS
    <3>5. first[i] = [k \in 1..i |-> s[k]] /\ first[i - 1] = a
      BY <3>1
    <3> HIDE DEF a, first
    <3>6. b \in Seq(T) /\ Len(b) = 1 /\ b[1] = s[i]
      BY <1>1
    <3> HIDE DEF b
    <3>7. /\ a \o b \in Seq(T) /\ Len(a \o b) = (i - 1) + 1
          /\ \A k \in 1..((i - 1) + 1) : (a \o b)[k] = IF k <= i - 1 THEN a[k] ELSE b[k - (i - 1)]
      <4>1. /\ a \o b \in Seq(T) /\ Len(a \o b) = Len(a) + Len(b)
            /\ \A k \in 1..(Len(a) + Len(b)) : (a \o b)[k] = IF k <= Len(a) THEN a[k] ELSE b[k - Len(a)]
        BY <3>3, <3>6, ConcatProperties
      <4> QED BY <3>3, <3>6, <4>1
    <3>8. a \o b = [k \in 1..i |-> s[k]]
      <4>1. (i - 1) + 1 = i /\ i \in Nat
        BY <3>1
      <4>2. \A k \in 1..i : (a \o b)[k] = s[k]
        <5>1. ASSUME NEW k \in 1..i, k <= i - 1 PROVE (a \o b)[k] = s[k]
          BY <3>1, <3>4, <3>7, <4>1, <5>1
        <5>2. ASSUME NEW k \in 1..i, ~(k <= i - 1) PROVE (a \o b)[k] = s[k]
          <6>1. k = i /\ k - (i - 1) = 1
            BY <3>1, <5>2
          <6> QED BY <3>6, <3>7, <4>1, <5>2, <6>1
        <5> QED BY <5>1, <5>2
      <4>3. a \o b = [k \in 1..i |-> (a \o b)[k]]
        BY <3>7, <4>1, LenProperties
      <4> QED BY <4>2, <4>3
    <3> QED BY <1>2, <3>5, <3>8 DEF b
  <2>3. \A i \in 1..n : first[i] = IF i = 1 THEN singles[i] ELSE first[i - 1] \o singles[i]
    BY <2>1, <2>2
  <2>4. first = [i \in 1..n |-> first[i]]
    OBVIOUS
  <2> HIDE DEF first
  <2> QED BY <2>3, <2>4
<1> DEFINE flat == CHOOSE f : Upto(f)
<1>4. Upto(flat)
  <2> HIDE DEF Upto, first
  <2> QED BY <1>3
<1>5. CASE n = 0
  <2>1. FlattenSeq(singles) = singles
    BY <1>2, <1>5 DEF FlattenSeq
  <2>2. singles = s
    <3>1. s = <<>>
      BY <1>5, EmptySeq
    <3>2. DOMAIN <<>> = {}
      OBVIOUS
    <3>3. singles = [i \in {} |-> <<s[i]>>]
      BY <3>1, <3>2 DEF singles
    <3> QED BY <3>1, <3>3
  <2> QED BY <2>1, <2>2 DEF singles
<1>6. CASE n # 0
  <2>1. FlattenSeq(singles) = flat[n]
    BY <1>2, <1>6 DEF FlattenSeq
  <2> HIDE DEF flat
  <2> DEFINE S == {i \in Nat : i \in 1..n => flat[i] = first[i]}
  <2>2. 0 \in S
    OBVIOUS
  <2>3. ASSUME NEW i \in Nat, i \in S PROVE i + 1 \in S
    <3> SUFFICES ASSUME i + 1 \in 1..n PROVE flat[i + 1] = first[i + 1]
      OBVIOUS
    <3>1. flat[i + 1] = IF i + 1 = 1 THEN singles[i + 1] ELSE flat[(i + 1) - 1] \o singles[i + 1]
      BY <1>4
    <3>2. first[i + 1] = IF i + 1 = 1 THEN singles[i + 1] ELSE first[(i + 1) - 1] \o singles[i + 1]
      <4> HIDE DEF first
      <4> QED BY <1>3
    <3> HIDE DEF first
    <3>3. CASE i = 0
      BY <3>1, <3>2, <3>3
    <3>4. CASE i # 0
      <4>1. i \in 1..n /\ (i + 1) - 1 = i
        BY <1>1, <3>4
      <4>2. flat[i] = first[i]
        BY <2>3, <4>1
      <4> QED BY <3>1, <3>2, <3>4, <4>1, <4>2
    <3> QED BY <3>3, <3>4
  <2> HIDE DEF S
  <2>4. n \in S
    BY <1>1, <2>2, <2>3, Induction
  <2>5. flat[n] = first[n]
    BY <1>1, <1>6, <2>4 DEF S
  <2>6. first[n] = s
    <3>1. first[n] = [k \in 1..n |-> s[k]]
      BY <1>1, <1>6
    <3>2. s = [k \in 1..n |-> s[k]]
      BY <1>1
    <3> QED BY <3>1, <3>2
  <2> QED BY <2>1, <2>5, <2>6 DEF singles
<1> QED BY <1>5, <1>6 DEF singles

LEMMA SetToSeqFacts ==
  ASSUME NEW S, IsFiniteSet(S)
  PROVE  /\ SetToSeq(S) \in Seq(S) /\ OneEach(SetToSeq(S)) /\ Elements(SetToSeq(S)) = S
<1> DEFINE n == Cardinality(S)
           s == SetToSeq(S)
<1>1. n \in Nat /\ \E f : f \in Bijection(1..n, S)
  BY FS_CardinalityType DEF ExistsBijection
<1>2. \E f \in [1..n -> S] : IsInjective(f)
  BY <1>1 DEF Bijection, Injection
<1>3. s \in [1..n -> S] /\ IsInjective(s)
  BY <1>2 DEF SetToSeq
<1> HIDE DEF s
<1>4. s \in Seq(S) /\ Len(s) = n /\ DOMAIN s = 1..n
  <2> HIDE DEF n
  <2> QED BY <1>1, <1>3, SequenceOf
<1>5. OneEach(s)
  BY <1>3 DEF OneEach, IsInjective
<1>6. IsFiniteSet(Elements(s)) /\ Cardinality(Elements(s)) = n
  BY <1>4, <1>5, OneEachCounts
<1>7. Elements(s) \in SUBSET S
  BY <1>4, ElementsType
<1>8. Elements(s) = S
  BY <1>6, <1>7, FS_Subset
<1> QED BY <1>4, <1>5, <1>8 DEF s

LEMMA ListOfOne ==
  ASSUME NEW x
  PROVE  /\ <<x>> \in Seq({x}) /\ Elements(<<x>>) = {x} /\ DOMAIN <<x>> = 1..1 /\ <<x>>[1] = x
         /\ [i \in 1..1 |-> x] = <<x>>
<1>1. <<x>> \in Seq({x}) /\ Len(<<x>>) = 1 /\ <<x>>[1] = x
  OBVIOUS
<1>2. DOMAIN <<x>> = 1..1
  BY <1>1, LenProperties
<1>3. 1..1 = {1}
  OBVIOUS
<1>4. Elements(<<x>>) = {x}
  BY <1>1, <1>2, <1>3 DEF Elements
<1>5. [i \in 1..1 |-> x] = <<x>>
  OBVIOUS
<1> QED BY <1>1, <1>2, <1>4, <1>5

\* The tables that calls name.
TablesNamed(calls) == {c.name : c \in calls} \ {""}

\* What the loop over the decorators of a function adds to the declarations.
DeclaredBy(f, dec) ==
  Declaration(IF _literal_name(dec) = "" THEN f.name ELSE _literal_name(dec),
              DecoratorKinds[dec.attr], {c.name : c \in Tables(f)} \ {""})
Declared(f) ==
  LET ours == Among(f.decorators, {e \in Elements(f.decorators) : e.dp})
      known == Among(ours, {e \in Elements(ours) : e.attr \in DOMAIN DecoratorKinds})
  IN  [i \in DOMAIN known |-> DeclaredBy(f, known[i])]

\* What a decorator of a definition says: a kind of declaration and a name.
Says(attr, name) == attr \in DOMAIN DecoratorKinds /\ name # ""

\* A function with one decorator, as it is generated.
Decorated(ident, attr, name, tables) ==
  [name |-> ident, decorators |-> <<Keyword(attr, name)>>, tables |-> tables]

LEMMA DeclaredOnce ==
  ASSUME NEW attr, NEW name, Says(attr, name), NEW ident, NEW tables
  PROVE  Declared(Decorated(ident, attr, name, tables))
           = <<Declaration(name, DecoratorKinds[attr], TablesNamed(tables))>>
<1> DEFINE f == Decorated(ident, attr, name, tables)
           k == Keyword(attr, name)
           ours == Among(f.decorators, {e \in Elements(f.decorators) : e.dp})
           known == Among(ours, {e \in Elements(ours) : e.attr \in DOMAIN DecoratorKinds})
<1>1. k.dp = TRUE /\ k.attr = attr /\ k.keyword = name /\ k.positional = ""
  BY DEF Keyword
<1>0. attr \in DOMAIN DecoratorKinds /\ name # ""
  BY DEF Says
<1>2. f.decorators = <<k>> /\ f.tables = tables
  BY DEF Decorated
<1> HIDE DEF k, f
<1>3. <<k>> \in Seq({k}) /\ Elements(<<k>>) = {k} /\ DOMAIN <<k>> = 1..1 /\ <<k>>[1] = k
  BY ListOfOne
<1>4. ours = <<k>>
  <2>1. Elements(<<k>>) \subseteq {e \in Elements(<<k>>) : e.dp}
    BY <1>0, <1>1, <1>3
  <2>2. Among(<<k>>, {e \in Elements(<<k>>) : e.dp}) = <<k>>
    BY <1>3, <2>1, AmongAll
  <2> QED BY <1>2, <2>2
<1> HIDE DEF ours
<1>5. known = <<k>>
  <2>1. Elements(<<k>>) \subseteq {e \in Elements(<<k>>) : e.attr \in DOMAIN DecoratorKinds}
    BY <1>0, <1>1, <1>3
  <2>2. Among(<<k>>, {e \in Elements(<<k>>) : e.attr \in DOMAIN DecoratorKinds}) = <<k>>
    BY <1>3, <2>1, AmongAll
  <2> QED BY <1>4, <2>2
<1> HIDE DEF known
<1>6. Tables(f) = tables
  <2>1. {e \in Elements(f.decorators) : e.attr = "table" /\ e.positional # ""} = {}
    BY <1>1, <1>2, <1>3
  <2>2. {[on |-> "dp", name |-> dec.positional] :
           dec \in {e \in Elements(f.decorators) : e.attr = "table" /\ e.positional # ""}} = {}
    BY <2>1
  <2> QED BY <1>2, <2>2 DEF Tables
<1>7. _literal_name(k) = name
  BY <1>1 DEF _literal_name
<1> DEFINE x == Declaration(name, DecoratorKinds[attr], {c.name : c \in tables} \ {""})
<1>8. DeclaredBy(f, k) = x
  BY <1>0, <1>1, <1>6, <1>7 DEF DeclaredBy
<1>9. [i \in DOMAIN known |-> DeclaredBy(f, known[i])] = <<x>>
  <2> HIDE DEF x
  <2>1. DOMAIN known = 1..1 /\ known[1] = k
    BY <1>3, <1>5
  <2>2. \A i \in 1..1 : DeclaredBy(f, known[i]) = x
    <3>1. \A i \in 1..1 : i = 1
      OBVIOUS
    <3> QED BY <1>8, <2>1, <3>1
  <2>3. [i \in DOMAIN known |-> DeclaredBy(f, known[i])] = [i \in 1..1 |-> x]
    BY <2>1, <2>2
  <2> QED BY <2>3, ListOfOne
<1> QED BY <1>9 DEF Declared, known, ours, TablesNamed, f

\* What is found in a text of such functions and of calls that make sinks.
Plain(s, r, attr, name, ident, tables, called) ==
  [functions |-> [i \in DOMAIN s |-> Decorated(ident[i], attr[i], name[i], tables[i])],
   calls |-> [i \in DOMAIN r |-> Keyword("create_sink", called[i])]]

AllSaid(s, r, attr, name, called) ==
  (\A i \in DOMAIN s : Says(attr[i], name[i])) /\ (\A i \in DOMAIN r : called[i] # "")
Found(s, r, attr, name, tables, called) ==
  [i \in DOMAIN s |-> Declaration(name[i], DecoratorKinds[attr[i]], TablesNamed(tables[i]))]
    \o [i \in DOMAIN r |-> Declaration(called[i], "sink.external", {})]

LEMMA DiscoverPlain ==
  ASSUME NEW T, NEW s \in Seq(T), NEW r \in Seq(T),
         NEW attr, NEW name, NEW ident, NEW tables, NEW called,
         AllSaid(s, r, attr, name, called)
  PROVE  discover_python(Plain(s, r, attr, name, ident, tables, called)).declarations
           = Found(s, r, attr, name, tables, called)
<1>0. (\A i \in DOMAIN s : Says(attr[i], name[i])) /\ (\A i \in DOMAIN r : called[i] # "")
  BY DEF AllSaid
<1> DEFINE listing == Plain(s, r, attr, name, ident, tables, called)
           calls == Among(listing.calls, {c \in Elements(listing.calls) : c.dp /\ c.attr \in DOMAIN CallKinds})
           named == Among(calls, {c \in Elements(calls) : CallName(c) # ""})
           D == [i \in DOMAIN s |-> Declaration(name[i], DecoratorKinds[attr[i]], TablesNamed(tables[i]))]
<1>1. discover_python(listing).declarations
        = FlattenSeq([i \in DOMAIN listing.functions |-> Declared(listing.functions[i])])
            \o [i \in DOMAIN named |-> Declaration(CallName(named[i]), CallKinds[named[i].attr], {})]
  BY DEF discover_python, Declared, DeclaredBy
<1>2. /\ DOMAIN listing.functions = DOMAIN s
      /\ \A i \in DOMAIN s : listing.functions[i] = Decorated(ident[i], attr[i], name[i], tables[i])
      /\ listing.calls = [i \in DOMAIN r |-> Keyword("create_sink", called[i])]
  BY DEF Plain
<1> HIDE DEF listing
<1>3. ASSUME NEW i \in DOMAIN s
      PROVE  Declared(listing.functions[i])
               = <<Declaration(name[i], DecoratorKinds[attr[i]], TablesNamed(tables[i]))>>
  <2>1. Says(attr[i], name[i])
    BY <1>0, <1>3
  <2>2. listing.functions[i] = Decorated(ident[i], attr[i], name[i], tables[i])
    BY <1>2, <1>3
  <2>3. SUFFICES ASSUME NEW a, a = attr[i], NEW n, n = name[i], NEW id, id = ident[i], NEW t, t = tables[i]
                 PROVE  Declared(listing.functions[i]) = <<Declaration(n, DecoratorKinds[a], TablesNamed(t))>>
    OBVIOUS
  <2>4. Says(a, n) /\ listing.functions[i] = Decorated(id, a, n, t)
    BY <2>1, <2>2, <2>3
  <2>5. Declared(Decorated(id, a, n, t)) = <<Declaration(n, DecoratorKinds[a], TablesNamed(t))>>
    BY <2>4, DeclaredOnce
  <2> QED BY <2>4, <2>5
<1>4. FlattenSeq([i \in DOMAIN listing.functions |-> Declared(listing.functions[i])]) = D
  <2>1. \A i \in DOMAIN s : D[i] = Declaration(name[i], DecoratorKinds[attr[i]], TablesNamed(tables[i]))
    OBVIOUS
  <2>2. DOMAIN D = DOMAIN s
    OBVIOUS
  <2>3. D \in [DOMAIN s -> {D[i] : i \in DOMAIN s}]
    OBVIOUS
  <2> HIDE DEF D
  <2>4. D \in Seq({D[i] : i \in DOMAIN s})
    BY <2>3, AlongFacts
  <2>5. [i \in DOMAIN listing.functions |-> Declared(listing.functions[i])] = [i \in DOMAIN D |-> <<D[i]>>]
    <3>1. \A i \in DOMAIN s : Declared(listing.functions[i]) = <<D[i]>>
      BY <1>3, <2>1
    <3> QED BY <1>2, <2>2, <3>1
  <2> QED BY <2>4, <2>5, FlattenSingles
<1>5. named = listing.calls /\ \A i \in DOMAIN r :
        CallName(listing.calls[i]) = called[i] /\ CallKinds[listing.calls[i].attr] = "sink.external"
  <2> DEFINE C == {Keyword("create_sink", called[i]) : i \in DOMAIN r}
  <2>1. \A i \in DOMAIN r : called[i] # ""
    BY <1>0
  <2>2. ASSUME NEW i \in DOMAIN r
        PROVE  LET c == Keyword("create_sink", called[i])
               IN  c.dp /\ c.attr \in DOMAIN CallKinds /\ CallName(c) = called[i] /\ CallName(c) # ""
                   /\ CallKinds[c.attr] = "sink.external"
    BY <2>1 DEF Keyword, CallKinds, CallName, _literal_name
  <2>3. listing.calls \in [DOMAIN r -> C]
    BY <1>2
  <2>4. listing.calls \in Seq(C)
    BY <2>3, AlongFacts
  <2>5. \A c \in C : c.dp /\ c.attr \in DOMAIN CallKinds /\ CallName(c) # ""
    BY <2>2
  <2> HIDE DEF C
  <2>6. Elements(listing.calls) \subseteq C
    BY <2>4, ElementsType
  <2>7. calls = listing.calls
    <3>1. Elements(listing.calls) \subseteq {c \in Elements(listing.calls) : c.dp /\ c.attr \in DOMAIN CallKinds}
      BY <2>5, <2>6
    <3> QED BY <2>4, <3>1, AmongAll
  <2> HIDE DEF calls
  <2>8. named = listing.calls
    <3>1. Elements(listing.calls) \subseteq {c \in Elements(listing.calls) : CallName(c) # ""}
      BY <2>5, <2>6
    <3>2. Among(listing.calls, {c \in Elements(listing.calls) : CallName(c) # ""}) = listing.calls
      BY <2>4, <3>1, AmongAll
    <3> QED BY <2>7, <3>2
  <2>9. \A i \in DOMAIN r : listing.calls[i] = Keyword("create_sink", called[i])
    BY <1>2
  <2>10. \A i \in DOMAIN r : CallName(listing.calls[i]) = called[i] /\ CallKinds[listing.calls[i].attr] = "sink.external"
    BY <2>2, <2>9
  <2> QED BY <2>8, <2>10
<1> HIDE DEF named
<1>6. [i \in DOMAIN named |-> Declaration(CallName(named[i]), CallKinds[named[i].attr], {})]
        = [i \in DOMAIN r |-> Declaration(called[i], "sink.external", {})]
  <2>1. DOMAIN named = DOMAIN r
    BY <1>2, <1>5
  <2> QED BY <1>5, <2>1
<1> QED BY <1>1, <1>4, <1>6 DEF listing, Found

LEMMA AmongOneEach ==
  ASSUME NEW T, NEW s \in Seq(T), OneEach(s), NEW S
  PROVE  OneEach(Among(s, S))
<1>1. PICK at \in Seq(DOMAIN s) :
        /\ \A i, j \in DOMAIN at : i < j => at[i] < at[j]
        /\ Elements(at) = {i \in DOMAIN s : s[i] \in S}
        /\ Len(at) \in Nat /\ DOMAIN at = 1..Len(at)
        /\ Among(s, S) = [k \in DOMAIN at |-> s[at[k]]]
        /\ Among(s, S) \in Seq(T) /\ Len(Among(s, S)) = Len(at)
        /\ Elements(Among(s, S)) = Elements(s) \cap S
  BY AmongFacts
<1> SUFFICES ASSUME NEW i \in DOMAIN at, NEW j \in DOMAIN at, s[at[i]] = s[at[j]]
             PROVE  i = j
  BY <1>1 DEF OneEach
<1>2. at[i] \in DOMAIN s /\ at[j] \in DOMAIN s
  BY ElementsType
<1>3. at[i] = at[j]
  BY <1>2 DEF OneEach
<1>4. at[i] \in Nat /\ i \in Nat /\ j \in Nat
  BY <1>1, <1>2, LenProperties
<1>5. ~(i < j) /\ ~(j < i)
  BY <1>1, <1>3, <1>4
<1> QED BY <1>4, <1>5

\* Two outputs have different names.
LEMMA NamesDiffer ==
  ASSUME NEW d, Clean(d), NEW v, Viewed(v, d), _semantic_problems(v) = {},
         NEW o \in materialization_boundaries(v), NEW p \in materialization_boundaries(v),
         d.nodes[p].name = d.nodes[o].name
  PROVE  p = o
<1>1. Ids(v) = Ids(d) /\ \A n \in Ids(d) : v.nodes[n] = d.nodes[n]
  BY DEF Viewed, Pictures
<1>2. /\ o \in Ids(v) /\ IsOutput(v, o) /\ p \in Ids(v) /\ IsOutput(v, p)
      /\ v.nodes[o].name = v.nodes[p].name
  BY <1>1 DEF materialization_boundaries
<1>3. v.nodes[o].name # "" /\ v.nodes[p].name # ""
  BY <1>1, <1>2, CleanPorts DEF IsOutput
<1>4. \A m, n \in {o, p} : ~Earlier(v, m, n)
  <2>1. ASSUME NEW m \in {o, p}, NEW n \in {o, p}, Earlier(v, m, n) PROVE FALSE
    <3>1. <<"SDPS-SDP-004", n>> \in _semantic_problems(v)
      BY <1>2, <1>3, <2>1 DEF _semantic_problems
    <3> QED BY <3>1
  <2> QED BY <2>1
<1>5. v.order \in Seq(Ids(d)) /\ Elements(v.order) = Ids(d)
  BY DEF Viewed, Orders
<1>6. DOMAIN v.order \subseteq Nat
  BY <1>5, LenProperties
<1>7. PICK i \in DOMAIN v.order : v.order[i] = o
  BY <1>1, <1>2, <1>5 DEF Elements
<1>8. PICK j \in DOMAIN v.order : v.order[j] = p
  BY <1>1, <1>2, <1>5 DEF Elements
<1>9. ~(i < j) /\ ~(j < i)
  BY <1>4, <1>7, <1>8 DEF Earlier
<1>10. i = j
  BY <1>6, <1>9
<1> QED BY <1>7, <1>8, <1>10

\* Every output is written with the decorator that is read as its kind.
LEMMA DecoratorsReadBack ==
  ASSUME NEW t \in Outputs
  PROVE  DecoratorOf(t) \in DOMAIN DecoratorKinds /\ DecoratorKinds[DecoratorOf(t)] = t
<1>1. t \in {"dataset.materialized_view", "dataset.streaming_table", "dataset.temporary_view",
             "dataset.auto_cdc_scd1", "sink.external"}
  BY TypeSets
<1>2. CASE t = "dataset.materialized_view"
  BY <1>2 DEF DecoratorOf, DecoratorKinds
<1>3. CASE t = "dataset.streaming_table"
  BY <1>3 DEF DecoratorOf, DecoratorKinds
<1>4. CASE t = "dataset.temporary_view"
  BY <1>4 DEF DecoratorOf, DecoratorKinds
<1>5. CASE t = "dataset.auto_cdc_scd1"
  BY <1>5 DEF DecoratorOf, DecoratorKinds
<1>6. CASE t = "sink.external"
  BY <1>6 DEF DecoratorOf, DecoratorKinds
<1> QED BY <1>1, <1>2, <1>3, <1>4, <1>5, <1>6

\* The document without what feeds the datasets, that of o excepted.
Cut(d, o) == [nodes |-> d.nodes, edges |-> {e \in d.edges : e.to = o \/ ~IsDataset(d, e.to)}]

LEMMA CutAncestors ==
  ASSUME NEW d, Sound(d), NEW o \in Ids(d)
  PROVE  ancestors(Cut(d, o), o) = ScopeOf(d, Parents(d, o))
<1> DEFINE c == Cut(d, o)
           S == ScopeOf(d, Parents(d, o))
<1>1. Ids(c) = Ids(d) /\ c.edges = {e \in d.edges : e.to = o \/ ~IsDataset(d, e.to)}
  BY DEF Cut, Ids
<1>2. Sound(c)
  <2>1. c.edges \in SUBSET d.edges /\ IsFiniteSet(d.edges)
    BY <1>1, SoundFacts
  <2>2. IsFiniteSet(c.edges)
    BY <2>1, FS_Subset
  <2> QED BY <1>1, <2>1, <2>2 DEF Sound, WellFormed, Joined, ensure_unique_ids
<1>3. /\ \A n : n = o \/ ~IsDataset(d, n) => Parents(c, n) = Parents(d, n)
      /\ \A n : n # o /\ IsDataset(d, n) => Parents(c, n) = {}
  BY <1>1 DEF Parents, Incoming
<1> HIDE DEF c
<1>4. /\ ancestors(c, o) \subseteq Ids(d) /\ Parents(c, o) \subseteq ancestors(c, o)
      /\ \A m \in ancestors(c, o) : Parents(c, m) \subseteq ancestors(c, o)
      /\ \A T : Parents(c, o) \subseteq T /\ (\A m \in T \cap Ids(d) : Parents(c, m) \subseteq T)
           => ancestors(c, o) \subseteq T
  BY <1>1, <1>2, AncestorsFacts
<1>5. Parents(d, o) \in SUBSET Ids(d)
  BY SoundFacts
<1>6. /\ S \subseteq Ids(d) /\ Parents(d, o) \subseteq S
      /\ \A n \in S : ~IsDataset(d, n) => Parents(d, n) \subseteq S
      /\ \A T : Parents(d, o) \subseteq T /\ (\A n \in T \cap Ids(d) : ~IsDataset(d, n) => Parents(d, n) \subseteq T)
           => S \subseteq T
  BY <1>5, ScopeFacts
<1> HIDE DEF S
<1>7. S \subseteq ancestors(c, o)
  BY <1>3, <1>4, <1>6
<1>8. ASSUME NEW m \in S PROVE Parents(c, m) \subseteq S
  <2>1. CASE m = o
    BY <1>3, <1>6, <2>1
  <2>2. CASE m # o /\ IsDataset(d, m)
    BY <1>3, <2>2
  <2>3. CASE ~IsDataset(d, m)
    BY <1>3, <1>6, <2>3
  <2> QED BY <2>1, <2>2, <2>3
<1>9. ancestors(c, o) \subseteq S
  BY <1>3, <1>4, <1>6, <1>8
<1> QED BY <1>7, <1>9 DEF c, S

\* The names of the tables that reach an output past no other dataset.
TabledOf(d, o) ==
  {d.nodes[m].name : m \in {n \in ancestors(Cut(d, o), o) : ReadsTable(d.nodes[n])}} \ {""}

\* The tables that a generated function mentions, as the importer finds them.
TableCall(v, r) ==
  [on |-> IF r[1] = "stream" THEN "spark.readStream" ELSE "spark", name |-> v.nodes[r[2]].name]
TableCalls(v, def) ==
  {TableCall(v, r) :
     r \in {s \in UNION {def.statements[i].reads : i \in DOMAIN def.statements} : ReadsTable(v.nodes[s[2]])}}

LEMMA TablesReadBack ==
  ASSUME NEW d, Clean(d), NEW v, Viewed(v, d), NEW o \in materialization_boundaries(v)
  PROVE  TablesNamed(TableCalls(v, Definition(v, o))) = TabledOf(d, o) /\ IsFiniteSet(TabledOf(d, o))
<1> DEFINE S == ScopeOf(v, Parents(v, o))
           def == Definition(v, o)
           reads == UNION {def.statements[i].reads : i \in DOMAIN def.statements}
           M == {n \in S : ReadsTable(d.nodes[n])}
<1>1. Sound(d) /\ Pictures(v, d)
  BY CleanGraph DEF Viewed
<1>2. /\ Ids(v) = Ids(d) /\ \A n \in Ids(d) : v.nodes[n] = d.nodes[n]
      /\ \A n \in Ids(d) : IsDataset(v, n) = IsDataset(d, n)
  BY <1>1, SameDocument DEF Pictures
<1>3. o \in Ids(d)
  BY <1>2 DEF materialization_boundaries
<1>4. S = ScopeOf(d, Parents(d, o))
  BY <1>1, SameDocument, SameAncestors
<1>5. S = ancestors(Cut(d, o), o)
  BY <1>1, <1>3, <1>4, CutAncestors
<1>6. S \in SUBSET Ids(d) /\ IsFiniteSet(Ids(d))
  <2>1. Parents(d, o) \in SUBSET Ids(d) /\ IsFiniteSet(Ids(d))
    BY <1>1, SoundFacts
  <2> QED BY <1>1, <1>4, <2>1, ScopeFacts
<1>7. {r[2] : r \in reads} = {m \in S : ReadsOutside(v.nodes[m]) \/ IsDataset(v, m)}
  <2>1. UNION {{r[2] : r \in def.statements[i].reads} : i \in DOMAIN def.statements}
          = {m \in S : ReadsOutside(v.nodes[m]) \/ IsDataset(v, m)}
    BY ReadsOfDefinition
  <2>2. UNION {{r[2] : r \in def.statements[i].reads} : i \in DOMAIN def.statements} = {r[2] : r \in reads}
    OBVIOUS
  <2> QED BY <2>1, <2>2
<1>8. \A m \in Ids(d) : ReadsTable(d.nodes[m]) => ReadsOutside(v.nodes[m]) \/ IsDataset(v, m)
  BY <1>2, TypeSets DEF ReadsTable, ReadsOutside, IsDataset
<1>9. TablesNamed(TableCalls(v, def)) = {v.nodes[r[2]].name : r \in {s \in reads : ReadsTable(v.nodes[s[2]])}} \ {""}
  <2> HIDE DEF def
  <2> DEFINE R == {s \in reads : ReadsTable(v.nodes[s[2]])}
  <2>0. \A r : TableCall(v, r).name = v.nodes[r[2]].name
    BY DEF TableCall
  <2>1. TableCalls(v, def) = {TableCall(v, r) : r \in R}
    BY DEF TableCalls
  <2> HIDE DEF R
  <2>2. {c.name : c \in TableCalls(v, def)} = {v.nodes[r[2]].name : r \in R}
    <3>1. ASSUME NEW c \in TableCalls(v, def) PROVE \E r \in R : c.name = v.nodes[r[2]].name
      BY <2>0, <2>1
    <3>2. ASSUME NEW r \in R PROVE \E c \in TableCalls(v, def) : c.name = v.nodes[r[2]].name
      BY <2>0, <2>1
    <3> QED BY <3>1, <3>2
  <2> QED BY <2>2 DEF TablesNamed, R
<1> HIDE DEF def, S, reads
<1>10. {v.nodes[r[2]].name : r \in {s \in reads : ReadsTable(v.nodes[s[2]])}} = {d.nodes[m].name : m \in M}
  <2>1. ASSUME NEW r \in reads, ReadsTable(v.nodes[r[2]]) PROVE r[2] \in M /\ v.nodes[r[2]] = d.nodes[r[2]]
    <3>1. r[2] \in S
      BY <1>7
    <3> QED BY <1>2, <1>6, <2>1, <3>1
  <2>2. ASSUME NEW m \in M PROVE \E r \in reads : r[2] = m /\ ReadsTable(v.nodes[r[2]]) /\ v.nodes[r[2]] = d.nodes[m]
    <3>1. m \in S /\ m \in Ids(d) /\ ReadsTable(d.nodes[m])
      BY <1>6
    <3>2. m \in {r[2] : r \in reads}
      BY <1>7, <1>8, <3>1
    <3> QED BY <1>2, <3>1, <3>2
  <2> QED BY <2>1, <2>2
<1>11. TabledOf(d, o) = {d.nodes[m].name : m \in M} \ {""}
  BY <1>5 DEF TabledOf
<1>12. IsFiniteSet(TabledOf(d, o))
  <2> DEFINE N == {d.nodes[m].name : m \in M}
  <2>1. IsFiniteSet(M)
    BY <1>6, FS_Subset
  <2>2. [m \in M |-> d.nodes[m].name] \in Surjection(M, N)
    BY DEF Surjection
  <2> HIDE DEF M, N
  <2>3. IsFiniteSet(N)
    BY <2>1, <2>2, FS_Surjection DEF ExistsSurjection
  <2>4. N \ {""} \in SUBSET N
    OBVIOUS
  <2>5. IsFiniteSet(N \ {""})
    BY <2>3, <2>4, FS_Subset
  <2> QED BY <1>11, <2>5 DEF M, N
<1> QED BY <1>9, <1>10, <1>11, <1>12 DEF def

\* What is read of an output, and of the call that makes a sink; and of all.
DefinedAs(d, o) == Declaration(d.nodes[o].name, d.nodes[o].type, TabledOf(d, o))
CalledAs(d, o) == Declaration(d.nodes[o].name, "sink.external", {})
ReadBack(d, order, sinks) ==
  [i \in DOMAIN order |-> DefinedAs(d, order[i])] \o [i \in DOMAIN sinks |-> CalledAs(d, sinks[i])]

\* Lists of the outputs and of the sinks of a document.
SinksOf(d) == {o \in materialization_boundaries(d) : d.nodes[o].type = "sink.external"}
Listed(d, order, sinks) ==
  /\ order \in Seq(Ids(d)) /\ OneEach(order) /\ Elements(order) = materialization_boundaries(d)
  /\ sinks \in Seq(Ids(d)) /\ OneEach(sinks) /\ Elements(sinks) = SinksOf(d)

\* The names and kinds of the outputs, and the functions written of them.
Written(v, order, sinks) ==
  Plain(order, sinks, [i \in DOMAIN order |-> DecoratorOf(v.nodes[order[i]].type)],
        [i \in DOMAIN order |-> v.nodes[order[i]].name], [i \in DOMAIN order |-> FunctionName(v.nodes[order[i]])],
        [i \in DOMAIN order |-> TableCalls(v, Definition(v, order[i]))],
        [i \in DOMAIN sinks |-> v.nodes[sinks[i]].name])

LEMMA PythonIsWritten ==
  ASSUME NEW d, Clean(d), NEW v, Viewed(v, d), NEW definitions,
         definitions = [o \in materialization_boundaries(v) |-> Definition(v, o)]
  PROVE  \E order, sinks \in Seq(Ids(d)) :
           Listed(d, order, sinks) /\ PythonText(v, definitions) = Written(v, order, sinks)
<1> DEFINE B == materialization_boundaries(v)
           order == Among(v.order, DOMAIN definitions)
           K == {o \in Elements(order) : v.nodes[o].type = "sink.external"}
           sinks == Among(order, K)
<1>1. /\ Ids(v) = Ids(d) /\ \A n \in Ids(d) : v.nodes[n] = d.nodes[n]
      /\ Pictures(v, d)
      /\ v.order \in Seq(Ids(d)) /\ OneEach(v.order) /\ Elements(v.order) = Ids(d)
  BY DEF Viewed, Pictures, Orders
<1>2. B = materialization_boundaries(d) /\ B \subseteq Ids(d) /\ DOMAIN definitions = B
  BY <1>1, SameDocument DEF materialization_boundaries
<1>3. order \in Seq(Ids(d)) /\ Elements(order) = Elements(v.order) \cap DOMAIN definitions
  BY <1>1, AmongFacts
<1>4. OneEach(order)
  BY <1>1, AmongOneEach
<1>5. Elements(order) = B
  BY <1>1, <1>2, <1>3
<1> HIDE DEF order
<1>6. sinks \in Seq(Ids(d)) /\ Elements(sinks) = Elements(order) \cap K
  BY <1>3, AmongFacts
<1>7. OneEach(sinks)
  BY <1>3, <1>4, AmongOneEach
<1>8. Elements(sinks) = SinksOf(d)
  BY <1>1, <1>2, <1>5, <1>6 DEF SinksOf
<1>9. Listed(d, order, sinks)
  BY <1>2, <1>3, <1>4, <1>5, <1>6, <1>7, <1>8 DEF Listed
<1> DEFINE functions == [i \in DOMAIN order |->
             [name |-> FunctionName(v.nodes[order[i]]),
              decorators |-> << Keyword(DecoratorOf(v.nodes[order[i]].type), v.nodes[order[i]].name) >>,
              tables |-> TableCalls(v, definitions[order[i]])]]
           calls == [i \in DOMAIN sinks |-> Keyword("create_sink", v.nodes[sinks[i]].name)]
<1>10. PythonText(v, definitions) = [functions |-> functions, calls |-> calls]
  BY DEF PythonText, TableCalls, TableCall, order
<1> HIDE DEF sinks
<1>11. \A i \in DOMAIN order : definitions[order[i]] = Definition(v, order[i])
  BY <1>5 DEF Elements
<1>12. Written(v, order, sinks) = [functions |-> functions, calls |-> calls]
  BY <1>11 DEF Written, Plain, Decorated
<1> QED BY <1>3, <1>6, <1>9, <1>10, <1>12

LEMMA WrittenIsRead ==
  ASSUME NEW d, Clean(d), NEW v, Viewed(v, d),
         NEW order \in Seq(Ids(d)), NEW sinks \in Seq(Ids(d)), Listed(d, order, sinks)
  PROVE  discover_python(Written(v, order, sinks)).declarations = ReadBack(d, order, sinks)
<1> DEFINE attr == [i \in DOMAIN order |-> DecoratorOf(v.nodes[order[i]].type)]
           name == [i \in DOMAIN order |-> v.nodes[order[i]].name]
           ident == [i \in DOMAIN order |-> FunctionName(v.nodes[order[i]])]
           tables == [i \in DOMAIN order |-> TableCalls(v, Definition(v, order[i]))]
           called == [i \in DOMAIN sinks |-> v.nodes[sinks[i]].name]
<1>1. /\ Ids(v) = Ids(d) /\ \A n \in Ids(d) : v.nodes[n] = d.nodes[n]
      /\ materialization_boundaries(v) = materialization_boundaries(d)
  BY SameDocument DEF Viewed, Pictures
<1>2. \A i \in DOMAIN order : order[i] \in materialization_boundaries(d)
  BY ElementsType DEF Listed
<1>3. \A i \in DOMAIN sinks : sinks[i] \in materialization_boundaries(d)
  BY ElementsType DEF Listed, SinksOf
<1>4. \A o \in materialization_boundaries(d) :
        o \in Ids(d) /\ d.nodes[o].type \in Outputs /\ d.nodes[o].name # "" /\ v.nodes[o] = d.nodes[o]
  BY <1>1, CleanPorts DEF materialization_boundaries, IsOutput
<1>5. ASSUME NEW i \in DOMAIN order
      PROVE  /\ Says(attr[i], name[i])
             /\ name[i] = d.nodes[order[i]].name /\ DecoratorKinds[attr[i]] = d.nodes[order[i]].type
             /\ TablesNamed(tables[i]) = TabledOf(d, order[i])
  <2> DEFINE o == order[i]
  <2>1. o \in materialization_boundaries(v) /\ v.nodes[o] = d.nodes[o] /\ d.nodes[o].type \in Outputs
        /\ d.nodes[o].name # ""
    BY <1>1, <1>2, <1>4
  <2>2. attr[i] = DecoratorOf(d.nodes[o].type) /\ name[i] = d.nodes[o].name
    BY <2>1
  <2>3. tables[i] = TableCalls(v, Definition(v, o))
    OBVIOUS
  <2>4. TablesNamed(TableCalls(v, Definition(v, o))) = TabledOf(d, o)
    BY <2>1, TablesReadBack
  <2>5. DecoratorOf(d.nodes[o].type) \in DOMAIN DecoratorKinds
        /\ DecoratorKinds[DecoratorOf(d.nodes[o].type)] = d.nodes[o].type
    BY <2>1, DecoratorsReadBack
  <2> QED BY <2>1, <2>2, <2>3, <2>4, <2>5 DEF Says
<1>6. ASSUME NEW i \in DOMAIN sinks PROVE called[i] = d.nodes[sinks[i]].name /\ called[i] # ""
  BY <1>3, <1>4
<1>7. Written(v, order, sinks) = Plain(order, sinks, attr, name, ident, tables, called)
  BY DEF Written
<1> HIDE DEF attr, name, ident, tables, called
<1>8. discover_python(Plain(order, sinks, attr, name, ident, tables, called)).declarations
        = Found(order, sinks, attr, name, tables, called)
  <2>1. AllSaid(order, sinks, attr, name, called)
    BY <1>5, <1>6 DEF AllSaid
  <2> QED BY <2>1, DiscoverPlain
<1>9. [i \in DOMAIN order |-> Declaration(name[i], DecoratorKinds[attr[i]], TablesNamed(tables[i]))]
        = [i \in DOMAIN order |-> DefinedAs(d, order[i])]
  BY <1>5 DEF DefinedAs
<1>10. [i \in DOMAIN sinks |-> Declaration(called[i], "sink.external", {})]
         = [i \in DOMAIN sinks |-> CalledAs(d, sinks[i])]
  BY <1>6 DEF CalledAs
<1> QED BY <1>7, <1>8, <1>9, <1>10 DEF ReadBack, Found

\* How often a sequence has a value.
Count(x, s) == Cardinality({i \in DOMAIN s : s[i] = x})

LEMMA CountOnce ==
  ASSUME NEW T, NEW s \in Seq(T), OneEach(s), NEW x
  PROVE  Count(x, s) = IF x \in Elements(s) THEN 1 ELSE 0
<1> DEFINE P == {i \in DOMAIN s : s[i] = x}
<1>1. CASE x \in Elements(s)
  <2>1. PICK i \in DOMAIN s : s[i] = x
    BY <1>1 DEF Elements
  <2>2. P = {i}
    BY <2>1 DEF OneEach
  <2>3. Cardinality({i}) = 1
    BY FS_Singleton
  <2> QED BY <1>1, <2>2, <2>3 DEF Count
<1>2. CASE x \notin Elements(s)
  <2>1. P = {}
    BY <1>2 DEF Elements
  <2> QED BY <1>2, <2>1, FS_EmptySet DEF Count
<1> QED BY <1>1, <1>2

LEMMA CountConcat ==
  ASSUME NEW T, NEW r \in Seq(T), NEW s \in Seq(T), NEW x
  PROVE  /\ Count(x, r \o s) = Count(x, r) + Count(x, s)
         /\ Count(x, r) \in Nat /\ Count(x, s) \in Nat
<1> DEFINE P == {i \in DOMAIN r : r[i] = x}
           Q == {i \in DOMAIN s : s[i] = x}
           M == Len(r)
           N == Len(s)
<1>1. M \in Nat /\ DOMAIN r = 1..M /\ N \in Nat /\ DOMAIN s = 1..N
  BY LenProperties
<1>2. /\ r \o s \in Seq(T) /\ Len(r \o s) = Len(r) + Len(s)
      /\ \A i \in 1..(Len(r) + Len(s)) : (r \o s)[i] = IF i <= Len(r) THEN r[i] ELSE s[i - Len(r)]
  BY ConcatProperties
<1> DEFINE t == r \o s
<1>3. t \in Seq(T) /\ Len(t) = M + N /\ \A i \in 1..(M + N) : t[i] = IF i <= M THEN r[i] ELSE s[i - M]
  BY <1>2
<1> HIDE DEF t
<1>4. DOMAIN t = 1..(M + N)
  BY <1>3, LenProperties
<1>0. SUFFICES ASSUME NEW m \in Nat, m = M, NEW n \in Nat, n = N
               PROVE  /\ Count(x, t) = Count(x, r) + Count(x, s)
                      /\ Count(x, r) \in Nat /\ Count(x, s) \in Nat
  BY <1>1 DEF t
<1>5. /\ DOMAIN r = 1..m /\ DOMAIN s = 1..n /\ DOMAIN t = 1..(m + n)
      /\ \A i \in 1..(m + n) : t[i] = IF i <= m THEN r[i] ELSE s[i - m]
  BY <1>0, <1>1, <1>3, <1>4
<1> HIDE DEF M, N
<1> DEFINE W == {i \in DOMAIN t : t[i] = x}
           R == W \ P
           shift == [i \in Q |-> i + m]
<1>6. IsFiniteSet(P) /\ IsFiniteSet(Q) /\ IsFiniteSet(W)
  <2>1. IsFiniteSet(1..m) /\ IsFiniteSet(1..n) /\ IsFiniteSet(1..(m + n))
    BY FS_Interval
  <2>2. P \in SUBSET (1..m) /\ Q \in SUBSET (1..n) /\ W \in SUBSET (1..(m + n))
    BY <1>5
  <2> HIDE DEF P, Q, W
  <2>3. IsFiniteSet(P)
    BY <2>1, <2>2, FS_Subset
  <2>4. IsFiniteSet(Q)
    BY <2>1, <2>2, FS_Subset
  <2>5. IsFiniteSet(W)
    BY <2>1, <2>2, FS_Subset
  <2> QED BY <2>3, <2>4, <2>5
<1>7. ASSUME NEW i \in Q PROVE i + m \in R
  <2>1. i \in 1..n /\ s[i] = x /\ i + m \in 1..(m + n) /\ (i + m) - m = i /\ ~(i + m <= m)
    BY <1>5
  <2>2. t[i + m] = s[i]
    BY <1>5, <2>1
  <2> QED BY <1>5, <2>1, <2>2
<1>8. ASSUME NEW i \in R PROVE i - m \in Q /\ (i - m) + m = i
  <2>1. i \in 1..(m + n) /\ t[i] = x /\ i \notin P
    BY <1>5
  <2>2. ~(i <= m)
    BY <1>5, <2>1
  <2>3. t[i] = s[i - m] /\ i - m \in 1..n /\ (i - m) + m = i
    BY <1>5, <2>1, <2>2
  <2> QED BY <1>5, <2>1, <2>3
<1>9. P \subseteq W
  BY <1>5
<1>10. Q \subseteq Nat
  BY <1>5
<1>11. shift \in Bijection(Q, R)
  <2> HIDE DEF Q, R
  <2>1. shift \in [Q -> R] /\ \A i, j \in Q : shift[i] = shift[j] => i = j
    BY <1>7, <1>10
  <2>2. \A i \in R : \E j \in Q : shift[j] = i
    BY <1>8
  <2> HIDE DEF shift
  <2> QED BY <2>1, <2>2 DEF Bijection, Injection, Surjection, IsInjective
<1>12. IsFiniteSet(R) /\ Cardinality(R) = Cardinality(Q)
  <2>1. ExistsBijection(Q, R)
    BY <1>11 DEF ExistsBijection
  <2> HIDE DEF Q, R
  <2> QED BY <1>6, <2>1, FS_Bijection
<1>13. Cardinality(W) = Cardinality(P) + Cardinality(R)
  <2>1. W = P \cup R /\ P \cap R = {}
    <3> HIDE DEF P, W
    <3> QED BY <1>9
  <2> HIDE DEF P, R, W
  <2>2. Cardinality(P \cup R) = Cardinality(P) + Cardinality(R) - Cardinality(P \cap R)
    BY <1>6, <1>12, FS_Union
  <2>3. Cardinality({}) = 0
    BY FS_EmptySet
  <2>4. Cardinality(P) \in Nat /\ Cardinality(R) \in Nat
    BY <1>6, <1>12, FS_CardinalityType
  <2>5. Cardinality(W) = Cardinality(P) + Cardinality(R) - Cardinality({})
    BY <2>1, <2>2
  <2>6. SUFFICES ASSUME NEW a \in Nat, NEW b \in Nat, NEW c, c = a + b - 0
                 PROVE  c = a + b
    BY <2>3, <2>4, <2>5
  <2> QED BY <2>6
<1>14. Cardinality(P) \in Nat /\ Cardinality(Q) \in Nat
  <2> HIDE DEF P, Q
  <2> QED BY <1>6, FS_CardinalityType
<1> QED BY <1>12, <1>13, <1>14 DEF Count

\* A list that is mapped by a function that tells its members apart.
Mapped(F, s) == [i \in DOMAIN s |-> F[s[i]]]
ValuesAt(F, S) == {F[x] : x \in S}
Separates(F, S) == \A x, y \in S : F[x] = F[y] => x = y

LEMMA MappedList ==
  ASSUME NEW T, NEW s \in Seq(T), OneEach(s), NEW F, Separates(F, Elements(s))
  PROVE  /\ Mapped(F, s) \in Seq(ValuesAt(F, Elements(s))) /\ OneEach(Mapped(F, s))
         /\ Len(Mapped(F, s)) = Len(s) /\ Elements(Mapped(F, s)) = ValuesAt(F, Elements(s))
<1>0. \A x, y \in Elements(s) : F[x] = F[y] => x = y
  BY DEF Separates
<1> DEFINE t == [i \in DOMAIN s |-> F[s[i]]]
           R == {F[x] : x \in Elements(s)}
<1>1. \A i \in DOMAIN s : s[i] \in Elements(s)
  BY DEF Elements
<1>2. t \in [DOMAIN s -> R]
  BY <1>1
<1>3. t \in Seq(R) /\ Len(t) = Len(s)
  <2> HIDE DEF t, R
  <2> QED BY <1>2, AlongFacts
<1>4. OneEach(t)
  BY <1>0, <1>1 DEF OneEach
<1>5. Elements(t) = R
  BY DEF Elements
<1> QED BY <1>3, <1>4, <1>5 DEF Mapped, ValuesAt

LEMMA ConcatElements ==
  ASSUME NEW T, NEW r \in Seq(T), NEW s \in Seq(T)
  PROVE  /\ r \o s \in Seq(T) /\ Len(r \o s) = Len(r) + Len(s)
         /\ Elements(r \o s) = Elements(r) \cup Elements(s)
<1>1. /\ r \o s \in Seq(T) /\ Len(r \o s) = Len(r) + Len(s)
      /\ \A i \in 1..(Len(r) + Len(s)) : (r \o s)[i] = IF i <= Len(r) THEN r[i] ELSE s[i - Len(r)]
  BY ConcatProperties
<1>2. /\ Len(r) \in Nat /\ DOMAIN r = 1..Len(r) /\ Len(s) \in Nat /\ DOMAIN s = 1..Len(s)
      /\ DOMAIN (r \o s) = 1..Len(r \o s)
  BY <1>1, LenProperties
<1>0. SUFFICES ASSUME NEW m \in Nat, m = Len(r), NEW n \in Nat, n = Len(s), NEW t, t = r \o s
               PROVE  Elements(t) = Elements(r) \cup Elements(s)
  BY <1>1, <1>2
<1>3. /\ DOMAIN r = 1..m /\ DOMAIN s = 1..n /\ DOMAIN t = 1..(m + n)
      /\ \A i \in 1..(m + n) : t[i] = IF i <= m THEN r[i] ELSE s[i - m]
  BY <1>0, <1>1, <1>2
<1>4. ASSUME NEW i \in DOMAIN t PROVE t[i] \in Elements(r) \cup Elements(s)
  <2>1. CASE i <= m
    BY <1>3, <2>1 DEF Elements
  <2>2. CASE ~(i <= m)
    <3>1. i - m \in DOMAIN s /\ t[i] = s[i - m]
      BY <1>3, <2>2
    <3> QED BY <3>1 DEF Elements
  <2> QED BY <2>1, <2>2
<1>5. ASSUME NEW i \in DOMAIN r PROVE r[i] \in Elements(t)
  <2>1. i \in DOMAIN t /\ t[i] = r[i]
    BY <1>3
  <2> QED BY <2>1 DEF Elements
<1>6. ASSUME NEW i \in DOMAIN s PROVE s[i] \in Elements(t)
  <2>1. i + m \in DOMAIN t /\ ~(i + m <= m) /\ (i + m) - m = i
    BY <1>3
  <2>2. t[i + m] = s[i]
    BY <1>3, <2>1
  <2> QED BY <2>1, <2>2 DEF Elements
<1> QED BY <1>4, <1>5, <1>6 DEF Elements

\* No two outputs have one name.
Apart(d) == \A o, p \in materialization_boundaries(d) : d.nodes[p].name = d.nodes[o].name => p = o

LEMMA ReadBackCounts ==
  ASSUME NEW d, Apart(d), NEW order \in Seq(Ids(d)), NEW sinks \in Seq(Ids(d)), Listed(d, order, sinks),
         NEW read, read = ReadBack(d, order, sinks)
  PROVE  /\ \A o \in materialization_boundaries(d) :
              Count(DefinedAs(d, o), read) = IF o \in SinksOf(d) /\ TabledOf(d, o) = {} THEN 2 ELSE 1
         /\ \A o \in SinksOf(d) : TabledOf(d, o) # {} => Count(CalledAs(d, o), read) = 1
         /\ Len(read) = Cardinality(materialization_boundaries(d)) + Cardinality(SinksOf(d))
         /\ \E R : read \in Seq(R)
         /\ Elements(read) = {DefinedAs(d, o) : o \in materialization_boundaries(d)}
                               \cup {CalledAs(d, o) : o \in SinksOf(d)}
<1> DEFINE B == materialization_boundaries(d)
           K == SinksOf(d)
           F == [o \in B |-> DefinedAs(d, o)]
           G == [o \in K |-> CalledAs(d, o)]
           D == Mapped(F, order)
           E == Mapped(G, sinks)
           DS == ValuesAt(F, B)
           ES == ValuesAt(G, K)
<1>1. /\ OneEach(order) /\ Elements(order) = B
      /\ OneEach(sinks) /\ Elements(sinks) = K /\ K \subseteq B
  BY DEF Listed, SinksOf
<1>2. /\ \A o : DefinedAs(d, o).name = d.nodes[o].name /\ DefinedAs(d, o).dependencies = TabledOf(d, o)
                /\ DefinedAs(d, o).kind = d.nodes[o].type
      /\ \A o : CalledAs(d, o).name = d.nodes[o].name /\ CalledAs(d, o).dependencies = {}
                /\ CalledAs(d, o).kind = "sink.external"
  BY DEF DefinedAs, CalledAs, Declaration
<1>3. \A o, p \in B : d.nodes[p].name = d.nodes[o].name => p = o
  BY DEF Apart
<1>4. D = [i \in DOMAIN order |-> DefinedAs(d, order[i])] /\ E = [i \in DOMAIN sinks |-> CalledAs(d, sinks[i])]
  <2>1. \A i \in DOMAIN order : order[i] \in B
    BY <1>1, ElementsType
  <2>2. \A i \in DOMAIN sinks : sinks[i] \in K
    BY <1>1, ElementsType
  <2> QED BY <2>1, <2>2 DEF Mapped
<1>5. read = D \o E
  BY <1>4 DEF ReadBack
<1>6. \A o \in B : F[o] = DefinedAs(d, o)
  OBVIOUS
<1>7. \A o \in K : G[o] = CalledAs(d, o)
  OBVIOUS
<1>8. Separates(F, Elements(order))
  BY <1>1, <1>2, <1>3, <1>6 DEF Separates
<1>9. Separates(G, Elements(sinks))
  BY <1>1, <1>2, <1>3, <1>7 DEF Separates
<1> HIDE DEF B, K, F, G
<1>10. /\ D \in Seq(ValuesAt(F, Elements(order))) /\ OneEach(D) /\ Len(D) = Len(order)
       /\ Elements(D) = ValuesAt(F, Elements(order))
  BY <1>1, <1>8, MappedList
<1>11. /\ E \in Seq(ValuesAt(G, Elements(sinks))) /\ OneEach(E) /\ Len(E) = Len(sinks)
       /\ Elements(E) = ValuesAt(G, Elements(sinks))
  BY <1>1, <1>9, MappedList
<1> HIDE DEF D, E
<1>12. /\ D \in Seq(DS) /\ Elements(D) = DS /\ E \in Seq(ES) /\ Elements(E) = ES
  BY <1>1, <1>10, <1>11
<1> HIDE DEF DS, ES
<1>13. D \in Seq(DS \cup ES) /\ E \in Seq(DS \cup ES)
  <2>1. DS \subseteq DS \cup ES /\ ES \subseteq DS \cup ES
    OBVIOUS
  <2>2. Seq(DS) \subseteq Seq(DS \cup ES)
    BY <2>1, SeqMonotonic
  <2>3. Seq(ES) \subseteq Seq(DS \cup ES)
    BY <2>1, SeqMonotonic
  <2> QED BY <1>12, <2>2, <2>3
<1>14. /\ read \in Seq(DS \cup ES) /\ Len(read) = Len(D) + Len(E)
       /\ Elements(read) = DS \cup ES
  <2>1. /\ D \o E \in Seq(DS \cup ES) /\ Len(D \o E) = Len(D) + Len(E)
        /\ Elements(D \o E) = Elements(D) \cup Elements(E)
    BY <1>13, ConcatElements
  <2> QED BY <1>5, <1>12, <2>1
<1>15. Len(read) = Cardinality(B) + Cardinality(K)
  <2>1. Cardinality(Elements(order)) = Len(order)
    BY <1>1, OneEachCounts
  <2>2. Cardinality(Elements(sinks)) = Len(sinks)
    BY <1>1, OneEachCounts
  <2> QED BY <1>1, <1>10, <1>11, <1>14, <2>1, <2>2
<1>16. \A x : Count(x, read) = Count(x, D) + Count(x, E)
  BY <1>5, <1>13, CountConcat
<1>17. \A x : Count(x, D) = IF x \in DS THEN 1 ELSE 0
  BY <1>10, <1>12, CountOnce
<1>18. \A x : Count(x, E) = IF x \in ES THEN 1 ELSE 0
  BY <1>11, <1>12, CountOnce
<1>19. ASSUME NEW o \in B
       PROVE  Count(DefinedAs(d, o), read) = IF o \in K /\ TabledOf(d, o) = {} THEN 2 ELSE 1
  <2> DEFINE x == DefinedAs(d, o)
  <2>1. x \in DS
    BY <1>6 DEF DS, ValuesAt
  <2>2. CASE o \in K /\ TabledOf(d, o) = {}
    <3>1. d.nodes[o].type = "sink.external"
      BY <2>2 DEF K, SinksOf
    <3>2. x = CalledAs(d, o)
      BY <2>2, <3>1 DEF DefinedAs, CalledAs
    <3>3. x \in ES
      BY <1>7, <2>2, <3>2 DEF ES, ValuesAt
    <3> QED BY <1>16, <1>17, <1>18, <2>1, <2>2, <3>3
  <2>3. CASE ~(o \in K /\ TabledOf(d, o) = {})
    <3>1. ASSUME x \in ES PROVE FALSE
      <4>1. PICK p \in K : x = CalledAs(d, p)
        BY <1>7, <3>1 DEF ES, ValuesAt
      <4>2. p = o
        BY <1>1, <1>2, <1>3, <4>1
      <4>3. TabledOf(d, o) = {}
        BY <1>2, <4>1
      <4> QED BY <2>3, <4>2, <4>3
    <3> QED BY <1>16, <1>17, <1>18, <2>1, <2>3, <3>1
  <2> QED BY <2>2, <2>3
<1>20. ASSUME NEW o \in K, TabledOf(d, o) # {}
       PROVE  Count(CalledAs(d, o), read) = 1
  <2> DEFINE x == CalledAs(d, o)
  <2>1. x \in ES
    BY <1>7 DEF ES, ValuesAt
  <2>2. ASSUME x \in DS PROVE FALSE
    <3>1. PICK p \in B : x = DefinedAs(d, p)
      BY <1>6, <2>2 DEF DS, ValuesAt
    <3>2. p = o
      BY <1>1, <1>2, <1>3, <3>1
    <3> QED BY <1>2, <1>20, <3>1, <3>2
  <2> QED BY <1>16, <1>17, <1>18, <2>1, <2>2
<1>21. DS = {DefinedAs(d, o) : o \in B} /\ ES = {CalledAs(d, o) : o \in K}
  BY <1>6, <1>7 DEF DS, ES, ValuesAt
<1> QED BY <1>14, <1>15, <1>19, <1>20, <1>21 DEF B, K

\* The document of a directory: what a declaration asks for that none declares,
\* and the pairs of its place and of such a name.
DeclaredNames(read) == {read[i].name : i \in DOMAIN read}
Missing(read, i) == read[i].dependencies \ DeclaredNames(read)
Pairs(read) == UNION {{i} \X Missing(read, i) : i \in DOMAIN read}
Asked(read) == {p[2] : p \in Pairs(read)}
Place(s, x) == CHOOSE i \in DOMAIN s : s[i] = x
Link(read, outside, i, p) ==
  [id |-> i, from |-> Len(read) + Place(outside, p[2]), fport |-> "out", to |-> p[1], tport |-> "in"]
DeclaredNodes(read) == [i \in DOMAIN read |-> ImportedNode(read[i].kind, read[i].name)]
OutsideNodes(outside) == [i \in DOMAIN outside |-> ImportedNode("source.table", outside[i])]

LEMMA DirectoryDocument ==
  ASSUME NEW read
  PROVE  LET outside == SetToSeq(Asked(read))
             links == SetToSeq(Pairs(read))
         IN  cmd_import_directory(read)
               = [nodes |-> DeclaredNodes(read) \o OutsideNodes(outside),
                  edges |-> {Link(read, outside, i, links[i]) : i \in DOMAIN links}]
BY DEF cmd_import_directory, DeclaredNames, Missing, Pairs, Asked, Place, Link, DeclaredNodes, OutsideNodes

LEMMA PairsAreFinite ==
  ASSUME NEW R, NEW read \in Seq(R), \A i \in DOMAIN read : IsFiniteSet(read[i].dependencies)
  PROVE  /\ IsFiniteSet(Pairs(read)) /\ IsFiniteSet(Asked(read))
         /\ \A p \in Pairs(read) : \E i \in DOMAIN read : \E t \in Missing(read, i) : p = <<i, t>>
         /\ \A i \in DOMAIN read : \A t \in Missing(read, i) : <<i, t>> \in Pairs(read) /\ t \in Asked(read)
         /\ \A p \in Pairs(read) : p[2] \in Asked(read)
<1> DEFINE Of(i) == {i} \X Missing(read, i)
           Sets == {Of(i) : i \in DOMAIN read}
<1>1. \A i \in DOMAIN read : IsFiniteSet(Of(i))
  <2> SUFFICES ASSUME NEW i \in DOMAIN read PROVE IsFiniteSet(Of(i))
    OBVIOUS
  <2>1. Missing(read, i) \in SUBSET read[i].dependencies
    BY DEF Missing
  <2>2. IsFiniteSet(Missing(read, i))
    BY <2>1, FS_Subset
  <2>3. IsFiniteSet({i})
    BY FS_Singleton
  <2> QED BY <2>2, <2>3, FS_Product
<1>2. IsFiniteSet(Sets)
  <2>1. IsFiniteSet(DOMAIN read)
    <3>1. Len(read) \in Nat /\ DOMAIN read = 1..Len(read)
      BY LenProperties
    <3> QED BY <3>1, FS_Interval
  <2>2. [i \in DOMAIN read |-> Of(i)] \in Surjection(DOMAIN read, Sets)
    BY DEF Surjection
  <2> HIDE DEF Sets, Of
  <2> QED BY <2>1, <2>2, FS_Surjection
<1>3. Pairs(read) = UNION Sets
  BY DEF Pairs
<1>4. IsFiniteSet(Pairs(read))
  <2>1. \A S \in Sets : IsFiniteSet(S)
    BY <1>1
  <2> HIDE DEF Sets
  <2> QED BY <1>2, <1>3, <2>1, FS_UNION
<1>5. IsFiniteSet(Asked(read))
  <2>1. [p \in Pairs(read) |-> p[2]] \in Surjection(Pairs(read), Asked(read))
    BY DEF Surjection, Asked
  <2> QED BY <1>4, <2>1, FS_Surjection
<1>6. \A p \in Pairs(read) : \E i \in DOMAIN read : \E t \in Missing(read, i) : p = <<i, t>>
  BY DEF Pairs
<1>7. \A i \in DOMAIN read : \A t \in Missing(read, i) : <<i, t>> \in Pairs(read)
  BY DEF Pairs
<1>8. \A p \in Pairs(read) : p[2] \in Asked(read)
  BY DEF Asked
<1>9. \A i \in DOMAIN read : \A t \in Missing(read, i) : t \in Asked(read)
  <2> SUFFICES ASSUME NEW i \in DOMAIN read, NEW t \in Missing(read, i) PROVE t \in Asked(read)
    OBVIOUS
  <2>1. <<i, t>> \in Pairs(read) /\ <<i, t>>[2] = t
    BY <1>7
  <2> QED BY <1>8, <2>1
<1> QED BY <1>4, <1>5, <1>6, <1>7, <1>8, <1>9

NamedAfter(nodes, read, outside) ==
  /\ \A i \in DOMAIN read : nodes[i].name = read[i].name
  /\ \A j \in DOMAIN outside : nodes[Len(read) + j].name = outside[j]

LEMMA DirectoryNames ==
  ASSUME NEW R, NEW read \in Seq(R), NEW T, NEW outside \in Seq(T)
  PROVE  NamedAfter(DeclaredNodes(read) \o OutsideNodes(outside), read, outside)
<1> DEFINE A == DeclaredNodes(read)
           B == OutsideNodes(outside)
           X == {A[i] : i \in DOMAIN read} \cup {B[i] : i \in DOMAIN outside}
           nodes == A \o B
<1>1. /\ DOMAIN A = DOMAIN read /\ \A i \in DOMAIN read : A[i] = ImportedNode(read[i].kind, read[i].name)
      /\ DOMAIN B = DOMAIN outside /\ \A i \in DOMAIN outside : B[i] = ImportedNode("source.table", outside[i])
      /\ A \in [DOMAIN read -> X] /\ B \in [DOMAIN outside -> X]
  BY DEF DeclaredNodes, OutsideNodes
<1>2. \A type, name : ImportedNode(type, name).name = name
  BY DEF ImportedNode
<1>3. /\ \A i \in DOMAIN read : A[i].name = read[i].name
      /\ \A j \in DOMAIN outside : B[j].name = outside[j]
  BY <1>1, <1>2
<1> HIDE DEF A, B, X
<1>4. A \in Seq(X) /\ Len(A) = Len(read) /\ Len(read) \in Nat /\ DOMAIN read = 1..Len(read)
  BY <1>1, AlongFacts
<1>5. B \in Seq(X) /\ Len(B) = Len(outside) /\ Len(outside) \in Nat /\ DOMAIN outside = 1..Len(outside)
  BY <1>1, AlongFacts
<1>6. /\ A \o B \in Seq(X) /\ Len(A \o B) = Len(A) + Len(B)
      /\ \A i \in 1..(Len(A) + Len(B)) : (A \o B)[i] = IF i <= Len(A) THEN A[i] ELSE B[i - Len(A)]
  BY <1>4, <1>5, ConcatProperties
<1>7. nodes = A \o B
  OBVIOUS
<1> HIDE DEF nodes
<1>0. SUFFICES ASSUME NEW m \in Nat, m = Len(read), NEW n \in Nat, n = Len(outside)
               PROVE  /\ \A i \in DOMAIN read : nodes[i].name = read[i].name
                      /\ \A j \in DOMAIN outside : nodes[m + j].name = outside[j]
  BY <1>4, <1>5 DEF NamedAfter, nodes, A, B
<1>8. /\ DOMAIN read = 1..m /\ DOMAIN outside = 1..n
      /\ \A i \in 1..(m + n) : nodes[i] = IF i <= m THEN A[i] ELSE B[i - m]
  BY <1>0, <1>4, <1>5, <1>6, <1>7
<1>9. ASSUME NEW i \in DOMAIN read PROVE nodes[i].name = read[i].name
  <2>1. i \in 1..(m + n) /\ i <= m
    BY <1>8
  <2>2. nodes[i] = A[i]
    BY <1>8, <2>1
  <2> QED BY <1>3, <2>2
<1>10. ASSUME NEW j \in DOMAIN outside PROVE nodes[m + j].name = outside[j]
  <2>1. m + j \in 1..(m + n) /\ ~(m + j <= m) /\ (m + j) - m = j
    BY <1>8
  <2>2. nodes[m + j] = B[j]
    BY <1>8, <2>1
  <2> QED BY <1>3, <2>2
<1> QED BY <1>9, <1>10

\* A directory's document: its edges have different ids, and hang on each
\* declaration what it asks for that none declares.
LEMMA DirectoryFacts ==
  ASSUME NEW R, NEW read \in Seq(R), \A i \in DOMAIN read : IsFiniteSet(read[i].dependencies),
         NEW document, document = cmd_import_directory(read)
  PROVE  /\ ensure_unique_ids(document)
         /\ \A e \in document.edges : \E i \in DOMAIN read :
              /\ document.nodes[e.from].name \in Missing(read, i)
              /\ document.nodes[e.to].name = read[i].name
         /\ \A i \in DOMAIN read : \A t \in Missing(read, i) : \E e \in document.edges :
              document.nodes[e.from].name = t /\ document.nodes[e.to].name = read[i].name
<1> DEFINE outside == SetToSeq(Asked(read))
           links == SetToSeq(Pairs(read))
<1>1. /\ document.nodes = DeclaredNodes(read) \o OutsideNodes(outside)
      /\ document.edges = {Link(read, outside, i, links[i]) : i \in DOMAIN links}
  BY DirectoryDocument
<1>2. /\ IsFiniteSet(Pairs(read)) /\ IsFiniteSet(Asked(read))
      /\ \A p \in Pairs(read) : \E i \in DOMAIN read : \E t \in Missing(read, i) : p = <<i, t>>
      /\ \A i \in DOMAIN read : \A t \in Missing(read, i) : <<i, t>> \in Pairs(read) /\ t \in Asked(read)
      /\ \A p \in Pairs(read) : p[2] \in Asked(read)
  BY PairsAreFinite
<1>3. outside \in Seq(Asked(read)) /\ Elements(outside) = Asked(read)
  BY <1>2, SetToSeqFacts
<1>4. links \in Seq(Pairs(read)) /\ Elements(links) = Pairs(read)
  BY <1>2, SetToSeqFacts
<1> HIDE DEF outside, links
<1>5. /\ \A i \in DOMAIN read : document.nodes[i].name = read[i].name
      /\ \A j \in DOMAIN outside : document.nodes[Len(read) + j].name = outside[j]
  <2>1. NamedAfter(DeclaredNodes(read) \o OutsideNodes(outside), read, outside)
    BY <1>3, DirectoryNames
  <2> QED BY <1>1, <2>1 DEF NamedAfter
<1>6. \A i \in DOMAIN links : links[i] \in Pairs(read)
  BY <1>4, ElementsType
<1>7. \A i \in DOMAIN links : \A e : e = Link(read, outside, i, links[i]) =>
        /\ e.id = i /\ document.nodes[e.from].name = links[i][2]
        /\ document.nodes[e.to].name = read[links[i][1]].name
  <2>0. SUFFICES ASSUME NEW i \in DOMAIN links, NEW e, e = Link(read, outside, i, links[i])
                 PROVE  /\ e.id = i /\ document.nodes[e.from].name = links[i][2]
                        /\ document.nodes[e.to].name = read[links[i][1]].name
    OBVIOUS
  <2>1. e.id = i /\ e.from = Len(read) + Place(outside, links[i][2]) /\ e.to = links[i][1]
    BY <2>0 DEF Link
  <2>2. links[i][2] \in Elements(outside)
    BY <1>2, <1>3, <1>6
  <2>3. \E j \in DOMAIN outside : outside[j] = links[i][2]
    BY <2>2 DEF Elements
  <2>4. Place(outside, links[i][2]) \in DOMAIN outside /\ outside[Place(outside, links[i][2])] = links[i][2]
    BY <2>3 DEF Place
  <2>5. PICK k \in DOMAIN read : \E t \in Missing(read, k) : links[i] = <<k, t>>
    BY <1>2, <1>6
  <2>6. links[i][1] = k
    BY <2>5
  <2> QED BY <1>5, <2>1, <2>4, <2>6
<1>8. ensure_unique_ids(document)
  <2> SUFFICES ASSUME NEW e \in document.edges, NEW f \in document.edges, e.id = f.id PROVE e = f
    BY DEF ensure_unique_ids
  <2>1. PICK i \in DOMAIN links : e = Link(read, outside, i, links[i])
    BY <1>1
  <2>2. PICK j \in DOMAIN links : f = Link(read, outside, j, links[j])
    BY <1>1
  <2>3. i = j
    BY <1>7, <2>1, <2>2
  <2> QED BY <2>1, <2>2, <2>3
<1>9. ASSUME NEW e \in document.edges
      PROVE  \E i \in DOMAIN read : /\ document.nodes[e.from].name \in Missing(read, i)
                                    /\ document.nodes[e.to].name = read[i].name
  <2>1. PICK i \in DOMAIN links : e = Link(read, outside, i, links[i])
    BY <1>1
  <2>2. PICK k \in DOMAIN read : \E t \in Missing(read, k) : links[i] = <<k, t>>
    BY <1>2, <1>6
  <2>3. PICK t \in Missing(read, k) : links[i] = <<k, t>>
    BY <2>2
  <2>4. links[i][1] = k /\ links[i][2] = t
    BY <2>3
  <2> QED BY <1>7, <2>1, <2>3, <2>4
<1>10. ASSUME NEW i \in DOMAIN read, NEW t \in Missing(read, i)
       PROVE  \E e \in document.edges :
                document.nodes[e.from].name = t /\ document.nodes[e.to].name = read[i].name
  <2>1. <<i, t>> \in Elements(links)
    BY <1>2, <1>4
  <2>2. PICK k \in DOMAIN links : links[k] = <<i, t>>
    BY <2>1 DEF Elements
  <2>3. links[k][1] = i /\ links[k][2] = t
    BY <2>2
  <2>4. Link(read, outside, k, links[k]) \in document.edges
    BY <1>1
  <2> QED BY <1>7, <2>3, <2>4
<1> QED BY <1>8, <1>9, <1>10

\* The edges of a document by the names of their ends, and the edges that
\* outputs are read back with.
EdgeNames(document) ==
  {<<document.nodes[e.from].name, document.nodes[e.to].name>> : e \in document.edges}
TableEdges(d, outputs) ==
  UNION {(TabledOf(d, o) \ {d.nodes[p].name : p \in outputs}) \X {d.nodes[o].name} : o \in outputs}

LEMMA DirectoryOfReadBack ==
  ASSUME NEW d, Apart(d), NEW order \in Seq(Ids(d)), NEW sinks \in Seq(Ids(d)), Listed(d, order, sinks),
         \A o \in materialization_boundaries(d) : IsFiniteSet(TabledOf(d, o)),
         NEW document, document = cmd_import_directory(ReadBack(d, order, sinks))
  PROVE  /\ ensure_unique_ids(document)
         /\ EdgeNames(document) = TableEdges(d, materialization_boundaries(d))
<1> DEFINE read == ReadBack(d, order, sinks)
           B == materialization_boundaries(d)
           K == SinksOf(d)
           N == {d.nodes[p].name : p \in B}
<1>1. /\ Elements(read) = {DefinedAs(d, o) : o \in B} \cup {CalledAs(d, o) : o \in K}
      /\ \E R : read \in Seq(R)
  BY ReadBackCounts
<1>2. PICK R : read \in Seq(R)
  BY <1>1
<1>3. /\ \A o : DefinedAs(d, o).name = d.nodes[o].name /\ DefinedAs(d, o).dependencies = TabledOf(d, o)
      /\ \A o : CalledAs(d, o).name = d.nodes[o].name /\ CalledAs(d, o).dependencies = {}
  BY DEF DefinedAs, CalledAs, Declaration
<1>4. K \subseteq B
  BY DEF SinksOf
<1>5. document = cmd_import_directory(read)
  OBVIOUS
<1> HIDE DEF read, B, K
<1>6. \A i \in DOMAIN read :
        \/ \E o \in B : read[i].name = d.nodes[o].name /\ read[i].dependencies = TabledOf(d, o)
        \/ \E o \in B : read[i].name = d.nodes[o].name /\ read[i].dependencies = {}
  <2> SUFFICES ASSUME NEW i \in DOMAIN read
               PROVE  \/ \E o \in B : read[i].name = d.nodes[o].name /\ read[i].dependencies = TabledOf(d, o)
                      \/ \E o \in B : read[i].name = d.nodes[o].name /\ read[i].dependencies = {}
    OBVIOUS
  <2>1. read[i] \in Elements(read)
    BY DEF Elements
  <2>2. CASE read[i] \in {DefinedAs(d, o) : o \in B}
    BY <1>3, <2>2
  <2>3. CASE read[i] \in {CalledAs(d, o) : o \in K}
    BY <1>3, <1>4, <2>3
  <2> QED BY <1>1, <2>1, <2>2, <2>3
<1>7. ASSUME NEW o \in B
      PROVE  \E i \in DOMAIN read : read[i].name = d.nodes[o].name /\ read[i].dependencies = TabledOf(d, o)
  <2>1. DefinedAs(d, o) \in Elements(read)
    BY <1>1
  <2>2. PICK i \in DOMAIN read : read[i] = DefinedAs(d, o)
    BY <2>1 DEF Elements
  <2> QED BY <1>3, <2>2
<1>8. DeclaredNames(read) = N
  <2>1. \A i \in DOMAIN read : read[i].name \in N
    BY <1>6
  <2>2. \A o \in B : \E i \in DOMAIN read : read[i].name = d.nodes[o].name
    BY <1>7
  <2> QED BY <2>1, <2>2 DEF DeclaredNames
<1>9. \A i \in DOMAIN read : IsFiniteSet(read[i].dependencies)
  <2>1. \A o \in B : IsFiniteSet(TabledOf(d, o))
    BY DEF B
  <2>2. IsFiniteSet({})
    BY FS_EmptySet
  <2> QED BY <1>6, <2>1, <2>2
<1>10. /\ ensure_unique_ids(document)
       /\ \A e \in document.edges : \E i \in DOMAIN read :
            /\ document.nodes[e.from].name \in Missing(read, i)
            /\ document.nodes[e.to].name = read[i].name
       /\ \A i \in DOMAIN read : \A t \in Missing(read, i) : \E e \in document.edges :
            document.nodes[e.from].name = t /\ document.nodes[e.to].name = read[i].name
  BY <1>2, <1>5, <1>9, DirectoryFacts
<1>11. \A i : Missing(read, i) = read[i].dependencies \ N
  BY <1>8 DEF Missing
<1> HIDE DEF N
<1> DEFINE Of(o) == (TabledOf(d, o) \ N) \X {d.nodes[o].name}
           edges == {<<document.nodes[e.from].name, document.nodes[e.to].name>> : e \in document.edges}
<1>12. ASSUME NEW e \in document.edges
       PROVE  \E o \in B : <<document.nodes[e.from].name, document.nodes[e.to].name>> \in Of(o)
  <2>1. PICK i \in DOMAIN read : /\ document.nodes[e.from].name \in Missing(read, i)
                                 /\ document.nodes[e.to].name = read[i].name
    BY <1>10
  <2>2. PICK o \in B : read[i].name = d.nodes[o].name /\ read[i].dependencies = TabledOf(d, o)
    BY <1>6, <1>11, <2>1
  <2>3. document.nodes[e.from].name \in TabledOf(d, o) \ N /\ document.nodes[e.to].name = d.nodes[o].name
    BY <1>11, <2>1, <2>2
  <2> QED BY <2>3
<1>13. ASSUME NEW o \in B, NEW p \in Of(o) PROVE p \in edges
  <2>1. PICK t \in TabledOf(d, o) \ N : p = <<t, d.nodes[o].name>>
    OBVIOUS
  <2>2. PICK i \in DOMAIN read : read[i].name = d.nodes[o].name /\ read[i].dependencies = TabledOf(d, o)
    BY <1>7
  <2>3. t \in Missing(read, i)
    BY <1>11, <2>1, <2>2
  <2>4. PICK e \in document.edges :
          document.nodes[e.from].name = t /\ document.nodes[e.to].name = read[i].name
    BY <1>10, <2>3
  <2> QED BY <2>1, <2>2, <2>4
<1>14. edges = UNION {Of(o) : o \in B}
  <2> HIDE DEF Of
  <2>1. \A x \in edges : \E o \in B : x \in Of(o)
    BY <1>12
  <2>2. \A o \in B : \A p \in Of(o) : p \in edges
    BY <1>13
  <2> HIDE DEF edges
  <2> QED BY <2>1, <2>2
<1> QED BY <1>10, <1>14 DEF B, N, EdgeNames, TableEdges

-----------------------------------------------------------------------------
(* What the importer finds in generated SQL.                               *)

KnownForms(listing) == \A i \in DOMAIN listing.statements : listing.statements[i].form \in DOMAIN SqlForms
Listings(s) ==
  [i \in DOMAIN s |-> Declaration(s[i].name, SqlForms[s[i].form], SqlDependencies(s[i], s[i].name))]

LEMMA DiscoverSql ==
  ASSUME NEW listing, listing.parses = TRUE, NEW T, listing.statements \in Seq(T), listing.statements # <<>>, KnownForms(listing)
  PROVE  discover_sql(listing).declarations = Listings(listing.statements)
<1> DEFINE s == listing.statements
           matches == Among(s, {x \in Elements(s) : x.form \in DOMAIN SqlForms})
           parsed == Among(s, {x \in Elements(s) : x.form \in CreateForms})
<1>1. \A x \in Elements(s) : x.form \in DOMAIN SqlForms
  BY DEF KnownForms, Elements
<1>2. \A x \in Elements(s) : x.form \in CreateForms
  BY <1>1 DEF CreateForms
<1>3. matches = s
  <2>1. Elements(s) \subseteq {x \in Elements(s) : x.form \in DOMAIN SqlForms}
    BY <1>1
  <2> QED BY <2>1, AmongAll
<1>4. parsed = s
  <2>1. Elements(s) \subseteq {x \in Elements(s) : x.form \in CreateForms}
    BY <1>2
  <2> QED BY <2>1, AmongAll
<1>5. discover_sql(listing).declarations
        = [i \in DOMAIN matches |->
             Declaration(matches[i].name, SqlForms[matches[i].form],
                         IF i \in DOMAIN parsed THEN SqlDependencies(parsed[i], matches[i].name) ELSE {})]
  BY <1>3 DEF discover_sql
<1> HIDE DEF matches, parsed
<1> QED BY <1>3, <1>4, <1>5 DEF Listings

\* The tables behind a dataset, and how the dataset is read.
SourcesOf(d, o) == {d.nodes[m].name : m \in {n \in ancestors(d, o) : ReadsOutside(d.nodes[n])}}
CreatedAs(d, o) ==
  Declaration(d.nodes[o].ident, SqlForms[FormOf(d.nodes[o].type)], SourcesOf(d, o) \ {d.nodes[o].ident})

\* The statement a dataset is written as.
Statement(d, definitions, o) ==
  [form |-> FormOf(d.nodes[o].type), name |-> d.nodes[o].ident, ctes |-> {},
   tables |-> {d.nodes[r[2]].name : r \in definitions[o]}]

SqlDefinitions(v) == [o \in {n \in Ids(v) : IsDataset(v, n)} |-> SqlReads(v, o)]
IsRead(declaration, read) == \E i \in DOMAIN read : read[i] = declaration

LEMMA SqlReadBack ==
  ASSUME NEW d, Clean(d), NEW v, Viewed(v, d), NEW definitions, definitions = SqlDefinitions(v),
         NEW o \in DOMAIN definitions
  PROVE  IsRead(CreatedAs(d, o), discover_sql(SqlText(v, definitions)).declarations)
<1>0. definitions = [n \in {m \in Ids(v) : IsDataset(v, m)} |-> SqlReads(v, n)]
  BY DEF SqlDefinitions
<1> DEFINE order == Among(v.order, DOMAIN definitions)
           listing == SqlText(v, definitions)
           s == listing.statements
<1>1. /\ Ids(v) = Ids(d) /\ \A n \in Ids(d) : v.nodes[n] = d.nodes[n]
      /\ Pictures(v, d) /\ Sound(d)
      /\ v.order \in Seq(Ids(d)) /\ Elements(v.order) = Ids(d)
  BY CleanGraph DEF Viewed, Pictures, Orders
<1>2. DOMAIN definitions \subseteq Ids(d) /\ definitions[o] = SqlReads(v, o) /\ o \in Ids(d)
  BY <1>0, <1>1
<1>3. order \in Seq(Ids(d)) /\ Elements(order) = Elements(v.order) \cap DOMAIN definitions
  BY <1>1, AmongFacts
<1>4. listing.parses = TRUE /\ s = [i \in DOMAIN order |-> Statement(v, definitions, order[i])]
  BY DEF SqlText, Statement
<1> HIDE DEF order, listing
<1>5. PICK i \in DOMAIN order : order[i] = o
  <2>1. o \in Elements(order)
    BY <1>1, <1>2, <1>3
  <2> QED BY <2>1 DEF Elements
<1>6. \A t : FormOf(t) \in DOMAIN SqlForms
  BY DEF FormOf, SqlForms
<1> DEFINE X == {Statement(v, definitions, n) : n \in Ids(d)}
<1>7. s \in Seq(X) /\ DOMAIN s = DOMAIN order
  <2>1. \A j \in DOMAIN order : order[j] \in Ids(d)
    BY <1>3, ElementsType
  <2>2. s \in [DOMAIN order -> X]
    BY <1>4, <2>1
  <2> HIDE DEF X, s
  <2> QED BY <1>3, <2>2, AlongFacts
<1>8. KnownForms(listing)
  <2>1. \A j \in DOMAIN s : s[j] = Statement(v, definitions, order[j])
    BY <1>4
  <2>2. \A n : Statement(v, definitions, n).form \in DOMAIN SqlForms
    BY <1>6 DEF Statement
  <2> QED BY <2>1, <2>2 DEF KnownForms
<1>9. s # <<>>
  <2>1. DOMAIN <<>> = {}
    OBVIOUS
  <2> QED BY <1>5, <1>7, <2>1
<1>10. discover_sql(listing).declarations = Listings(s)
  <2> HIDE DEF X
  <2> QED BY <1>4, <1>7, <1>8, <1>9, DiscoverSql
<1>11. Listings(s)[i] = Declaration(s[i].name, SqlForms[s[i].form], SqlDependencies(s[i], s[i].name))
       /\ i \in DOMAIN Listings(s)
  BY <1>5, <1>7 DEF Listings
<1>12. s[i] = Statement(v, definitions, o) /\ v.nodes[o] = d.nodes[o]
  BY <1>1, <1>2, <1>4, <1>5
<1>13. /\ s[i].name = d.nodes[o].ident /\ s[i].form = FormOf(d.nodes[o].type) /\ s[i].ctes = {}
       /\ s[i].tables = {v.nodes[r[2]].name : r \in SqlReads(v, o)}
  BY <1>2, <1>12 DEF Statement
<1>14. {v.nodes[r[2]].name : r \in SqlReads(v, o)} = SourcesOf(d, o)
  <2> DEFINE M == {m \in ancestors(v, o) : ReadsOutside(v.nodes[m])}
             L == {n \in ancestors(d, o) : ReadsOutside(d.nodes[n])}
  <2>1. ancestors(v, o) = ancestors(d, o) /\ ancestors(d, o) \subseteq Ids(d)
    <3>1. ancestors(v, o) = ancestors(d, o)
      BY <1>1, SameAncestors
    <3>2. ancestors(d, o) \subseteq Ids(d)
      BY <1>1, <1>2, AncestorsFacts
    <3> QED BY <3>1, <3>2
  <2>2. M = L /\ \A m \in M : v.nodes[m] = d.nodes[m]
    BY <1>1, <2>1
  <2>3. SqlReads(v, o) = {<<"table", m>> : m \in M}
    BY DEF SqlReads
  <2>4. SourcesOf(d, o) = {d.nodes[m].name : m \in L}
    BY DEF SourcesOf
  <2> HIDE DEF M, L
  <2>5. ASSUME NEW r \in SqlReads(v, o) PROVE r[2] \in M
    <3>1. PICK m \in M : r = <<"table", m>>
      BY <2>3
    <3> QED BY <3>1
  <2>6. ASSUME NEW m \in M PROVE \E r \in SqlReads(v, o) : r[2] = m
    <3>1. <<"table", m>> \in SqlReads(v, o) /\ <<"table", m>>[2] = m
      BY <2>3
    <3> QED BY <3>1
  <2> QED BY <2>2, <2>4, <2>5, <2>6
<1>15. SqlDependencies(s[i], s[i].name) = SourcesOf(d, o) \ {d.nodes[o].ident}
  BY <1>13, <1>14 DEF SqlDependencies
<1> QED BY <1>10, <1>11, <1>13, <1>15 DEF CreatedAs, listing, IsRead

\* What generated Python is read back as.
PythonReadsBack(d, outputs, sinks, read, document) ==
  /\ \A o \in outputs :
       Count(DefinedAs(d, o), read) = IF o \in sinks /\ TabledOf(d, o) = {} THEN 2 ELSE 1
  /\ \A o \in sinks : TabledOf(d, o) # {} => Count(CalledAs(d, o), read) = 1
  /\ Len(read) = Cardinality(outputs) + Cardinality(sinks)
  /\ ensure_unique_ids(document)
  /\ EdgeNames(document) = TableEdges(d, outputs)

LEMMA PythonIsReadBack ==
  ASSUME NEW d, Clean(d), NEW v, Viewed(v, d), _semantic_problems(v) = {}, NEW definitions,
         definitions = [o \in materialization_boundaries(v) |-> Definition(v, o)],
         NEW read, read = discover_python(PythonText(v, definitions)).declarations,
         NEW document, document = cmd_import_directory(read)
  PROVE  PythonReadsBack(d, DOMAIN definitions, SinksOf(d), read, document)
<1> DEFINE B == materialization_boundaries(d)
<1>1. B = materialization_boundaries(v) /\ DOMAIN definitions = B
  BY SameDocument DEF Viewed
<1>2. PICK order \in Seq(Ids(d)) : \E sinks \in Seq(Ids(d)) :
        Listed(d, order, sinks) /\ PythonText(v, definitions) = Written(v, order, sinks)
  BY PythonIsWritten
<1>3. PICK sinks \in Seq(Ids(d)) :
        Listed(d, order, sinks) /\ PythonText(v, definitions) = Written(v, order, sinks)
  BY <1>2
<1>4. read = ReadBack(d, order, sinks)
  BY <1>3, WrittenIsRead
<1>5. Apart(d)
  BY <1>1, NamesDiffer DEF Apart
<1>6. \A o \in B : IsFiniteSet(TabledOf(d, o))
  BY <1>1, TablesReadBack
<1>7. /\ \A o \in B :
           Count(DefinedAs(d, o), read) = IF o \in SinksOf(d) /\ TabledOf(d, o) = {} THEN 2 ELSE 1
      /\ \A o \in SinksOf(d) : TabledOf(d, o) # {} => Count(CalledAs(d, o), read) = 1
      /\ Len(read) = Cardinality(B) + Cardinality(SinksOf(d))
  BY <1>3, <1>4, <1>5, ReadBackCounts
<1>8. ensure_unique_ids(document) /\ EdgeNames(document) = TableEdges(d, B)
  BY <1>3, <1>4, <1>5, <1>6, DirectoryOfReadBack
<1> HIDE DEF B
<1> QED BY <1>1, <1>7, <1>8 DEF PythonReadsBack

\* Whatever is drawn: the importers (importer.py, sql_importer.py, import_directory
\* of main.py) find in the code that is generated the outputs that were drawn,
\* under their names and kinds, each with the tables that reach it.
THEOREM GeneratedIsReadBack == Drawing => []ImportReadsGenerated
<1>1. ASSUME OnCanvas PROVE ImportReadsGenerated
  <2> DEFINE v == lowered.view
             read == discover_python(PythonText(v, python.definitions)).declarations
             readSql == discover_sql(SqlText(v, sql.definitions)).declarations
             document == cmd_import_directory(read)
  <2> DEFINE outputs == DOMAIN python.definitions
             sinks == {o \in outputs : Doc.nodes[o].type = "sink.external"}
  <2>1. ASSUME python.how = "files" PROVE PythonReadsBack(Doc, outputs, sinks, read, document)
    <3>1. Emitted(v)
      BY <1>1, <2>1, EmittedPython
    <3> HIDE DEF v
    <3>2. /\ Clean(Doc) /\ Viewed(v, Doc) /\ _semantic_problems(v) = {}
          /\ python.definitions = [o \in materialization_boundaries(v) |-> Definition(v, o)]
      BY <3>1 DEF Emitted
    <3>3. SinksOf(Doc) = sinks
      BY <3>2, SameDocument DEF SinksOf, Viewed
    <3> HIDE DEF outputs, sinks
    <3>4. \A r, f : r = discover_python(PythonText(v, python.definitions)).declarations /\ f = cmd_import_directory(r)
            => PythonReadsBack(Doc, DOMAIN python.definitions, SinksOf(Doc), r, f)
      BY <3>2, PythonIsReadBack
    <3>5. PythonReadsBack(Doc, DOMAIN python.definitions, SinksOf(Doc), read, document)
      BY <3>4
    <3> QED BY <3>3, <3>5 DEF outputs
  <2>2. ASSUME sql.how = "files", NEW o \in DOMAIN sql.definitions
        PROVE  IsRead(CreatedAs(Doc, o), readSql)
    <3>1. /\ WellFormed(Doc) /\ NameIsField(Doc) /\ lowered = Lowered(Doc)
          /\ sql = generate_sql_project(Lowered(Doc))
      BY <1>1, CanvasFacts
    <3>2. ~Lowered(Doc).raised
      BY <2>2, <3>1 DEF generate_sql_project, Raised
    <3>3. /\ Clean(Doc)
          /\ generate_sql_project(Lowered(Doc)).definitions
               = [p \in {n \in Ids(Lowered(Doc).view) : IsDataset(Lowered(Doc).view, n)} |->
                    SqlReads(Lowered(Doc).view, p)]
      BY <2>2, <3>1, <3>2, SqlFiles
    <3>4. /\ Viewed(v, Doc)
          /\ sql.definitions = SqlDefinitions(v)
      BY <3>1, <3>3, ViewFacts DEF SqlDefinitions
    <3> HIDE DEF v
    <3> QED BY <2>2, <3>3, <3>4, SqlReadBack
  <2>3. ImportReadsGenerated <=>
          /\ python.how = "files" => PythonReadsBack(Doc, outputs, sinks, read, document)
          /\ sql.how = "files" => \A o \in DOMAIN sql.definitions : IsRead(CreatedAs(Doc, o), readSql)
    BY Zenon DEF ImportReadsGenerated, PythonReadsBack, Count, DefinedAs, CalledAs, TabledOf, Cut,
      IsRead, CreatedAs, SourcesOf, EdgeNames, TableEdges
  <2> HIDE DEF v, read, readSql, document, outputs, sinks
  <2> QED BY <2>1, <2>2, <2>3
<1> QED BY <1>1, BlankDrawn, DrawDrawn, PTL DEF Drawing
=============================================================================
