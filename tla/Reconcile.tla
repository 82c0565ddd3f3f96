------------------------------ MODULE Reconcile ------------------------------
(***************************************************************************)
(* Edited code taken back into the pipeline document: reconcile_python and *)
(* reconcile_sql (sdpstudio_codegen/reconcile.py), their handlers, which   *)
(* load the document and save it in two steps, and the generation that     *)
(* follows.                                                                *)
(*                                                                         *)
(* The configuration of a node has a value, or none, under every key.      *)
(* Generated code is made of statements: the decorator of an output, or    *)
(* the line that assigns a node.  What a statement shows and what is read  *)
(* back from it are two things, and its form says both.  A line of a text  *)
(* is [of, method, shape, args, by, as]: the statement whose variable it   *)
(* assigns, the one whose method it calls, and the arguments it passes.    *)
(* For a decorator, "by" is the name of its function and "as" a name in    *)
(* its first place, where generated code has none.                         *)
(***************************************************************************)
EXTENDS Integers, SequencesExt

CONSTANTS
  Nodes,        \* nodes of the document
  Keys,         \* keys of a configuration, in the order of the alphabet
  Name,         \* the key "name"
  Statements,   \* statements of generated code
  Form,         \* [Statements -> Forms]
  Function,     \* the name of the function of each decorator, by the output's name
  Definitions,  \* the statements of each output, in order: a line may be in two
  Role,         \* [Nodes -> the clause that reconcile_sql looks for the node in]
  ClauseKey,    \* the key each of these clauses is read into
  Normal,       \* a text of SQL as sqlglot renders it
  Default,      \* the value a node shows for a key it has no value of
  Unset,        \* the configuration of a node that nobody changed
  Nobody,       \* no node
  MaxValue,     \* bound on the values of a key
  MaxRev,       \* bound on the revision
  MaxEdits      \* bound on edits of the text

Values == 1..MaxValue
Optional == 0..MaxValue
Clauses == {"table", "where", "limit"}
Shapes == {"call", "unread", "value", "statement"}

\* node: the one it is generated for.  owner: the one whose whole id is in its
\* variable, which has the last characters of the id.  shows: the keys in its
\* arguments.  writes: the argument that is read back into a key, or 0; fixed
\* by the method, whatever the node.  last: of several arguments, only the last
\* is read.  strict: arguments that cannot be read are a problem.  shape: what
\* it is generated as.  clause: what becomes of it in SQL, with the value of key.
Forms == [node : Nodes, decorator : BOOLEAN, owner : Nodes \cup {Nobody}, shows : SUBSET Keys,
          writes : [Keys -> Keys \cup {0}], last : BOOLEAN, strict : BOOLEAN, shape : Shapes,
          clause : Clauses \cup {"none"}, key : Keys]

ASSUME ReconcileAssumption ==
  /\ IsFiniteSet(Nodes) /\ Nobody \notin Nodes
  /\ IsFiniteSet(Keys) /\ Keys \subseteq Nat \ {0} /\ Name \in Keys
  /\ Form \in [Statements -> Forms]
  /\ \A s \in Statements : Form[s].decorator => Form[s].owner = Nobody /\ Form[s].writes[Name] = 0
  /\ Function \in [Statements -> [Optional -> Optional]]
  /\ Definitions \in Seq(Seq(Statements)) /\ Definitions # <<>>
  /\ Role \in [Nodes -> Clauses \cup {"none"}]
  /\ ClauseKey \in [Clauses -> Keys \ {Name}]
  /\ MaxValue \in Nat \ {0} /\ MaxRev \in Nat /\ MaxEdits \in Nat
  /\ Normal \in [Optional -> Optional] /\ Default \in [Nodes -> Optional]
  /\ Unset \in [Nodes -> [Keys -> Optional]]

Arguments == [Keys -> Optional]
Configs == [Nodes -> Arguments]
Documents == [rev : 0..MaxRev, config : Configs]
Lines == [of : Statements, method : Statements, shape : Shapes, args : Arguments, by : Optional, as : Optional]
Ownership == {"none", "visual", "custom", "conflict"}
Problems == {"SDPS-RECON-001", "SDPS-RECON-002", "SDPS-RECON-003",
             "SDPS-RECON-101", "SDPS-RECON-102", "SDPS-RECON-104"}

VARIABLES
  doc,    \* the pipeline document
  text,   \* the code in the editor of a user
  edits,  \* edits of the text so far
  req,    \* the request: the document it has loaded, if any
  reply   \* its answer: the ownership it reports and the document it saved

vars == <<doc, text, edits, req, reply>>

None == [rev |-> -1]
NoReply == [ownership |-> "none", config |-> <<>>, problems |-> {}]

-----------------------------------------------------------------------------
\* What a node shows for a key; a rename without pairs shows none.
Shown(config, n, k) == IF config[n][k] = 0 THEN Default[n] ELSE config[n][k]

\* A statement as the backend writes it.
Generated(config, s) ==
  LET form == Form[s]
  IN  [of |-> s, method |-> s, shape |-> form.shape,
       args |-> [k \in Keys |-> IF k \in form.shows THEN Shown(config, form.node, k) ELSE 0],
       by |-> IF form.decorator THEN Function[s][Shown(config, form.node, Name)] ELSE 0, as |-> 0]

PythonLines(config) ==
  LET body == FlattenSeq(Definitions)
  IN  [i \in DOMAIN body |-> Generated(config, body[i])]

\* reconcile_sql parses one statement, the first, and looks at three clauses.
SqlPositions == {i \in DOMAIN Definitions[1] : Form[Definitions[1][i]].clause # "none"}
SqlLines(config) == [i \in SqlPositions |-> Generated(config, Definitions[1][i])]

Rendered(config, sql) ==
  [parses |-> TRUE, declared |-> TRUE, sql |-> sql,
   lines |-> IF sql THEN SqlLines(config) ELSE PythonLines(config)]

-----------------------------------------------------------------------------
(* reconcile_python *)

\* What is no assignment, and what an assignment with a known variable has in
\* the place of a call or of a predicate, is a problem.
LineProblem(line) ==
  \/ line.shape = "statement"
  \/ Form[line.of].owner # Nobody /\ line.shape = "value"
  \/ Form[line.of].owner # Nobody /\ line.shape = "unread" /\ Form[line.method].strict

\* The argument a line writes under a key, 0 when it writes none: a chain of
\* renames is read as its last, and what no branch can read passes silently.
ReadInto(line, k) ==
  LET arg == Form[line.method].writes[k]
  IN  IF \/ line.shape # "call" \/ arg = 0
         \/ Form[line.method].last /\ \E j \in Keys : j > arg /\ line.args[j] # 0
      THEN 0 ELSE line.args[arg]

Overwritten(config, target, line) ==
  IF target = Nobody THEN config
  ELSE [config EXCEPT ![target] =
         [k \in Keys |-> IF ReadInto(line, k) # 0 THEN ReadInto(line, k) ELSE config[target][k]]]

\* The first node of that name, of any type; of no name, when there is none to find.
Bearer(config, name) ==
  LET bearers == {n \in Nodes : config[n][Name] = name}
  IN  IF bearers = {} THEN Nobody ELSE CHOOSE n \in bearers : TRUE

\* A decorator belongs to the bearer of its function's name, or of its target's.
TakeDecorator(config, line) ==
  LET found == Bearer(config, line.by)
      named == [config EXCEPT ![found][Name] = line.as]
  IN  IF found = Nobody THEN Overwritten(config, Bearer(config, line.args[Name]), line)
      ELSE Overwritten(IF line.as = 0 THEN config ELSE named, found, line)

\* A line belongs to the node that its variable names.
TakeLine(config, line) ==
  IF Form[line.of].decorator THEN TakeDecorator(config, line)
  ELSE Overwritten(config, Form[line.of].owner, line)

\* The loop over the statements.
TakeLines(config, lines) ==
  LET after[i \in 0..Len(lines)] == IF i = 0 THEN config ELSE TakeLine(after[i - 1], lines[i])
  IN  after[Len(lines)]

Custom(config, code) == [ownership |-> "custom", config |-> config, problems |-> {code}]
Visual(config) == [ownership |-> "visual", config |-> config, problems |-> {}]

reconcile_pythonMutant(config, code) ==
  IF ~code.parses THEN Custom(config, "SDPS-RECON-001")
  ELSE IF ~code.declared THEN Custom(config, "SDPS-RECON-002")
  ELSE IF \E i \in DOMAIN code.lines : LineProblem(code.lines[i]) THEN Custom(config, "SDPS-RECON-003")
  ELSE Visual(TakeLines(config, SubSeq(code.lines, Len(Definitions[1]) + 1, Len(code.lines))))

reconcile_python(config, code) ==
  IF ~code.parses THEN Custom(config, "SDPS-RECON-001")
  ELSE IF ~code.declared THEN Custom(config, "SDPS-RECON-002")
  ELSE IF \E i \in DOMAIN code.lines : LineProblem(code.lines[i]) THEN Custom(config, "SDPS-RECON-003")
  ELSE Visual(TakeLines(config, code.lines))

-----------------------------------------------------------------------------
(* reconcile_sql *)

NodesOf(clause) == {n \in Nodes : Role[n] = clause}
Datasets == {Form[s].node : s \in {t \in Statements : Form[t].decorator}}

\* The clauses of a kind, whoever they are generated for; the table of a
\* dataset of the document is none.
LinesOf(config, code, clause) ==
  {i \in DOMAIN code.lines :
     LET line == code.lines[i]
     IN  /\ Form[line.of].clause = clause /\ line.shape = "call"
         /\ clause = "table" =>
              \A d \in Datasets : config[d][Name] # line.args[Form[line.of].key]}

\* The three clauses have a problem code each, of which the first stands here.
\* One node and one clause match; a node without its clause, or with several,
\* is ambiguous; a clause without a node is passed over.
Matched(config, code, clause) ==
  Cardinality(NodesOf(clause)) = 1 /\ Cardinality(LinesOf(config, code, clause)) = 1
Ambiguous(config, code, clause) == NodesOf(clause) # {} /\ ~Matched(config, code, clause)

\* A table and a predicate are stored as sqlglot renders them, a limit as it is.
Reread(config, code, clause) ==
  LET line == code.lines[CHOOSE i \in LinesOf(config, code, clause) : TRUE]
      shown == line.args[Form[line.of].key]
  IN  IF clause = "limit" THEN shown ELSE Normal[shown]

TakeClauses(config, code) ==
  [n \in Nodes |->
    IF Role[n] \in Clauses /\ Matched(config, code, Role[n])
    THEN [config[n] EXCEPT ![ClauseKey[Role[n]]] = Reread(config, code, Role[n])] ELSE config[n]]

reconcile_sql(config, code) ==
  IF ~code.parses THEN Custom(config, "SDPS-RECON-101")
  ELSE IF \E c \in Clauses : Ambiguous(config, code, c) THEN Custom(config, "SDPS-RECON-102")
  ELSE IF \A c \in Clauses : ~Matched(config, code, c) THEN Custom(config, "SDPS-RECON-104")
  ELSE Visual(TakeClauses(config, code))

-----------------------------------------------------------------------------
(* The requests *)

SqlTexts == [parses : BOOLEAN, declared : BOOLEAN, sql : {TRUE}, lines : [SqlPositions -> Lines]]
PythonTexts == [parses : BOOLEAN, declared : BOOLEAN, sql : {FALSE}, lines : Seq(Lines)]

TypeOK ==
  /\ doc \in Documents
  /\ text \in SqlTexts \/ text \in PythonTexts
  /\ edits \in 0..MaxEdits
  /\ req \in Documents \cup {None}
  /\ reply \in [ownership : Ownership, config : Configs \cup {<<>>}, problems : SUBSET Problems]

\* A document in which nothing is set but what its nodes have no default for.
Init ==
  /\ doc = [rev |-> 0, config |-> [n \in Nodes |-> Unset[n]]]
  /\ \E sql \in BOOLEAN : text = Rendered(doc.config, sql)
  /\ edits = 0
  /\ req = None
  /\ reply = NoReply

\* Somebody saves another value of a key that code shows.
SaveVisual ==
  /\ doc.rev < MaxRev
  /\ \E s \in Statements, v \in Values : \E k \in Form[s].shows :
       doc' = [rev |-> doc.rev + 1, config |-> [doc.config EXCEPT ![Form[s].node][k] = v]]
  /\ UNCHANGED <<text, edits, req, reply>>

\* The code is generated from the document, and opened.
Generate ==
  /\ req = None
  /\ text' = Rendered(doc.config, text.sql)
  /\ reply' = NoReply
  /\ UNCHANGED <<doc, edits, req>>

Edited == edits < MaxEdits /\ edits' = edits + 1

\* Hand edits: of an argument, of the method, of the shape of a line, of the
\* function under a decorator or the name in it, of the declarations, or into
\* something that does not parse.
EditText ==
  /\ Edited
  /\ req = None
  /\ reply' = NoReply
  /\ \/ \E i \in DOMAIN text.lines, v \in Values : \E k \in Form[text.lines[i].method].shows :
          text' = [text EXCEPT !.lines[i].args[k] = v]
     \/ \E i \in DOMAIN text.lines, s \in Statements :
          /\ ~text.sql /\ Form[s].decorator = Form[text.lines[i].of].decorator
          /\ text' = [text EXCEPT !.lines[i].method = s]
     \/ \E i \in DOMAIN text.lines, v \in Values :
          /\ ~text.sql /\ Form[text.lines[i].of].decorator
          /\ text' = [text EXCEPT !.lines[i].by = v] \/ text' = [text EXCEPT !.lines[i].as = v]
     \/ \E i \in DOMAIN text.lines, s \in {"unread", "value", "statement"} :
          text' = [text EXCEPT !.lines[i].shape = s]
     \/ text' = [text EXCEPT !.declared = FALSE]
     \/ text' = [text EXCEPT !.parses = FALSE]
  /\ UNCHANGED <<doc, req>>

Post ==
  /\ req = None
  /\ reply = NoReply
  /\ req' = doc
  /\ UNCHANGED <<doc, text, edits, reply>>

Answer(config) == IF text.sql THEN reconcile_sql(config, text) ELSE reconcile_python(config, text)
Outcome == Answer(req.config)
Saves == Outcome.ownership = "visual" /\ Outcome.config # req.config

\* Nothing to save: the text stays code-owned, or says what the document says.
Report ==
  /\ req # None /\ ~Saves
  /\ reply' = Outcome
  /\ req' = None
  /\ UNCHANGED <<doc, text, edits>>

SaveMutant ==
  /\ req # None /\ Saves
  /\ doc.rev < MaxRev
  /\ doc' = [rev |-> doc.rev + 1, config |-> Outcome.config]
  /\ reply' = Outcome
  /\ req' = None
  /\ UNCHANGED <<text, edits>>

\* save_pipeline accepts the document only on the revision it was loaded with.
Save ==
  /\ req # None /\ Saves
  /\ doc.rev = req.rev /\ doc.rev < MaxRev
  /\ doc' = [rev |-> doc.rev + 1, config |-> Outcome.config]
  /\ reply' = Outcome
  /\ req' = None
  /\ UNCHANGED <<text, edits>>

Conflict ==
  /\ req # None /\ Saves
  /\ doc.rev # req.rev
  /\ reply' = [NoReply EXCEPT !.ownership = "conflict"]
  /\ req' = None
  /\ UNCHANGED <<doc, text, edits>>

Next == SaveVisual \/ Generate \/ EditText \/ Post \/ Report \/ Save \/ Conflict
Spec == Init /\ [][Next]_vars

-----------------------------------------------------------------------------
\* A decorator that has something to write.
Writes(line) == line.as # 0 \/ \E k \in Keys : ReadInto(line, k) # 0

\* A line that reconciliation may read into a node.
MayReach(config, line, n) ==
  IF Form[line.of].decorator
  THEN Writes(line) /\ config[n][Name] \in {line.by, line.args[Name]}
  ELSE Form[line.of].owner = n

\* The only line of the text that is read into the node its variable names.
Alone(i) ==
  /\ Form[text.lines[i].of].owner # Nobody
  /\ \A j \in DOMAIN text.lines \ {i} :
       IF Form[text.lines[j].of].decorator THEN ~Writes(text.lines[j])
       ELSE Form[text.lines[j].of].owner # Form[text.lines[i].of].owner

\* A request that reports the text as visual has taken up every edit it can
\* read: of a line whose variable names a node, which no other line names and no
\* decorator may be read into, the document says what the line says.
ReadableEditsAreTaken ==
  reply.ownership = "visual" /\ ~text.sql =>
    \A i \in DOMAIN text.lines, k \in Keys :
      Alone(i) /\ ReadInto(text.lines[i], k) # 0 =>
        reply.config[Form[text.lines[i].of].owner][k] = ReadInto(text.lines[i], k)

\* The nodes that a text cannot be read into.
Beyond(config, n) ==
  IF text.sql THEN Role[n] \notin Clauses \/ ~Matched(config, text, Role[n])
  ELSE \A i \in DOMAIN text.lines : ~MayReach(config, text.lines[i], n)

\* The text gives no node another name.
NamesStay(config) ==
  \A i \in DOMAIN text.lines :
    LET line == text.lines[i]
    IN  /\ line.as = 0
        /\ ReadInto(line, Name) # 0 =>
             /\ ~Form[line.of].decorator
             /\ \A n \in Nodes : Form[line.of].owner = n => config[n][Name] = ReadInto(line, Name)

\* What code shows of a node is read back from its own statements only.
OwnKeys(n) ==
  \A s, t \in Statements, k \in Keys :
    /\ Form[t].node = n /\ (k \in Form[t].shows \/ (Form[t].decorator /\ k = Name))
    /\ Form[s].decorator \/ Form[s].owner = n
    /\ Form[s].writes[k] \in Form[s].shows
    => Form[s].node = n /\ Form[s].writes[k] = k

\* The save of a request replaces the very document it reconciled, so that what
\* others saved in between is kept, and changes in it only nodes that a line or
\* a clause of the text can be read into.  The text posted once more would be
\* saved no further, unless it gives nodes other names.  A generated Python text
\* may change the document too, but not the code: for nodes that only their own
\* statements are read into, what is generated of them stays as it was.
ReconcilesWhatItReplaces ==
  [][doc' # doc /\ req # None /\ req' = None =>
       /\ doc = req
       /\ \A n \in Nodes : Beyond(doc.config, n) => doc'.config[n] = doc.config[n]
       /\ text.sql \/ NamesStay(doc.config) => Answer(doc'.config) = Visual(doc'.config)
       /\ text = Rendered(doc.config, FALSE) =>
            \A i \in DOMAIN text.lines : OwnKeys(Form[text.lines[i].of].node) =>
              Generated(doc'.config, text.lines[i].of) = text.lines[i]]_vars
=============================================================================
