------------------------------- MODULE Readers -------------------------------
(***************************************************************************)
(* What others make of a document: the importers of the code generated     *)
(* from it, the row trace through it, and the summaries of the event log   *)
(* of its runs.                                                            *)
(***************************************************************************)
EXTENDS Compiler, Import, RowTrace, SparkEvents

CONSTANTS
  Sampled,     \* the palettes whose sources are sampled
  Samples,     \* the sampled rows of their sources
  RowLimits,   \* how many rows a trace keeps
  EventLogs,   \* logs as Spark writes them
  TaskLimits   \* how many tasks of a stage the summary of a stream keeps

ASSUME LogsAssumption == EventLogs \subseteq Seq(Events) /\ TaskLimits \subseteq Nat \ {0}

-----------------------------------------------------------------------------
\* What is generated is read back as what was drawn.  Python declares every
\* output once under its name and kind, with the datasets and tables that reach
\* it past no other dataset, and a sink once more by its call, without any; SQL
\* declares every dataset under its form, a change feed as the view it is
\* written as, with every source behind it but one of its own name.  The
\* directory's document hangs each declaration on exactly those of its tables
\* that no declaration has the name of.
ImportReadsGenerated ==
  LET made == python
      read == discover_python(PythonText(lowered.view, made.definitions)).declarations
      readSql == discover_sql(SqlText(lowered.view, sql.definitions)).declarations
      imported == cmd_import_directory(read)
      Name(o) == Doc.nodes[o].name
      Times(x, s) == Cardinality({i \in DOMAIN s : s[i] = x})
      Cut(o) == [nodes |-> Doc.nodes, edges |-> {e \in Doc.edges : e.to = o \/ ~IsDataset(Doc, e.to)}]
      Feeds(o) == {m \in ancestors(Cut(o), o) : ReadsTable(Doc.nodes[m])}
      Tabled(o) == {Name(m) : m \in Feeds(o)} \ {""}
      Sources(o) == {Name(m) : m \in {m \in ancestors(Doc, o) : ReadsOutside(Doc.nodes[m])}}
      Defined(o) == Declaration(Name(o), Doc.nodes[o].type, Tabled(o))
      Called(o) == Declaration(Name(o), "sink.external", {})
      outputs == DOMAIN made.definitions
      sinks == {o \in outputs : Doc.nodes[o].type = "sink.external"}
  IN  /\ made.how = "files" =>
           /\ \A o \in outputs : Times(Defined(o), read) = IF o \in sinks /\ Tabled(o) = {} THEN 2 ELSE 1
           /\ \A o \in sinks : Tabled(o) # {} => Times(Called(o), read) = 1
           /\ Len(read) = Cardinality(outputs) + Cardinality(sinks)
           /\ ensure_unique_ids(imported)
           /\ {<<imported.nodes[e.from].name, imported.nodes[e.to].name>> : e \in imported.edges}
                = UNION {(Tabled(o) \ {Name(p) : p \in outputs}) \X {Name(o)} : o \in outputs}
      /\ sql.how = "files" =>
           \A o \in DOMAIN sql.definitions :
             \E i \in DOMAIN readSql :
               readSql[i] = Declaration(Doc.nodes[o].ident, SqlForms[FormOf(Doc.nodes[o].type)],
                                        Sources(o) \ {Doc.nodes[o].ident})

\* The relational meaning of the traced operators, on all rows of the samples.
Meaning(d) ==
  LET Rows(known, n, port) == LET e == CHOOSE e \in Incoming(d, n) : e.tport = port IN known[e.from]
      Of(known, n) ==
        LET node == d.nodes[n]
            in == Rows(known, n, "in")
        IN  CASE node.type \in SourceTypes -> ToSet(Samples[n])
              [] node.type = "transform.join" ->
                   {q[2] @@ q[1] : q \in {p \in Rows(known, n, "left") \X Rows(known, n, "right") :
                                             p[1][node.arg[1]] = p[2][node.arg[2]]}}
              [] node.type = "transform.filter" -> {r \in in : r[node.arg[1]] = node.arg[2]}
              [] node.type = "transform.distinct" -> in
              [] node.type = "transform.cast" -> {[r EXCEPT ![node.arg] = Cast(@)] : r \in in}
              [] OTHER -> {g @@ [row_count |-> ToString(Cardinality({r \in in : Group(r, node.arg) = g}))] :
                             g \in {Group(r, node.arg) : r \in in}}
  IN  FoldLeft(LAMBDA known, n : (n :> Of(known, n)) @@ known, <<>>, topological_order(d))

\* A row trace (execute_row_trace) invents nothing: where it calls the lineage
\* known, its rows are rows of the node, and all of them when nothing before
\* was cut; only behind a cut may a count be of the sample.
TracedRowsAreReal ==
  palette \in Sampled /\ CycleProblems(Doc) = {} /\ ~has_errors(lowered.problems) =>
    LET meaning == Meaning(Doc)
        Behind(n) == ancestors(Doc, n) \cup {n}
    IN  \A n \in Ids(Doc), limit \in RowLimits :
          LET traced == execute_row_trace(Doc, n, Samples, limit)
              counts == \E m \in Behind(n) : Doc.nodes[m].type = "transform.aggregate"
              cut == Behind(n) \cap traced.cut # {}
              odd == \E m \in Behind(n) : Doc.nodes[m].type = "transform.distinct"
          IN  /\ (n \in traced.unknown) <=> odd
              /\ ~odd /\ ~cut => ToSet(traced.rows[n]) = meaning[n]
              /\ ~odd /\ ~counts => ToSet(traced.rows[n]) \subseteq meaning[n]
              /\ Len(traced.rows[n]) <= limit

\* The bounded summary of an event stream says of a stage what the summary of
\* the whole log says, as long as the stage ended no more tasks than are kept,
\* and passes over the stages that ended none.  A log does not depend on what
\* is drawn, so it is enough to look before anything is.
BoundedSummaryAgrees ==
  Doc.edges = {} =>
    \A events \in EventLogs, max_tasks \in TaskLimits :
      LET whole == summarize_spark_events(events, 200, 500)
          bounded == summarize_spark_event_stream(events, 200, 500, max_tasks)
      IN  \A stage \in DOMAIN whole :
            /\ stage \in DOMAIN bounded <=> whole[stage].task_count > 0
            /\ whole[stage].task_count \in 1..max_tasks => bounded[stage] = whole[stage]
=============================================================================
