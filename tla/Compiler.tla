------------------------------- MODULE Compiler -------------------------------
(***************************************************************************)
(* Documents and what the compilers make of them.  A behaviour picks a     *)
(* palette, which is a document of nodes and of edges that may be drawn    *)
(* between them, and draws its edges one by one: every subset of them is a *)
(* reachable document, most of them incomplete, some cyclic.               *)
(* The canvas refuses some of them; whoever sends a document past it, or   *)
(* writes it into the project, is not asked.                               *)
(***************************************************************************)
EXTENDS Codegen

CONSTANT Palettes    \* documents; a strict one lets one edge into a port

\* What PipelineDocument accepts: finitely many nodes and edges, unique ids; and
\* the empty name that _semantic_problems skips is the unset field "name".
\* And identifiers are words: a prefix takes no two to one.
ASSUME PalettesAssumption ==
  \A p \in Palettes :
    /\ WellFormed(p)
    /\ \A n \in Ids(p) : p.nodes[n].name = "" => "name" \in p.nodes[n].unset
    /\ \A m, n \in Ids(p) :
         Flow(p.nodes[m].ident) = Flow(p.nodes[n].ident) => p.nodes[m].ident = p.nodes[n].ident

VARIABLES
  palette,  \* the palette that is drawn from
  lowered,  \* the lowering of the document drawn so far
  python,   \* what the Python backend makes of it
  sql       \* what the SQL backend makes of it

canvas == <<palette, lowered, python, sql>>

Doc == lowered.document

\* The document is lowered and compiled each time it changes.  A node is put on
\* the canvas with its first edge.
Drawn(edges) ==
  [nodes |-> [n \in DOMAIN palette.nodes \cap UNION {{e.from, e.to} : e \in edges} |-> palette.nodes[n]],
   edges |-> edges]
Compile(d) ==
  /\ lowered' = Lowered(d)
  /\ python' = generate_python_project(lowered')
  /\ sql' = generate_sql_project(lowered')

Blank ==
  /\ palette \in Palettes
  /\ lowered = Lowered([nodes |-> <<>>, edges |-> {}])
  /\ python = generate_python_project(lowered)
  /\ sql = generate_sql_project(lowered)

Draw ==
  \E e \in palette.edges \ Doc.edges :
    /\ palette.strict => ~\E f \in Doc.edges : f.to = e.to /\ f.tport = e.tport
    /\ Compile(Drawn(Doc.edges \cup {e}))
    /\ UNCHANGED palette

Drawing == Blank /\ [][Draw]_canvas

-----------------------------------------------------------------------------
\* The queries of the graph say what the closure of its edges says, of every
\* document whose edges join nodes it has (QueriesExact of GraphIndex).
GraphQueriesExact == Joined(Doc) = Doc.edges => QueriesExact(Doc)

\* What the Python backend emits runs on what the document says: within a
\* definition every variable that a node's expression mentions is bound before,
\* and by a node that an edge of the document brings to it; the function returns
\* what such a node has bound; and two functions have different names.
\* Three things are left out: the accepted branch of a split, which is referred
\* to under a name nothing binds; nodes whose ids have one tail, which share a
\* variable; and a dataset with the name of a sink's flow.
PythonNamesResolve ==
  LET made == python
      Shared(n) == \E m \in Ids(Doc) \ {n} : Doc.nodes[m].tail = Doc.nodes[n].tail
      Binders(def, i, name) == {def.statements[j].node : j \in {k \in 1..(i - 1) : name \in def.statements[k].bind}}
      Resolves(def, i, name, n) ==
        \/ name[2] = "accepted"
        \/ /\ \E e \in Incoming(Doc, n) : e.from \in Binders(def, i, name)
           /\ \A m \in Binders(def, i, name) : (\E e \in Incoming(Doc, n) : e.from = m) \/ Shared(m)
      Sink(n) == Doc.nodes[n].type = "sink.external"
  IN  \A o \in DOMAIN made.definitions :
        LET def == made.definitions[o]
        IN  /\ \A i \in DOMAIN def.statements : \A name \in def.statements[i].use :
                 Resolves(def, i, name, def.statements[i].node)
            /\ Resolves(def, Len(def.statements) + 1, def.returns, o)
            /\ \A p \in DOMAIN made.definitions \ {o} :
                 FunctionName(Doc.nodes[p]) = FunctionName(Doc.nodes[o]) => Sink(p) # Sink(o)

\* Streams are read where they may be: a materialized view, which is computed
\* as a batch, reads none, and a runtime without streaming tables and sinks that
\* the capability check accepts is given no streaming work at all.
BatchRuntime == [present |-> {"dataset.materialized_view", "dataset.temporary_view"}, downgrades |-> {}]
StreamsOnlyWhereAllowed ==
  LET made == python
      batch == validate_capabilities(Doc.nodes, BatchRuntime) = {}
  IN  \A o \in DOMAIN made.definitions :
        /\ batch => Doc.nodes[o].type \in BatchRuntime.present
        /\ batch \/ Doc.nodes[o].type = "dataset.materialized_view" =>
             \A i \in DOMAIN made.definitions[o].statements :
               \A r \in made.definitions[o].statements[i].reads : r[1] # "stream"

\* Where both backends generate, they agree: each defines every dataset of the
\* document, from the same tables.
BackendsAgree ==
  LET py == python
      PyReads(o) == UNION {{r[2] : r \in py.definitions[o].statements[i].reads} :
                             i \in DOMAIN py.definitions[o].statements}
  IN  py.how = "files" /\ sql.how = "files" =>
        /\ DOMAIN sql.definitions = {o \in DOMAIN py.definitions : IsDataset(Doc, o)}
        /\ \A o \in DOMAIN sql.definitions : PyReads(o) = {r[2] : r \in sql.definitions[o]}

\* A preview never reads a stream, whatever is previewed, and computes the node
\* from the tables the generated definition would read.
PreviewsAreBounded ==
  \A n \in Ids(Doc), confirmed \in BOOLEAN :
    LET made == generate_preview_script(lowered, n, TRUE, confirmed)
    IN  made.how = "files" =>
          LET def == made.definitions[n]
              reads == UNION {def.statements[i].reads : i \in DOMAIN def.statements}
              py == python
          IN  /\ \A r \in reads : r[1] = "table"
              /\ \A i \in DOMAIN def.statements : \A name \in def.statements[i].use :
                   \E j \in 1..(i - 1) : name \in def.statements[j].bind
              /\ \E i \in DOMAIN def.statements : def.returns \in def.statements[i].bind
              /\ py.how = "files" /\ n \in DOMAIN py.definitions =>
                   {r[2] : r \in reads} =
                     UNION {{r[2] : r \in py.definitions[n].statements[i].reads} :
                              i \in DOMAIN py.definitions[n].statements}

\* The automatic plan gives Python only what SQL would refuse; the set
\* operations apart, which the plan believes SQL to lack.
PythonOnlyForCause ==
  ~lowered.raised /\ ~lowered.view.raised =>
    LET plan == plan_pipeline(lowered)
        SetOperation(n) == Doc.nodes[n].type \in {"transform.intersect", "transform.except"}
    IN  \A o \in DOMAIN plan :
          /\ plan[o] = "python"
          /\ \A n \in ancestors(Doc, o) : ~SetOperation(n)
          => sql.how = "refused"
=============================================================================
