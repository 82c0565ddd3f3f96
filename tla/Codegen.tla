------------------------------- MODULE Codegen -------------------------------
(***************************************************************************)
(* What the compilers of sdpstudio_codegen make of a document: the Python  *)
(* project, the SQL project, the language plan and the preview program.    *)
(*                                                                         *)
(* A generated definition is the sequence of its assignments.  An          *)
(* assignment is [node, bind, use, reads]: the node it renders, the        *)
(* variables it binds, those its expression mentions, and what it reads    *)
(* from outside the definition, as <<"stream" or "table", node>>.  The     *)
(* expression itself is data.                                              *)
(*                                                                         *)
(* An outcome is [how, problems, definitions]; how is "raised" (the        *)
(* compiler is left by an exception), "refused" (problems, no file) or     *)
(* "files" (definitions maps the id of an output to its definition).       *)
(* A compiler is given what it begins with, the lowering of a document.    *)
(***************************************************************************)
EXTENDS PipelineGraph

Raised == [how |-> "raised", problems |-> {}, definitions |-> <<>>]
Refused(problems) == [how |-> "refused", problems |-> problems, definitions |-> <<>>]
Files(problems, definitions) ==
  [how |-> "files", problems |-> problems, definitions |-> definitions]

\* The graph view of a lowering, with the order and the modes (_mode_map) of
\* its nodes.  It lacks the nodes of a cycle but not the edges into it, which
\* stop the order.
View(view) ==
  [nodes |-> view.nodes, edges |-> view.edges, order |-> topological_order(view),
   modes |-> Modes(view), raised |-> Topological(view).raised]
Compiled(ir, document) ==
  [document |-> document, problems |-> ir.problems, raised |-> ValidationRaises(document),
   view |-> View(graph_view(ir))]
Lowered(d) == Compiled(lower_pipeline(d), d)

-----------------------------------------------------------------------------
(* The Python backend *)

\* A variable is named after the tail of the node's id, and after the port
\* when the branch of a split is meant.
_var(d, n, port) == <<d.nodes[n].tail, IF port = "out" THEN "" ELSE port>>
Var(d, n) == _var(d, n, "out")
BranchVar(d, e) ==
  IF d.nodes[e.from].type = "quality.quarantine_split"
  THEN _var(d, e.from, e.fport) ELSE Var(d, e.from)

\* The sources whose options are rendered by _option_py, which refuses a
\* malformed secret reference, and the source that is code.
_source_raises(node) ==
  \/ node.secret = "badref"
     /\ node.type \in {"source.file", "source.jdbc", "source.kafka", "source.generic"}
  \/ node.type = "source.custom_pyspark" /\ node.code = "blank"

_source_expr(d, n) ==
  LET node == d.nodes[n]
      streams == \/ node.type = "source.kafka"
                 \/ node.streaming /\ node.type \in {"source.table", "source.file",
                                        "source.dataset_reference", "source.generic"}
  IN  [node |-> n, bind |-> {Var(d, n)}, use |-> {},
       reads |-> {<<IF streams THEN "stream" ELSE "table", n>>}]

\* Another dataset is read by its name: as a stream only a streaming table.
_dataset_reference_expr(d, n) ==
  [node |-> n, bind |-> {Var(d, n)}, use |-> {},
   reads |-> {<<IF d.nodes[n].type = "dataset.streaming_table" THEN "stream" ELSE "table", n>>}]

TwoSided == {"transform.join", "transform.union_by_name",
             "transform.intersect", "transform.except"}

\* An operator with no input asks for its first parent all the same.
_transform_raises(d, n) == Incoming(d, n) = {}

\* What no branch renders: code that is not one safe expression, an empty
\* block of code, and the operator of a plugin.
_transform_refuses(node) ==
  \/ node.type = "utility.custom_code" /\ node.code # "safe"
  \/ node.type = "transform.pyspark_block" /\ node.code = "blank"
  \/ node.type \notin BuiltinTypes

\* The edges an expression mentions: a two-sided operator both, others their "in".
_transform_uses(d, n) ==
  {e \in Incoming(d, n) : d.nodes[n].type \in TwoSided \/ e.tport = "in"}

\* A split binds its node and its quarantine; other operators bind their node.
_transform_expr(d, n) ==
  [node |-> n,
   bind |-> {Var(d, n)} \cup (IF d.nodes[n].type = "quality.quarantine_split"
                              THEN {_var(d, n, "quarantine")} ELSE {}),
   use |-> {BranchVar(d, e) : e \in _transform_uses(d, n)},
   reads |-> {}]

ReadsOutside(node) == node.type \in SourceTypes \cup {"utility.component_input"}

Assignment(d, n) ==
  IF ReadsOutside(d.nodes[n]) THEN _source_expr(d, n)
  ELSE IF IsDataset(d, n) THEN _dataset_reference_expr(d, n)
  ELSE _transform_expr(d, n)

\* The function of a definition: of a dataset its identifier (_identifier of its
\* name), of a sink that of the flow into it.
Flow(ident) == "flow_" \o ident
FunctionName(node) == IF node.type = "sink.external" THEN Flow(node.ident) ELSE node.ident

\* The ancestors one definition needs: the walk does not go behind a dataset.
ScopeOf(d, start) ==
  Walk(start, [n \in Ids(d) |-> IF IsDataset(d, n) THEN {} ELSE Parents(d, n)])
_definition_scopeMutant(d, output) == Parents(d, output)
_definition_scope(d, output) == ScopeOf(d, Parents(d, output))

Definition(d, output) ==
  LET scope == Among(d.order, _definition_scope(d, output))
      feed == CHOOSE e \in Incoming(d, output) : TRUE
  IN  [statements |-> [i \in DOMAIN scope |-> Assignment(d, scope[i])],
       returns |-> BranchVar(d, feed)]

\* m is met before n in the order in which the view lists the nodes.
Earlier(d, m, n) ==
  \E i, j \in DOMAIN d.order : i < j /\ d.order[i] = m /\ d.order[j] = n

_semantic_problems(d) ==
  LET Marked(code, nodes) == {<<code, n>> : n \in nodes}
      OfType(type) == {n \in Ids(d) : d.nodes[n].type = type}
      named == {n \in Ids(d) : IsOutput(d, n) /\ d.nodes[n].name # ""}
  IN  Marked("SDPS-SDP-001", OfType("dataset.materialized_view") \cap d.modes)
      \cup Marked("SDPS-SDP-002", OfType("dataset.streaming_table") \ d.modes)
      \cup Marked("SDPS-SDP-003", OfType("sink.external") \ d.modes)
      \cup Marked("SDPS-JOIN-001",
             {n \in OfType("transform.join") : d.nodes[n].how # "cross" /\ ~d.nodes[n].cond})
      \cup Marked("SDPS-SDP-004",
             {n \in named : \E m \in named : d.nodes[m].name = d.nodes[n].name /\ Earlier(d, m, n)})
      \cup Marked("SDPS-CODEGEN-001",
             {n \in named : \E m \in named : d.nodes[m].ident = d.nodes[n].ident /\ Earlier(d, m, n)})

SplitProblems(d) ==
  {<<"SDPS-CODEGEN-003", n>> :
     n \in {m \in Ids(d) : d.nodes[m].type = "quality.quarantine_split" /\ ~d.nodes[m].split}}

\* The nodes some definition renders as a transformation, or as a source.
RenderedNodes(d) == UNION {_definition_scope(d, o) : o \in materialization_boundaries(d)}
RenderedTransforms(d) ==
  {n \in RenderedNodes(d) : ~ReadsOutside(d.nodes[n]) /\ ~IsDataset(d, n)}
RenderedSources(d) == {n \in RenderedNodes(d) : ReadsOutside(d.nodes[n])}

generate_python_project(lowered) ==
  LET view == lowered.view
      problems == lowered.problems \cup _semantic_problems(view)
      refused == {<<"SDPS-CODEGEN-002", n>> :
                    n \in {m \in RenderedTransforms(view) : _transform_refuses(view.nodes[m])}}
  IN  IF lowered.raised \/ view.raised THEN Raised
      ELSE IF has_errors(problems) THEN Refused(problems)
      ELSE IF SplitProblems(view) # {} THEN Refused(problems \cup SplitProblems(view))
      ELSE IF \/ \E n \in RenderedSources(view) : _source_raises(view.nodes[n])
              \/ \E n \in RenderedTransforms(view) : _transform_raises(view, n)
              \/ \E n \in Ids(view) : view.nodes[n].type = "sink.external" /\ view.nodes[n].secret = "badref"
      THEN Raised
      ELSE IF refused # {} THEN Refused(problems \cup refused)
      ELSE Files(problems, [o \in materialization_boundaries(view) |-> Definition(view, o)])

-----------------------------------------------------------------------------
(* The SQL backend *)

SqlSources == {"source.table", "source.sql_query", "utility.component_input"}
SqlTransforms ==
  QualityTypes \cup {"utility.group", "utility.component_output", "transform.filter",
    "transform.select", "transform.derive", "transform.sql_project", "transform.distinct",
    "transform.deduplicate_event_time", "transform.reorder", "transform.replace",
    "transform.build_struct", "transform.build_map", "transform.build_array",
    "transform.limit", "transform.posexplode", "transform.aggregate"}
SqlTwoSided == {"transform.join", "transform.intersect", "transform.except"}

\* Which outputs of which nodes have an expression.  A two-sided operator asks
\* its parents for the port named after its own side; a split knows its own
\* ports, and wants a column.
SqlPorts == {"out", "left", "right", "accepted", "quarantine"}
Able(d, n, port, known) ==
  LET node == d.nodes[n]
      fed == /\ Cardinality(Incoming(d, n)) = 1
             /\ \A e \in Incoming(d, n) : <<e.from, e.fport>> \in known
  IN  CASE ReadsOutside(node) -> node.type \in SqlSources
        [] node.type \in SqlTwoSided -> \A e \in Incoming(d, n) : <<e.from, e.tport>> \in known
        [] node.type = "quality.quarantine_split" ->
             fed /\ node.column /\ port \in {"accepted", "quarantine", "out"}
        [] OTHER ->
             /\ fed /\ node.type \in SqlTransforms
             /\ node.type = "transform.sql_project" => node.code # "blank"
Expressible(d) ==
  LET known[i \in 0..Len(d.order)] ==
        IF i = 0 THEN {}
        ELSE known[i - 1]
               \cup {<<d.order[i], p>> : p \in {q \in SqlPorts : Able(d, d.order[i], q, known[i - 1])}}
  IN  known[Len(d.order)]

SqlReadsMutant(d, o) == {<<"table", n>> : n \in {m \in Parents(d, o) : ReadsOutside(d.nodes[m])}}
SqlReads(d, o) == {<<"table", n>> : n \in {m \in ancestors(d, o) : ReadsOutside(d.nodes[m])}}

\* Only datasets are defined; a sink is passed over.  An expression reads the
\* sources behind it.
generate_sql_project(lowered) ==
  LET view == lowered.view
      problems == lowered.problems
      datasets == {n \in Ids(view) : IsDataset(view, n)}
      refused == {<<"SDPS-CODEGEN-001", o>> :
                    o \in {n \in datasets : \E e \in Incoming(view, n) :
                                              <<e.from, e.fport>> \notin Expressible(view)}}
  IN  IF lowered.raised THEN Raised
      ELSE IF has_errors(problems) THEN Refused(problems)
      ELSE IF SplitProblems(view) # {} THEN Refused(problems \cup SplitProblems(view))
      ELSE IF refused # {} THEN Refused(problems \cup refused)
      ELSE Files(problems, [o \in datasets |-> SqlReads(view, o)])

-----------------------------------------------------------------------------
(* The language plan *)

_SQL_UNSUPPORTEDMutant == {"utility.custom_code", "transform.drop", "transform.distinct"}
_SQL_UNSUPPORTED == {"utility.custom_code", "transform.drop", "transform.flatten_struct",
                     "transform.intersect", "transform.except"}

\* With the preference "auto": the language of every dataset; the walk behind
\* a dataset does not stop at other datasets.
plan_pipeline(lowered) ==
  LET view == lowered.view
  IN  [o \in {n \in Ids(view) : IsDataset(view, n)} |->
         IF \E n \in ancestors(view, o) : view.nodes[n].type \in _SQL_UNSUPPORTED
         THEN "python" ELSE "sql"]

-----------------------------------------------------------------------------
(* The preview program *)

_preview_scope(d, n) ==
  IF ~IsOutput(d, n) THEN [root |-> n, scope |-> ScopeOf(d, {n})]
  ELSE LET feed == CHOOSE e \in Incoming(d, n) : TRUE
       IN  [root |-> feed.from, scope |-> ScopeOf(d, {feed.from})]

\* Datasets are read as the tables they were materialized into, and a branch
\* of a split by the name of the split.
PreviewAssignment(d, n) ==
  CASE d.nodes[n].type \in SourceTypes -> _source_expr(d, n)
    [] IsDataset(d, n) -> [node |-> n, bind |-> {Var(d, n)}, use |-> {}, reads |-> {<<"table", n>>}]
    [] OTHER -> [node |-> n, bind |-> {Var(d, n)},
                 use |-> {Var(d, e.from) : e \in _transform_uses(d, n)},
                 reads |-> {}]

UnmaterializedMutant(node) == node.type = "source.kafka"
Unmaterialized(node) == node.type = "source.kafka" \/ (node.type \in SourceTypes /\ node.streaming)

\* The bounds on the limit and on sampling are one flag: they hold or not.
generate_preview_script(lowered, n, bounded, confirm_sink_test) ==
  LET d == lowered.document
      problems == lowered.problems
      sink == d.nodes[n].type = "sink.external" /\ ~confirm_sink_test
      target == _preview_scope(d, n)
      order == Among(lowered.view.order, target.scope)
      streams == {<<"SDPS-PREVIEW-004", m>> : m \in {k \in target.scope : Unmaterialized(d.nodes[k])}}
      transforms == {m \in target.scope : d.nodes[m].type \notin SourceTypes /\ ~IsDataset(d, m)}
  IN  IF lowered.raised THEN Raised
      ELSE IF ~bounded THEN Refused(problems \cup {<<"SDPS-PREVIEW-002", n>>})
      ELSE IF sink THEN Refused(problems \cup {<<"SDPS-PREVIEW-020", n>>})
      ELSE IF has_errors(problems) THEN Refused(problems)
      ELSE IF IsOutput(d, n) /\ Incoming(d, n) = {} THEN Refused(problems \cup {<<"SDPS-PREVIEW-003", n>>})
      ELSE IF streams # {} THEN Refused(problems \cup streams)
      ELSE IF \/ \E m \in target.scope : _source_raises(d.nodes[m])
              \/ \E m \in transforms : _transform_raises(d, m) \/ _transform_refuses(d.nodes[m])
      THEN Raised
      ELSE Files(problems,
             [m \in {n} |->
                [statements |-> [i \in DOMAIN order |-> PreviewAssignment(d, order[i])],
                 returns |-> Var(d, target.root)]])
=============================================================================
