---------------------------- MODULE PipelineGraph ----------------------------
(***************************************************************************)
(* The validation and the lowering of a pipeline document                  *)
(* (sdpstudio_core/graph.py and ir.py).                                    *)
(*                                                                         *)
(* A node is reduced to what they read: its type, whether its config asks  *)
(* for streaming, which required fields are unset, whether it holds a      *)
(* secret ("none", "literal", "ref", "badref"), the kind and condition of  *)
(* a join, a dataset's name, and the facts the code generators read        *)
(* (module Codegen).                                                       *)
(***************************************************************************)
EXTENDS Operators, GraphIndex

IsDataset(d, n) == d.nodes[n].type \in DatasetTypes
IsOutput(d, n) == d.nodes[n].type \in Outputs

materialization_boundaries(d) == {n \in Ids(d) : IsOutput(d, n)}

-----------------------------------------------------------------------------
(* validate_graph: the problems of a document, as <<code, where>>. *)

Warnings == {"SDPS-GRAPH-009", "SDPS-PERF-001", "SDPS-SEM-001", "SDPS-PERF-002"}
has_errors(problems) == \E p \in problems : p[1] \notin Warnings

Catalogued(d, n) == d.nodes[n].type \in DOMAIN operator_catalog

\* An operator the catalogue lacks is an empty dict: no ports, both modes.
OpOf(d, n) ==
  IF Catalogued(d, n) THEN operator_catalog[d.nodes[n].type] ELSE Op("", {}, {}, BothModes, {})

_secret_literal_problems(d, n) ==
  IF d.nodes[n].secret = "literal" THEN {<<"SDPS-SEC-001", n>>} ELSE {}

validate_config(d, n) ==
  {<<"SDPS-OPERATOR-001", n>> :
     f \in builtin_registry[d.nodes[n].type].required \cap d.nodes[n].unset}

NodeProblems(d, n) ==
  _secret_literal_problems(d, n)
    \cup (IF Catalogued(d, n) THEN validate_config(d, n) ELSE {<<"SDPS-GRAPH-010", n>>})

\* The mode an edge carries is read off its source node alone.
EdgeMode(d, e) ==
  IF \/ d.nodes[e.from].streaming
     \/ d.nodes[e.from].type \in {"source.kafka", "dataset.streaming_table"}
  THEN "streaming" ELSE "batch"

EdgeProblems(d, e) ==
  IF e \notin Joined(d) THEN {<<"SDPS-GRAPH-003", 0>>}
  ELSE (IF EdgeMode(d, e) \in OpOf(d, e.to).modes THEN {} ELSE {<<"SDPS-GRAPH-011", e.to>>})
         \cup (IF e.fport \in OpOf(d, e.from).out THEN {} ELSE {<<"SDPS-GRAPH-004", e.from>>})
         \cup (IF e.tport \in OpOf(d, e.to).in THEN {} ELSE {<<"SDPS-GRAPH-005", e.to>>})

\* Every catalogued port takes one connection, unless it is optional.
PortProblems(d, n) ==
  LET into(p) == {e \in Incoming(d, n) : e.tport = p}
      open == {p \in OpOf(d, n).in \ OpOf(d, n).optional : into(p) = {}}
  IN  (IF open # {} THEN {<<"SDPS-GRAPH-002", n>>} ELSE {})
        \cup (IF \E p \in OpOf(d, n).in : Cardinality(into(p)) > 1
              THEN {<<"SDPS-GRAPH-007", n>>} ELSE {})

CycleProblems(d) ==
  IF Cyclic(d) THEN {<<"SDPS-GRAPH-001", 0>>} ELSE {}

OutputProblems(d) ==
  IF Ids(d) # {} /\ materialization_boundaries(d) = {} THEN {<<"SDPS-GRAPH-009", 0>>} ELSE {}

RemarkOf(node) ==
  CASE node.type = "transform.join" /\ node.how = "cross" -> {"SDPS-PERF-001"}
    [] node.type = "transform.limit" -> {"SDPS-SEM-001"}
    [] node.type = "transform.repartition" -> {"SDPS-PERF-002"}
    [] OTHER -> {}

validate_graph(d) ==
  (UNION {NodeProblems(d, n) : n \in Ids(d)})
    \cup (UNION {EdgeProblems(d, e) : e \in d.edges})
    \cup (UNION {PortProblems(d, n) : n \in Ids(d)})
    \cup CycleProblems(d) \cup OutputProblems(d)
    \cup (UNION {{<<c, n>> : c \in RemarkOf(d.nodes[n])} : n \in Ids(d)})

\* validate_graph does not return: an edge to a missing node stops the order,
\* and a plugin the registry could not construct is looked up all the same.
ValidationRaises(d) ==
  \/ Topological(d).raised
  \/ \E n \in Ids(d) : Catalogued(d, n) /\ d.nodes[n].type \notin DOMAIN builtin_registry

-----------------------------------------------------------------------------
(* lower_pipeline: the intermediate representation *)

ModesMutant(d) ==
  {n \in Ids(d) : \E m \in ancestors(d, n) \cup {n} : d.nodes[m].type = "source.kafka"}

\* Modes are given along the order; a parent outside it counts as batch.
Streaming(d, n, known) ==
  IF d.nodes[n].type \in SourceTypes
  THEN d.nodes[n].type = "source.kafka" \/ d.nodes[n].streaming
  ELSE \E e \in Incoming(d, n) : e.from \in known
Modes(d) ==
  LET order == topological_order(d)
      known[i \in 0..Len(order)] ==
        IF i = 0 THEN {}
        ELSE known[i - 1] \cup {n \in {order[i]} : Streaming(d, n, known[i - 1])}
  IN  known[Len(order)]
Mode(d, n) == IF n \in Modes(d) THEN "streaming" ELSE "batch"

KindOf(type) ==
  IF type \in SourceTypes THEN "source" ELSE IF type \in Outputs THEN "sink" ELSE "transform"

_collect_refs(d) == {n \in Ids(d) : d.nodes[n].secret \in {"ref", "badref"}}

\* Where validate_graph raises there is no lowering: see Compiled in Codegen.
lower_pipeline(d) ==
  [nodes    |-> d.nodes,
   edges    |-> d.edges,
   order    |-> topological_order(d),
   modes    |-> [n \in Ids(d) |-> Mode(d, n)],
   kinds    |-> [n \in Ids(d) |-> KindOf(d.nodes[n].type)],
   secrets  |-> _collect_refs(d),
   problems |-> IF ValidationRaises(d) THEN {} ELSE validate_graph(d)]

\* IRPipeline.graph_view(): the nodes that have an order, and every edge.
graph_view(ir) == [nodes |-> [n \in Elements(ir.order) |-> ir.nodes[n]], edges |-> ir.edges]
=============================================================================
