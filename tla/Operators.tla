------------------------------ MODULE Operators ------------------------------
(***************************************************************************)
(* The operator catalogue of sdpstudio_core/operators.py: the ports,       *)
(* execution modes, required fields and code targets of every built-in     *)
(* operator, the discovery of operator plugins and their manifest check,   *)
(* and the comparison of a pipeline with the capabilities of a runtime.    *)
(* Titles, labels, placeholders and default values of form fields are left *)
(* out: nothing below reads them.                                          *)
(***************************************************************************)
EXTENDS Naturals, Sequences, FiniteSets

CONSTANT Plugins    \* installed operator plugins, in the order of discovery

BothModes == {"batch", "streaming"}

\* One catalogue entry.  `optional` are the input ports that may stay open.
Op(id, in, out, modes, required) ==
  [id |-> id, in |-> in, out |-> out, modes |-> modes, required |-> required, optional |-> {}]
Source(id, modes, required) == Op(id, {}, {"out"}, modes, required)
Unary(id, required)  == Op(id, {"in"}, {"out"}, BothModes, required)
Binary(id, required) == Op(id, {"left", "right"}, {"out"}, BothModes, required)

SourceOps ==
  { Source("source.table", BothModes, {"table"}),
    Source("source.file", BothModes, {"path"}),
    Source("source.jdbc", {"batch"}, {"url", "dbtable"}),
    Source("source.kafka", {"streaming"}, {"bootstrapServers", "subscribe"}),
    Source("source.sql_query", {"batch"}, {"query"}),
    Source("source.dataset_reference", BothModes, {"name"}),
    Source("source.generic", BothModes, {"format"}),
    Source("source.custom_pyspark", BothModes, {"code"}) }

UtilityOps ==
  { Source("utility.parameter", BothModes, {"name"}),
    Source("utility.constant", BothModes, {"name", "value"}),
    Op("utility.note", {}, {}, BothModes, {}),
    Unary("utility.group", {"name"}),
    Source("utility.component_input", BothModes, {"name"}),
    Op("utility.component_output", {"in"}, {}, BothModes, {"name"}),
    Unary("utility.custom_code", {"code"}) }

ProjectionOps ==
  { Unary("transform.filter", {"expression"}),
    Unary("transform.select", {"columns"}),
    Unary("transform.derive", {"name", "expression"}),
    Unary("transform.sql_project", {"query"}),
    Unary("transform.pyspark_block", {"code"}),
    Unary("transform.drop", {"columns"}),
    Unary("transform.rename", {"mapping"}),
    Unary("transform.cast", {"column", "dataType"}),
    Unary("transform.fill_nulls", {"values"}),
    Unary("transform.drop_nulls", {}),
    Unary("transform.drop_duplicates", {}) }

SetOps ==
  { Unary("transform.deduplicate_event_time", {"columns", "eventTime"}),
    Binary("transform.union_by_name", {}),
    Unary("transform.sort", {"expressions"}),
    Unary("transform.limit", {"count"}),
    Unary("transform.explode", {"column", "target"}),
    Unary("transform.posexplode", {"column", "target"}),
    Unary("transform.repartition", {"partitions"}),
    Unary("transform.coalesce", {"partitions"}),
    Unary("transform.aggregate", {}),
    Binary("transform.join", {}) }

StructureOps ==
  { Unary("transform.distinct", {}),
    Unary("transform.reorder", {"columns"}),
    Unary("transform.replace", {"column", "mapping"}),
    Binary("transform.intersect", {}),
    Binary("transform.except", {}),
    Unary("transform.flatten_struct", {"column"}),
    Unary("transform.build_struct", {"target", "fields"}),
    Unary("transform.build_map", {"target", "keys", "values"}),
    Unary("transform.build_array", {"target", "expressions"}),
    Unary("transform.watermark", {"column", "delay"}),
    Unary("transform.json_parse", {"column", "schema", "target"}),
    Unary("transform.window", {"target", "expression"}) }

QualityOps ==
  { Unary("quality.column_rule", {"column", "condition"}),
    Unary("quality.null_rate", {"column", "maxRate"}),
    Unary("quality.uniqueness", {"columns"}),
    Unary("quality.schema_contract", {"schema"}),
    Unary("quality.profile_probe", {}),
    Unary("quality.row_count_range", {}),
    [Op("quality.referential_sample", {"in", "reference"}, {"out"}, BothModes, {"columns"})
       EXCEPT !.optional = {"reference"}],
    Op("quality.quarantine_split", {"in"}, {"accepted", "quarantine"}, BothModes,
       {"condition", "quarantineName"}) }

OutputOps ==
  { Unary("dataset.materialized_view", {"name"}),
    Unary("dataset.streaming_table", {"name"}),
    Unary("dataset.temporary_view", {"name"}),
    Op("dataset.auto_cdc_scd1", {"in"}, {"out"}, {"streaming"}, {"name", "keys", "sequence_by"}),
    Op("sink.external", {"in"}, {}, {"streaming"}, {"name", "format"}) }

BUILTIN_OPERATORS ==
  SourceOps \cup UtilityOps \cup ProjectionOps \cup SetOps \cup StructureOps
    \cup QualityOps \cup OutputOps

TypesOf(entries) == {op.id : op \in entries}
BuiltinTypes == TypesOf(BUILTIN_OPERATORS)
Builtin(id) == CHOOSE op \in BUILTIN_OPERATORS : op.id = id

\* The prefix of an operator's id, which the code tests with str.startswith.
SourceTypes  == TypesOf(SourceOps)
Outputs      == TypesOf(OutputOps)
DatasetTypes == Outputs \ {"sink.external"}
QualityTypes == TypesOf(QualityOps)

-----------------------------------------------------------------------------
\* A plugin's manifest, reduced to what its check reads: every metadata field
\* well formed, written for this api version, and for an older studio.
validate_plugin_manifest(p) ==
  /\ p.wellFormed
  /\ p.api = "v1"
  /\ p.minimum <= p.sdk

\* Discovery keeps the plugins with a valid manifest whose id is not built in.
discover_operator_plugins ==
  SelectSeq(Plugins, LAMBDA p : validate_plugin_manifest(p)
                                  /\ p.id \notin BuiltinTypes)

DiscoveredIds == {discover_operator_plugins[i].id : i \in DOMAIN discover_operator_plugins}

\* operator_catalog() is a dict built left to right: the last plugin of an id wins.
CatalogPlugin(id) ==
  LET found == SelectSeq(discover_operator_plugins, LAMBDA p : p.id = id)
  IN  found[Len(found)].op

operator_catalog ==
  [id \in BuiltinTypes \cup DiscoveredIds |->
     IF id \in BuiltinTypes THEN Builtin(id) ELSE CatalogPlugin(id)]

\* builtin_registry() registers what constructs, and refuses a second
\* registration of an id: the first constructible plugin of an id wins.
Registrable == SelectSeq(discover_operator_plugins, LAMBDA p : p.constructs)
RegistryPlugin(id) == SelectSeq(Registrable, LAMBDA p : p.id = id)[1].op
builtin_registry ==
  [id \in BuiltinTypes \cup {Registrable[i].id : i \in DOMAIN Registrable} |->
     IF id \in BuiltinTypes THEN Builtin(id) ELSE RegistryPlugin(id)]

-----------------------------------------------------------------------------
\* validate_capabilities: what a document needs of a runtime, and the verdict
\* on each need: met, missing with a downgrade (a warning) or missing (an error).
RequiredCapabilitiesMutant(nodes) ==
  {t \in DatasetTypes : \E n \in DOMAIN nodes : nodes[n].type = t}
    \cup (IF \E n \in DOMAIN nodes : nodes[n].type = "sink.external" THEN {"sink"} ELSE {})
    \cup (IF \E n \in DOMAIN nodes : nodes[n].type = "source.kafka"
          THEN {"dataset.streaming_table"} ELSE {})

RequiredCapabilities(nodes) ==
  {t \in DatasetTypes : \E n \in DOMAIN nodes : nodes[n].type = t}
    \cup (IF \E n \in DOMAIN nodes : nodes[n].type = "sink.external" THEN {"sink"} ELSE {})
    \cup (IF \E n \in DOMAIN nodes : nodes[n].type = "source.kafka" \/ nodes[n].streaming
          THEN {"dataset.streaming_table"} ELSE {})

validate_capabilities(nodes, caps) ==
  {<<IF c \in caps.downgrades THEN "SDPS-CAP-002" ELSE "SDPS-CAP-001", c>> :
     c \in RequiredCapabilities(nodes) \ caps.present}
=============================================================================
