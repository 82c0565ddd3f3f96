------------------------------- MODULE Import -------------------------------
(***************************************************************************)
(* Discovery of declarations in Python and SQL text (importer.py and       *)
(* sql_importer.py), and the document a directory of such files becomes    *)
(* (sdpstudio import, main.py).                                            *)
(*                                                                         *)
(* A Python text is [functions, calls].  A decorator or a call is          *)
(* [dp, attr, keyword, table, positional]: whether it goes to dp, and the  *)
(* literal names it is given; "" is none, or none that is literal.  A      *)
(* function has a name, decorators, and the calls of a method `table` in   *)
(* it, as [on, name].  An SQL text is [parses, statements]; a statement    *)
(* has a form, a name, the tables it mentions and its common table         *)
(* expressions.  Names are single words: quoting is data.                  *)
(***************************************************************************)
EXTENDS Codegen, SequencesExt

Declaration(name, kind, dependencies) ==
  [name |-> name, kind |-> kind, dependencies |-> dependencies]

_literal_name(call) == IF call.keyword # "" THEN call.keyword ELSE call.positional

DecoratorKinds ==
  [materialized_view |-> "dataset.materialized_view", table |-> "dataset.streaming_table",
   temporary_view |-> "dataset.temporary_view", append_flow |-> "sink.external",
   create_auto_cdc_flow |-> "dataset.auto_cdc_scd1"]

CallKinds ==
  [create_streaming_table |-> "dataset.streaming_table",
   create_materialized_view |-> "dataset.materialized_view",
   create_sink |-> "sink.external", create_auto_cdc_flow |-> "dataset.auto_cdc_scd1"]

\* Mutant of Tables: streaming reads are passed over.
TablesMutant(f) == {c \in f.tables : c.on = "spark"}

\* The calls of a method `table` found in a function, its decorators included:
\* @dp.table("x") is one of them.
Tables(f) ==
  f.tables \cup {[on |-> "dp", name |-> dec.positional] :
                   dec \in {e \in Elements(f.decorators) : e.attr = "table" /\ e.positional # ""}}

_is_spark_table_call(call) == call.on \in {"spark", "spark.read", "spark.readStream"}

\* A call without a literal name may still name its table.
CallName(call) == IF _literal_name(call) # "" THEN _literal_name(call) ELSE call.table

discover_python(text) ==
  LET ours(f) == Among(f.decorators, {e \in Elements(f.decorators) : e.dp})
      known(f) == Among(ours(f), {e \in Elements(ours(f)) : e.attr \in DOMAIN DecoratorKinds})
      decorated(f) ==
        [i \in DOMAIN known(f) |->
           Declaration(IF _literal_name(known(f)[i]) = "" THEN f.name ELSE _literal_name(known(f)[i]),
                       DecoratorKinds[known(f)[i].attr],
                       {c.name : c \in Tables(f)} \ {""})]
      calls == Among(text.calls, {c \in Elements(text.calls) : c.dp /\ c.attr \in DOMAIN CallKinds})
      named == Among(calls, {c \in Elements(calls) : CallName(c) # ""})
      declarations ==
        FlattenSeq([i \in DOMAIN text.functions |-> decorated(text.functions[i])])
          \o [i \in DOMAIN named |-> Declaration(CallName(named[i]), CallKinds[named[i].attr], {})]
      unsupported ==
        UNION {{e.attr : e \in Elements(ours(f))} \ DOMAIN DecoratorKinds : f \in Elements(text.functions)}
          \cup {"dynamic_dependency" :
                  f \in {g \in Elements(text.functions) :
                           known(g) # <<>> /\ \E c \in Tables(g) : c.name = "" /\ _is_spark_table_call(c)}}
          \cup {"dynamic_declaration_name" : c \in {e \in Elements(calls) : CallName(e) = ""}}
  IN  [declarations |-> declarations, unsupported |-> unsupported,
       custom_code |-> unsupported # {} \/ declarations = <<>>]

-----------------------------------------------------------------------------
SqlForms ==
  [form \in {"MATERIALIZED VIEW", "STREAMING TABLE", "TEMPORARY VIEW"} |->
     CASE form = "MATERIALIZED VIEW" -> "dataset.materialized_view"
       [] form = "STREAMING TABLE" -> "dataset.streaming_table"
       [] form = "TEMPORARY VIEW" -> "dataset.temporary_view"]
CreateForms == DOMAIN SqlForms \cup {"VIEW", "TABLE", "FUNCTION"}
CodeOwnedForms == {"INSERT", "UPDATE", "DELETE", "MERGE", "GRANT", "ALTER", "DROP"}

SqlDependencies(statement, target) == (statement.tables \cup {statement.name}) \ ({target} \cup statement.ctes)

\* The declarations a pattern finds take their dependencies from the CREATE
\* statement the parser has at the same place in its own list; where the
\* pattern finds none, views and tables the parser knows are declarations.
discover_sql(text) ==
  LET matches == Among(text.statements, {s \in Elements(text.statements) : s.form \in DOMAIN SqlForms})
      parsed == IF text.parses THEN Among(text.statements, {s \in Elements(text.statements) : s.form \in CreateForms})
                ELSE <<>>
      standard == Among(parsed, {s \in Elements(parsed) : s.form \in {"VIEW", "TABLE"}})
      declarations ==
        IF matches # <<>>
        THEN [i \in DOMAIN matches |->
                Declaration(matches[i].name, SqlForms[matches[i].form],
                            IF i \in DOMAIN parsed THEN SqlDependencies(parsed[i], matches[i].name) ELSE {})]
        ELSE [i \in DOMAIN standard |->
                Declaration(standard[i].name, "dataset.materialized_view",
                            standard[i].tables \ standard[i].ctes)]
  IN  [declarations |-> declarations,
       custom_code |-> \/ declarations = <<>>
                       \/ \E s \in Elements(text.statements) : s.form \in CodeOwnedForms]

-----------------------------------------------------------------------------
(* The document of a directory *)

ImportedNode(type, name) ==
  [type |-> type, name |-> name, ident |-> name, tail |-> name, streaming |-> FALSE,
   unset |-> builtin_registry[type].required \ {"name", "table"}, secret |-> "none", how |-> "",
   cond |-> FALSE, split |-> FALSE, column |-> FALSE, code |-> "blank"]

\* A node of every declaration, in order; then one of every dependency that no
\* declaration has the name of.  Edges are drawn from those only.
cmd_import_directory(declarations) ==
  LET declared == {declarations[i].name : i \in DOMAIN declarations}
      pairs == UNION {{i} \X (declarations[i].dependencies \ declared) : i \in DOMAIN declarations}
      outside == SetToSeq({p[2] : p \in pairs})
      links == SetToSeq(pairs)
      SourceOf(name) == Len(declarations) + (CHOOSE i \in DOMAIN outside : outside[i] = name)
  IN  [nodes |-> [i \in DOMAIN declarations |-> ImportedNode(declarations[i].kind, declarations[i].name)]
                   \o [i \in DOMAIN outside |-> ImportedNode("source.table", outside[i])],
       edges |-> {[id |-> i, from |-> SourceOf(links[i][2]), fport |-> "out",
                   to |-> links[i][1], tport |-> "in"] : i \in DOMAIN links}]

-----------------------------------------------------------------------------
(* The texts that the generators write, as the importers read them *)

\* How a source names a table: only these reads are calls of `table`.
ReadsTable(node) ==
  node.type \in {"source.table", "source.dataset_reference", "utility.component_input"} \cup DatasetTypes

DecoratorOf(type) ==
  CASE type = "dataset.materialized_view" -> "materialized_view"
    [] type = "dataset.streaming_table" -> "table"
    [] type = "dataset.temporary_view" -> "temporary_view"
    [] type = "dataset.auto_cdc_scd1" -> "create_auto_cdc_flow"
    [] type = "sink.external" -> "append_flow"

Keyword(attr, name) == [dp |-> TRUE, attr |-> attr, keyword |-> name, table |-> "", positional |-> ""]

PythonText(d, definitions) ==
  LET order == Among(d.order, DOMAIN definitions)
      reads(o) == UNION {definitions[o].statements[i].reads : i \in DOMAIN definitions[o].statements}
      sinks == Among(order, {o \in Elements(order) : d.nodes[o].type = "sink.external"})
  IN  [functions |-> [i \in DOMAIN order |->
         [name |-> FunctionName(d.nodes[order[i]]),
          decorators |-> << Keyword(DecoratorOf(d.nodes[order[i]].type), d.nodes[order[i]].name) >>,
          tables |-> {[on |-> IF r[1] = "stream" THEN "spark.readStream" ELSE "spark",
                       name |-> d.nodes[r[2]].name] :
                        r \in {s \in reads(order[i]) : ReadsTable(d.nodes[s[2]])}}]],
       calls |-> [i \in DOMAIN sinks |-> Keyword("create_sink", d.nodes[sinks[i]].name)]]

\* A change feed is written as a temporary view.
FormOf(type) ==
  CASE type = "dataset.materialized_view" -> "MATERIALIZED VIEW"
    [] type = "dataset.streaming_table" -> "STREAMING TABLE"
    [] OTHER -> "TEMPORARY VIEW"

SqlText(d, definitions) ==
  LET order == Among(d.order, DOMAIN definitions)
  IN  [parses |-> TRUE,
       statements |-> [i \in DOMAIN order |->
         [form |-> FormOf(d.nodes[order[i]].type), name |-> d.nodes[order[i]].ident, ctes |-> {},
          tables |-> {d.nodes[r[2]].name : r \in definitions[order[i]]}]]]
=============================================================================
