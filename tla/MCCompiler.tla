----------------------------- MODULE MCCompiler -----------------------------
(***************************************************************************)
(* Palettes for the compilers, operator plugins, samples, event logs and   *)
(* schemas.                                                                *)
(***************************************************************************)
EXTENDS Readers

\* One operator plugin that loads and has a problem-free manifest, one that
\* wants an id that is taken, one that is written for a later studio.
MCPlugin(id, minimum, constructs) ==
  [id |-> id, op |-> Unary(id, {}), wellFormed |-> TRUE, api |-> "v1", minimum |-> minimum,
   sdk |-> 1, constructs |-> constructs]
MCPlugins == << MCPlugin("acme.mask", 1, TRUE), MCPlugin("transform.filter", 1, TRUE),
                MCPlugin("acme.late", 2, TRUE), MCPlugin("acme.broken", 1, FALSE) >>

\* A well configured node; `with` overrides what a palette wants different.
Nd(type, tail, with) ==
  with @@ [type |-> type, tail |-> tail, streaming |-> FALSE, unset |-> {}, secret |-> "none",
           how |-> "inner", cond |-> TRUE, name |-> tail, ident |-> tail, split |-> TRUE,
           column |-> TRUE, code |-> "safe"]
Plain == <<>>

\* Edge i of a palette, from a port to a port.
Edge(i, m, fport, n, tport) ==
  [id |-> i, from |-> m, fport |-> fport, to |-> n, tport |-> tport]
Line(i, m, n) == Edge(i, m, "out", n, "in")

\* A split whose branches feed two views, a filter or the reference of a
\* sampled check; and a split on a condition no backend supports.
SplitPalette ==
  [nodes |-> << Nd("source.table", "s", Plain), Nd("quality.quarantine_split", "q", Plain),
                Nd("dataset.materialized_view", "a", Plain), Nd("dataset.materialized_view", "b", Plain),
                Nd("transform.filter", "f", Plain), Nd("quality.quarantine_split", "r", "split" :> FALSE),
                Nd("quality.referential_sample", "m", Plain) >>,
   edges |-> { Line(1, 1, 2), Edge(2, 2, "accepted", 3, "in"), Edge(3, 2, "quarantine", 4, "in"),
               Edge(4, 2, "accepted", 5, "in"), Line(5, 5, 4), Line(6, 5, 3), Line(7, 1, 6),
               Edge(8, 2, "quarantine", 5, "in"), Edge(9, 6, "accepted", 5, "in"), Line(10, 5, 7),
               Edge(11, 2, "quarantine", 7, "reference"), Line(12, 7, 3) },
   strict |-> TRUE]

\* Joins of two sources, one with the name of the dataset, one of them code, two
\* with ids of one tail, an operator SQL lacks and a cycle.
JoinPalette ==
  [nodes |-> << Nd("source.table", "l", "name" :> "a"), Nd("source.custom_pyspark", "c", "code" :> "blank"),
                Nd("transform.join", "j", Plain), Nd("dataset.materialized_view", "a", Plain),
                Nd("transform.drop", "d", Plain), Nd("transform.join", "k", "cond" :> FALSE),
                Nd("source.sql_query", "r", "tail" :> "l") >>,
   edges |-> { Edge(1, 1, "out", 3, "left"), Edge(2, 2, "out", 3, "right"), Edge(3, 7, "out", 3, "right"),
               Line(4, 3, 4), Line(5, 3, 5), Line(6, 5, 4), Edge(7, 5, "out", 3, "left"),
               Edge(8, 1, "out", 6, "left"), Edge(9, 3, "out", 6, "right"), Line(10, 6, 4), Line(11, 1, 5) },
   strict |-> TRUE]

\* Streams and a batch that feed tables, views and a sink; a sink behind a
\* stream that no table is read for, and a view with the name of its flow.
StreamPalette ==
  [nodes |-> << Nd("source.kafka", "k", Plain), Nd("source.table", "t", Plain),
                Nd("dataset.streaming_table", "a", Plain), Nd("dataset.materialized_view", "b", Plain),
                Nd("dataset.temporary_view", "c", "ident" :> "flow_e"), Nd("sink.external", "e", Plain),
                Nd("source.table", "u", "streaming" :> TRUE), Nd("transform.union_by_name", "n", Plain) >>,
   edges |-> { Line(1, 1, 3), Line(2, 2, 3), Line(3, 3, 4), Line(4, 2, 4), Line(5, 1, 5),
               Line(6, 5, 4), Line(7, 3, 6), Line(8, 5, 6), Edge(9, 2, "out", 8, "left"),
               Edge(10, 7, "out", 8, "right"), Line(11, 8, 3), Line(12, 8, 4), Line(13, 7, 5),
               Line(14, 1, 6) },
   strict |-> TRUE]

\* Datasets that read datasets, two of them of one name and two of one
\* identifier, one of them a change feed.
DatasetPalette ==
  [nodes |-> << Nd("source.table", "t", Plain), Nd("dataset.materialized_view", "a", Plain),
                Nd("transform.intersect", "u", Plain), Nd("dataset.materialized_view", "b", "name" :> "a"),
                Nd("transform.distinct", "n", Plain), Nd("dataset.auto_cdc_scd1", "c", "ident" :> "b") >>,
   edges |-> { Line(1, 1, 2), Edge(2, 2, "out", 3, "left"), Edge(3, 1, "out", 3, "right"),
               Line(4, 3, 4), Line(5, 3, 5), Line(6, 5, 6), Line(7, 5, 4), Line(8, 2, 6),
               Edge(9, 1, "out", 3, "left"), Line(10, 6, 2), Line(11, 1, 5), Line(12, 2, 5) },
   strict |-> TRUE]

\* What may go wrong: an edge to a missing node, a second edge into a port, a
\* plugin that no backend renders, a malformed secret, code that is not one
\* safe expression, an operator with no input.
OddPalette ==
  [nodes |-> << Nd("source.jdbc", "s", "secret" :> "badref"), Nd("acme.mask", "p", Plain),
                Nd("utility.constant", "c", Plain), Nd("dataset.materialized_view", "a", Plain),
                Nd("utility.custom_code", "x", "code" :> "unsafe"), Nd("utility.component_input", "i", Plain),
                Nd("acme.broken", "z", Plain) >>,
   edges |-> { Line(1, 1, 2), Line(2, 2, 4), Line(3, 3, 4), Line(4, 3, 5), Line(5, 5, 4),
               Line(6, 6, 4), Line(7, 1, 4), Line(8, 4, 9), Line(9, 6, 2), Line(10, 6, 5),
               Line(11, 6, 7) },
   strict |-> FALSE]

\* Operators the row trace interprets, and one it does not, over two samples.
MCRow(k, v) == [k |-> k, v |-> v]
MCSamples == (1 :> << MCRow("2", "y"), MCRow("1", "x"), MCRow("01", "z") >>)
             @@ (2 :> << [j |-> "1", w |-> "a"], [j |-> "1", w |-> "b"] >>)
MCRowLimits == {2, 3}
TracePalette ==
  [nodes |-> << Nd("source.table", "s", Plain), Nd("source.table", "t", Plain),
                Nd("transform.join", "j", "arg" :> <<"k", "j">>),
                Nd("transform.filter", "f", "arg" :> <<"k", "1">>),
                Nd("transform.distinct", "d", Plain), Nd("transform.aggregate", "g", "arg" :> {"k"}),
                Nd("transform.cast", "c", "arg" :> "k") >>,
   edges |-> { Line(1, 1, 4), Line(2, 1, 5), Line(3, 1, 7), Line(4, 5, 4), Line(5, 7, 6),
               Edge(6, 1, "out", 3, "left"), Edge(7, 7, "out", 3, "left"), Edge(8, 2, "out", 3, "right"),
               Line(9, 3, 6), Line(10, 4, 6), Line(11, 7, 4), Line(12, 3, 4) },
   strict |-> TRUE]

MCSampled == {TracePalette}
MCPalettes ==
  {SplitPalette, JoinPalette, StreamPalette, DatasetPalette, OddPalette, TracePalette}

-----------------------------------------------------------------------------
\* Small schemas: a field of one or two types, with or without a nested field.
MCSchemas ==
  UNION {[paths -> {"int", "text"}] :
           paths \in {{}, {<<"a">>}, {<<"c">>}, {<<"a">>, <<"c">>}, {<<"a">>, <<"a", "b">>},
                      {<<"a">>, <<"a", "b">>, <<"c">>}}}

\* A schema contract that blocks lets a change pass exactly when a reader of
\* the old schema can read the new one: every path is there with its type, and
\* no other path when additions are refused; a diff calls the same changes
\* compatible.
ASSUME ContractsProtectReaders ==
  \A left, right \in MCSchemas, allow_added \in BOOLEAN :
    LET readable == /\ \A p \in DOMAIN left : p \in DOMAIN right /\ right[p] = left[p]
                    /\ allow_added \/ DOMAIN right \subseteq DOMAIN left
    IN  /\ (evaluate_schema_contract(left, right, "block", allow_added) = "passed") <=> readable
        /\ allow_added => (Compatible(left, right) <=> readable)

\* Event logs of up to four events of two stages, and one of neither.
MCTask(stage, finish, run) ==
  [kind |-> "SparkListenerTaskEnd", stage |-> stage, launch |-> 1, finish |-> finish, run |-> run, bytes |-> 1]
MCEvents == {[kind |-> "SparkListenerStageSubmitted", stage |-> 2], [kind |-> "SparkListenerJobEnd"],
             MCTask(1, 2, 1), MCTask(1, 7, 1), MCTask(2, 0, 1)}
MCEventLogs == BoundedSeq(MCEvents, 4)
MCTaskLimits == 1..2
=============================================================================
