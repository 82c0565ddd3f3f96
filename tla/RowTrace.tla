------------------------------ MODULE RowTrace ------------------------------
(***************************************************************************)
(* The bounded interpreter behind visual row tracing, and the comparison   *)
(* of schemas (sdpstudio_core/debug.py).                                   *)
(*                                                                         *)
(* A row is a function from columns to values; Null stands for None.  The  *)
(* expressions of a node are its field `arg`: <<column, value>> for the    *)
(* filter column = value, <<column, source>> for a derived column, a pair  *)
(* <<old, new>> for a rename, the columns of a select, <<left, right>> for *)
(* an equi-join, the grouping columns of a count.                          *)
(***************************************************************************)
EXTENDS PipelineGraph, SequencesExt

Null == "None"
Get(row, column) == IF column \in DOMAIN row THEN row[column] ELSE Null
With(row, column, value) == (column :> value) @@ row
Without(row, column) == [c \in DOMAIN row \ {column} |-> row[c]]

\* int() reads numbers written differently as one number, and refuses a text.
CastFails(value) == value = "text"
Cast(value) == IF value = "01" THEN "1" ELSE value

Map(rows, F(_)) == [i \in DOMAIN rows |-> F(rows[i])]
FlatMap(rows, F(_)) == FlattenSeq(Map(rows, F))
FirstN(rows, n) == SubSeq(rows, 1, Min({n, Len(rows)}))

-----------------------------------------------------------------------------
(* execute_row_trace *)

Traced == {"transform.filter", "transform.select", "transform.derive", "transform.rename",
           "transform.cast", "transform.union", "transform.join", "transform.aggregate",
           "transform.explode"}
Traceable(type) == type \in SourceTypes \cup Outputs \cup Traced

TraceJoinMutant(arg, left, right) ==
  FlatMap(left, LAMBDA l :
    Map(SelectSeq(right, LAMBDA r : Get(l, arg[2]) = Get(r, arg[1])), LAMBDA r : r @@ l))

\* A join pairs its first input with its second, in the order of the edges,
\* and merges the rows; of two columns of one name the second row's is kept.
TraceJoin(arg, left, right) ==
  FlatMap(left, LAMBDA l :
    Map(SelectSeq(right, LAMBDA r : Get(l, arg[1]) = Get(r, arg[2])), LAMBDA r : r @@ l))

Group(row, columns) == [c \in columns |-> Get(row, c)]

\* One row per group, with the number of its members.
TraceCount(columns, rows) ==
  LET groups == SetToSeq({Group(rows[i], columns) : i \in DOMAIN rows})
  IN  Map(groups, LAMBDA g : With(g, "row_count",
        ToString(Len(SelectSeq(rows, LAMBDA r : Group(r, columns) = g)))))

TraceNode(node, inputs) ==
  LET rows == IF inputs = <<>> THEN <<>> ELSE inputs[1]
  IN  CASE node.type = "transform.filter" ->
             SelectSeq(rows, LAMBDA r : Get(r, node.arg[1]) = node.arg[2])
        [] node.type = "transform.select" ->
             Map(rows, LAMBDA r : [c \in node.arg |-> Get(r, c)])
        [] node.type = "transform.derive" ->
             Map(rows, LAMBDA r : With(r, node.arg[1], Get(r, node.arg[2])))
        [] node.type = "transform.rename" ->
             Map(rows, LAMBDA r : IF node.arg[1] \in DOMAIN r
                                  THEN With(Without(r, node.arg[1]), node.arg[2], r[node.arg[1]]) ELSE r)
        [] node.type = "transform.cast" ->
             Map(rows, LAMBDA r : With(r, node.arg, Cast(Get(r, node.arg))))
        [] node.type = "transform.union" -> FlattenSeq(inputs)
        [] node.type = "transform.join" ->
             TraceJoin(node.arg, rows, IF Len(inputs) > 1 THEN inputs[2] ELSE <<>>)
        [] node.type = "transform.aggregate" -> TraceCount(node.arg, rows)
        [] node.type = "transform.explode" ->
             FlatMap(rows, LAMBDA r : LET items == Get(r, node.arg)
                                      IN  IF items = <<>> THEN <<>>
                                          ELSE Map(items, LAMBDA v : With(r, node.arg, v)))
        [] OTHER -> rows

TraceFails(node, inputs) ==
  /\ node.type = "transform.cast" /\ inputs # <<>>
  /\ \E i \in DOMAIN inputs[1] : CastFails(Get(inputs[1][i], node.arg))

\* One node of the order: its rows and whether its lineage is known.  Rows of
\* an operator the interpreter lacks are passed on under an unknown lineage.
\* Every node before the traced one is run, related to it or not.
TraceStep(d, samples, max_rows, s, n) ==
  LET node == d.nodes[n]
      parents == ById(Incoming(d, n))
      inputs == [i \in DOMAIN parents |-> s.rows[parents[i].from]]
      output == IF node.type \in SourceTypes THEN FirstN(samples[n], max_rows)
                ELSE TraceNode(node, inputs)
      unknown == \/ ~Traceable(node.type)
                 \/ \E i \in DOMAIN parents : parents[i].from \in s.unknown
  IN  IF s.failed THEN s
      ELSE IF TraceFails(node, inputs) THEN [s EXCEPT !.failed = TRUE]
      ELSE [s EXCEPT !.rows = (n :> FirstN(output, max_rows)) @@ @,
                     !.cut = IF Len(output) > max_rows \/ (n \in DOMAIN samples /\ Len(samples[n]) > max_rows)
                             THEN @ \cup {n} ELSE @,
                     !.unknown = IF unknown THEN @ \cup {n} ELSE @]

\* `cut`, the nodes that had more rows than the limit, is not returned by the
\* code; it is kept here to say what a trace may claim.
execute_row_trace(d, n, samples, max_rows) ==
  LET order == topological_order(d)
      upto == IF n \notin ToSet(order) THEN order
              ELSE SubSeq(order, 1, CHOOSE i \in DOMAIN order : order[i] = n)
  IN  FoldLeft(LAMBDA s, m : TraceStep(d, samples, max_rows, s, m),
               [rows |-> <<>>, cut |-> {}, unknown |-> {}, failed |-> FALSE], upto)

\* row_trace: the path behind a node.
row_trace(d, n) == IF n \in Ids(d) THEN trace_to_sources(d, n) ELSE <<>>

-----------------------------------------------------------------------------
(* Differences.  A schema is a function from paths, sequences of names, to   *)
(* types; the path of a nested field extends its parent's.                   *)

TopLevel(schema) == {p \in DOMAIN schema : Len(p) = 1}
Below(p, schema) == {q \in DOMAIN schema : IsPrefix(p, q)}
Retyped(left, right) == {p \in DOMAIN left \cap DOMAIN right : left[p] # right[p]}

\* A top-level field has changed when anything below it has.
schema_diff(left, right) ==
  LET added == TopLevel(right) \ TopLevel(left)
      removed == TopLevel(left) \ TopLevel(right)
  IN  [added |-> added, removed |-> removed,
       changed |-> {p \in TopLevel(left) \cap TopLevel(right) :
                      [q \in Below(p, left) |-> left[q]] # [q \in Below(p, right) |-> right[q]]},
       nested_added |-> DOMAIN right \ (DOMAIN left \cup added),
       nested_removed |-> DOMAIN left \ (DOMAIN right \cup removed),
       nested_changed |-> {p \in DOMAIN left \cap DOMAIN right :
                             Len(p) > 1 /\ [q \in Below(p, left) |-> left[q]] # [q \in Below(p, right) |-> right[q]]}]

Compatible(left, right) ==
  LET diff == schema_diff(left, right)
  IN  /\ diff.removed = {} /\ diff.nested_removed = {}
      /\ (diff.changed \cup diff.nested_changed) \cap Retyped(left, right) = {}

evaluate_schema_contract(left, right, mode, allow_added) ==
  LET diff == schema_diff(left, right)
      breaking == (IF allow_added THEN {} ELSE diff.added \cup diff.nested_added)
                    \cup diff.removed \cup diff.nested_removed
                    \cup ((diff.changed \cup diff.nested_changed) \cap Retyped(left, right))
  IN  IF breaking = {} THEN "passed" ELSE IF mode = "block" THEN "blocked" ELSE "warned"
=============================================================================
