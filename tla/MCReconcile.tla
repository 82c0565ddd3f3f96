----------------------------- MODULE MCReconcile -----------------------------
\* A table whose rows are split into a first dataset; the second, a change feed,
\* reads the first one through a filter, a rename and two drops.  The only filter
\* and the only WHERE of the first statement, that of the split, are not of one
\* node; the id of the second drop is longer, and ends like that of the first.
EXTENDS Reconcile

MCKeys == 1..7
Table == 1
Expression == 2
Columns == 3
Pairs == {4, 5}
MCName == 6
SequenceKeys == 7

MCNodes == {"raw", "split", "clean", "valid", "kept", "cut", "trim", "feed"}
MCStatements == {"raw", "split", "clean def", "clean", "valid", "kept", "cut", "trim", "feed def"}

Line == [node |-> "raw", decorator |-> FALSE, owner |-> Nobody, shows |-> {}, writes |-> [k \in MCKeys |-> 0],
         last |-> FALSE, strict |-> FALSE, shape |-> "call", clause |-> "none", key |-> MCName]
Reads(n, k, j) == [Line EXCEPT !.node = n, !.owner = n, !.shows = {k}, !.writes[j] = k]
Defines(n) == [Line EXCEPT !.node = n, !.decorator = TRUE]

MCForm == [s \in MCStatements |->
  CASE s = "raw" -> [Reads("raw", Table, Table) EXCEPT !.clause = "table", !.key = Table]
    [] s = "split" -> [Line EXCEPT !.node = "split", !.owner = "split", !.shows = {Columns},
                                   !.clause = "where", !.key = Columns]
    [] s = "clean def" -> Defines("clean")
    [] s = "clean" -> Reads("clean", MCName, Table)
    [] s = "valid" -> [Reads("valid", Expression, Expression) EXCEPT !.strict = TRUE,
                                   !.clause = "where", !.key = Expression]
    [] s = "kept" -> [Reads("kept", 4, 4) EXCEPT !.shows = Pairs, !.writes[5] = 5, !.last = TRUE]
    [] s = "cut" -> Reads("cut", Columns, Columns)
    [] s = "trim" -> [Reads("trim", Columns, Columns) EXCEPT !.owner = "cut"]
    [] s = "feed def" -> [Defines("feed") EXCEPT !.shows = {SequenceKeys, MCName},
                                   !.writes[SequenceKeys] = SequenceKeys]]

\* Both names are identifiers, which functions are called by as they are.
MCFunction == [s \in MCStatements |-> [v \in Optional |-> v]]

MCDefinitions == << <<"clean def", "raw", "split">>, <<"feed def", "clean", "valid", "kept", "cut", "trim">> >>
MCRole == [n \in Nodes |-> CASE n = "raw" -> "table" [] n = "valid" -> "where" [] OTHER -> "none"]
MCClauseKey == [c \in Clauses |-> CASE c = "table" -> Table [] c = "where" -> Expression [] OTHER -> Columns]

\* sqlglot renders two texts alike.
MCNormal == [v \in Optional |-> IF v = 2 THEN 1 ELSE v]
MCDefault == [n \in Nodes |-> IF n = "kept" THEN 0 ELSE 1]
MCUnset == [n \in Nodes |-> [k \in Keys |->
  CASE n = "clean" /\ k = MCName -> 1 [] n = "feed" /\ k = MCName -> 2
    [] n = "kept" /\ k = 4 -> 1 [] OTHER -> 0]]
=============================================================================
