------------------------------ MODULE GraphIndex ------------------------------
(***************************************************************************)
(* The graph of a pipeline document: the queries of GraphIndex             *)
(* (sdpstudio_core/graph.py).                                              *)
(*                                                                         *)
(* A document is [nodes, edges]: nodes is a function from node ids         *)
(* (numbers, ordered like the ids), edges a set of records                 *)
(* [id, from, fport, to, tport] that may name nodes the document lacks.    *)
(* What a node is does not matter here.                                    *)
(***************************************************************************)
EXTENDS Lists

Ids(d) == DOMAIN d.nodes
Incoming(d, n) == {e \in d.edges : e.to = n}
Outgoing(d, n) == {e \in d.edges : e.from = n}
Joined(d) == {e \in d.edges : e.from \in Ids(d) /\ e.to \in Ids(d)}
Parents(d, n) == {e.from : e \in Incoming(d, n)}
Children(d, n) == {e.to : e \in Outgoing(d, n)}

\* PipelineDocument refuses duplicate ids; nodes are a function already.
ensure_unique_ids(d) == \A e, f \in d.edges : e.id = f.id => e = f

WellFormed(d) ==
  /\ IsFiniteSet(Ids(d)) /\ Ids(d) \subseteq Nat
  /\ IsFiniteSet(d.edges) /\ \A e \in d.edges : e.id \in Nat
  /\ ensure_unique_ids(d)

\* Edges by their ids.
ById(edges) ==
  LET ids == Ascending({e.id : e \in edges})
  IN  [i \in DOMAIN ids |-> CHOOSE e \in edges : e.id = ids[i]]

\* A walk that starts from a set, follows `succ` and remembers what it has seen.
Grow(seen, succ) == seen \cup UNION {succ[n] : n \in seen}
Walk(start, succ) ==
  LET seen[i \in 0..Cardinality(DOMAIN succ)] == IF i = 0 THEN start ELSE Grow(seen[i - 1], succ)
  IN  seen[Cardinality(DOMAIN succ)]

\* The ids of the nodes and those that edges name.
Mentioned(d) == Ids(d) \cup {e.from : e \in d.edges} \cup {e.to : e \in d.edges}

-----------------------------------------------------------------------------
ReleaseMutant(d, s, e) ==
  IF s.raised \/ e.to \notin Ids(d) THEN [s EXCEPT !.raised = TRUE]
  ELSE [s EXCEPT !.queue = IF e.to \in Elements(@) \cup Elements(s.order) THEN @ ELSE Append(@, e.to)]

\* One edge of a visited node: its target is released with its last incoming
\* edge.  An edge to a node the document lacks has no counter to lower.
Release(d, s, e) ==
  IF s.raised \/ e.to \notin Ids(d) THEN [s EXCEPT !.raised = TRUE]
  ELSE [s EXCEPT !.indegree[e.to] = @ - 1,
                 !.queue = IF s.indegree[e.to] = 1 THEN Append(@, e.to) ELSE @]

ReleaseAll(d, s, edges) ==
  LET released[i \in 0..Len(edges)] ==
        IF i = 0 THEN s ELSE Release(d, released[i - 1], edges[i])
  IN  released[Len(edges)]

Visit(d, s) ==
  IF s.queue = <<>> \/ s.raised THEN s
  ELSE ReleaseAll(d, [s EXCEPT !.queue = Tail(@), !.order = Append(@, Head(s.queue))],
                  ById(Outgoing(d, Head(s.queue))))

InDegrees(d) == [n \in Ids(d) |-> Cardinality({e \in Joined(d) : e.to = n})]
AtRoots(d) ==
  [queue |-> Ascending({n \in Ids(d) : InDegrees(d)[n] = 0}),
   indegree |-> InDegrees(d), order |-> <<>>, raised |-> FALSE]

\* Kahn's algorithm; `raised` is the KeyError of an edge to a missing node.
Topological(d) ==
  LET visited[i \in 0..Cardinality(Ids(d))] ==
        IF i = 0 THEN AtRoots(d) ELSE Visit(d, visited[i - 1])
  IN  visited[Cardinality(Ids(d))]

topological_order(d) == Topological(d).order

ancestors(d, n) == Walk(Parents(d, n), [m \in Mentioned(d) |-> Parents(d, m)])
descendants(d, n) == Walk(Children(d, n), [m \in Mentioned(d) |-> Children(d, m)])

Neighbours(d, n) ==
  {e.to : e \in {f \in Joined(d) : f.from = n}} \cup {e.from : e \in {f \in Joined(d) : f.to = n}}

\* Components are taken out of the remaining nodes, the smallest id first.
TakeComponent(d, s) ==
  IF s.remaining = {} THEN s
  ELSE LET start == CHOOSE n \in s.remaining : \A m \in s.remaining : n <= m
           part == Walk({start}, [m \in Ids(d) |-> Neighbours(d, m)])
       IN  [remaining |-> s.remaining \ part, found |-> Append(s.found, part)]
connected_components(d) ==
  LET taken[i \in 0..Cardinality(Ids(d))] ==
        IF i = 0 THEN [remaining |-> Ids(d), found |-> <<>>] ELSE TakeComponent(d, taken[i - 1])
  IN  taken[Cardinality(Ids(d))].found

trace_to_sources(d, n) == Among(topological_order(d), ancestors(d, n) \cup {n})

\* What validate_graph calls a cycle: the order has not every node.
Cyclic(d) == Len(topological_order(d)) # Cardinality(Ids(d))

-----------------------------------------------------------------------------
\* What the queries should say.  A node is reached from another when it is in
\* every set of nodes that has the other's successors and that no step leaves.
Reached(succ) ==
  LET closed == {S \in SUBSET DOMAIN succ : \A n \in S : succ[n] \subseteq S}
  IN  {p \in (DOMAIN succ) \X (DOMAIN succ) : \A S \in closed : p[2] \in S \/ ~(succ[p[1]] \subseteq S)}

\* The queries of the graph (graph.py) say what the closure of the edges says:
\* the order lists a node once, after all its ancestors, and lists every node
\* that no cycle precedes; the cycle verdict is exact; ancestors, descendants
\* and connected components are the closure's; a trace ends at its node.
QueriesExact(d) ==
  LET order == topological_order(d)
      reach == Reached([n \in Ids(d) |-> Children(d, n)])
      linked == Reached([n \in Ids(d) |-> Neighbours(d, n)])
      cyclic == {n \in Ids(d) : <<n, n>> \in reach}
      parts == Elements(connected_components(d))
  IN  /\ ~Topological(d).raised
      /\ \A n \in Ids(d) :
           /\ ancestors(d, n) = {m \in Ids(d) : <<m, n>> \in reach}
           /\ descendants(d, n) = {m \in Ids(d) : <<n, m>> \in reach}
           /\ n \in Elements(order) <=> (cyclic \cap (ancestors(d, n) \cup {n}) = {})
           /\ n \in Elements(order) => trace_to_sources(d, n)[Len(trace_to_sources(d, n))] = n
      /\ \A i, j \in DOMAIN order :
           (<<order[i], order[j]>> \in reach => i < j) /\ (order[i] = order[j] => i = j)
      /\ Cyclic(d) <=> cyclic # {}
      /\ \A part \in parts : \A n \in part : part = {n} \cup {m \in Ids(d) : <<n, m>> \in linked}
      /\ UNION parts = Ids(d)
=============================================================================
