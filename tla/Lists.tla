-------------------------------- MODULE Lists --------------------------------
(***************************************************************************)
(* Sequences as the loops of the code build and filter them.               *)
(***************************************************************************)
EXTENDS Integers, Sequences, FiniteSets

\* The elements of a sequence, and the numbers of a set in ascending order.
Elements(s) == {s[i] : i \in DOMAIN s}
Ascending(S) ==
  [i \in 1..Cardinality(S) |-> CHOOSE n \in S : Cardinality({m \in S : m < n}) = i - 1]

\* The members of a sequence that are in a set, in their order.
Among(s, S) ==
  LET at == Ascending({i \in DOMAIN s : s[i] \in S})
  IN  [k \in DOMAIN at |-> s[at[k]]]
=============================================================================
