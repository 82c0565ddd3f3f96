--------------------------- MODULE MCCollaboration --------------------------
(* Instances of Collaboration for TLC: sockets, one saver and a Git user.  *)
EXTENDS Collaboration, TLC

CONSTANTS s1, s2, v1, u1

TwoSockets == {s1, s2}
OneSocket == {s1}
OneSaver == {v1}
OneUpdate == {u1}

\* Every property is an invariant that treats sockets and updates alike.
Alike == Permutations(Sockets) \cup Permutations(Updates)
=============================================================================
