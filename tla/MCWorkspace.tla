---------------------------- MODULE MCWorkspace -----------------------------
(* Instances of Workspace for TLC: two users of one server, and a user of  *)
(* the server beside one of the `sdpstudio` commands.                      *)
EXTENDS Workspace, TLC

CONSTANTS anna, ben, server, cli, main, dev, g1, g2

TwoUsers == {anna, ben}
OneServer == {server}
ServerAndCli == {server, cli}
AllOnServer == [s \in Sessions |-> server]
BenAtTheShell == [s \in Sessions |-> IF s = ben THEN cli ELSE server]
MainAndDev == {main, dev}
TwoGraphs == {g1, g2}
Alike == Permutations(Sessions) \cup Permutations(Branches) \cup Permutations(Graphs)
=============================================================================
