----------------------------- MODULE MCRunQueue -----------------------------
(* Instances of RunQueue for TLC: the server's loop and CLI workers.       *)
EXTENDS RunQueue

CONSTANTS r1, r2, server, cli1, cli2

TwoRuns == {r1, r2}
FirstRun == {r1}
NoRuns == {}
ServerOnly == {server}
ServerAndTwoCli == {server, cli1, cli2}
CliWorkers == {cli1, cli2}
NoWorkers == {}
=============================================================================
