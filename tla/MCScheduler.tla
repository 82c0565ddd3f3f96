---------------------------- MODULE MCScheduler -----------------------------
(* Instances of Scheduler for TLC: the server and a `sdpstudio worker`.    *)
EXTENDS Scheduler, TLC

CONSTANTS server, cli, s1

TwoWorkers == {server, cli}
Alike == Permutations(Workers)
OneSchedule == {s1}
FirstTwo == [s \in Schedules |-> {1, 2}]
=============================================================================
