--------------------------- MODULE MCRunLifecycle ---------------------------
(* Instances of RunLifecycle for TLC.                                      *)
EXTENDS RunLifecycle

CONSTANTS r1, r2, server, cli

OneRun == {r1}
TwoRuns == {r1, r2}
FirstRun == {r1}
LastRun == {r2}
Nobody == {}
ServerLoop == {server}
CliLoop == {cli}
BothLoops == {server, cli}
ServerFaults == {"restart", "raise", "lapse"}
AllFaults == FaultKinds
FailingChecks == {"unavailable"}
=============================================================================
