SPECIFICATION FairSpec
CONSTANTS
  r1 = r1
  r2 = r2
  server = server
  cli = cli
  Server = Server
  Watcher = Watcher
  NoWorker = NoWorker
  NoRun = NoRun
  Runs <- TwoRuns
  Workers <- ServerLoop
  Resident <- ServerLoop
  Mortal <- ServerLoop
  Poison <- Nobody
  Direct <- Nobody
  Managed <- LastRun
  Kubernetes <- FirstRun
  Faults <- ServerFaults
  MaxBoots = 2
INVARIANTS
  NoStuckRun
  RecordsCurrent
PROPERTIES
  KeepsContract
  EveryRunEnds
CHECK_DEADLOCK FALSE
