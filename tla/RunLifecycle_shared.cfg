SPECIFICATION Spec
CONSTANTS
  r1 = r1
  r2 = r2
  server = server
  cli = cli
  Server = Server
  Watcher = Watcher
  NoWorker = NoWorker
  NoRun = NoRun
  Runs <- OneRun
  Workers <- BothLoops
  Resident <- ServerLoop
  Mortal <- BothLoops
  Poison <- Nobody
  Direct <- Nobody
  Managed <- Nobody
  Kubernetes <- Nobody
  Faults <- AllFaults
  MaxBoots = 1
INVARIANTS
  SingleExecution
PROPERTY
  KeepsQueue
CHECK_DEADLOCK FALSE
