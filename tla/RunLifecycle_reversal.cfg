SPECIFICATION Spec
CONSTANTS
  r1 = r1
  r2 = r2
  server = server
  cli = cli
  Server = Server
  Watcher = Watcher
  NoWorker = NoWorker
  NoRun = NoRun
  Runs <- OneRun
  Workers <- ServerLoop
  Resident <- ServerLoop
  Mortal <- ServerLoop
  Poison <- Nobody
  Direct <- Nobody
  Managed <- Nobody
  Kubernetes <- Nobody
  Faults <- FailingChecks
  MaxBoots = 0
PROPERTY
  TerminalIsFinal
CHECK_DEADLOCK FALSE
