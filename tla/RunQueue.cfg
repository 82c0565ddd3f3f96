SPECIFICATION FairSpec
CONSTANTS
  r1 = r1
  r2 = r2
  server = server
  cli1 = cli1
  cli2 = cli2
  NoWorker = NoWorker
  NoRun = NoRun
  Runs <- TwoRuns
  Workers <- ServerAndTwoCli
  Resident <- ServerOnly
  Mortal <- CliWorkers
  Poison <- NoRuns
INVARIANTS
  KeptLeaseOwns
  ExclusiveExecution
  ClaimsHeld
PROPERTY
  QueueDrains
