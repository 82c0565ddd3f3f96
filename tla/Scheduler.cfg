SPECIFICATION Spec
CONSTANTS
  server = server
  cli = cli
  s1 = s1
  NoSchedule = NoSchedule
  Workers <- TwoWorkers
  Schedules <- OneSchedule
  MaxMinute = 3
  MaxBoots = 3
  Fires <- FirstTwo
SYMMETRY Alike
CHECK_DEADLOCK FALSE
INVARIANTS
  StartedOnceInOrder
  NoOverlap
  DueIsClaimed
  RecoveredAtStart
