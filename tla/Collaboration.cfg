SPECIFICATION Spec
CONSTANTS
  s1 = s1
  s2 = s2
  v1 = v1
  u1 = u1
  Sockets <- TwoSockets
  Savers <- OneSaver
  Updates <- OneUpdate
  Merging = TRUE
  Bundle = 4
  Period = 1
  CompactFrom = 2
  MaxSeq = 4
  MaxGit = 1
INVARIANTS
  DeliveredIsDurable
  JoinIsGapless
  LiveDelivery
SYMMETRY Alike
CHECK_DEADLOCK FALSE
