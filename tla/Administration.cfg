SPECIFICATION Spec
CONSTANTS
  db = db
  k1 = k1
  k2 = k2
  p1 = p1
  p2 = p2
  r1 = r1
  r2 = r2
  Nothing = Nothing
  Unused = Unused
  Gone = Gone
  Names <- OneName
  Keys <- TwoKeys
  Ids <- TwoProfiles
  Requests <- TwoRequests
  Plugins <- NoPlugins
  Offered <- SomeAdapters
  Configs <- SomeConfigs
  MaxValues = 2
  MaxStarts = 3
SYMMETRY Alike
CHECK_DEADLOCK FALSE
INVARIANTS
  SecretsResolve
  ProfilesAreValid
PROPERTIES
  LastLocalIsKept
