SPECIFICATION Spec
CONSTANTS
  anna = anna
  ben = ben
  server = server
  cli = cli
  main = main
  dev = dev
  g1 = g1
  g2 = g2
  Hand = Hand
  Nothing = Nothing
  Sessions <- TwoUsers
  Processes <- OneServer
  Host <- AllOnServer
  Branches <- MainAndDev
  Graphs <- TwoGraphs
  MaxRev = 2
  MaxEvents = 2
  HistoryMax = 1
SYMMETRY Alike
CHECK_DEADLOCK FALSE
INVARIANTS
  TypeOK
  OwnedCodeMatches
PROPERTIES
  SavesSeeTheirBase
  SettledIsKept
  HandEditsKept
  EditorsSeeEachOther
