SPECIFICATION Spec
CONSTANTS
  main = main
  dev = dev
  v1 = v1
  Nothing = Nothing
  Markers = Markers
  Main = main
  Branches <- MainAndDev
  Tags <- OneTag
  MaxVersions = 3
  MaxCommits = 2
  MaxStashes = 1
INVARIANTS
  MarkersStayOut
  CommitsSurvive
PROPERTIES
  EditsSurviveGit
