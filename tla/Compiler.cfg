SPECIFICATION Drawing
CONSTANTS
  Plugins <- MCPlugins
  Palettes <- MCPalettes
  Sampled <- MCSampled
  Samples <- MCSamples
  RowLimits <- MCRowLimits
  EventLogs <- MCEventLogs
  TaskLimits <- MCTaskLimits
CHECK_DEADLOCK FALSE
INVARIANTS
  GraphQueriesExact
  PythonNamesResolve
  StreamsOnlyWhereAllowed
  BackendsAgree
  ImportReadsGenerated
  PreviewsAreBounded
  PythonOnlyForCause
  TracedRowsAreReal
  BoundedSummaryAgrees
