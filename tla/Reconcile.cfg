SPECIFICATION Spec
CONSTANTS
  Nodes <- MCNodes
  Keys <- MCKeys
  Name <- MCName
  Statements <- MCStatements
  Form <- MCForm
  Function <- MCFunction
  Definitions <- MCDefinitions
  Role <- MCRole
  ClauseKey <- MCClauseKey
  Normal <- MCNormal
  Default <- MCDefault
  Unset <- MCUnset
  Nobody = Nobody
  MaxValue = 2
  MaxRev = 2
  MaxEdits = 1
CHECK_DEADLOCK FALSE
INVARIANTS
  ReadableEditsAreTaken
PROPERTIES
  ReconcilesWhatItReplaces
