SPECIFICATION Spec
CONSTANTS
  Unparseable = {"bogus"}
  Atoi <- MCAtoi
  Int32Limit = 128
  Configurations = {"", "greeting"}
  References <- MCReferences
  Submitted <- MCSubmitted
  Edits <- MCEdits
  NoObject = NoObject
  MaxWrites = 4
PROPERTY OperatorKeepsHubFields
CHECK_DEADLOCK FALSE
