SPECIFICATION FairSpec
CONSTANTS
  Unparseable = {"bogus"}
  Atoi <- MCAtoi
  Int32Limit = 128
  Configurations = {"", "greeting"}
  References <- MCReferences
  Submitted <- MCSubmitted
  Edits <- MCEdits
  NoObject = NoObject
  MaxWrites = 5
INVARIANT StoredIsAdmissible
INVARIANT DefaultsAgree
INVARIANT WrittenBackUnchanged
PROPERTY OperatorKeepsShared
PROPERTY DeletionIsAdmitted
CHECK_DEADLOCK FALSE
