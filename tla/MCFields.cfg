SPECIFICATION FairSpec
CONSTANTS
  Unparseable = {"bogus"}
  Atoi <- MCAtoi
  Int32Limit = 128
  Specs <- ThreeSpecs
  Loads = {1, 2, 3}
  ForeignField <- ForeignAnnotation
  MaxChanges = 3
INVARIANT SettledIsEnforced
PROPERTY OthersKept
PROPERTY DriftCorrected
CHECK_DEADLOCK FALSE
