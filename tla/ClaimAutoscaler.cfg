SPECIFICATION FairSpec
CONSTANTS
  Unparseable = {"bogus"}
  Atoi <- MCAtoi
  Int32Limit = 128
  Specs <- ThreeSpecs
  Loads = {1, 2, 3}
  ForeignField <- ForeignAnnotation
  MaxChanges = 2
PROPERTY AutoscalerDecides
CHECK_DEADLOCK FALSE
