SPECIFICATION Spec
CONSTANTS
  Unparseable = {"bogus"}
  Atoi <- MCAtoi
  Int32Limit = 128
  Specs <- TwoSpecs
  Order <- ServiceOnly
  MissingKinds = {}
  NoApp = NoApp
  NoChild = NoChild
  MaxUid = 1
  MaxGeneration = 2
  MaxTime = 0
  MaxDisturbances = 0
  Disturbances = {}
  r1 = r1
  r2 = r2
  Replicas = {r1, r2}
  LeaderElection = FALSE
  FaultReasons = {}
  MaxLag = 1
SYMMETRY ReplicaSymmetry
INVARIANT WorkInv
PROPERTY ObservedGenerationMonotone
CHECK_DEADLOCK FALSE
