SPECIFICATION FairSpec
CONSTANTS
  Unparseable = {"bogus"}
  Atoi <- MCAtoi
  Int32Limit = 128
  Specs <- TwoSpecs
  Order <- DeploymentAndHPA
  MissingKinds = {}
  NoApp = NoApp
  NoChild = NoChild
  MaxUid = 2
  MaxGeneration = 1
  MaxTime = 0
  MaxDisturbances = 0
  Disturbances = {}
  r1 = r1
  Replicas = {r1}
  LeaderElection = TRUE
  FaultReasons = {}
  MaxLag = 1
INVARIANT ReadyMeansApplied
INVARIANT NoLostWork
PROPERTY OrphansCollected
CHECK_DEADLOCK FALSE
