SPECIFICATION FairSpec
CONSTANTS
  Unparseable = {"bogus"}
  Atoi <- MCAtoi
  Int32Limit = 128
  Specs <- OneSpec
  Order <- DeploymentAndRoute
  MissingKinds = {"HTTPRoute"}
  NoApp = NoApp
  NoChild = NoChild
  MaxUid = 1
  MaxGeneration = 1
  MaxTime = 0
  MaxDisturbances = 0
  Disturbances = {}
  Replicas = {r1}
  LeaderElection = TRUE
  FaultReasons = {}
  MaxLag = 2
PROPERTIES UnusedCRDHarmless
CHECK_DEADLOCK FALSE
