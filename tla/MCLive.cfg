SPECIFICATION FairSpec
CONSTANTS
  Unparseable = {"bogus"}
  Atoi <- MCAtoi
  Int32Limit = 128
  Specs <- TwoSpecs
  Order <- DeploymentAndService
  MissingKinds = {}
  NoApp = NoApp
  NoChild = NoChild
  MaxUid = 1
  MaxGeneration = 1
  MaxTime = 0
  MaxDisturbances = 1
  Disturbances = {"crash", "pod", "drift", "foreign", "resync"}
  r1 = r1
  Replicas = {r1}
  LeaderElection = TRUE
  FaultReasons = {"Conflict", "Timeout"}
  MaxLag = 0
PROPERTY DeletionCompletes
PROPERTY EventsSuffice
PROPERTY EventuallyConverged
CHECK_DEADLOCK FALSE
