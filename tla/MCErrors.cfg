SPECIFICATION Spec
CONSTANTS
  Unparseable = {"bogus"}
  Atoi <- MCAtoi
  Int32Limit = 128
  Specs <- BogusAndGateway
  Order <- DeploymentAndRoute
  MissingKinds = {"HTTPRoute"}
  NoApp = NoApp
  NoChild = NoChild
  MaxUid = 1
  MaxGeneration = 2
  MaxTime = 1
  MaxDisturbances = 4
  Disturbances = {}
  r1 = r1
  Replicas = {r1}
  LeaderElection = TRUE
  FaultReasons = {"Conflict"}
  MaxLag = 0
INVARIANT TypeOK
INVARIANT NoLostWork
PROPERTY TransitionTimesStable
CHECK_DEADLOCK FALSE
