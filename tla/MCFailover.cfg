SPECIFICATION Spec
CONSTANTS
  Unparseable = {"bogus"}
  Atoi <- MCAtoi
  Int32Limit = 128
  Specs <- TwoSpecs
  Order <- DeploymentAndHPA
  MissingKinds = {}
  NoApp = NoApp
  NoChild = NoChild
  MaxUid = 1
  MaxGeneration = 2
  MaxTime = 0
  MaxDisturbances = 1
  Disturbances = {"crash"}
  r1 = r1
  r2 = r2
  Replicas = {r1, r2}
  LeaderElection = TRUE
  FaultReasons = {"Timeout"}
  MaxLag = 1
SYMMETRY ReplicaSymmetry
INVARIANT FinalizerProtects
INVARIANT LeaderInv
INVARIANT NoLostWork
PROPERTY ImplementsOperator
CHECK_DEADLOCK FALSE
