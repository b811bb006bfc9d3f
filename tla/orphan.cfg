SPECIFICATION ObjectSpecification
CONSTANTS
  KubeNames = {"pool-s", "p", "pool-p"}
  EdgeNames = {"s", "p"}
  NoName = "none"
  SyncerName <- MCSyncerName
  NodePool = "pool"
  OtherPools = {"other"}
  NoCR = NoCR
  NoObject = NoObject
  Unfiltered = {"pool-s"}
  FaultKinds = {"unreachable"}
  MaxFaults = 1
  PromptReuse = {"pool-p"}
  Kinds = {"DeviceService"}
  UserSpecs <- MCUserSpecs
  MaxUserOps = 2
  EdgeStates <- MCEdgeStates
INVARIANTS
  DeletionReachesEdge
