SPECIFICATION FairSpec
CONSTANTS
  KubeNames = {"a", "pool-a"}
  EdgeNames = {"a"}
  NoName = "none"
  SyncerName <- MCSyncerName
  NodePool = "pool"
  OtherPools = {"other"}
  Props = {"p"}
  Readable = {"p"}
  Writable = {"p"}
  Values = {"v", "w"}
  DefaultValue = "w"
  NoCR = NoCR
  Unfiltered = {}
  NoDevice = NoDevice
  FaultKinds = {"item"}
  MaxFaults = 1
  PromptReuse = {}
  DeleteNotFoundRecognised = {TRUE, FALSE}
  UserSpecs <- MCManagedSpecs
  MaxUserOps = 1
  EdgeStates <- MCEdgeStates
  MaxEdgeOps = 1
  MaxRounds = 1
PROPERTIES
  DesiredValueReached
