SPECIFICATION Spec
CONSTANTS
  KubeNames = {"a", "pool-a"}
  EdgeNames = {"a"}
  NoName = "none"
  SyncerName <- MCSyncerName
  NodePool = "pool"
  OtherPools = {"other"}
  Props = {"p"}
  Readable = {"p"}
  Writable = {"p"}
  Values = {"v", "w"}
  DefaultValue = "w"
  NoCR = NoCR
  Unfiltered = {}
  NoDevice = NoDevice
  FaultKinds = {"unreachable", "lost", "server", "item", "api"}
  MaxFaults = 0
  PromptReuse = {}
  DeleteNotFoundRecognised = {TRUE, FALSE}
  UserSpecs <- MCUserSpecs
  MaxUserOps = 1
  EdgeStates <- MCEdgeStates
  MaxEdgeOps = 0
  MaxRounds = 1
PROPERTIES
  PatchFollowsSpec
