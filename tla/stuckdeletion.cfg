SPECIFICATION FairSpec
CONSTANTS
  KubeNames = {"a", "pool-a"}
  EdgeNames = {"a"}
  NoName = "none"
  SyncerName <- MCSyncerName
  NodePool = "pool"
  OtherPools = {"other"}
  Props = {}
  Readable = {}
  Writable = {}
  Values = {"v"}
  DefaultValue = "v"
  NoCR = NoCR
  Unfiltered = {}
  NoDevice = NoDevice
  FaultKinds = {"lost"}
  MaxFaults = 1
  PromptReuse = {}
  DeleteNotFoundRecognised = {FALSE}
  UserSpecs <- MCUserSpecs
  MaxUserOps = 2
  EdgeStates <- MCEdgeStates
  MaxEdgeOps = 0
  MaxRounds = 1
PROPERTIES
  DeletionCompletes
