SPECIFICATION FairSpec
CONSTANTS
  KubeNames = {"pool-a"}
  EdgeNames = {"a"}
  NoName = "none"
  SyncerName <- MCSyncerName
  NodePool = "pool"
  OtherPools = {"other"}
  Props = {}
  Readable = {}
  Writable = {}
  Values = {"v"}
  DefaultValue = "v"
  NoCR = NoCR
  Unfiltered = {}
  NoDevice = NoDevice
  FaultKinds = {"unreachable", "lost", "server", "item", "api", "crash", "relist"}
  MaxFaults = 1
  PromptReuse = {"pool-a"}
  DeleteNotFoundRecognised = {TRUE, FALSE}
  UserSpecs <- MCSyncerSpecs
  MaxUserOps = 1
  EdgeStates <- MCEdgeStates
  MaxEdgeOps = 1
  MaxRounds = 0
PROPERTIES
  DeletionReachesDevice
  CreationCompletes
  DevicesAreImported
  MadeForGuarded
