SPECIFICATION Spec
CONSTANTS
  KubeNames = {"a", "pool-a"}
  EdgeNames = {"a"}
  NoName = "none"
  SyncerName <- MCSyncerName
  NodePool = "pool"
  OtherPools = {"other"}
  Props = {}
  Readable = {}
  Writable = {}
  Values = {"v"}
  DefaultValue = "v"
  NoCR = NoCR
  Unfiltered = {}
  NoDevice = NoDevice
  FaultKinds = {"unreachable", "lost", "server", "item", "api", "crash", "relist"}
  MaxFaults = 1
  PromptReuse = {}
  DeleteNotFoundRecognised = {TRUE, FALSE}
  UserSpecs <- MCUserSpecs
  MaxUserOps = 3
  EdgeStates <- MCEdgeStates
  MaxEdgeOps = 1
  MaxRounds = 1
INVARIANTS
  IInv
  OwnedDeviceIsGuarded
  SyncedIsGuarded
PROPERTIES
  SyncedIsStable
  ImplementsOwnership
