SPECIFICATION Spec
CONSTANTS
  KubeNames = {"a", "pool-a"}
  EdgeNames = {"a"}
  NoName = "none"
  SyncerName <- MCSyncerName
  NodePool = "pool"
  OtherPools = {"other"}
  Props = {"p", "q"}
  Readable = {"p"}
  Writable = {"p", "q"}
  Values = {"v", "w"}
  DefaultValue = "w"
  NoCR = NoCR
  Unfiltered = {}
  NoDevice = NoDevice
  FaultKinds = {"unreachable", "lost", "server", "item", "api"}
  MaxFaults = 1
  PromptReuse = {}
  DeleteNotFoundRecognised = {TRUE, FALSE}
  UserSpecs <- MCUserSpecsQ
  MaxUserOps = 2
  EdgeStates = {}
  MaxEdgeOps = 0
  MaxRounds = 1
INVARIANTS
  TypeOK
  LifeInv
  ReadyIsHonest
PROPERTIES
  UpdatesServeTheCR
