SPECIFICATION ReplicasSpec
CONSTANTS
  EnableLeaderElection = {TRUE, FALSE}
  KubeNames = {"pool-a"}
  EdgeNames = {"a"}
  NoName = "none"
  SyncerName <- MCSyncerName
  NodePool = "pool"
  OtherPools = {"other"}
  Props = {}
  Readable = {}
  Writable = {}
  Values = {"v"}
  DefaultValue = "v"
  NoCR = NoCR
  Unfiltered = {}
  NoDevice = NoDevice
  FaultKinds = {"crash", "relist"}
  MaxFaults = 1
  PromptReuse = {}
  DeleteNotFoundRecognised = {TRUE, FALSE}
  UserSpecs <- MCUserSpecs
  MaxUserOps = 1
  EdgeStates <- MCEdgeStates
  MaxEdgeOps = 2
  MaxRounds = 1
INVARIANTS
  ReplicasTypeOK
  ReplicasInv
  ReadyIsHonest
PROPERTIES
  OtherPoolsUntouched
  ImplementsLifecycle
CONSTRAINT FewWithManaged
