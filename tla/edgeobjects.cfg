SPECIFICATION FairObjectSpecification
CONSTANTS
  KubeNames = {"pool-s", "p", "pool-p"}
  EdgeNames = {"s", "p"}
  NoName = "none"
  SyncerName <- MCSyncerName
  NodePool = "pool"
  OtherPools = {"other"}
  NoCR = NoCR
  NoObject = NoObject
  Unfiltered = {"pool-s"}
  FaultKinds = {"unreachable", "lost", "server", "item", "api", "crash", "relist"}
  MaxFaults = 1
  PromptReuse = {"pool-p"}
  Kinds = {"DeviceService", "DeviceProfile"}
  UserSpecs <- MCUserSpecs
  MaxUserOps = 1
  EdgeStates <- MCEdgeStates
INVARIANTS
  ObjectTypeOK
  ReadyServiceIsSynced
  DefinitionsKept
  GuardInv
PROPERTIES
  SyncedStays
  ActsForTheCR
  OtherPoolsLeftAlone
  ImplementsLifecycle
  GetsInStep
  AdminStateFollows
