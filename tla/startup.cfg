SPECIFICATION FairStartupSpec
CHECK_DEADLOCK FALSE
CONSTANTS
  Replicas = {"byLabel", "byFlag", "alone", "invalid"}
  Nodes = {"n1", "n2"}
  NodeOf <- MCNodeOf
  Pools = {"hangzhou"}
  NoPool = NoPool
  Namespaces = {"default"}
  CRDs = {"devices"}
  Args <- MCReplicaArgs
  NoReplica = NoReplica
  Former = Former
  MaxChanges = 3
INVARIANTS
  StartupTypeOK
  LeaseIsHonest
PROPERTIES
  ImplementsElection
  Serves
  SomeoneServes
