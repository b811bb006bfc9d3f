--------------------------- MODULE ReplicasProofs ---------------------------
(***************************************************************************)
(* Two processes of one pool.  What DeviceStatusProofs shows of a process  *)
(* and its own steps holds of the second by substitution; what is left is  *)
(* that a process survives the steps of the other, of which it sees only   *)
(* what its watch tells, and that every step of either is one in the life  *)
(* of a CR.                                                                *)
(***************************************************************************)
EXTENDS Replicas, DeviceStatusProofs

P2 == INSTANCE DeviceStatusProofs WITH
  cache <- cache2, current <- current2, pending <- pending2,
  queue <- queue2, rec <- rec2, syn <- syn2

(***************************************************************************)
(* P2 and Second substitute the same variables in the same definitions:    *)
(* each of these facts only expands both sides.                            *)
(***************************************************************************)
LEMMA SecondNext == P2!Next <=> Second!Next
  BY DEF
      P2!AddEdgeDevice, P2!AddFinalizer, P2!AddToEdge, P2!Addressed, P2!AfterDelete,
      P2!AfterPatch, P2!ApiUnchanged, P2!CanCreate, P2!ChangeEdgeDevice, P2!Continue,
      P2!Create, P2!CreateDevice, P2!CreateFailed, P2!Decoded, P2!DecodedSpec,
      P2!DecodedStatus, P2!DeferredStatus, P2!Delete, P2!DeleteDevice,
      P2!DeleteRedundant, P2!Deliver, P2!EdgeStep, P2!Environment, P2!Exists,
      P2!Fails, P2!Filled, P2!Finish, P2!FinishWith, P2!FirstRequest, P2!Forget,
      P2!Found, P2!GetDevice, P2!GetEdgeDeviceName, P2!GetPropertyState,
      P2!GotProperty, P2!Handles, P2!IdleRound, P2!IdleWorker, P2!InformerResyncs,
      P2!LeftWorker, P2!ListEdgeDevices, P2!ListKubeDevices, P2!ListPropertiesState,
      P2!NewDevice, P2!NewStatus, P2!Next, P2!NextProperty, P2!NotSet, P2!OnEdge,
      P2!OwnCRs, P2!Panic, P2!PassesFilter, P2!PatchEdge, P2!Patched,
      P2!PatchedStatus, P2!Put, P2!PutLast, P2!Reachable, P2!ReadFailed,
      P2!ReadFromCache, P2!ReadListedProperty, P2!ReadProperty, P2!Reconcile,
      P2!ReconcilerRuns, P2!ReconcilerStep, P2!Relist, P2!RemoveEdgeDevice,
      P2!RemoveFinalizer, P2!Representatives, P2!Restart, P2!Resync, P2!Return,
      P2!StatusReply, P2!Store, P2!Succeeds, P2!Summary, P2!SyncEdgeToKube, P2!Synced,
      P2!SyncerRuns, P2!SyncerStep, P2!TakeKey, P2!URLKnown, P2!Unconditioned,
      P2!UpdateDevice, P2!UpdateDeviceStatus, P2!UpdateFailed, P2!UpdatePropertyState,
      P2!UpdateReply, P2!Updated, P2!UserCreate, P2!UserDelete, P2!UserStep,
      P2!UserUpdate, P2!Wanted, P2!WatchBreaks, P2!WatchDelivers, P2!WithStatus,
      P2!WriteStatus, P2!WriteSynced, P2!completeCreateContent,
      P2!completeUpdateContent, P2!desiredProperties, P2!getPropertyPut, P2!others,
      P2!running, P2!target, P2!toEdgeXAdminState, P2!toEdgeXDevice,
      P2!toEdgeXOperatingState, P2!toListed, P2!wantedAdmin, P2!wantedOperating,
      Second!AddEdgeDevice, Second!AddFinalizer, Second!AddToEdge, Second!Addressed,
      Second!AfterDelete, Second!AfterPatch, Second!ApiUnchanged, Second!CanCreate,
      Second!ChangeEdgeDevice, Second!Continue, Second!Create, Second!CreateDevice,
      Second!CreateFailed, Second!Decoded, Second!DecodedSpec, Second!DecodedStatus,
      Second!DeferredStatus, Second!Delete, Second!DeleteDevice,
      Second!DeleteRedundant, Second!Deliver, Second!EdgeStep, Second!Environment,
      Second!Exists, Second!Fails, Second!Filled, Second!Finish, Second!FinishWith,
      Second!FirstRequest, Second!Forget, Second!Found, Second!GetDevice,
      Second!GetEdgeDeviceName, Second!GetPropertyState, Second!GotProperty,
      Second!Handles, Second!IdleRound, Second!IdleWorker, Second!InformerResyncs,
      Second!LeftWorker, Second!ListEdgeDevices, Second!ListKubeDevices,
      Second!ListPropertiesState, Second!NewDevice, Second!NewStatus, Second!Next,
      Second!NextProperty, Second!NotSet, Second!OnEdge, Second!OwnCRs, Second!Panic,
      Second!PassesFilter, Second!PatchEdge, Second!Patched, Second!PatchedStatus,
      Second!Put, Second!PutLast, Second!Reachable, Second!ReadFailed,
      Second!ReadFromCache, Second!ReadListedProperty, Second!ReadProperty,
      Second!Reconcile, Second!ReconcilerRuns, Second!ReconcilerStep, Second!Relist,
      Second!RemoveEdgeDevice, Second!RemoveFinalizer, Second!Representatives,
      Second!Restart, Second!Resync, Second!Return, Second!StatusReply, Second!Store,
      Second!Succeeds, Second!Summary, Second!SyncEdgeToKube, Second!Synced,
      Second!SyncerRuns, Second!SyncerStep, Second!TakeKey, Second!URLKnown,
      Second!Unconditioned, Second!UpdateDevice, Second!UpdateDeviceStatus,
      Second!UpdateFailed, Second!UpdatePropertyState, Second!UpdateReply,
      Second!Updated, Second!UserCreate, Second!UserDelete, Second!UserStep,
      Second!UserUpdate, Second!Wanted, Second!WatchBreaks, Second!WatchDelivers,
      Second!WithStatus, Second!WriteStatus, Second!WriteSynced,
      Second!completeCreateContent, Second!completeUpdateContent,
      Second!desiredProperties, Second!getPropertyPut, Second!others, Second!running,
      Second!target, Second!toEdgeXAdminState, Second!toEdgeXDevice,
      Second!toEdgeXOperatingState, Second!toListed, Second!wantedAdmin,
      Second!wantedOperating

LEMMA SecondInit == P2!Init <=> Second!Init
  BY DEF
      P2!ClusterInit, P2!IdleRound, P2!IdleWorker, P2!Init, P2!NewStatus,
      Second!ClusterInit, Second!IdleRound, Second!IdleWorker, Second!Init,
      Second!NewStatus

LEMMA SecondLifeInv == P2!LifeInv <=> Second!LifeInv
  BY DEF
      P2!AdminStates, P2!AllHonest, P2!CacheHonest, P2!CacheIsGuarded,
      P2!ClusterTypeOK, P2!Copy, P2!Credible, P2!CurrentCacheIsExact,
      P2!DeletingIsGuarded, P2!Device, P2!DeviceSpec, P2!DeviceStatus, P2!EdgeDevice,
      P2!Entries, P2!Exists, P2!GuardInv, P2!Holders, P2!Honest, P2!KubeHonest,
      P2!LifeInv, P2!Listed, P2!Looping, P2!ManagingConditions, P2!OperatingStates,
      P2!RecPCs, P2!Round, P2!RoundHasItsCopies, P2!RoundHonest, P2!StatusInv,
      P2!Steady, P2!SyncedConditions, P2!SyncedIsGuarded, P2!SyncerCopyIsGuarded,
      P2!TypeInv, P2!TypeOK, P2!Visiting, P2!Worker, P2!WorkerHasItsCR,
      P2!WorkerHonest, P2!WorkerIsGuarded, P2!Working, P2!desiredProperties,
      Second!AdminStates, Second!AllHonest, Second!CacheHonest, Second!CacheIsGuarded,
      Second!ClusterTypeOK, Second!Copy, Second!Credible, Second!CurrentCacheIsExact,
      Second!DeletingIsGuarded, Second!Device, Second!DeviceSpec, Second!DeviceStatus,
      Second!EdgeDevice, Second!Entries, Second!Exists, Second!GuardInv,
      Second!Holders, Second!Honest, Second!KubeHonest, Second!LifeInv, Second!Listed,
      Second!Looping, Second!ManagingConditions, Second!OperatingStates,
      Second!RecPCs, Second!Round, Second!RoundHasItsCopies, Second!RoundHonest,
      Second!StatusInv, Second!Steady, Second!SyncedConditions,
      Second!SyncedIsGuarded, Second!SyncerCopyIsGuarded, Second!TypeInv,
      Second!TypeOK, Second!Visiting, Second!Worker, Second!WorkerHasItsCR,
      Second!WorkerHonest, Second!WorkerIsGuarded, Second!Working,
      Second!desiredProperties

(* What is only about the API server and EdgeX is the same for both.       *)
LEMMA SharedMoves ==
  /\ P2!KubeMoves <=> KubeMoves
  /\ P2!WritesTruthful <=> WritesTruthful
  BY DEF
      P2!Credible, P2!Exists, P2!Honest, P2!KubeMoves, P2!Moved, P2!Steady, Steady, P2!Truthful,
      P2!WritesTruthful, Credible, Exists, Honest, KubeMoves, Moved, Truthful,
      WritesTruthful

LEMMA SharedTypes == P2!SharedTypeOK' <=> SharedTypeOK'
  BY DEF
      P2!AdminStates, P2!Device, P2!DeviceSpec, P2!DeviceStatus, P2!EdgeDevice,
      P2!Entries, P2!ManagingConditions, P2!OperatingStates, P2!SharedTypeOK,
      P2!SyncedConditions, AdminStates, Device, DeviceSpec, DeviceStatus, EdgeDevice,
      Entries, ManagingConditions, OperatingStates, SharedTypeOK, SyncedConditions

(***************************************************************************)
(* The lemmas of DeviceStatusProofs, for the second process.               *)
(***************************************************************************)
LEMMA SameConstants ==
  /\ P2!AllFaults = AllFaults
  /\ P2!DeviceSpec = DeviceSpec /\ P2!Device = Device /\ P2!EdgeDevice = EdgeDevice
  /\ P2!Listed = Listed /\ P2!Copy = Copy
  BY DEF
      P2!AdminStates, P2!AllFaults, P2!Copy, P2!Device, P2!DeviceSpec,
      P2!DeviceStatus, P2!EdgeDevice, P2!Entries, P2!Listed, P2!ManagingConditions,
      P2!OperatingStates, P2!SyncedConditions, AdminStates, AllFaults, Copy, Device,
      DeviceSpec, DeviceStatus, EdgeDevice, Entries, Listed, ManagingConditions,
      OperatingStates, SyncedConditions

LEMMA SecondLives ==
  /\ P2!Init => P2!LifeInv
  /\ P2!LifeInv /\ [P2!Next]_(P2!vars) =>
       P2!WritesTruthful /\ P2!KubeMoves /\ P2!LifeInv'
  /\ P2!LifeInv /\ P2!Seen /\ P2!SharedTypeOK' /\ P2!WritesTruthful
       /\ P2!KubeMoves /\ P2!NewIsFree => P2!LifeInv'
  /\ /\ P2!LifeInv /\ queue2' \subseteq KubeNames
     /\ UNCHANGED <<kube, cache2, current2, pending2, edge, faults, rec2, syn2, P2!others>>
     => P2!LifeInv'
  /\ P2!LifeInv' => P2!SharedTypeOK'
<1> USE SameConstants, BoundsAssumption, NamesAssumption, DataAssumption, AbsenceAssumption,
        RecognitionAssumption, CopyAssumption, EnvironmentAssumption
<1>1. P2!Init => P2!LifeInv
  BY P2!InitLife
<1>2. P2!LifeInv /\ [P2!Next]_(P2!vars) =>
        P2!WritesTruthful /\ P2!KubeMoves /\ P2!LifeInv'
  BY P2!StepLives
<1>3. P2!LifeInv /\ P2!Seen /\ P2!SharedTypeOK' /\ P2!WritesTruthful
        /\ P2!KubeMoves /\ P2!NewIsFree => P2!LifeInv'
  BY P2!SeenLives
<1>4. /\ P2!LifeInv /\ queue2' \subseteq KubeNames
      /\ UNCHANGED <<kube, cache2, current2, pending2, edge, faults, rec2, syn2, P2!others>>
      => P2!LifeInv'
  BY P2!QueueLives
<1>5. P2!LifeInv' => P2!SharedTypeOK'
  BY P2!TypesShared
<1> QED
  BY <1>1, <1>2, <1>3, <1>4, <1>5

(***************************************************************************)
(* One process acts, the other looks on.                                   *)
(***************************************************************************)
Both == LifeInv /\ P2!LifeInv

Lived == KubeMoves /\ WritesTruthful /\ LifeInv' /\ P2!LifeInv'

(* What a process that looks on sees, said of the second and of the first. *)
LEMMA SecondWatches ==
  ASSUME P2!LifeInv, SecondSees, FreeInSecond
  PROVE  P2!Seen /\ P2!NewIsFree /\ P2!NewIsNoTarget
<1>1. P2!NewIsFree /\ P2!NewIsNoTarget
  BY DEF FreeInSecond, NewNames, Changed, P2!NewIsFree, P2!NewIsNoTarget,
         P2!Steady, P2!Exists, Exists
<1>2. pending2 \subseteq KubeNames
  BY DEF P2!LifeInv, P2!StatusInv, P2!TypeInv, P2!TypeOK, P2!ClusterTypeOK
<1>3. \A n \in KubeNames : (IF n \in Changed THEN {} ELSE current2[n]) =
                            (IF kube'[n] # kube[n] THEN {} ELSE current2[n])
  BY DEF Changed
<1> QED
  BY <1>1, <1>2, <1>3 DEF SecondSees, own2, NewEvents, Changed, P2!Seen

LEMMA FirstWatches ==
  ASSUME LifeInv, FirstSees, FreeInFirst
  PROVE  Seen /\ NewIsFree /\ NewIsNoTarget
<1>1. NewIsFree /\ NewIsNoTarget
  BY DEF FreeInFirst, NewNames, Changed, NewIsFree, NewIsNoTarget, Steady, Exists
<1>2. pending \subseteq KubeNames
  BY TypesShared
<1>3. \A n \in KubeNames : (IF n \in Changed THEN {} ELSE current[n]) =
                            (IF kube'[n] # kube[n] THEN {} ELSE current[n])
  BY DEF Changed
<1> QED
  BY <1>1, <1>2, <1>3 DEF FirstSees, own1, NewEvents, Changed, Seen

LEMMA SecondLooksOn ==
  ASSUME P2!LifeInv, KubeMoves, WritesTruthful, SharedTypeOK', SecondSees, FreeInSecond
  PROVE  P2!LifeInv'
<1>1. P2!KubeMoves /\ P2!WritesTruthful /\ P2!SharedTypeOK'
  BY SharedMoves, SharedTypes
<1> QED
  BY <1>1, SecondWatches, SecondLives

LEMMA FirstLooksOn ==
  ASSUME LifeInv, KubeMoves, WritesTruthful, SharedTypeOK', FirstSees, FreeInFirst
  PROVE  LifeInv'
  BY FirstWatches, SeenLives

LEMMA FirstActs ==
  ASSUME Both, Next, SecondSees, FreeInSecond
  PROVE  Lived
<1>1. WritesTruthful /\ KubeMoves /\ LifeInv'
  BY StepLives DEF Both
<1>2. SharedTypeOK'
  BY <1>1, TypesShared
<1> QED
  BY <1>1, <1>2, SecondLooksOn DEF Both, Lived

LEMMA SecondActs ==
  ASSUME Both, Second!Next, FirstSees, FreeInFirst
  PROVE  Lived
<1>1. P2!WritesTruthful /\ P2!KubeMoves /\ P2!LifeInv'
  BY SecondNext, SecondLives DEF Both
<1>2. P2!SharedTypeOK'
  BY <1>1, SecondLives
<1>3. WritesTruthful /\ KubeMoves /\ SharedTypeOK'
  BY <1>1, <1>2, SharedMoves, SharedTypes
<1> QED
  BY <1>1, <1>3, FirstLooksOn DEF Both, Lived

(* A restart stores nothing, so no name has to be free.                    *)
LEMMA RestartsFree ==
  ASSUME UNCHANGED kube
  PROVE  FreeInFirst /\ FreeInSecond
  BY DEF FreeInFirst, FreeInSecond, NewNames, Changed

LEMMA AcquireLives ==
  ASSUME Both, Acquire("first") \/ Acquire("second")
  PROVE  Lived
<1>1. UNCHANGED <<kube, edge, faults, others, cache, current, pending, rec, syn,
                  cache2, current2, pending2, rec2, syn2>>
  BY DEF Acquire
<1>2. queue' \subseteq KubeNames /\ queue2' \subseteq KubeNames
  BY DEF Acquire, Both, LifeInv, StatusInv, TypeInv, TypeOK, ClusterTypeOK,
         P2!LifeInv, P2!StatusInv, P2!TypeInv, P2!TypeOK, P2!ClusterTypeOK
<1>3. LifeInv'
  BY <1>1, <1>2, QueueLives DEF Both
<1>4. P2!LifeInv'
  <2>1. UNCHANGED P2!others
    BY <1>1 DEF others, P2!others
  <2> QED
    BY <1>1, <1>2, <2>1, SecondLives DEF Both
<1>5. KubeMoves /\ WritesTruthful
  BY <1>1, SameLives, UnchangedTruthful DEF Both, LifeInv
<1> QED
  BY <1>3, <1>4, <1>5 DEF Lived

LEMMA ReplicasStep ==
  ASSUME Both, [ReplicasNext]_replicaVars
  PROVE  Lived
<1>1. CASE FirstStep
  BY <1>1, FirstActs DEF FirstStep, Next
<1>2. CASE SecondStep
  BY <1>2, SecondActs DEF SecondStep, Second!Next
<1>3. CASE OthersAct
  BY <1>3, FirstActs DEF OthersAct, Next
<1>4. CASE FirstRestarts
  BY <1>4, FirstActs, RestartsFree DEF FirstRestarts, Restart, Next
<1>5. CASE SecondRestarts
  BY <1>5, SecondActs, RestartsFree DEF SecondRestarts, Second!Restart, Second!Next
<1>6. CASE Acquire("first") \/ Acquire("second")
  BY <1>6, AcquireLives
<1>7. CASE UNCHANGED replicaVars
  <2>1. UNCHANGED <<kube, edge, faults, others, cache, current, pending, queue, rec, syn,
                    cache2, current2, pending2, queue2, rec2, syn2>>
    BY <1>7 DEF replicaVars, vars, clusterVars, own2
  <2>2. UNCHANGED vars /\ UNCHANGED P2!vars
    BY <2>1 DEF vars, clusterVars, others, P2!vars, P2!clusterVars, P2!others
  <2>3. WritesTruthful /\ KubeMoves /\ LifeInv'
    BY <2>2, StepLives DEF Both
  <2>4. P2!LifeInv'
    BY <2>2, SecondLives DEF Both
  <2> QED
    BY <2>3, <2>4 DEF Lived
<1> QED
  BY <1>1, <1>2, <1>3, <1>4, <1>5, <1>6, <1>7 DEF ReplicasNext

LEMMA ReplicasStart ==
  ASSUME ReplicasInit
  PROVE  Both /\ Life!Init
<1>1. LifeInv /\ Life!Init
  BY InitLife, LifeInit DEF ReplicasInit
<1>2. P2!LifeInv
  BY SecondInit, SecondLives DEF ReplicasInit
<1> QED
  BY <1>1, <1>2 DEF Both

LEMMA BothInvariance == ReplicasSpec => []Both
<1>1. ReplicasInit => Both
  BY ReplicasStart
<1>2. Both /\ [ReplicasNext]_replicaVars => Both'
  BY ReplicasStep DEF Lived, Both
<1> QED
  BY <1>1, <1>2, PTL DEF ReplicasSpec

(***************************************************************************)
(* The theorems.                                                           *)
(***************************************************************************)
LeaderOK == leader \in {"first", "second", "free", "all"}

LEMMA LeaderInvariance == ReplicasSpec => []LeaderOK
<1>1. ReplicasInit => LeaderOK
  BY DEF ReplicasInit, LeaderOK
<1>2. LeaderOK /\ [ReplicasNext]_replicaVars => LeaderOK'
  BY DEF ReplicasNext, FirstStep, SecondStep, OthersAct, FirstRestarts, SecondRestarts,
         Acquire, Released, replicaVars, LeaderOK
<1> QED
  BY <1>1, <1>2, PTL DEF ReplicasSpec

(* What a process knows of its CRs stays true while another process writes *)
(* the same CRs: leader election or not, and whichever crashes.            *)
THEOREM ReplicasInvariance == ReplicasSpec => []ReplicasInv
<1>1. Both /\ LeaderOK => ReplicasInv
  BY SecondLifeInv DEF Both, LeaderOK, ReplicasInv
<1> QED
  BY <1>1, BothInvariance, LeaderInvariance, PTL

(* The variables of both processes and the lease have their types.         *)
THEOREM ReplicasTypeCorrect == ReplicasSpec => []ReplicasTypeOK
<1>1. ReplicasInv => ReplicasTypeOK
  BY TypesShared DEF ReplicasInv, ReplicasTypeOK, Second!LifeInv, Second!StatusInv, Second!TypeInv
<1> QED
  BY <1>1, ReplicasInvariance, PTL

(* No status one process writes makes a CR look synced that the other, or  *)
(* a user, has left without a finalizer.                                   *)
THEOREM ReplicasSyncedGuarded == ReplicasSpec => []SyncedIsGuarded
<1>1. Both => SyncedIsGuarded
  BY DEF Both, LifeInv, GuardInv
<1> QED
  BY <1>1, BothInvariance, PTL

(* Ready tells the truth although two reconcilers and two syncers write    *)
(* it, each from copies of its own.                                        *)
THEOREM ReplicasReadyHonest == ReplicasSpec => []ReadyIsHonest
<1>1. Both => ReadyIsHonest
  BY DEF Both, LifeInv, StatusInv, AllHonest, KubeHonest, Honest, Credible, GuardInv,
         SyncedIsGuarded, ReadyIsHonest
<1> QED
  BY <1>1, BothInvariance, PTL

(* None of the six writers of a status takes the synced mark back.         *)
THEOREM ReplicasSyncedStable == ReplicasSpec => SyncedIsStable
<1>1. Both /\ [ReplicasNext]_replicaVars =>
        [\A n \in KubeNames :
           Exists(n) /\ kube[n].status.synced /\ kube'[n] # NoCR => kube'[n].status.synced]_kube
  BY ReplicasStep DEF Lived, WritesTruthful, Truthful
<1> QED
  BY <1>1, BothInvariance, PTL DEF ReplicasSpec, SyncedIsStable

(* Two processes make nothing of the life of a CR that one does not.       *)
THEOREM ReplicasImplementLifecycle == ReplicasSpec => ImplementsLifecycle
<1>1. Both /\ Both' /\ [ReplicasNext]_replicaVars => [Life!Next]_(Life!lifeVars)
  <2>1. LifeInv => kube \in [KubeNames -> Device \cup {NoCR}]
    BY TypesShared DEF SharedTypeOK
  <2>2. LifeInv' => kube' \in [KubeNames -> Device \cup {NoCR}]
    BY TypesShared DEF SharedTypeOK
  <2> QED
    BY <2>1, <2>2, ReplicasStep, LifeStep DEF Both, Lived
<1>2. ReplicasInit => Life!Init
  BY ReplicasStart
<1> QED
  BY <1>1, <1>2, BothInvariance, PTL DEF ReplicasSpec, ImplementsLifecycle, Life!Spec

(***************************************************************************)
(* Two processes leave other pools alone.                                  *)
(***************************************************************************)
LEMMA SharedPools ==
  /\ P2!PoolsStay <=> PoolsStay
  /\ P2!Untouched <=> Untouched
  BY DEF P2!PoolsStay, PoolsStay, P2!Untouched, Untouched, P2!OwnedBy, OwnedBy,
         P2!Steady, Steady, P2!Exists, Exists

LEMMA SecondPools ==
  /\ P2!Init => P2!PoolInv
  /\ P2!TypeInv /\ P2!PoolInv /\ [P2!Next]_(P2!vars) =>
       P2!PoolsStay /\ P2!PoolInv' /\ (userOps' = userOps => P2!Untouched)
  /\ P2!PoolInv /\ P2!PoolsStay /\ P2!Seen /\ P2!NewIsFree /\ P2!NewIsNoTarget => P2!PoolInv'
  /\ P2!PoolInv /\ UNCHANGED <<kube, cache2, current2, rec2, syn2>> => P2!PoolInv'
<1> USE SameConstants, BoundsAssumption, NamesAssumption, DataAssumption, AbsenceAssumption,
        RecognitionAssumption, CopyAssumption, EnvironmentAssumption
<1>1. P2!Init => P2!PoolInv
  BY P2!InitPools
<1>2. P2!TypeInv /\ P2!PoolInv /\ [P2!Next]_(P2!vars) =>
        P2!PoolsStay /\ P2!PoolInv' /\ (userOps' = userOps => P2!Untouched)
  BY P2!StepPools
<1>3. P2!PoolInv /\ P2!PoolsStay /\ P2!Seen /\ P2!NewIsFree /\ P2!NewIsNoTarget => P2!PoolInv'
  BY P2!SeenKeepsPools
<1>4. P2!PoolInv /\ UNCHANGED <<kube, cache2, current2, rec2, syn2>> => P2!PoolInv'
  BY P2!SamePools
<1> QED
  BY <1>1, <1>2, <1>3, <1>4

BothPools == PoolInv /\ P2!PoolInv

PoolsLived == BothPools' /\ (userOps' = userOps => Untouched)

LEMMA FirstActsInPool ==
  ASSUME Both, BothPools, Next, SecondSees, FreeInSecond
  PROVE  PoolsLived
<1>1. PoolsStay /\ PoolInv' /\ (userOps' = userOps => Untouched)
  BY StepPools DEF Both, LifeInv, StatusInv, BothPools
<1>2. P2!PoolInv'
  BY <1>1, SharedPools, SecondPools, SecondWatches DEF Both, BothPools
<1> QED
  BY <1>1, <1>2 DEF PoolsLived, BothPools

LEMMA SecondActsInPool ==
  ASSUME Both, BothPools, Second!Next, FirstSees, FreeInFirst
  PROVE  PoolsLived
<1>1. P2!PoolsStay /\ P2!PoolInv' /\ (userOps' = userOps => P2!Untouched)
  BY SecondNext, SecondPools DEF Both, P2!LifeInv, P2!StatusInv, BothPools
<1>2. PoolInv'
  BY <1>1, SharedPools, SeenKeepsPools, FirstWatches DEF Both, BothPools
<1> QED
  BY <1>1, <1>2, SharedPools DEF PoolsLived, BothPools

LEMMA ReplicasPoolStep ==
  ASSUME Both, BothPools, [ReplicasNext]_replicaVars
  PROVE  PoolsLived
<1>1. CASE FirstStep
  BY <1>1, FirstActsInPool DEF FirstStep, Next
<1>2. CASE SecondStep
  BY <1>2, SecondActsInPool DEF SecondStep, Second!Next
<1>3. CASE OthersAct
  BY <1>3, FirstActsInPool DEF OthersAct, Next
<1>4. CASE FirstRestarts
  BY <1>4, FirstActsInPool, RestartsFree DEF FirstRestarts, Restart, Next
<1>5. CASE SecondRestarts
  BY <1>5, SecondActsInPool, RestartsFree DEF SecondRestarts, Second!Restart, Second!Next
<1>6. CASE Acquire("first") \/ Acquire("second") \/ UNCHANGED replicaVars
  <2>1. UNCHANGED <<kube, edge, cache, current, rec, syn, cache2, current2, rec2, syn2>>
    BY <1>6 DEF Acquire, replicaVars, vars, clusterVars, own2
  <2>2. Untouched
    BY <2>1 DEF Untouched, OwnedBy
  <2> QED
    BY <2>1, <2>2, SamePools, SecondPools DEF PoolsLived, BothPools
<1> QED
  BY <1>1, <1>2, <1>3, <1>4, <1>5, <1>6 DEF ReplicasNext

(* Two processes change no CR of another pool and make no device for one:  *)
(* a key or a list that the other process has made old is still of the     *)
(* pool, whoever of them deletes, and imports again, what the other works  *)
(* on.                                                                     *)
THEOREM ReplicasPoolsApart == ReplicasSpec => OtherPoolsUntouched
<1>1. ReplicasInit => BothPools
  BY InitPools, SecondInit, SecondPools DEF ReplicasInit, BothPools
<1>2. Both /\ BothPools /\ [ReplicasNext]_replicaVars => BothPools'
  BY ReplicasPoolStep DEF PoolsLived
<1>3. Both /\ BothPools /\ [ReplicasNext]_replicaVars =>
        [userOps' = userOps =>
           \A n \in Steady : Exists(n) /\ kube[n].spec.nodePool # NodePool =>
             /\ kube'[n] = kube[n]
             /\ OwnedBy(n)' \subseteq OwnedBy(n)]_<<kube, edge>>
  BY ReplicasPoolStep DEF PoolsLived, Untouched
<1> QED
  BY <1>1, <1>2, <1>3, BothInvariance, PTL DEF ReplicasSpec, OtherPoolsUntouched
=============================================================================
