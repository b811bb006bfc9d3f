-------------------------- MODULE EdgeObjectSystem --------------------------
(***************************************************************************)
(* The process at work on DeviceServices or on DeviceProfiles, with users, *)
(* operators of EdgeX, the watch and restarts.  The two kinds share no CR, *)
(* no object and no worker; a behaviour is about the one in kind.          *)
(***************************************************************************)
EXTENDS DeviceServices, DeviceProfiles

CONSTANTS
  Kinds,        \* the kinds of this instance
  UserSpecs,    \* name -> the specs users submit for a CR of that name
  MaxUserOps,   \* bound on the operations of users
  EdgeStates    \* name on the edge -> the states of an object operators add

ASSUME ObjectEnvironmentAssumption ==
  /\ Kinds \subseteq {"DeviceService", "DeviceProfile"}
  /\ Unfiltered \subseteq KubeNames
  /\ UserSpecs \in [KubeNames -> SUBSET ObjectSpec]
  /\ EdgeStates \in [EdgeNames -> SUBSET (AdminStates \cup {""})]
  /\ MaxUserOps \in Nat

VARIABLES kind, userOps

objectVars == <<clusterVars, rec, syn, kind, userOps>>

(* A definition as a user or an operator writes it.                        *)
Whole == IF kind = "DeviceService" THEN ServiceParts ELSE ProfileParts

(* The CRs and the objects of the kind of this behaviour.                  *)
Names == IF kind = "DeviceService" THEN Unfiltered ELSE KubeNames \ Unfiltered
Objects == {e \in EdgeNames : SyncerName[e] \in Names}

ObjectTypeOK ==
  /\ kube \in [KubeNames -> Object \cup {NoCR}]
  /\ cache \in [KubeNames -> Object \cup {NoCR}]
  /\ current \in [KubeNames -> SUBSET Holders]
  /\ pending \subseteq KubeNames /\ queue \subseteq KubeNames
  /\ edge \in [EdgeNames -> EdgeObject \cup {NoObject}]
  /\ faults \in 0..MaxFaults
  /\ rec \in ObjectWorker
  /\ syn \in ObjectRound
  /\ kind \in Kinds
  /\ userOps \in 0..MaxUserOps

ObjectInit ==
  /\ kube = [n \in KubeNames |-> NoCR]
  /\ cache = [n \in KubeNames |-> NoCR]
  /\ current = [n \in KubeNames |-> {"cache"}]
  /\ pending = {} /\ queue = {}
  /\ edge = [e \in EdgeNames |-> NoObject]
  /\ faults = 0
  /\ rec = IdleObjectWorker
  /\ syn = IdleObjectRound
  /\ kind \in Kinds
  /\ userOps = 0

----------------------------------------------------------------------------
(* Users, and operators of EdgeX *)

UserStep ==
  /\ userOps < MaxUserOps
  /\ userOps' = userOps + 1
  /\ Succeeds
  /\ UNCHANGED <<cache, queue, edge, rec, syn, kind>>

UserCreates(n) ==
  /\ CanCreate(n, {rec.key} \cup syn.redundantKube)
  /\ \E s \in UserSpecs[n] : Store(n, NewObject(s), {})
  /\ UserStep

(* The label that names the edge object and the pool stay as they are.     *)
UserUpdates(n) ==
  /\ Exists(n)
  /\ \E s \in UserSpecs[n] :
       /\ s # kube[n].spec
       /\ s.edgeName = kube[n].spec.edgeName /\ s.nodePool = kube[n].spec.nodePool
       /\ Store(n, [kube[n] EXCEPT !.spec = s], {})
  /\ UserStep

UserDeletes(n) ==
  /\ Exists(n) /\ ~kube[n].deleting
  /\ Delete(n)
  /\ UserStep

(* A change by an operator counts as a failure: MaxFaults bounds the sum.  *)
EdgeStep ==
  /\ faults < MaxFaults
  /\ faults' = faults + 1
  /\ ApiUnchanged
  /\ UNCHANGED <<cache, queue, rec, syn, kind, userOps>>

OperatorAdds(e) ==
  /\ edge[e] = NoObject
  /\ \E s \in EdgeStates[e] :
       edge' = [edge EXCEPT ![e] = [adminState |-> s, definition |-> Whole, owner |-> NoName]]
  /\ EdgeStep

OperatorRemoves(e) ==
  /\ edge[e] # NoObject
  /\ edge' = [edge EXCEPT ![e] = NoObject]
  /\ EdgeStep

OperatorChanges(e) ==
  /\ edge[e] # NoObject /\ kind = "DeviceService"
  /\ \E s \in AdminStates \ {edge[e].adminState} :
       edge' = [edge EXCEPT ![e].adminState = s]
  /\ EdgeStep

----------------------------------------------------------------------------
(* The process *)

Others == UNCHANGED <<kind, userOps>>

TakeObjectKey(n) ==
  /\ IF kind = "DeviceService" THEN ServiceReconcile(n) ELSE ProfileReconcile(n)
  /\ UNCHANGED syn /\ Others

ObjectReconcilerRuns ==
  /\ \/ kind = "DeviceService" /\ ServiceReconcilerStep
     \/ kind = "DeviceProfile" /\ ProfileReconcilerStep
  /\ UNCHANGED syn /\ Others

(* The lists hold the objects of the kind only, for there are no others.   *)
ObjectSyncerRuns ==
  /\ \/ kind = "DeviceService" /\ ServiceSyncerStep
     \/ kind = "DeviceProfile" /\ ProfileSyncerStep
  /\ UNCHANGED rec /\ Others

ObjectWatchDelivers(n) == Deliver(n) /\ UNCHANGED <<rec, syn>> /\ Others
ObjectWatchBreaks(n) == Relist(n) /\ UNCHANGED <<rec, syn>> /\ Others
ObjectsResync == Resync /\ UNCHANGED <<rec, syn>> /\ Others

Restarts ==
  /\ Fails({"crash"})
  /\ rec' = IdleObjectWorker
  /\ syn' = IdleObjectRound
  /\ cache' = kube
  /\ current' = [n \in KubeNames |-> {"cache"}]
  /\ pending' = {}
  /\ queue' = {n \in KubeNames : Exists(n)}
  /\ UNCHANGED <<kube, edge>> /\ Others

ObjectNext ==
  \/ \E n \in Names : \/ UserCreates(n) \/ UserUpdates(n) \/ UserDeletes(n)
                      \/ TakeObjectKey(n)
                      \/ ObjectWatchDelivers(n) \/ ObjectWatchBreaks(n)
  \/ \E e \in Objects : OperatorAdds(e) \/ OperatorRemoves(e) \/ OperatorChanges(e)
  \/ ObjectReconcilerRuns \/ ObjectSyncerRuns \/ ObjectsResync \/ Restarts

ObjectSpecification == ObjectInit /\ [][ObjectNext]_objectVars

(* As for the devices: queue in order, and nothing of the process stops.   *)
ObjectFairness ==
  /\ \A n \in KubeNames :
       SF_objectVars(TakeObjectKey(n)) /\ WF_objectVars(ObjectWatchDelivers(n))
  /\ WF_objectVars(ObjectReconcilerRuns)
  /\ WF_objectVars(ObjectSyncerRuns)
  /\ WF_objectVars(ObjectsResync)

FairObjectSpecification == ObjectSpecification /\ ObjectFairness

----------------------------------------------------------------------------
(* Safety *)

OfThisPool(n) == Exists(n) /\ kube[n].spec.nodePool = NodePool

OwnedBy(n) == {e \in EdgeNames : edge[e] # NoObject /\ edge[e].owner = n}

(* status.synced of a CR is never taken back, although the reconciler's    *)
(* two status updates and the syncer's write statuses from older copies.   *)
SyncedStays ==
  [][\A n \in KubeNames :
       Exists(n) /\ kube[n].status.synced /\ kube'[n] # NoCR => kube'[n].status.synced]_kube

(* A DeviceService that is Ready is synced, whoever wrote its conditions   *)
(* last, and none of its conditions says otherwise.                        *)
ReadyServiceIsSynced ==
  \A n \in KubeNames :
    Exists(n) /\ kube[n].status.ready = "True" =>
      /\ kube[n].status.synced
      /\ {kube[n].status.syncedCondition, kube[n].status.managingCondition}
           \subseteq {"none", "True"}

(* The names that no new CR gets while somebody acts for the one before.   *)
Steady == KubeNames \ PromptReuse

SameCR(cr, n) ==
  cr.spec.edgeName = kube[n].spec.edgeName /\ cr.spec.nodePool = kube[n].spec.nodePool

(* The worker is past the finalizer of a CR that stays.                    *)
Working == {"getObject", "createObject", "writeSynced", "updateObject", "writeStatus"}

(* A CR is marked for deletion, and synced, only while it is guarded.      *)
DeletingIsGuarded == \A n \in KubeNames : Exists(n) /\ kube[n].deleting => kube[n].finalizer

SyncedIsGuarded == \A n \in Steady : Exists(n) /\ kube[n].status.synced => kube[n].finalizer

(* An old copy is of the CR that is stored, and what it shows of the       *)
(* finalizer and the mark still holds.                                     *)
CacheKnows ==
  \A n \in Steady : cache[n] # NoCR =>
    /\ cache[n].status.synced => cache[n].finalizer
    /\ cache[n].finalizer /\ ~cache[n].deleting => Exists(n)
    /\ Exists(n) =>
         /\ SameCR(cache[n], n)
         /\ cache[n].finalizer => kube[n].finalizer
         /\ cache[n].deleting => kube[n].deleting

(* The CR in hand is of this pool and still the stored one; past the       *)
(* finalizer it is there and guarded until the worker lets it go.          *)
WorkerKnows ==
  rec.pc # "idle" /\ rec.key \in Steady =>
    /\ rec.d.spec.nodePool = NodePool /\ rec.d.spec.edgeName = rec.edgeName
    /\ Exists(rec.key) => SameCR(rec.d, rec.key)
    /\ rec.pc = "addFinalizer" => ~rec.d.status.synced
    /\ rec.pc \in Working => Exists(rec.key) /\ kube[rec.key].finalizer
    /\ rec.pc = "removeFinalizer" =>
         /\ cache[rec.key] # NoCR => cache[rec.key].deleting
         /\ Exists(rec.key) => kube[rec.key].deleting
    /\ rec.pc = "deleteObject" => rec.d.deleting /\ ~Exists(rec.key)
    /\ rec.pc = "finish" /\ Exists(rec.key) /\ rec.d.status.synced => kube[rec.key].finalizer

(* What the round deletes by name is of this pool; a status it can still   *)
(* write is that of a guarded CR if it says synced.                        *)
RoundKnows ==
  \A n \in Steady :
    /\ n \in syn.redundantKube /\ Exists(n) => kube[n].spec.nodePool = NodePool
    /\ syn.synced[n] # NoCR /\ "syncer" \in current[n] =>
         /\ kube[n].spec.nodePool = NodePool
         /\ syn.synced[n].synced => kube[n].finalizer

(* What the process knows of a CR from an old copy holds of the CR.  This  *)
(* is the inductive invariant behind the three properties below.           *)
GuardInv ==
  DeletingIsGuarded /\ SyncedIsGuarded /\ CacheKnows /\ WorkerKnows /\ RoundKnows

(* What the worker makes or changes on the edge, it makes or changes for a *)
(* CR that is stored, guarded, of this pool and standing for the object,   *)
(* although it started from a cached copy and knows only the name, unless  *)
(* the name was given to another CR meanwhile.                             *)
ActsForTheCR ==
  [][rec.pc \in {"createObject", "updateObject"} /\ rec' # rec =>
       \A e \in EdgeNames : edge'[e] # edge[e] =>
         \/ rec.key \in PromptReuse
         \/ /\ OfThisPool(rec.key) /\ kube[rec.key].finalizer
            /\ GetEdgeName(kube[rec.key]) = e]_<<rec, edge>>

(* The process changes no CR of another pool and makes no object for one,  *)
(* though the syncer deletes CRs by name.                                  *)
OtherPoolsLeftAlone ==
  [][userOps' = userOps =>
       \A n \in KubeNames \ PromptReuse : Exists(n) /\ kube[n].spec.nodePool # NodePool =>
         /\ kube'[n] = kube[n]
         /\ OwnedBy(n)' \subseteq OwnedBy(n)]_<<kube, edge>>

(* The life of every service and profile CR is the one stated in Lifecycle.*)
Life == INSTANCE Lifecycle WITH
  Names <- KubeNames, Reused <- PromptReuse,
  stored <- {n \in KubeNames : Exists(n)},
  guarded <- {n \in KubeNames : Exists(n) /\ kube[n].finalizer},
  synced <- {n \in KubeNames : Exists(n) /\ kube[n].status.synced},
  deleting <- {n \in KubeNames : Exists(n) /\ kube[n].deleting}

ImplementsLifecycle == Life!Spec

(* The parts of a definition that the conversions are known to lose: the   *)
(* flag that hides a resource on its way to EdgeX, and the attributes of a *)
(* resource that are no texts on their way to a CR.                        *)
KnownLosses ==
  IF kind = "DeviceService" THEN {}
  ELSE {"Resource.IsHidden", "Attributes.number", "Attributes.other"}

(* However often a definition went from a CR to EdgeX and, after the CR    *)
(* was lost, from EdgeX to the CR that the syncer made of it, every other  *)
(* part is what its author wrote.                                          *)
DefinitionsKept ==
  /\ \A n \in KubeNames : Exists(n) => Whole \ kube[n].spec.definition \subseteq KnownLosses
  /\ \A e \in EdgeNames :
       edge[e] # NoObject => Whole \ edge[e].definition \subseteq KnownLosses

----------------------------------------------------------------------------
(* Liveness.  Users and operators stop and failures end, for their number  *)
(* is bounded.                                                             *)

Representing(e) == {n \in KubeNames : OfThisPool(n) /\ GetEdgeName(kube[n]) = e}

(* Every object on the edge has a CR, and every CR that is not being       *)
(* deleted is synced and has its object.                                   *)
InStep ==
  /\ \A e \in EdgeNames : edge[e] # NoObject => Representing(e) # {}
  /\ \A n \in KubeNames : OfThisPool(n) =>
       /\ ~kube[n].deleting
       /\ kube[n].status.synced
       /\ edge[GetEdgeName(kube[n])] # NoObject

(* The cluster and the edge get into step again and again, whatever old    *)
(* lists and copies the syncer and the reconciler work on.  (They need not *)
(* stay in step: a round that lists EdgeX before the reconciler creates an *)
(* object and the cache after it starts a deletion, for ever if every      *)
(* round is that unlucky.)                                                 *)
GetsInStep == []<>InStep

(* The admin state of a managed service gets to the one of its spec again  *)
(* and again, in spite of a change by an operator or of a failed item      *)
(* that was taken for a success.  (Without an id nothing is ever sent.)    *)
Follows(n) ==
  OfThisPool(n) /\ kube[n].status.edgeId /\ kube[n].spec.managed =>
    /\ edge[GetEdgeName(kube[n])] # NoObject
    /\ edge[GetEdgeName(kube[n])].adminState = kube[n].spec.adminState

AdminStateFollows ==
  []<>(kind = "DeviceService" => \A n \in Unfiltered : Follows(n))

----------------------------------------------------------------------------
(* What the documentation says and the code does not do. *)

(* README.md:43: users delete DeviceService CRs to affect the services of  *)
(* the edge.  So an object made for a CR still has that CR, guarded by the *)
(* finalizer, or the worker is about to delete the object.  The handler    *)
(* gives the guard away first: if the deletion on the edge then fails, no  *)
(* CR is left to retry it, and the next round imports what was deleted.    *)
DeletionReachesEdge ==
  \A n \in KubeNames : \A e \in OwnedBy(n) :
    \/ Exists(n) /\ kube[n].finalizer
    \/ rec.key = n /\ rec.pc = "deleteObject"
=============================================================================
