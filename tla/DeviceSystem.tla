---------------------------- MODULE DeviceSystem ----------------------------
(***************************************************************************)
(* One yurt-device-controller process serving the devices of its pool: the *)
(* reconciler and the syncer, the users who write CRs, the operators and   *)
(* the devices that change the edge, the watch, and restarts.              *)
(***************************************************************************)
EXTENDS DeviceController, DeviceSyncer

CONSTANTS
  UserSpecs,    \* name -> the specs users submit for a CR of that name
  MaxUserOps,   \* bound on the operations of users
  EdgeStates,   \* the states operators and devices put a device in
  MaxEdgeOps,   \* bound on the changes made on the edge
  MaxRounds     \* bound on the rounds of the syncer, 0 for none

ASSUME EnvironmentAssumption ==
  /\ UserSpecs \in [KubeNames -> SUBSET DeviceSpec]
  /\ EdgeStates \subseteq Listed
  /\ MaxUserOps \in Nat /\ MaxEdgeOps \in Nat /\ MaxRounds \in Nat

VARIABLES
  userOps,   \* number of user operations so far
  edgeOps,   \* number of changes made on the edge so far
  rounds     \* number of rounds of the syncer so far, if they are bounded

others == <<userOps, edgeOps, rounds>>
vars == <<clusterVars, rec, syn, others>>

TypeOK ==
  /\ ClusterTypeOK
  /\ rec \in Worker
  /\ syn \in Round
  /\ userOps \in 0..MaxUserOps
  /\ edgeOps \in 0..MaxEdgeOps
  /\ rounds \in 0..MaxRounds

Init ==
  /\ ClusterInit
  /\ rec = IdleWorker
  /\ syn = IdleRound
  /\ userOps = 0
  /\ edgeOps = 0
  /\ rounds = 0

----------------------------------------------------------------------------
(* Users *)

UserStep ==
  /\ userOps < MaxUserOps
  /\ userOps' = userOps + 1
  /\ Succeeds
  /\ UNCHANGED <<cache, queue, edge, rec, syn, edgeOps, rounds>>

UserCreate(n) ==
  /\ CanCreate(n, {rec.key} \cup syn.redundantKube)
  /\ \E s \in UserSpecs[n] : Create(n, s)
  /\ UserStep

(* The label that names the edge device and the pool stay as they are. *)
UserUpdate(n) ==
  /\ Exists(n)
  /\ \E s \in UserSpecs[n] :
       /\ s # kube[n].spec
       /\ s.edgeName = kube[n].spec.edgeName /\ s.nodePool = kube[n].spec.nodePool
       /\ Store(n, [kube[n] EXCEPT !.spec = s], {})
  /\ UserStep

UserDelete(n) ==
  /\ Exists(n) /\ ~kube[n].deleting
  /\ Delete(n)
  /\ UserStep

----------------------------------------------------------------------------
(* The edge *)

EdgeStep ==
  /\ edgeOps < MaxEdgeOps
  /\ edgeOps' = edgeOps + 1
  /\ Succeeds
  /\ UNCHANGED <<kube, cache, current, pending, queue, rec, syn, userOps, rounds>>

AddEdgeDevice(e) ==
  /\ edge[e] = NoDevice
  /\ \E s \in EdgeStates :
       edge' = [edge EXCEPT ![e] =
                 [adminState |-> s.adminState, operatingState |-> s.operatingState,
                  values |-> [p \in Props |-> DefaultValue], owner |-> NoName]]
  /\ EdgeStep

RemoveEdgeDevice(e) ==
  /\ edge[e] # NoDevice
  /\ edge' = [edge EXCEPT ![e] = NoDevice]
  /\ EdgeStep

ChangeEdgeDevice(e) ==
  /\ edge[e] # NoDevice
  /\ \/ \E s \in EdgeStates :
          edge' = [edge EXCEPT ![e].adminState = s.adminState,
                               ![e].operatingState = s.operatingState]
     \/ \E p \in Props, v \in Values : edge' = [edge EXCEPT ![e].values[p] = v]
  /\ EdgeStep

----------------------------------------------------------------------------
(* The process *)

running == rec.pc # "panicked"

(* After a crash or a panic the process starts with empty hands: the       *)
(* informer lists, and its initial list fills the workqueue.               *)
Restart ==
  /\ IF running THEN Fails({"crash"}) ELSE Succeeds
  /\ rec' = IdleWorker
  /\ syn' = IdleRound
  /\ cache' = kube
  /\ current' = [n \in KubeNames |-> {"cache"}]
  /\ pending' = {}
  /\ queue' = {n \in KubeNames : Exists(n)}
  /\ UNCHANGED <<kube, edge, others>>

TakeKey(n) == running /\ Reconcile(n) /\ UNCHANGED <<syn, others>>
ReconcilerRuns == ReconcilerStep /\ UNCHANGED <<syn, others>>
SyncerRuns ==
  /\ running
  /\ SyncerStep({rec.key})
  /\ IF syn.pc = "idle" /\ MaxRounds > 0
     THEN rounds < MaxRounds /\ rounds' = rounds + 1
     ELSE UNCHANGED rounds
  /\ UNCHANGED <<rec, userOps, edgeOps>>
WatchDelivers(n) == running /\ Deliver(n) /\ UNCHANGED <<rec, syn, others>>
WatchBreaks(n) == running /\ Relist(n) /\ UNCHANGED <<rec, syn, others>>
InformerResyncs == running /\ Resync /\ UNCHANGED <<rec, syn, others>>

Environment ==
  \/ \E n \in KubeNames : UserCreate(n) \/ UserUpdate(n) \/ UserDelete(n)
  \/ \E e \in EdgeNames : AddEdgeDevice(e) \/ RemoveEdgeDevice(e) \/ ChangeEdgeDevice(e)

Next ==
  \/ Environment
  \/ \E n \in KubeNames : TakeKey(n) \/ WatchDelivers(n) \/ WatchBreaks(n)
  \/ ReconcilerRuns
  \/ SyncerRuns
  \/ InformerResyncs
  \/ Restart

Spec == Init /\ [][Next]_vars

(* The workqueue is first in, first out, so a key that is queued again and *)
(* again is taken; the worker, the syncer's loop, the watch, the resync    *)
(* timer and the restart of a panicked process never stop.                 *)
Fairness ==
  /\ \A n \in KubeNames : SF_vars(TakeKey(n)) /\ WF_vars(WatchDelivers(n))
  /\ WF_vars(ReconcilerRuns)
  /\ WF_vars(SyncerRuns)
  /\ WF_vars(InformerResyncs)
  /\ WF_vars(~running /\ Restart)

FairSpec == Spec /\ Fairness

----------------------------------------------------------------------------
(* Safety *)

OwnedBy(n) == {e \in EdgeNames : edge[e] # NoDevice /\ edge[e].owner = n}

(* The names that come back only when nobody holds a copy of the CR that   *)
(* had them; of the others only what is said of all of KubeNames is true.  *)
Steady == KubeNames \ PromptReuse

(* No device is left behind on the edge: a device the controller created   *)
(* has its CR, and the CR has the finalizer that makes its deletion wait   *)
(* for the deletion of the device.                                         *)
OwnedDeviceIsGuarded ==
  \A n \in Steady : \A e \in OwnedBy(n) :
    Exists(n) /\ kube[n].finalizer /\ GetEdgeDeviceName(kube[n]) = e

(* A CR that says it is synced has the finalizer, so that its deletion     *)
(* reaches the edge: no status written from an old copy of a CR makes      *)
(* another CR of that name look synced.                                    *)
SyncedIsGuarded ==
  \A n \in Steady : Exists(n) /\ kube[n].status.synced => kube[n].finalizer

(* status.synced is never taken back: of the reconciler's two status       *)
(* updates and the syncer's none writes an older status over it.           *)
SyncedIsStable ==
  [][\A n \in KubeNames :
       Exists(n) /\ kube[n].status.synced /\ kube'[n] # NoCR => kube'[n].status.synced]_kube

(* A CR that is Ready is synced and has the finalizer, and neither of its  *)
(* conditions says otherwise, whatever the reconciler and the syncer wrote *)
(* last from their copies.  (A condition never set does not count.)        *)
ReadyIsHonest ==
  \A n \in KubeNames :
    Exists(n) /\ kube[n].status.ready = "True" =>
      /\ kube[n].status.synced
      /\ n \in Steady => kube[n].finalizer
      /\ {kube[n].status.syncedCondition, kube[n].status.managingCondition}
           \subseteq {"none", "True"}

(* The reconciler's updates change a device, whichever it is, only while   *)
(* the CR they were made for is still there, guarded and standing for the  *)
(* device that the copy stands for: no update outlives a deletion or       *)
(* serves a CR made anew.                                                  *)
UpdatesServeTheCR ==
  [][rec.pc \in {"updateDevice", "putProperty"} /\ rec' # rec
       /\ edge' # edge /\ rec.key \in Steady =>
         /\ Exists(rec.key) /\ kube[rec.key].finalizer
         /\ GetEdgeDeviceName(kube[rec.key]) = target]_<<rec, edge>>

(* A device is only made for a CR that is there and guarded, also when the *)
(* name was given to another CR since the worker took it: a worker that    *)
(* came to delete the old CR, and whose patch meets the new one, leaves    *)
(* the new one to the next reconciliation.                                 *)
MadeForGuarded ==
  [][rec.pc = "createDevice" /\ rec' # rec /\ edge' # edge =>
       Exists(rec.key) /\ kube[rec.key].finalizer]_<<rec, edge>>

(* The process changes no CR of another pool and makes no device for one.  *)
OtherPoolsUntouched ==
  [][userOps' = userOps =>
       \A n \in Steady : Exists(n) /\ kube[n].spec.nodePool # NodePool =>
         /\ kube'[n] = kube[n]
         /\ OwnedBy(n)' \subseteq OwnedBy(n)]_<<kube, edge>>

(* The finalizer protocol, stated on its own in Ownership. *)
MadeFor(e) ==
  IF edge[e] # NoDevice /\ edge[e].owner \in Steady THEN edge[e].owner ELSE NoName

Protocol == INSTANCE Ownership WITH
  Names <- Steady, Devices <- EdgeNames, Nobody <- NoName,
  guarded <- {n \in Steady : Exists(n) /\ kube[n].finalizer},
  owner <- [e \in EdgeNames |-> MadeFor(e)]

ImplementsOwnership == Protocol!Spec

(* The life of every CR is the one stated in Lifecycle, whichever of the   *)
(* users, the reconciler and the syncer of one process or of several acts. *)
Life == INSTANCE Lifecycle WITH
  Names <- KubeNames, Reused <- PromptReuse,
  stored <- {n \in KubeNames : Exists(n)},
  guarded <- {n \in KubeNames : Exists(n) /\ kube[n].finalizer},
  synced <- {n \in KubeNames : Exists(n) /\ kube[n].status.synced},
  deleting <- {n \in KubeNames : Exists(n) /\ kube[n].deleting}

ImplementsLifecycle == Life!Spec

----------------------------------------------------------------------------
(* The inductive invariant: what the caches and the worker's copy may be   *)
(* relied on for, although they are old.                                   *)

Working == {"getDevice", "createDevice", "writeSynced", "updateDevice",
            "properties", "readProperty", "writeProperty", "putProperty", "writeStatus"}

SameDevice(d, n) == GetEdgeDeviceName(d) = GetEdgeDeviceName(kube[n])

(* A CR with a deletion timestamp exists only because of its finalizer.    *)
DeletingIsGuarded ==
  \A n \in KubeNames : Exists(n) /\ kube[n].deleting => kube[n].finalizer

(* An old cache entry still tells whether the CR is guarded: only the      *)
(* reconciler takes a finalizer away, after it saw the deletion.           *)
CacheIsOfTheCR ==
  \A n \in Steady : cache[n] # NoCR =>
    /\ Exists(n) => SameDevice(cache[n], n)
    /\ cache[n].finalizer /\ ~cache[n].deleting => Exists(n) /\ kube[n].finalizer
    /\ cache[n].deleting => cache[n].finalizer /\ (Exists(n) => kube[n].deleting)
    /\ cache[n].status.synced => cache[n].finalizer

CurrentCacheIsExact ==
  \A n \in KubeNames : "cache" \in current[n] => cache[n] = kube[n]

(* The worker holds a copy of a CR while it works on it, and visits only   *)
(* properties with a desired value; the syncer's round holds a copy of     *)
(* what it has still to create or to update.                               *)
Visiting == {"properties", "readProperty", "writeProperty", "putProperty"}

WorkerHasItsCR ==
  /\ rec.pc \notin {"idle", "panicked"} => rec.key # NoName /\ rec.d # NoCR
  /\ rec.pc \in Visiting => rec.left \subseteq desiredProperties
  /\ rec.pc \in Visiting \ {"properties"} => rec.property \in rec.left

RoundHasItsCopies ==
  /\ syn.pc = "apply" =>
       /\ \A e \in syn.redundantEdge : syn.edgeDevices[e] # NoDevice
       /\ \A n \in syn.synced : syn.copy[n] # NoCR
       /\ syn.toRead \subseteq syn.synced
  /\ syn.reading # NoName => syn.pc = "apply" /\ syn.reading \in syn.toRead

TypeInv == TypeOK /\ WorkerHasItsCR /\ RoundHasItsCopies

(* What the worker relies on between two requests. *)
WorkerIsOfTheCR ==
  rec.key \in Steady =>
    /\ rec.pc \in Working =>
         Exists(rec.key) /\ kube[rec.key].finalizer /\ SameDevice(rec.d, rec.key)
    /\ rec.pc = "addFinalizer" =>
         ~rec.d.status.synced /\ (Exists(rec.key) => SameDevice(rec.d, rec.key))
    /\ rec.pc \in {"deleteDevice", "removeFinalizer"} =>
         /\ Exists(rec.key) => kube[rec.key].deleting /\ SameDevice(rec.d, rec.key)
         /\ cache[rec.key] # NoCR => cache[rec.key].deleting
    /\ rec.pc = "removeFinalizer" => OwnedBy(rec.key) = {}
    /\ rec.pc = "finish" /\ rec.d.status.synced =>
         (Exists(rec.key) => kube[rec.key].finalizer)

(* A copy the syncer can still write is not of an older CR. *)
SyncerCopyIsGuarded ==
  \A n \in Steady :
    syn.copy[n] # NoCR /\ syn.copy[n].status.synced /\ "syncer" \in current[n] =>
      (Exists(n) => kube[n].finalizer)

IInv ==
  /\ TypeInv
  /\ OwnedDeviceIsGuarded
  /\ SyncedIsGuarded
  /\ DeletingIsGuarded
  /\ CacheIsOfTheCR
  /\ CurrentCacheIsExact
  /\ WorkerIsOfTheCR
  /\ SyncerCopyIsGuarded

(* A status that shows success is of a synced CR; in one that is stored,   *)
(* Ready is at most as good as the conditions.                             *)
Credible(s) ==
  "True" \in {s.ready, s.syncedCondition, s.managingCondition} => s.synced

Honest(s) ==
  /\ Credible(s)
  /\ s.ready = "True" => {s.syncedCondition, s.managingCondition} \subseteq {"none", "True"}

KubeHonest == \A n \in KubeNames : Exists(n) => Honest(kube[n].status)
CacheHonest == \A n \in KubeNames : cache[n] # NoCR => Honest(cache[n].status)

(* The round's copies, and the worker's two, are honest and do not lag     *)
(* behind the synced mark of a CR they can still be written over.          *)
RoundHonest ==
  \A n \in KubeNames : syn.copy[n] # NoCR =>
    /\ Honest(syn.copy[n].status)
    /\ "syncer" \in current[n] /\ Exists(n) /\ kube[n].status.synced =>
         syn.copy[n].status.synced

Looping == Visiting \cup {"writeStatus"}

WorkerHonest ==
  rec.pc \notin {"idle", "panicked"} =>
    /\ Credible(rec.d.status)
    /\ rec.pc # "finish" => Honest(rec.d.status)
    /\ rec.pc \in {"writeSynced", "updateDevice"} \cup Looping => rec.d.status.synced
    /\ rec.pc \in Looping => Honest(rec.newStatus) /\ rec.newStatus.synced
    /\ "reconciler" \in current[rec.key] /\ Exists(rec.key) /\ kube[rec.key].status.synced =>
         rec.d.status.synced

AllHonest == KubeHonest /\ CacheHonest /\ CurrentCacheIsExact /\ RoundHonest /\ WorkerHonest

StatusInv == TypeInv /\ AllHonest

(* What survives a second process that works on the same CRs: a CR may be  *)
(* released while this process works on it, but no other takes its name,   *)
(* and as long as it is there it keeps every mark this process has seen.   *)
CacheIsGuarded ==
  \A n \in Steady : cache[n] # NoCR =>
    /\ cache[n].status.synced => cache[n].finalizer
    /\ Exists(n) =>
         /\ cache[n].finalizer => kube[n].finalizer
         /\ cache[n].deleting => kube[n].deleting

WorkerIsGuarded ==
  rec.key \in Steady =>
    /\ rec.pc = "addFinalizer" => ~rec.d.status.synced
    /\ Exists(rec.key) =>
       /\ rec.pc \in Working => kube[rec.key].finalizer
       /\ rec.pc \in {"deleteDevice", "removeFinalizer"} => kube[rec.key].deleting
       /\ rec.pc = "finish" /\ rec.d.status.synced => kube[rec.key].finalizer

GuardInv ==
  /\ SyncedIsGuarded /\ DeletingIsGuarded
  /\ CacheIsGuarded /\ WorkerIsGuarded /\ SyncerCopyIsGuarded

LifeInv == StatusInv /\ GuardInv

----------------------------------------------------------------------------
(* Liveness *)

OfThisPool(n) == Exists(n) /\ kube[n].spec.nodePool = NodePool

(* The deletion of a CR reaches its device.                                *)
DeletionReachesDevice ==
  \A n \in KubeNames :
    (OfThisPool(n) /\ kube[n].deleting)
      ~> (~Exists(n) \/ edge[GetEdgeDeviceName(kube[n])] = NoDevice)

(* A CR becomes synced, unless it is deleted first. *)
CreationCompletes ==
  \A n \in KubeNames :
    OfThisPool(n) ~> (~Exists(n) \/ kube[n].deleting \/ kube[n].status.synced)

(* A device that stays on the edge is represented by a CR. *)
DevicesAreImported ==
  \A e \in EdgeNames :
    (edge[e] # NoDevice) ~>
      \/ edge[e] = NoDevice
      \/ \E n \in KubeNames : OfThisPool(n) /\ GetEdgeDeviceName(kube[n]) = e

(* A property of a managed device that is up and unlocked gets the value   *)
(* its spec desires, however often the device was written by others, if    *)
(* the spec stays and the device does not go.  It is said of CRs that are  *)
(* named as their device: the PATCH goes to the name of the CR.            *)
Desires(n, p) ==
  /\ OfThisPool(n) /\ ~kube[n].deleting /\ kube[n].status.synced
  /\ kube[n].spec.managed /\ GetEdgeDeviceName(kube[n]) = n
  /\ kube[n].spec.adminState = "UNLOCKED" /\ kube[n].spec.operatingState = "UP"
  /\ kube[n].spec.desired[p] # ""
  /\ edge[n] # NoDevice

DesiredValueReached ==
  \A n \in KubeNames \cap EdgeNames : \A p \in Readable \cap Writable :
    Desires(n, p) ~> (Desires(n, p) => edge[n].values[p] = kube[n].spec.desired[p])

----------------------------------------------------------------------------
(* What the documentation, comments and tests of the repository say and    *)
(* the code does not do: each is the property of a run that refutes it.    *)

(* device_syncer.go:92: what a round deletes is redundant on OpenYurt: the *)
(* device it stands for is not on the edge.                                *)
SyncerDeletesOnlyGone ==
  [][\A n \in syn.redundantKube :
       n \notin syn'.redundantKube /\ kube'[n] # kube[n] =>
         edge[GetEdgeDeviceName(kube[n])] = NoDevice]_<<kube, syn>>

(* device_controller.go:196: reconciling a state of the device moves it to *)
(* the value the spec gives.                                               *)
PatchFollowsSpec ==
  [][\A e \in EdgeNames :
       rec.pc = "updateDevice" /\ edge'[e] # edge[e] =>
         /\ edge'[e].adminState \in {edge[e].adminState, rec.d.spec.adminState}
         /\ edge'[e].operatingState \in
              {edge[e].operatingState, rec.d.spec.operatingState}]_edge

(* device_controller.go:138: an answer that the device is not found is no  *)
(* obstacle to a deletion, so a CR that is being deleted goes.  But the    *)
(* text that EdgeX sends, quoted in device_client_test.go:40, is none that *)
(* IsNotFoundErr knows.                                                    *)
DeletionCompletes ==
  \A n \in KubeNames : (OfThisPool(n) /\ kube[n].deleting) ~> ~Exists(n)

(* device_controller.go:261 and :274: a property without a read command is *)
(* tolerated.                                                              *)
NeverPanics == rec.pc # "panicked"
=============================================================================
