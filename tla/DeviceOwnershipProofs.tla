----------------------- MODULE DeviceOwnershipProofs -----------------------
(***************************************************************************)
(* DeviceSystem implements Ownership, step by step: every step of the      *)
(* users, the edge, the worker, the syncer and the informer guards,        *)
(* releases, makes or removes one device, or leaves guards and owners as   *)
(* they are.  The second part is about the pools: whose devices and CRs    *)
(* the process touches.                                                    *)
(***************************************************************************)
EXTENDS DeviceSafetyProofs

(* What the refinement mapping gives for the two variables of Ownership. *)
Guards == {n \in Steady : Exists(n) /\ kube[n].finalizer}
OwnerOf == [e \in EdgeNames |-> MadeFor(e)]

Mapped == [Protocol!Next]_(Protocol!ownVars)

LEMMA Stutters ==
  ASSUME Guards' = Guards, OwnerOf' = OwnerOf
  PROVE  Mapped
  BY DEF Mapped, Guards, OwnerOf, Protocol!ownVars

LEMMA Guarding ==
  ASSUME NEW n \in Steady, n \notin Guards, Guards' = Guards \cup {n}, OwnerOf' = OwnerOf
  PROVE  Mapped
<1>1. Protocol!Guard(n)
  BY DEF Guards, OwnerOf, Protocol!Guard
<1> QED
  BY <1>1 DEF Mapped, Protocol!Next

LEMMA Releasing ==
  ASSUME NEW n \in Steady, n \in Guards, OwnedBy(n) = {},
         Guards' = Guards \ {n}, OwnerOf' = OwnerOf
  PROVE  Mapped
<1>1. \A e \in EdgeNames : OwnerOf[e] # n
  BY SteadyNames, NamesAssumption DEF OwnedBy, OwnerOf, MadeFor
<1>2. Protocol!Release(n)
  BY <1>1 DEF Guards, OwnerOf, Protocol!Release
<1> QED
  BY <1>2 DEF Mapped, Protocol!Next

LEMMA Making ==
  ASSUME NEW n \in Steady, NEW e \in EdgeNames, n \in Guards, OwnerOf[e] = NoName,
         Guards' = Guards, OwnerOf' = [OwnerOf EXCEPT ![e] = n]
  PROVE  Mapped
<1>1. Protocol!Make(e, n)
  BY DEF Guards, OwnerOf, Protocol!Make
<1> QED
  BY <1>1 DEF Mapped, Protocol!Next

LEMMA Removing ==
  ASSUME NEW e \in EdgeNames, OwnerOf[e] # NoName,
         Guards' = Guards, OwnerOf' = [OwnerOf EXCEPT ![e] = NoName]
  PROVE  Mapped
<1>1. Protocol!Remove(e)
  BY DEF Guards, OwnerOf, Protocol!Remove
<1> QED
  BY <1>1 DEF Mapped, Protocol!Next

(***************************************************************************)
(* The API server.                                                         *)
(***************************************************************************)
(* Storing cr for n neither guards n nor lets it go.                       *)
KeepsGuard(n, cr) ==
  n \in Steady => (cr # NoCR /\ cr.finalizer <=> Exists(n) /\ kube[n].finalizer)

LEMMA StoreKeeps ==
  ASSUME IInv, NEW n \in KubeNames, NEW cr, NEW h, KeepsGuard(n, cr), Store(n, cr, h)
  PROVE  Guards' = Guards
<1>1. \A m \in KubeNames : kube'[m] = IF m = n THEN cr ELSE kube[m]
  BY KubeType DEF Store
<1> QED
  BY <1>1, SteadyNames DEF Guards, KeepsGuard, Exists

LEMMA SameGuards ==
  ASSUME UNCHANGED kube
  PROVE  Guards' = Guards
  BY DEF Guards, Exists

LEMMA ApiUnchangedKeeps ==
  ASSUME ApiUnchanged
  PROVE  Guards' = Guards
  BY SameGuards DEF ApiUnchanged

LEMMA PutKeeps ==
  ASSUME IInv, NEW n \in KubeNames, NEW cr, NEW h, KeepsGuard(n, cr),
         Put(n, cr, h) \/ PutLast(n, cr, h)
  PROVE  Guards' = Guards
  BY StoreKeeps, SameGuards DEF Put, PutLast, Forget

LEMMA DeleteKeeps ==
  ASSUME IInv, NEW n \in KubeNames, Exists(n), Delete(n)
  PROVE  Guards' = Guards
<1>1. kube[n] \in Device
  BY KubeType DEF Exists
<1>2. CASE ApiUnchanged
  BY <1>2, ApiUnchangedKeeps
<1>3. CASE kube[n].finalizer /\ Store(n, [kube[n] EXCEPT !.deleting = TRUE], {})
  <2>1. KeepsGuard(n, [kube[n] EXCEPT !.deleting = TRUE])
    BY <1>1, <1>3, DeviceFields, DeviceType, AbsenceAssumption DEF KeepsGuard, Exists
  <2> QED
    BY <1>3, <2>1, StoreKeeps
<1>4. CASE ~kube[n].finalizer /\ Store(n, NoCR, {})
  BY <1>4, StoreKeeps DEF KeepsGuard
<1> QED
  BY <1>2, <1>3, <1>4 DEF Delete

LEMMA CreateKeeps ==
  ASSUME IInv, NEW n \in KubeNames, NEW s, ~Exists(n), Create(n, s)
  PROVE  Guards' = Guards
  BY StoreKeeps DEF Create, KeepsGuard, NewDevice

LEMMA StatusKeeps ==
  ASSUME IInv, NEW n \in KubeNames, NEW s \in DeviceStatus, Exists(n)
  PROVE  KeepsGuard(n, WithStatus(n, s))
<1>1. kube[n] \in Device
  BY KubeType DEF Exists
<1>2. WithStatus(n, s) \in Device
  BY <1>1, DeviceType DEF WithStatus
<1> QED
  BY <1>1, <1>2, DeviceFields, AbsenceAssumption DEF KeepsGuard, Exists, WithStatus

(***************************************************************************)
(* The edge.                                                               *)
(***************************************************************************)
LEMMA SameOwners ==
  ASSUME UNCHANGED edge
  PROVE  OwnerOf' = OwnerOf
  BY DEF OwnerOf, MadeFor

(* A device whose state or values change keeps its owner.                  *)
LEMMA ChangeKeeps ==
  ASSUME IInv, NEW e \in EdgeNames, edge[e] # NoDevice,
         NEW d \in EdgeDevice, d.owner = edge[e].owner, edge' = [edge EXCEPT ![e] = d]
  PROVE  OwnerOf' = OwnerOf
  BY KubeType, AbsenceAssumption DEF OwnerOf, MadeFor

(* A device that goes had an owner, or changes nothing that Ownership sees. *)
LEMMA RemovalMapped ==
  ASSUME IInv, NEW e \in EdgeNames, edge' = [edge EXCEPT ![e] = NoDevice], Guards' = Guards
  PROVE  Mapped
<1>1. OwnerOf' = [OwnerOf EXCEPT ![e] = NoName]
  BY KubeType DEF OwnerOf, MadeFor
<1>2. CASE OwnerOf[e] = NoName
  <2>1. OwnerOf' = OwnerOf
    BY <1>1, <1>2 DEF OwnerOf
  <2> QED
    BY <2>1, Stutters
<1>3. CASE OwnerOf[e] # NoName
  BY <1>1, <1>3, Removing
<1> QED
  BY <1>2, <1>3

(***************************************************************************)
(* The actions.                                                            *)
(***************************************************************************)
LEMMA UserMapped ==
  ASSUME IInv, NEW n \in KubeNames, UserCreate(n) \/ UserUpdate(n) \/ UserDelete(n)
  PROVE  Mapped
<1>1. OwnerOf' = OwnerOf
  BY SameOwners DEF UserCreate, UserUpdate, UserDelete, UserStep
<1>2. Guards' = Guards
  <2>1. CASE UserCreate(n)
    BY <2>1, CreateKeeps DEF UserCreate, CanCreate
  <2>2. CASE UserUpdate(n)
    <3>1. PICK s \in UserSpecs[n] : Store(n, [kube[n] EXCEPT !.spec = s], {})
      BY <2>2 DEF UserUpdate
    <3>2. kube[n] \in Device
      BY <2>2, KubeType DEF UserUpdate, Exists
    <3>3. [kube[n] EXCEPT !.spec = s] \in Device
      BY <3>2, DeviceType, EnvironmentAssumption
    <3>4. KeepsGuard(n, [kube[n] EXCEPT !.spec = s])
      BY <2>2, <3>2, <3>3, DeviceFields, AbsenceAssumption DEF UserUpdate, KeepsGuard
    <3> QED
      BY <3>1, <3>4, StoreKeeps
  <2>3. CASE UserDelete(n)
    BY <2>3, DeleteKeeps DEF UserDelete
  <2> QED
    BY <2>1, <2>2, <2>3
<1> QED
  BY <1>1, <1>2, Stutters

LEMMA EdgeMapped ==
  ASSUME IInv, NEW e \in EdgeNames,
         AddEdgeDevice(e) \/ RemoveEdgeDevice(e) \/ ChangeEdgeDevice(e)
  PROVE  Mapped
<1>1. Guards' = Guards
  BY SameGuards DEF AddEdgeDevice, RemoveEdgeDevice, ChangeEdgeDevice, EdgeStep
<1>2. CASE AddEdgeDevice(e)
  <2>1. PICK s \in EdgeStates :
          edge' = [edge EXCEPT ![e] =
                    [adminState |-> s.adminState, operatingState |-> s.operatingState,
                     values |-> [p \in Props |-> DefaultValue], owner |-> NoName]]
    BY <1>2 DEF AddEdgeDevice
  <2>2. OwnerOf' = OwnerOf
    BY <1>2, <2>1, KubeType, SteadyNames, NamesAssumption DEF AddEdgeDevice, OwnerOf, MadeFor
  <2> QED
    BY <1>1, <2>2, Stutters
<1>3. CASE RemoveEdgeDevice(e)
  BY <1>1, <1>3, RemovalMapped DEF RemoveEdgeDevice
<1>4. CASE ChangeEdgeDevice(e)
  <2>1. edge[e] \in EdgeDevice /\ edge[e] # NoDevice
    BY <1>4, KubeType DEF ChangeEdgeDevice
  <2>2. CASE \E s \in EdgeStates :
               edge' = [edge EXCEPT ![e].adminState = s.adminState,
                                    ![e].operatingState = s.operatingState]
    <3>1. PICK s \in EdgeStates :
            edge' = [edge EXCEPT ![e] = [edge[e] EXCEPT !.adminState = s.adminState,
                                                        !.operatingState = s.operatingState]]
      BY <2>2, KubeType
    <3> DEFINE d == [edge[e] EXCEPT !.adminState = s.adminState,
                                    !.operatingState = s.operatingState]
    <3>2. s.adminState \in AdminStates /\ s.operatingState \in OperatingStates
      BY EnvironmentAssumption DEF Listed
    <3>3. d \in EdgeDevice /\ d.owner = edge[e].owner
      BY <2>1, <3>2 DEF EdgeDevice
    <3> QED
      BY <1>1, <2>1, <3>1, <3>3, ChangeKeeps, Stutters
  <2>3. CASE \E p \in Props, v \in Values : edge' = [edge EXCEPT ![e].values[p] = v]
    <3>1. PICK p \in Props, v \in Values :
            edge' = [edge EXCEPT ![e] = [edge[e] EXCEPT !.values[p] = v]]
      BY <2>3
    <3>2. /\ [edge[e] EXCEPT !.values[p] = v] \in EdgeDevice
          /\ [edge[e] EXCEPT !.values[p] = v].owner = edge[e].owner
      BY <2>1 DEF EdgeDevice
    <3> QED
      BY <1>1, <2>1, <3>1, <3>2, ChangeKeeps, Stutters
  <2> QED
    BY <1>4, <2>2, <2>3 DEF ChangeEdgeDevice
<1> QED
  BY <1>2, <1>3, <1>4

(* The finalizer patch guards a CR that was not guarded. *)
LEMMA AddFinalizerMapped ==
  ASSUME IInv, AddFinalizer
  PROVE  Mapped
<1>1. rec.key \in KubeNames /\ OwnerOf' = OwnerOf
  BY Busy, SameOwners DEF AddFinalizer
<1>2. CASE ApiUnchanged
  BY <1>1, <1>2, ApiUnchangedKeeps, Stutters
<1>3. CASE Exists(rec.key) /\ Patched([kube[rec.key] EXCEPT !.finalizer = TRUE])
  <2> DEFINE cr == [kube[rec.key] EXCEPT !.finalizer = TRUE]
  <2>1. kube[rec.key] \in Device
    BY <1>1, <1>3, KubeType DEF Exists
  <2>2. cr \in Device /\ cr.finalizer
    <3>1. TRUE \in BOOLEAN
      OBVIOUS
    <3> QED
      BY <2>1, <3>1, DeviceType, DeviceFields
  <2>3. cr # NoCR
    BY <2>2, AbsenceAssumption
  <2>4. CASE rec.key \in Guards \/ rec.key \notin Steady
    <3>1. KeepsGuard(rec.key, cr)
      BY <2>2, <2>3, <2>4 DEF KeepsGuard, Guards
    <3>2. Guards' = Guards
      BY <1>1, <1>3, <3>1, PutKeeps DEF Patched
    <3> QED
      BY <1>1, <3>2, Stutters
  <2>5. CASE rec.key \in Steady \ Guards
    <3>1. cr # kube[rec.key]
      BY <1>1, <1>3, <2>2, <2>5 DEF Guards
    <3>2. kube' = [kube EXCEPT ![rec.key] = cr]
      BY <1>3, <3>1 DEF Patched, Put, Store
    <3>3. Guards' = Guards \cup {rec.key}
      <4> HIDE DEF cr
      <4> QED
        BY <1>1, <2>2, <2>3, <2>5, <3>2, KubeType, SteadyNames DEF Guards, Exists
    <3> QED
      BY <1>1, <2>5, <3>3, Guarding
  <2> QED
    BY <2>4, <2>5
<1> QED
  BY <1>2, <1>3 DEF AddFinalizer

LEMMA DeleteDeviceMapped ==
  ASSUME IInv, DeleteDevice
  PROVE  Mapped
<1>1. target \in EdgeNames /\ Guards' = Guards
  BY Busy, ApiUnchangedKeeps DEF DeleteDevice
<1>2. edge' = [edge EXCEPT ![target] = NoDevice] \/ edge' = edge
  BY DEF DeleteDevice
<1> QED
  BY <1>1, <1>2, RemovalMapped, SameOwners, Stutters

(* The worker lets a CR go only when no device made for it is left; the CR *)
(* it finds under the name is always the deleted one, unless the name is   *)
(* one that is reused, whose guards Ownership does not see.                *)
LEMMA RemoveFinalizerMapped ==
  ASSUME IInv, RemoveFinalizer
  PROVE  Mapped
<1>1. /\ rec.key \in KubeNames /\ OwnerOf' = OwnerOf
      /\ rec.key \in Steady => OwnedBy(rec.key) = {}
  BY Busy, SameOwners DEF RemoveFinalizer, IInv, WorkerIsOfTheCR
<1>2. rec.key \in Steady /\ Exists(rec.key) => kube[rec.key].deleting /\ rec.key \in Guards
  BY <1>1 DEF RemoveFinalizer, IInv, WorkerIsOfTheCR, DeletingIsGuarded, Guards
<1>3. CASE ApiUnchanged
  BY <1>1, <1>3, ApiUnchangedKeeps, Stutters
<1>4. CASE rec.key \in Steady /\ Exists(rec.key) /\ Store(rec.key, NoCR, {})
  <2>1. Guards' = Guards \ {rec.key}
    BY <1>1, <1>4, KubeType, SteadyNames DEF Store, Guards, Exists
  <2> QED
    BY <1>1, <1>2, <1>4, <2>1, Releasing
<1>5. CASE rec.key \notin Steady
  <2>1. CASE Store(rec.key, NoCR, {})
    BY <1>1, <1>5, <2>1, StoreKeeps, Stutters DEF KeepsGuard
  <2>2. CASE Patched([kube[rec.key] EXCEPT !.finalizer = FALSE])
    BY <1>1, <1>5, <2>2, PutKeeps, Stutters DEF KeepsGuard, Patched
  <2> QED
    BY <1>3, <2>1, <2>2 DEF RemoveFinalizer
<1> QED
  BY <1>2, <1>3, <1>4, <1>5 DEF RemoveFinalizer

LEMMA CreateDeviceMapped ==
  ASSUME IInv, CreateDevice
  PROVE  Mapped
<1>1. rec.pc \in Working /\ Guards' = Guards
  BY ApiUnchangedKeeps DEF CreateDevice, Working
<1>2. rec.key \in KubeNames /\ target \in EdgeNames
  BY <1>1, Busy DEF Working
<1>3. rec.key \in Steady => rec.key \in Guards
  BY <1>1, WorkerGuarded DEF Guards
<1>4. CASE UNCHANGED edge
  BY <1>1, <1>4, SameOwners, Stutters
<1>5. CASE edge[target] = NoDevice /\ AddToEdge
  <2> DEFINE d == toEdgeXDevice(rec.d, rec.key)
  <2>1. d.owner = rec.key
    BY DEF toEdgeXDevice
  <2>2. d \in EdgeDevice
    BY <1>2, EdgeStatesType, DataAssumption DEF toEdgeXDevice, EdgeDevice
  <2>3. /\ OwnerOf[target] = NoName
        /\ rec.key \in Steady => OwnerOf' = [OwnerOf EXCEPT ![target] = rec.key]
        /\ rec.key \notin Steady => OwnerOf' = OwnerOf
    <3> HIDE DEF d
    <3>1. edge' = [edge EXCEPT ![target] = d]
      BY <1>5 DEF AddToEdge, d
    <3>2. d # NoDevice
      BY <2>2, AbsenceAssumption
    <3>3. \A e \in EdgeNames : edge'[e] = IF e = target THEN d ELSE edge[e]
      BY <3>1, <1>2, KubeType
    <3>4. OwnerOf[target] = NoName
      BY <1>2, <1>5 DEF OwnerOf, MadeFor
    <3>5. CASE rec.key \in Steady
      BY <1>2, <1>5, <2>1, <3>2, <3>3, <3>4, <3>5 DEF OwnerOf, MadeFor
    <3>6. CASE rec.key \notin Steady
      BY <1>2, <1>5, <2>1, <3>2, <3>3, <3>4, <3>6 DEF OwnerOf, MadeFor
    <3> QED
      BY <3>4, <3>5, <3>6
  <2> QED
    BY <1>1, <1>2, <1>3, <2>3, Making, Stutters
<1> QED
  BY <1>4, <1>5 DEF CreateDevice

LEMMA UpdateDeviceMapped ==
  ASSUME IInv, UpdateDevice
  PROVE  Mapped
<1>1. Guards' = Guards
  BY ApiUnchangedKeeps DEF UpdateDevice
<1>2. CASE UNCHANGED edge
  BY <1>1, <1>2, SameOwners, Stutters
<1>3. CASE PatchEdge /\ Addressed
  <2> DEFINE d == [edge[rec.key] EXCEPT
                     !.adminState = toEdgeXAdminState(wantedAdmin),
                     !.operatingState = toEdgeXOperatingState(wantedOperating)]
  <2>1. rec.key \in EdgeNames /\ edge[rec.key] # NoDevice /\ edge[rec.key] \in EdgeDevice
    BY <1>3, KubeType DEF Addressed
  <2>2. edge' = [edge EXCEPT ![rec.key] = d]
    BY <1>3, <2>1, KubeType DEF PatchEdge
  <2>3. d \in EdgeDevice /\ d.owner = edge[rec.key].owner
    BY <2>1, EdgeStatesType DEF EdgeDevice
  <2> QED
    BY <1>1, <2>1, <2>2, <2>3, ChangeKeeps, Stutters
<1> QED
  BY <1>2, <1>3 DEF UpdateDevice, PatchEdge

LEMMA UpdatePropertyStateMapped ==
  ASSUME IInv, UpdatePropertyState
  PROVE  Mapped
<1>1. Guards' = Guards
  BY ApiUnchangedKeeps DEF UpdatePropertyState
<1>2. CASE UNCHANGED edge
  BY <1>1, <1>2, SameOwners, Stutters
<1>3. CASE /\ Reachable(target)
           /\ edge' = [edge EXCEPT ![target].values[rec.property]
                         = rec.d.spec.desired[rec.property]]
  <2> DEFINE v == rec.d.spec.desired[rec.property]
             d == [edge[target] EXCEPT !.values[rec.property] = v]
  <2>1. target \in EdgeNames /\ rec.d.spec \in DeviceSpec
    BY BusyType, KubeType DEF UpdatePropertyState
  <2>2. rec.property \in desiredProperties
    BY DEF UpdatePropertyState, IInv, TypeInv, WorkerHasItsCR, Visiting
  <2>3. rec.property \in Props /\ v \in Values
    BY <2>1, <2>2 DEF desiredProperties, DeviceSpec
  <2>4. edge[target] # NoDevice /\ edge[target] \in EdgeDevice
    BY <1>3, <2>1, KubeType DEF Reachable
  <2>5. edge' = [edge EXCEPT ![target] = d]
    BY <1>3
  <2>6. d \in EdgeDevice /\ d.owner = edge[target].owner
    <3> HIDE DEF v
    <3> QED
      BY <2>3, <2>4 DEF EdgeDevice
  <2> QED
    BY <1>1, <2>1, <2>4, <2>5, <2>6, ChangeKeeps, Stutters
<1> QED
  BY <1>2, <1>3 DEF UpdatePropertyState

(* The requests of the worker that only write a status or only read.       *)
LEMMA QuietMapped ==
  ASSUME IInv,
         \/ GetDevice \/ WriteSynced \/ WriteStatus \/ Return
         \/ ReadProperty \/ getPropertyPut \/ \E p \in Props : GetPropertyState(p)
  PROVE  Mapped
<1>1. rec.pc \notin {"idle", "panicked"} /\ OwnerOf' = OwnerOf
  BY SameOwners DEF GetDevice, WriteSynced, WriteStatus, Return, GetPropertyState,
                    ReadProperty, getPropertyPut
<1>2. rec.key \in KubeNames /\ rec.d.status \in DeviceStatus /\ rec.newStatus \in DeviceStatus
  BY <1>1, Busy, DeviceType DEF Worker
<1>3. Guards' = Guards
  <2>1. CASE ApiUnchanged
    BY <2>1, ApiUnchangedKeeps
  <2>2. CASE Forget(rec.key, "reconciler")
    BY <2>2, SameGuards DEF Forget
  <2>3. CASE WriteSynced /\ StatusReply(rec.key, "reconciler") = "ok"
             /\ Put(rec.key, WithStatus(rec.key, rec.d.status), "reconciler")
    BY <1>2, <2>3, StatusKeeps, PutKeeps DEF StatusReply
  <2>4. CASE WriteStatus /\ StatusReply(rec.key, "reconciler") = "ok"
             /\ Put(rec.key, WithStatus(rec.key, rec.newStatus), "reconciler")
    BY <1>2, <2>4, StatusKeeps, PutKeeps DEF StatusReply
  <2>5. CASE Return /\ StatusReply(rec.key, "reconciler") = "ok"
             /\ PutLast(rec.key, WithStatus(rec.key, DeferredStatus), "reconciler")
    <3>1. DeferredStatus \in DeviceStatus
      BY <1>2, DeferredSynced
    <3> QED
      BY <1>2, <2>5, <3>1, StatusKeeps, PutKeeps DEF StatusReply
  <2> QED
    BY <2>1, <2>2, <2>3, <2>4, <2>5
       DEF GetDevice, WriteSynced, WriteStatus, Return, GetPropertyState, ReadProperty,
           getPropertyPut
<1> QED
  BY <1>1, <1>3, Stutters

LEMMA ReconcilerMapped ==
  ASSUME IInv, ReconcilerStep
  PROVE  Mapped
  BY AddFinalizerMapped, DeleteDeviceMapped, RemoveFinalizerMapped, CreateDeviceMapped,
     UpdateDeviceMapped, UpdatePropertyStateMapped, QuietMapped
  DEF ReconcilerStep

(* The syncer writes CRs, never their guards. *)
LEMMA SyncerMapped ==
  ASSUME IInv, NEW busy, SyncerStep(busy)
  PROVE  Mapped
<1>1. OwnerOf' = OwnerOf
  BY SameOwners DEF SyncerStep, ListEdgeDevices, ListKubeDevices, SyncEdgeToKube,
                    ListPropertiesState, ReadListedProperty, DeleteRedundant,
                    UpdateDeviceStatus
<1>2. Guards' = Guards
  <2>1. CASE \/ ListEdgeDevices \/ ListKubeDevices
             \/ \E n \in KubeNames : ListPropertiesState(n)
             \/ \E p \in Props : ReadListedProperty(p)
    BY <2>1, SameGuards DEF ListEdgeDevices, ListKubeDevices, ListPropertiesState,
                            ReadListedProperty, ApiUnchanged
  <2>2. CASE \E e \in EdgeNames : SyncEdgeToKube(e, busy)
    <3>1. PICK e \in EdgeNames : SyncEdgeToKube(e, busy)
      BY <2>2
    <3>2. SyncerName[e] \in KubeNames
      BY NamesAssumption
    <3> QED
      BY <3>1, <3>2, CreateKeeps, ApiUnchangedKeeps DEF SyncEdgeToKube, CanCreate
  <2>3. CASE \E n \in KubeNames : DeleteRedundant(n)
    BY <2>3, DeleteKeeps, ApiUnchangedKeeps DEF DeleteRedundant
  <2>4. ASSUME NEW n \in KubeNames, UpdateDeviceStatus(n)
        PROVE  Guards' = Guards
    <3>1. CASE Forget(n, "syncer")
      BY <3>1, SameGuards DEF Forget
    <3>2. CASE /\ UpdateReply(n) = "ok"
               /\ PutLast(n, WithStatus(n, syn.copy[n].status), "syncer")
      <4>1. Exists(n)
        BY <3>2 DEF UpdateReply, StatusReply
      <4>2. syn.copy[n] \in Copy
        BY <2>4, RoundType DEF UpdateDeviceStatus, IInv, TypeInv, RoundHasItsCopies, Round
      <4>3. syn.copy[n].status \in DeviceStatus
        BY <4>2 DEF Copy
      <4> QED
        BY <3>2, <4>1, <4>3, StatusKeeps, PutKeeps
    <3> QED
      BY <2>4, <3>1, <3>2 DEF UpdateDeviceStatus
  <2> QED
    BY <2>1, <2>2, <2>3, <2>4 DEF SyncerStep
<1> QED
  BY <1>1, <1>2, Stutters

LEMMA StepMapped ==
  ASSUME IInv, [Next]_vars
  PROVE  Mapped
<1>1. CASE Environment
  BY <1>1, UserMapped, EdgeMapped DEF Environment
<1>2. CASE \/ \E n \in KubeNames : TakeKey(n) \/ WatchDelivers(n) \/ WatchBreaks(n)
           \/ InformerResyncs \/ Restart \/ UNCHANGED vars
  BY <1>2, SameGuards, SameOwners, Stutters
     DEF TakeKey, Reconcile, WatchDelivers, Deliver, WatchBreaks, Relist,
         InformerResyncs, Resync, Restart, vars, clusterVars
<1>3. CASE ReconcilerRuns
  BY <1>3, ReconcilerMapped DEF ReconcilerRuns
<1>4. CASE SyncerRuns
  BY <1>4, SyncerMapped DEF SyncerRuns
<1> QED
  BY <1>1, <1>2, <1>3, <1>4 DEF Next

LEMMA InitMapped ==
  ASSUME Init
  PROVE  Protocol!Init
  BY SteadyNames DEF Init, ClusterInit, Protocol!Init, Exists, MadeFor

(* The controller implements the finalizer protocol: a device is made only *)
(* for a guarded CR, and the guard is given up only when no device made    *)
(* for that CR is left, whatever users, operators, the syncer, failures    *)
(* and restarts do in between.                                             *)
THEOREM ProtocolImplemented == Spec => ImplementsOwnership
<1>1. Init => Protocol!Init
  BY InitMapped
<1>2. IInv /\ [Next]_vars => [Protocol!Next]_(Protocol!ownVars)
  BY StepMapped DEF Mapped
<1> QED
  BY <1>1, <1>2, Invariance, PTL DEF Spec, ImplementsOwnership, Protocol!Spec

(***************************************************************************)
(* The process serves one pool: it changes no CR of another pool and makes *)
(* no device for one.  It knows the pool of a CR from the cache or from a  *)
(* list that may be old; what makes that enough is that a CR keeps its     *)
(* pool, and that a name it works on is not used for another CR (so it is  *)
(* said of Steady names only).                                             *)
(***************************************************************************)
InPool(n) == n \in Steady /\ Exists(n) => kube[n].spec.nodePool = NodePool

CachePools ==
  \A n \in Steady :
    cache[n] # NoCR /\ Exists(n) => kube[n].spec.nodePool = cache[n].spec.nodePool

WorkerPools == rec.key # NoName => rec.key \in KubeNames /\ InPool(rec.key)

(* A CR the round will delete is of the pool, and one it will update as    *)
(* long as the update can succeed.                                         *)
RoundPools ==
  \A n \in KubeNames :
    /\ n \in syn.redundantKube => InPool(n)
    /\ n \in syn.synced /\ "syncer" \in current[n] => InPool(n)

PoolInv == CachePools /\ WorkerPools /\ RoundPools

(***************************************************************************)
(* What a step may do to the CRs.                                          *)
(***************************************************************************)
PoolKept(n) ==
  /\ Exists(n) /\ kube'[n] # NoCR => kube'[n].spec.nodePool = kube[n].spec.nodePool
  /\ n \in Steady /\ ~Exists(n) /\ kube'[n] # NoCR =>
       /\ cache[n] = NoCR /\ n # rec.key
       /\ n \in syn.redundantKube => kube'[n].spec.nodePool = NodePool

PoolsStay ==
  \A n \in KubeNames :
    Exists(n) /\ kube'[n] # NoCR => kube'[n].spec.nodePool = kube[n].spec.nodePool

SyncerOutdated ==
  \A n \in KubeNames :
    "syncer" \in current'[n] => "syncer" \in current[n] /\ kube'[n] = kube[n]

LessToDo ==
  /\ syn'.redundantKube \subseteq syn.redundantKube
  /\ syn'.synced \subseteq syn.synced

LEMMA PoolStep ==
  ASSUME PoolInv, \A n \in KubeNames : PoolKept(n), SyncerOutdated, LessToDo,
         UNCHANGED cache, rec'.key \in {rec.key, NoName}
  PROVE  PoolsStay /\ PoolInv'
<1>1. CachePools'
  BY SteadyNames DEF PoolInv, CachePools, PoolKept, Exists
<1>2. WorkerPools'
  BY SteadyNames DEF PoolInv, WorkerPools, PoolKept, InPool, Exists
<1>3. RoundPools'
  BY DEF PoolInv, RoundPools, PoolKept, SyncerOutdated, LessToDo, InPool, Exists
<1> QED
  BY <1>1, <1>2, <1>3 DEF PoolInv, PoolKept, PoolsStay

(* A write to n by someone who knows that n exists. *)
WritesOnly(n) ==
  /\ \A m \in KubeNames : m # n => kube'[m] = kube[m]
  /\ kube'[n] # NoCR => Exists(n) /\ kube'[n].spec.nodePool = kube[n].spec.nodePool
  /\ SyncerOutdated

LEMMA SameWrites ==
  ASSUME UNCHANGED <<kube, current>>, NEW n
  PROVE  WritesOnly(n)
  BY DEF WritesOnly, SyncerOutdated, Exists

LEMMA StoreWrites ==
  ASSUME TypeInv, NEW n \in KubeNames, NEW cr,
         cr # NoCR => Exists(n) /\ cr.spec.nodePool = kube[n].spec.nodePool,
         NEW h \in SUBSET {"reconciler"}, Store(n, cr, h)
  PROVE  WritesOnly(n)
<1>1. \A m \in KubeNames : /\ kube'[m] = IF m = n THEN cr ELSE kube[m]
                           /\ current'[m] = IF m = n THEN h ELSE current[m]
  BY Typed DEF Store
<1> QED
  BY <1>1 DEF WritesOnly, SyncerOutdated, Exists

LEMMA ForgetWrites ==
  ASSUME TypeInv, NEW n \in KubeNames, NEW h, Forget(n, h)
  PROVE  WritesOnly(n)
  BY Typed DEF Forget, WritesOnly, SyncerOutdated, Exists

LEMMA PutWrites ==
  ASSUME TypeInv, NEW n \in KubeNames, NEW cr,
         Exists(n), cr.spec.nodePool = kube[n].spec.nodePool,
         Put(n, cr, "reconciler") \/ \E h : PutLast(n, cr, h)
  PROVE  WritesOnly(n)
<1>1. CASE Put(n, cr, "reconciler") /\ cr = kube[n]
  BY <1>1, Typed DEF Put, WritesOnly, SyncerOutdated, Exists
<1>2. CASE Put(n, cr, "reconciler") /\ cr # kube[n]
  BY <1>2, StoreWrites DEF Put
<1>3. CASE \E h : PutLast(n, cr, h)
  BY <1>3, StoreWrites, ForgetWrites DEF PutLast
<1> QED
  BY <1>1, <1>2, <1>3

LEMMA StatusWrites ==
  ASSUME TypeInv, NEW n \in KubeNames, NEW s, Exists(n),
         Put(n, WithStatus(n, s), "reconciler") \/ \E h : PutLast(n, WithStatus(n, s), h)
  PROVE  WritesOnly(n)
<1>1. kube[n] \in Device
  BY Typed DEF Exists
<1>2. WithStatus(n, s).spec = kube[n].spec
  BY <1>1, DeviceFields DEF WithStatus
<1> QED
  BY <1>2, PutWrites

LEMMA DeleteWrites ==
  ASSUME TypeInv, NEW n \in KubeNames, Exists(n), Delete(n)
  PROVE  WritesOnly(n)
<1>1. kube[n] \in Device
  BY Typed DEF Exists
<1>2. CASE ApiUnchanged
  BY <1>2, SameWrites DEF ApiUnchanged
<1>3. CASE Store(n, [kube[n] EXCEPT !.deleting = TRUE], {})
  <2> DEFINE marked == [kube[n] EXCEPT !.deleting = TRUE]
  <2>1. marked.spec = kube[n].spec
    BY <1>1, DeviceFields
  <2>2. Store(n, marked, {})
    BY <1>3
  <2> HIDE DEF marked
  <2> QED
    BY <2>1, <2>2, StoreWrites
<1>4. CASE Store(n, NoCR, {})
  BY <1>4, StoreWrites
<1> QED
  BY <1>2, <1>3, <1>4 DEF Delete

(* A step that writes one CR of the pool, or none, leaves the others alone. *)
Untouched ==
  \A n \in Steady : Exists(n) /\ kube[n].spec.nodePool # NodePool =>
    /\ kube'[n] = kube[n]
    /\ OwnedBy(n)' \subseteq OwnedBy(n)

LEMMA WritesKeep ==
  ASSUME NEW n, WritesOnly(n)
  PROVE  \A m \in KubeNames : PoolKept(m)
  BY DEF WritesOnly, PoolKept, Exists

(***************************************************************************)
(* The worker.                                                             *)
(***************************************************************************)
LEMMA WorkerKeeps ==
  ASSUME TypeInv, PoolInv, rec.pc \notin {"idle", "panicked"}, WritesOnly(rec.key),
         UNCHANGED <<cache, syn>>, rec'.key \in {rec.key, NoName},
         \A n \in KubeNames : n # rec.key => OwnedBy(n)' \subseteq OwnedBy(n)
  PROVE  Untouched /\ PoolsStay /\ PoolInv'
<1>1. PoolsStay /\ PoolInv'
  BY WritesKeep, PoolStep DEF WritesOnly, LessToDo
<1>2. rec.key \in KubeNames /\ InPool(rec.key)
  BY Typed, NamesAssumption DEF PoolInv, WorkerPools
<1>3. Untouched
  BY <1>2, SteadyNames DEF Untouched, InPool, WritesOnly
<1> QED
  BY <1>1, <1>3

LEMMA KeyKept ==
  ASSUME rec \in Worker
  PROVE  /\ \A r : Finish(r) => rec'.key = rec.key
         /\ \A s, r : FinishWith(s, r) => rec'.key = rec.key
         /\ \A b : Found(b) => rec'.key = rec.key
         /\ \A cr : Patched(cr) => rec'.key = rec.key
         /\ \A p, s, made, failed : NextProperty(p, s, made, failed) => rec'.key = rec.key
         /\ \A p, entry : GotProperty(p, entry) => rec'.key = rec.key
         /\ NotSet => rec'.key = rec.key
         /\ AfterPatch => rec'.key = rec.key
         /\ Panic => rec'.key = rec.key
<1>1. \A r : Finish(r) => rec'.key = rec.key
  BY DEF Finish, Worker
<1>2. \A s, r : FinishWith(s, r) => rec'.key = rec.key
  BY DEF FinishWith, Worker
<1>3. \A b : Found(b) => rec'.key = rec.key
  BY DEF Found, Worker
<1>4. \A cr : Patched(cr) => rec'.key = rec.key
  BY DEF Patched, Worker
<1>5. \A p, s, made, failed : NextProperty(p, s, made, failed) => rec'.key = rec.key
  BY DEF NextProperty, Worker
<1>6. \A p, entry : GotProperty(p, entry) => rec'.key = rec.key
  BY <1>5 DEF GotProperty, Worker
<1>7. (AfterPatch => rec'.key = rec.key) /\ (Panic => rec'.key = rec.key)
  BY DEF AfterPatch, Panic, Worker
<1>8. NotSet => rec'.key = rec.key
  BY <1>5 DEF NotSet
<1> QED
  BY <1>1, <1>2, <1>3, <1>4, <1>5, <1>6, <1>7, <1>8

LEMMA FinalizerPools ==
  ASSUME TypeInv, PoolInv, AddFinalizer \/ RemoveFinalizer, UNCHANGED syn
  PROVE  Untouched /\ PoolsStay /\ PoolInv'
<1>1. /\ rec.pc \notin {"idle", "panicked"} /\ UNCHANGED <<cache, edge>>
      /\ rec \in Worker /\ rec.key \in KubeNames
  BY Typed DEF AddFinalizer, RemoveFinalizer
<1>2. rec'.key = rec.key
  BY <1>1, KeyKept DEF AddFinalizer, RemoveFinalizer
<1>3. WritesOnly(rec.key)
  <2>1. CASE ApiUnchanged
    BY <2>1, SameWrites DEF ApiUnchanged
  <2>2. CASE Store(rec.key, NoCR, {})
    BY <1>1, <2>2, StoreWrites
  <2>3. CASE Exists(rec.key) /\ \E b : Patched([kube[rec.key] EXCEPT !.finalizer = b])
    <3>1. PICK b : Patched([kube[rec.key] EXCEPT !.finalizer = b])
      BY <2>3
    <3>2. [kube[rec.key] EXCEPT !.finalizer = b].spec = kube[rec.key].spec
      BY <1>1, <2>3, Typed, DeviceFields DEF Exists
    <3> QED
      BY <1>1, <2>3, <3>1, <3>2, PutWrites DEF Patched
  <2> QED
    BY <2>1, <2>2, <2>3 DEF AddFinalizer, RemoveFinalizer
<1> QED
  BY <1>1, <1>2, <1>3, WorkerKeeps DEF OwnedBy

(* The requests of the worker to EdgeX. *)
LEMMA EdgeRequestPools ==
  ASSUME TypeInv, PoolInv, UNCHANGED syn,
         \/ DeleteDevice \/ GetDevice \/ CreateDevice \/ UpdateDevice
         \/ ReadProperty \/ getPropertyPut \/ UpdatePropertyState
         \/ \E p \in Props : GetPropertyState(p)
  PROVE  Untouched /\ PoolsStay /\ PoolInv'
<1>1. /\ rec.pc \notin {"idle", "panicked"} /\ UNCHANGED cache /\ ApiUnchanged
      /\ rec \in Worker /\ rec.key \in KubeNames /\ target \in EdgeNames
  BY Typed DEF DeleteDevice, GetDevice, CreateDevice, UpdateDevice, UpdatePropertyState,
              GetPropertyState, ReadProperty, getPropertyPut
<1>2. WritesOnly(rec.key)
  BY <1>1, SameWrites DEF ApiUnchanged
<1>3. rec'.key = rec.key
  <2>1. CASE DeleteDevice
    BY <1>1, <2>1, KeyKept DEF DeleteDevice, Worker
  <2>2. CASE GetDevice
    BY <1>1, <2>2, KeyKept DEF GetDevice, Worker
  <2>3. CASE CreateDevice
    BY <1>1, <2>3, KeyKept DEF CreateDevice, CreateFailed
  <2>4. CASE UpdateDevice
    BY <1>1, <2>4, KeyKept DEF UpdateDevice, UpdateFailed
  <2>5. CASE UpdatePropertyState
    BY <1>1, <2>5, KeyKept DEF UpdatePropertyState
  <2>6. CASE \E p \in Props : GetPropertyState(p)
    <3>1. PICK p \in Props : GetPropertyState(p)
      BY <2>6
    <3>2. CASE rec' = [rec EXCEPT !.pc = "readProperty", !.property = p]
      BY ONLY <1>1, <3>2 DEF Worker
    <3> QED
      BY <1>1, <3>1, <3>2, KeyKept DEF GetPropertyState, ReadFailed
  <2>7. CASE ReadProperty
    BY <1>1, <2>7, KeyKept DEF ReadProperty, ReadFailed
  <2>8. CASE getPropertyPut
    <3>1. CASE rec' = [rec EXCEPT !.pc = "putProperty"]
      BY ONLY <1>1, <3>1 DEF Worker
    <3> QED
      BY <1>1, <2>8, <3>1, KeyKept DEF getPropertyPut
  <2> QED
    BY <2>1, <2>2, <2>3, <2>4, <2>5, <2>6, <2>7, <2>8
<1>4. ASSUME NEW n \in KubeNames, n # rec.key
      PROVE  OwnedBy(n)' \subseteq OwnedBy(n)
  <2>1. CASE UNCHANGED edge
    BY <2>1 DEF OwnedBy
  <2>2. CASE edge' = [edge EXCEPT ![target] = NoDevice]
    BY <1>1, <2>2, Typed DEF OwnedBy
  <2>3. CASE AddToEdge
    <3>1. toEdgeXDevice(rec.d, rec.key).owner = rec.key
      BY DEF toEdgeXDevice
    <3> QED
      BY <1>1, <1>4, <2>3, <3>1, Typed DEF AddToEdge, OwnedBy
  <2>4. CASE PatchEdge
    BY <2>4, PatchKeepsOwner DEF OwnersKept
  <2>5. CASE UpdatePropertyState /\ ~UNCHANGED edge
    <3>1. rec.property \in Props
      BY <2>5 DEF UpdatePropertyState, TypeInv, WorkerHasItsCR, Visiting, desiredProperties
    <3>2. Reachable(target) /\ edge' = [edge EXCEPT ![target].values[rec.property] =
                                          rec.d.spec.desired[rec.property]]
      BY <2>5 DEF UpdatePropertyState
    <3> QED
      BY <1>1, <3>1, <3>2, SetKeepsOwner DEF Reachable, OwnersKept
  <2> QED
    BY <2>1, <2>2, <2>3, <2>4, <2>5
       DEF DeleteDevice, GetDevice, CreateDevice, UpdateDevice, GetPropertyState,
           ReadProperty, getPropertyPut
<1> QED
  BY <1>1, <1>2, <1>3, <1>4, WorkerKeeps

LEMMA StatusPools ==
  ASSUME TypeInv, PoolInv, WriteSynced \/ WriteStatus \/ Return, UNCHANGED syn
  PROVE  Untouched /\ PoolsStay /\ PoolInv'
<1>1. /\ rec.pc \notin {"idle", "panicked"} /\ UNCHANGED <<cache, edge>>
      /\ rec \in Worker /\ rec.key \in KubeNames
  BY Typed DEF WriteSynced, WriteStatus, Return
<1>2. rec'.key \in {rec.key, NoName}
  <2>1. CASE WriteSynced
    BY <1>1, <2>1, KeyKept DEF WriteSynced
  <2>2. CASE WriteStatus
    BY <1>1, <2>2, KeyKept DEF WriteStatus
  <2>3. CASE Return
    BY <2>3 DEF Return, LeftWorker, IdleWorker
  <2> QED
    BY <2>1, <2>2, <2>3
<1>3. WritesOnly(rec.key)
  <2>1. CASE ApiUnchanged
    BY <2>1, SameWrites DEF ApiUnchanged
  <2>2. CASE Forget(rec.key, "reconciler")
    BY <1>1, <2>2, ForgetWrites
  <2>3. CASE /\ StatusReply(rec.key, "reconciler") = "ok"
             /\ \E s : \/ Put(rec.key, WithStatus(rec.key, s), "reconciler")
                       \/ PutLast(rec.key, WithStatus(rec.key, s), "reconciler")
    BY <1>1, <2>3, StatusWrites DEF StatusReply
  <2> QED
    BY <2>1, <2>2, <2>3 DEF WriteSynced, WriteStatus, Return
<1> QED
  BY <1>1, <1>2, <1>3, WorkerKeeps DEF OwnedBy

LEMMA ReconcilerPools ==
  ASSUME TypeInv, PoolInv, ReconcilerStep, UNCHANGED syn
  PROVE  Untouched /\ PoolsStay /\ PoolInv'
  BY FinalizerPools, EdgeRequestPools, StatusPools DEF ReconcilerStep

(* The worker takes up only what the cache says is of the pool.            *)
LEMMA TakeKeyPools ==
  ASSUME TypeInv, PoolInv, NEW n \in KubeNames, Reconcile(n), UNCHANGED syn
  PROVE  Untouched /\ PoolsStay /\ PoolInv'
<1>1. UNCHANGED <<kube, cache, edge>>
  BY DEF Reconcile
<1>2. Untouched
  BY <1>1, SteadyNames DEF Untouched, OwnedBy
<1>3. CachePools'
  BY <1>1, SteadyNames DEF PoolInv, CachePools, Exists
<1>4. \A m \in KubeNames : "syncer" \in current'[m] => "syncer" \in current[m]
  BY Typed DEF Reconcile, ReadFromCache
<1>5. RoundPools'
  BY <1>1, <1>4 DEF PoolInv, RoundPools, InPool, Exists
<1>6. WorkerPools'
  <2>1. CASE UNCHANGED rec
    BY <1>1, <2>1 DEF PoolInv, WorkerPools, InPool, Exists
  <2>2. CASE /\ Handles(n)
             /\ rec' = [IdleWorker EXCEPT !.pc = FirstRequest(cache[n]),
                                          !.key = n, !.d = cache[n]]
    <3>1. rec'.key = n
      BY <2>2 DEF IdleWorker
    <3>2. InPool(n)
      BY <2>2 DEF Handles, PoolInv, CachePools, InPool
    <3> QED
      BY <1>1, <3>1, <3>2 DEF WorkerPools, InPool, Exists
  <2> QED
    BY <2>1, <2>2 DEF Reconcile
<1> QED
  BY <1>1, <1>2, <1>3, <1>5, <1>6 DEF PoolInv, PoolsStay

(***************************************************************************)
(* The syncer.                                                             *)
(***************************************************************************)
(* A step of the syncer that leaves the CRs alone.                         *)
LEMMA SyncerReads ==
  ASSUME PoolInv, UNCHANGED <<kube, cache, edge, rec>>, SyncerOutdated, LessToDo
  PROVE  Untouched /\ PoolsStay /\ PoolInv'
<1>1. \A n \in KubeNames : PoolKept(n)
  BY DEF PoolKept, Exists
<1> QED
  BY <1>1, PoolStep, SteadyNames DEF Untouched, OwnedBy

(* A write of the syncer to one CR of the pool. *)
LEMMA SyncerWrites ==
  ASSUME PoolInv, NEW n \in KubeNames, InPool(n), WritesOnly(n),
         UNCHANGED <<cache, edge, rec>>, LessToDo
  PROVE  Untouched /\ PoolsStay /\ PoolInv'
<1>1. PoolsStay /\ PoolInv'
  BY WritesKeep, PoolStep DEF WritesOnly
<1>2. Untouched
  BY SteadyNames DEF Untouched, InPool, WritesOnly, OwnedBy
<1> QED
  BY <1>1, <1>2

(* What a round goes on with. *)
LEMMA ContinueLess ==
  ASSUME NEW r, r.redundantKube \subseteq syn.redundantKube, r.synced \subseteq syn.synced,
         Continue(r)
  PROVE  LessToDo
  BY DEF Continue, IdleRound, LessToDo

LEMMA ListEdgeDevicesPools ==
  ASSUME TypeInv, PoolInv, ListEdgeDevices, UNCHANGED rec
  PROVE  Untouched /\ PoolsStay /\ PoolInv'
<1>1. LessToDo
  <2>1. \/ \E listed : syn' = [syn EXCEPT !.pc = "listed", !.edgeDevices = listed]
        \/ syn' = [syn EXCEPT !.pc = "listed"]
        \/ syn' = syn
    BY DEF ListEdgeDevices
  <2> QED
    BY <2>1, Typed DEF Round, LessToDo
<1> QED
  BY <1>1, SyncerReads DEF ListEdgeDevices, ApiUnchanged, SyncerOutdated

LEMMA ListKubeDevicesPools ==
  ASSUME TypeInv, PoolInv, ListKubeDevices, UNCHANGED rec
  PROVE  Untouched /\ PoolsStay /\ PoolInv'
<1>1. UNCHANGED <<kube, cache, edge>>
  BY DEF ListKubeDevices
<1>2. PICK S \in Representatives :
        \E r : /\ r.redundantKube \subseteq S /\ r.synced \subseteq S
               /\ Continue(r)
  <2>1. PICK S \in Representatives :
          LET both == {n \in S : OnEdge(n)}
              missing == {e \in EdgeNames : /\ syn.edgeDevices[e] # NoDevice
                                            /\ \A n \in S : GetEdgeDeviceName(cache[n]) # e}
          IN  Continue([syn EXCEPT
                  !.pc = "apply",
                  !.redundantEdge = missing,
                  !.edgeDevices = [e \in EdgeNames |->
                                     IF e \in missing THEN @[e] ELSE NoDevice],
                  !.redundantKube = {n \in S : cache[n].status.synced /\ ~OnEdge(n)},
                  !.toRead = IF Props = {} THEN {} ELSE both, !.synced = both,
                  !.copy = [n \in KubeNames |->
                              IF n \in both THEN completeUpdateContent(n) ELSE NoCR]])
    BY DEF ListKubeDevices
  <2> DEFINE both == {n \in S : OnEdge(n)}
             missing == {e \in EdgeNames : /\ syn.edgeDevices[e] # NoDevice
                                           /\ \A n \in S : GetEdgeDeviceName(cache[n]) # e}
             kept == [e \in EdgeNames |-> IF e \in missing THEN syn.edgeDevices[e] ELSE NoDevice]
             copies == [n \in KubeNames |->
                          IF n \in both THEN completeUpdateContent(n) ELSE NoCR]
             gone == {n \in S : cache[n].status.synced /\ ~OnEdge(n)}
             reads == IF Props = {} THEN {} ELSE both
             r == [syn EXCEPT !.pc = "apply", !.redundantEdge = missing, !.edgeDevices = kept,
                              !.redundantKube = gone, !.toRead = reads, !.synced = both,
                              !.copy = copies]
  <2>2. Continue(r)
    BY <2>1, Typed, Zenon DEF Round
  <2>3. both \subseteq S /\ gone \subseteq S
    OBVIOUS
  <2>4. r.redundantKube = gone /\ r.synced = both
    <3> HIDE DEF missing, both, gone, reads, kept, copies
    <3> QED
      BY Typed DEF Round
  <2> HIDE DEF r, both, gone
  <2> QED
    BY <2>2, <2>3, <2>4
<1>3. \A n \in S : n \in KubeNames /\ InPool(n)
  BY DEF Representatives, OwnCRs, PoolInv, CachePools, InPool
<1>4. syn'.redundantKube \subseteq S /\ syn'.synced \subseteq S
  BY <1>2 DEF Continue, IdleRound
<1>5. RoundPools'
  BY <1>1, <1>3, <1>4 DEF RoundPools, InPool, Exists
<1>6. CachePools' /\ WorkerPools'
  BY <1>1, SteadyNames DEF PoolInv, CachePools, WorkerPools, InPool, Exists
<1> QED
  BY <1>1, <1>5, <1>6, SteadyNames DEF PoolInv, PoolsStay, Untouched, OwnedBy

(* The reads change the copies of a round, not what it has to write.       *)
LEMMA ReadingPools ==
  ASSUME TypeInv, PoolInv, UNCHANGED <<kube, cache, current, edge, rec>>,
         NEW T, NEW m, NEW U, NEW C,
         syn' = [syn EXCEPT !.toRead = T, !.reading = m, !.unread = U, !.copy = C]
  PROVE  Untouched /\ PoolsStay /\ PoolInv'
<1>1. LessToDo
  BY Typed DEF Round, LessToDo
<1> QED
  BY <1>1, SyncerReads DEF SyncerOutdated

LEMMA ListPropertiesStatePools ==
  ASSUME TypeInv, PoolInv, UNCHANGED rec,
         \/ \E n \in KubeNames : ListPropertiesState(n)
         \/ \E p \in Props : ReadListedProperty(p)
  PROVE  Untouched /\ PoolsStay /\ PoolInv'
<1>1. UNCHANGED <<kube, cache, current, edge, rec>>
  BY DEF ListPropertiesState, ReadListedProperty, ApiUnchanged
<1>2. ASSUME NEW n \in KubeNames, ListPropertiesState(n)
      PROVE  \E T, m, U, C :
               syn' = [syn EXCEPT !.toRead = T, !.reading = m, !.unread = U, !.copy = C]
  <2>1. PICK props \in SUBSET Props :
          syn' = [syn EXCEPT
                   !.toRead = IF props = {} THEN @ \ {n} ELSE @,
                   !.reading = IF props = {} THEN NoName ELSE n,
                   !.unread = props,
                   !.copy[n].status.deviceProperties =
                      [p \in Props |-> IF p \in props THEN "" ELSE "no entry"]]
    BY <1>2, DataAssumption DEF ListPropertiesState
  <2> QED
    BY ONLY <2>1
<1>3. ASSUME NEW p \in Props, ReadListedProperty(p)
      PROVE  \E T, m, U, C :
               syn' = [syn EXCEPT !.toRead = T, !.reading = m, !.unread = U, !.copy = C]
  <2>1. PICK value :
          syn' = [syn EXCEPT
                   !.toRead = IF syn.unread = {p} THEN @ \ {syn.reading} ELSE @,
                   !.reading = IF syn.unread = {p} THEN NoName ELSE syn.reading,
                   !.unread = @ \ {p},
                   !.copy[syn.reading].status.deviceProperties[p] = value]
    BY <1>3 DEF ReadListedProperty
  <2> QED
    BY ONLY <2>1
<1> QED
  BY <1>1, <1>2, <1>3, ReadingPools

(* The CR that the syncer makes is of the pool, under a name nobody works  *)
(* on in the process.                                                      *)
LEMMA SyncEdgeToKubePools ==
  ASSUME TypeInv, PoolInv, NEW e \in EdgeNames, SyncEdgeToKube(e, {rec.key}),
         UNCHANGED rec
  PROVE  Untouched /\ PoolsStay /\ PoolInv'
<1>1. LessToDo
  <2>1. PICK R : Continue([syn EXCEPT !.redundantEdge = R])
    BY DEF SyncEdgeToKube
  <2>2. /\ [syn EXCEPT !.redundantEdge = R].redundantKube = syn.redundantKube
        /\ [syn EXCEPT !.redundantEdge = R].synced = syn.synced
    BY Typed DEF Round
  <2> QED
    BY <2>1, <2>2, ContinueLess
<1>2. UNCHANGED <<cache, edge>>
  BY DEF SyncEdgeToKube
<1>3. CASE ApiUnchanged
  BY <1>1, <1>2, <1>3, SyncerReads DEF ApiUnchanged, SyncerOutdated
<1>4. CASE /\ CanCreate(SyncerName[e], {rec.key})
           /\ Create(SyncerName[e], completeCreateContent(e))
  <2> DEFINE n == SyncerName[e]
             cr == NewDevice(completeCreateContent(e))
  <2>1. n \in KubeNames /\ ~Exists(n) /\ (n \in Steady => cache[n] = NoCR /\ n # rec.key)
    BY <1>4, NamesAssumption DEF CanCreate, Steady
  <2>2. cr.spec.nodePool = NodePool
    BY DEF NewDevice, completeCreateContent
  <2>3. Store(n, cr, {})
    BY <1>4 DEF Create
  <2> HIDE DEF n, cr
  <2>4. \A m \in KubeNames : /\ kube'[m] = IF m = n THEN cr ELSE kube[m]
                             /\ current'[m] = IF m = n THEN {} ELSE current[m]
    BY <2>3, Typed DEF Store
  <2>5. \A m \in KubeNames : PoolKept(m)
    BY <2>1, <2>2, <2>4 DEF PoolKept, Exists
  <2>6. SyncerOutdated
    BY <2>4 DEF SyncerOutdated
  <2>7. Untouched
    BY <1>2, <2>1, <2>4, SteadyNames DEF Untouched, OwnedBy
  <2> QED
    BY <1>1, <1>2, <2>5, <2>6, <2>7, PoolStep
<1> QED
  BY <1>3, <1>4 DEF SyncEdgeToKube

LEMMA DeleteRedundantPools ==
  ASSUME TypeInv, PoolInv, NEW n \in KubeNames, DeleteRedundant(n), UNCHANGED rec
  PROVE  Untouched /\ PoolsStay /\ PoolInv'
<1>1. LessToDo
  <2>1. PICK K \in SUBSET syn.redundantKube : Continue([syn EXCEPT !.redundantKube = K])
    BY DEF DeleteRedundant
  <2>2. /\ [syn EXCEPT !.redundantKube = K].redundantKube = K
        /\ [syn EXCEPT !.redundantKube = K].synced = syn.synced
    BY Typed DEF Round
  <2> QED
    BY <2>1, <2>2, ContinueLess
<1>2. InPool(n) /\ UNCHANGED <<cache, edge>>
  BY DEF DeleteRedundant, PoolInv, RoundPools
<1>3. WritesOnly(n)
  BY DeleteWrites, SameWrites DEF DeleteRedundant, ApiUnchanged
<1> QED
  BY <1>1, <1>2, <1>3, SyncerWrites

(* A copy is written only over the CR it was read from. *)
LEMMA UpdateDeviceStatusPools ==
  ASSUME TypeInv, PoolInv, NEW n \in KubeNames, UpdateDeviceStatus(n), UNCHANGED rec
  PROVE  Untouched /\ PoolsStay /\ PoolInv'
<1>1. LessToDo
  <2>1. PICK names : Updated(names)
    BY DEF UpdateDeviceStatus
  <2> DEFINE copies == [m \in KubeNames |-> IF m \in names THEN NoCR ELSE syn.copy[m]]
             rest == syn.synced \ names
             r == [syn EXCEPT !.synced = rest, !.copy = copies]
  <2>2. Continue(r)
    BY <2>1 DEF Updated
  <2>3. r.redundantKube = syn.redundantKube /\ r.synced = rest
    <3> HIDE DEF copies, rest
    <3> QED
      BY Typed DEF Round
  <2>4. rest \subseteq syn.synced
    OBVIOUS
  <2> HIDE DEF r, rest
  <2> QED
    BY <2>2, <2>3, <2>4, ContinueLess
<1>2. UNCHANGED <<cache, edge>>
  BY DEF UpdateDeviceStatus
<1>3. CASE Forget(n, "syncer")
  <2>1. UNCHANGED kube /\ SyncerOutdated
    BY <1>3, Typed DEF Forget, SyncerOutdated
  <2> QED
    BY <1>1, <1>2, <2>1, SyncerReads
<1>4. CASE /\ UpdateReply(n) = "ok"
           /\ PutLast(n, WithStatus(n, syn.copy[n].status), "syncer")
  <2>1. Exists(n) /\ "syncer" \in current[n]
    BY <1>4 DEF UpdateReply, StatusReply
  <2>2. InPool(n)
    BY <2>1 DEF UpdateDeviceStatus, PoolInv, RoundPools
  <2>3. WritesOnly(n)
    BY <1>4, <2>1, StatusWrites
  <2> QED
    BY <1>1, <1>2, <2>2, <2>3, SyncerWrites
<1> QED
  BY <1>3, <1>4 DEF UpdateDeviceStatus

LEMMA SyncerPools ==
  ASSUME TypeInv, PoolInv, SyncerStep({rec.key}), UNCHANGED rec
  PROVE  Untouched /\ PoolsStay /\ PoolInv'
  BY ListEdgeDevicesPools, ListKubeDevicesPools, ListPropertiesStatePools,
     SyncEdgeToKubePools, DeleteRedundantPools, UpdateDeviceStatusPools
  DEF SyncerStep

(***************************************************************************)
(* Users, and the system.                                                  *)
(***************************************************************************)
LEMMA UserPools ==
  ASSUME TypeInv, PoolInv, NEW n \in KubeNames,
         UserCreate(n) \/ UserUpdate(n) \/ UserDelete(n)
  PROVE  PoolsStay /\ PoolInv'
<1>1. UNCHANGED <<cache, rec, syn>>
  BY DEF UserCreate, UserUpdate, UserDelete, UserStep
<1>2. CASE UserCreate(n)
  <2>1. PICK s : Store(n, NewDevice(s), {})
    BY <1>2 DEF UserCreate, Create
  <2>2. /\ ~Exists(n)
        /\ n \in Steady => cache[n] = NoCR /\ n # rec.key /\ n \notin syn.redundantKube
    BY <1>2 DEF UserCreate, CanCreate, Steady
  <2>3. \A m \in KubeNames : /\ kube'[m] = IF m = n THEN NewDevice(s) ELSE kube[m]
                             /\ current'[m] = IF m = n THEN {} ELSE current[m]
    BY <2>1, Typed DEF Store
  <2> QED
    BY <1>1, <2>2, <2>3, PoolStep DEF PoolKept, SyncerOutdated, LessToDo, Exists
<1>3. CASE UserUpdate(n)
  <2>1. PICK s : s.nodePool = kube[n].spec.nodePool /\ Store(n, [kube[n] EXCEPT !.spec = s], {})
    BY <1>3 DEF UserUpdate
  <2> DEFINE edited == [kube[n] EXCEPT !.spec = s]
  <2>2. Exists(n) /\ edited.spec = s
    BY <1>3, Typed, DeviceFields DEF UserUpdate, Exists
  <2>3. Store(n, edited, {}) /\ s.nodePool = kube[n].spec.nodePool
    BY <2>1
  <2> HIDE DEF edited
  <2>4. WritesOnly(n)
    BY <2>2, <2>3, StoreWrites
  <2> QED
    BY <1>1, <2>4, WritesKeep, PoolStep DEF WritesOnly, LessToDo
<1>4. CASE UserDelete(n)
  BY <1>1, <1>4, DeleteWrites, WritesKeep, PoolStep DEF UserDelete, WritesOnly, LessToDo
<1> QED
  BY <1>2, <1>3, <1>4

LEMMA SeenPools ==
  ASSUME TypeInv, PoolInv, UNCHANGED <<kube, edge, rec, syn>>, NEW n \in KubeNames,
         cache' = [cache EXCEPT ![n] = kube[n]],
         current' = [current EXCEPT ![n] = @ \cup {"cache"}]
  PROVE  Untouched /\ PoolsStay /\ PoolInv'
<1>1. \A m \in KubeNames :
        /\ cache'[m] = IF m = n THEN kube[n] ELSE cache[m]
        /\ current'[m] = IF m = n THEN current[m] \cup {"cache"} ELSE current[m]
  BY Typed DEF TypeInv, TypeOK, ClusterTypeOK
<1> QED
  BY <1>1, SteadyNames
     DEF PoolInv, PoolsStay, CachePools, WorkerPools, RoundPools, InPool, Exists, Untouched,
         OwnedBy

LEMMA RestartPools ==
  ASSUME TypeInv, PoolInv, Restart
  PROVE  Untouched /\ PoolsStay /\ PoolInv'
  BY SteadyNames
     DEF Restart, IdleWorker, IdleRound, PoolInv, PoolsStay, CachePools, WorkerPools,
         RoundPools, Exists, Untouched, OwnedBy

(* Every step of the process leaves the CRs of other pools alone, and      *)
(* every other step is of a user, or on the edge.                          *)
LEMMA StepPools ==
  ASSUME TypeInv, PoolInv, [Next]_vars
  PROVE  PoolsStay /\ PoolInv' /\ (userOps' = userOps => Untouched)
<1>1. CASE \E n \in KubeNames : UserCreate(n) \/ UserUpdate(n) \/ UserDelete(n)
  <2>1. userOps' # userOps
    BY <1>1 DEF TypeInv, TypeOK, UserCreate, UserUpdate, UserDelete, UserStep
  <2> QED
    BY <1>1, <2>1, UserPools
<1>2. CASE \E e \in EdgeNames : AddEdgeDevice(e) \/ RemoveEdgeDevice(e) \/ ChangeEdgeDevice(e)
  <2>1. UNCHANGED <<kube, current, cache, rec, syn>>
    BY <1>2 DEF AddEdgeDevice, RemoveEdgeDevice, ChangeEdgeDevice, EdgeStep
  <2>2. PoolsStay /\ PoolInv'
    BY <2>1, PoolStep DEF PoolKept, SyncerOutdated, LessToDo, Exists
  <2>3. Untouched
    BY <1>2, <2>1, EdgeOwners, SteadyNames DEF Untouched, OwnersKept
  <2> QED
    BY <2>2, <2>3
<1>3. CASE \E n \in KubeNames : TakeKey(n)
  BY <1>3, TakeKeyPools DEF TakeKey
<1>4. CASE \E n \in KubeNames : WatchDelivers(n) \/ WatchBreaks(n)
  BY <1>4, SeenPools DEF WatchDelivers, WatchBreaks, Deliver, Relist
<1>5. CASE ReconcilerRuns
  BY <1>5, ReconcilerPools DEF ReconcilerRuns
<1>6. CASE SyncerRuns
  BY <1>6, SyncerPools DEF SyncerRuns
<1>7. CASE InformerResyncs \/ UNCHANGED vars
  BY <1>7, SyncerReads
     DEF InformerResyncs, Resync, vars, clusterVars, SyncerOutdated, LessToDo
<1>8. CASE Restart
  BY <1>8, RestartPools
<1> QED
  BY <1>1, <1>2, <1>3, <1>4, <1>5, <1>6, <1>7, <1>8 DEF Next, Environment

LEMMA InitPools ==
  ASSUME Init
  PROVE  PoolInv
  BY SteadyNames
     DEF Init, ClusterInit, IdleWorker, IdleRound, PoolInv, CachePools, WorkerPools, RoundPools

(* The process changes no CR of another pool and makes no device for one:  *)
(* what the reconciler checks once, when it takes a key, and the syncer    *)
(* once, when it lists, holds until their last request.                    *)
THEOREM PoolsApart == Spec => OtherPoolsUntouched
<1>1. Init => PoolInv
  BY InitPools
<1>2. TypeInv /\ PoolInv /\ [Next]_vars => PoolInv'
  BY StepPools
<1>3. TypeInv /\ PoolInv /\ [Next]_vars =>
        [userOps' = userOps =>
           \A n \in Steady : Exists(n) /\ kube[n].spec.nodePool # NodePool =>
             /\ kube'[n] = kube[n]
             /\ OwnedBy(n)' \subseteq OwnedBy(n)]_<<kube, edge>>
  BY StepPools DEF Untouched
<1> QED
  BY <1>1, <1>2, <1>3, TypeInvariance, PTL DEF Spec, OtherPoolsUntouched
=============================================================================
