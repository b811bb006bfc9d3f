-------------------------- MODULE DeviceTypeProofs --------------------------
(***************************************************************************)
(* Type correctness of DeviceSystem, for every value of the constants.     *)
(***************************************************************************)
EXTENDS DeviceSystem, TLAPS

(* Writing a status, or turning a flag, leaves a CR a CR. *)
LEMMA DeviceType ==
  ASSUME NEW d \in Device
  PROVE  /\ d.spec \in DeviceSpec /\ d.status \in DeviceStatus
         /\ d.deleting \in BOOLEAN /\ d.finalizer \in BOOLEAN
         /\ \A s \in DeviceStatus : [d EXCEPT !.status = s] \in Device
         /\ \A s \in DeviceSpec : [d EXCEPT !.spec = s] \in Device
         /\ \A b \in BOOLEAN : [d EXCEPT !.finalizer = b] \in Device
         /\ [d EXCEPT !.deleting = TRUE] \in Device
  BY DEF Device

LEMMA NewStatusType == NewStatus \in DeviceStatus
  BY DEF NewStatus, DeviceStatus, Entries, SyncedConditions, ManagingConditions

LEMMA NewDeviceType ==
  ASSUME NEW s \in DeviceSpec
  PROVE  NewDevice(s) \in Device
  BY NewStatusType DEF NewDevice, Device

LEMMA StatusType ==
  ASSUME NEW s \in DeviceStatus
  PROVE  /\ \A c \in ManagingConditions : [s EXCEPT !.managingCondition = c] \in DeviceStatus
         /\ \A c \in SyncedConditions : [s EXCEPT !.syncedCondition = c] \in DeviceStatus
         /\ \A r \in {"none", "True", "False"} : [s EXCEPT !.ready = r] \in DeviceStatus
         /\ \A b \in BOOLEAN : Synced(s, b) \in DeviceStatus
         /\ \A p \in Props, v \in Entries : [s EXCEPT !.deviceProperties[p] = v] \in DeviceStatus
         /\ \A f \in [Props -> Entries] : [s EXCEPT !.deviceProperties = f] \in DeviceStatus
         /\ s.ready \in {"none", "True", "False"}
  BY DEF DeviceStatus, Synced, SyncedConditions

(***************************************************************************)
(* The cluster's writes.                                                   *)
(***************************************************************************)
LEMMA StoreType ==
  ASSUME ClusterTypeOK, NEW n \in KubeNames, NEW cr \in Device \cup {NoCR},
         NEW h \in SUBSET Holders, Store(n, cr, h)
  PROVE  /\ kube' \in [KubeNames -> Device \cup {NoCR}]
         /\ current' \in [KubeNames -> SUBSET Holders]
         /\ pending' \subseteq KubeNames
  BY DEF ClusterTypeOK, Store

LEMMA ForgetType ==
  ASSUME ClusterTypeOK, NEW n \in KubeNames, NEW h \in Holders, Forget(n, h)
  PROVE  /\ kube' \in [KubeNames -> Device \cup {NoCR}]
         /\ current' \in [KubeNames -> SUBSET Holders]
         /\ pending' \subseteq KubeNames
  BY DEF ClusterTypeOK, Forget

LEMMA PutType ==
  ASSUME ClusterTypeOK, NEW n \in KubeNames, NEW cr \in Device \cup {NoCR},
         NEW h \in Holders, Put(n, cr, h) \/ PutLast(n, cr, h)
  PROVE  /\ kube' \in [KubeNames -> Device \cup {NoCR}]
         /\ current' \in [KubeNames -> SUBSET Holders]
         /\ pending' \subseteq KubeNames
<1>1. CASE cr = kube[n]
  BY <1>1, ForgetType DEF ClusterTypeOK, Put, PutLast
<1>2. CASE cr # kube[n]
  <2>1. {} \in SUBSET Holders /\ {h} \in SUBSET Holders
    OBVIOUS
  <2>2. Store(n, cr, {}) \/ Store(n, cr, {h})
    BY <1>2 DEF Put, PutLast
  <2> QED
    BY <2>1, <2>2, StoreType
<1> QED
  BY <1>1, <1>2

LEMMA DeleteType ==
  ASSUME ClusterTypeOK, NEW n \in KubeNames, Exists(n), Delete(n)
  PROVE  /\ kube' \in [KubeNames -> Device \cup {NoCR}]
         /\ current' \in [KubeNames -> SUBSET Holders]
         /\ pending' \subseteq KubeNames
<1>1. kube[n] \in Device
  BY DEF ClusterTypeOK, Exists
<1>2. [kube[n] EXCEPT !.deleting = TRUE] \in Device
  BY <1>1, DeviceType
<1>3. ApiUnchanged \/ Store(n, [kube[n] EXCEPT !.deleting = TRUE], {}) \/ Store(n, NoCR, {})
  BY DEF Delete
<1>4. {} \in SUBSET Holders
  OBVIOUS
<1>5. CASE ApiUnchanged
  BY <1>5 DEF ClusterTypeOK, ApiUnchanged
<1>6. CASE Store(n, [kube[n] EXCEPT !.deleting = TRUE], {})
  BY <1>2, <1>4, <1>6, StoreType
<1>7. CASE Store(n, NoCR, {})
  BY <1>4, <1>7, StoreType
<1> QED
  BY <1>3, <1>5, <1>6, <1>7

LEMMA FaultsType ==
  ASSUME ClusterTypeOK, NEW kinds, Fails(kinds) \/ Succeeds
  PROVE  faults' \in 0..MaxFaults
  BY BoundsAssumption DEF ClusterTypeOK, Fails, Succeeds

(***************************************************************************)
(* The worker.                                                             *)
(***************************************************************************)
(* Conclusion of the lemmas about the reconciler's actions.                *)
ReconcilerTypeOK == ClusterTypeOK /\ rec \in Worker /\ WorkerHasItsCR

LEMMA FinishType ==
  ASSUME rec \in Worker, rec.key # NoName, rec.d # NoCR,
         NEW r \in BOOLEAN,
         \/ Finish(r)
         \/ \E s \in DeviceStatus : FinishWith(s, r)
  PROVE  rec' \in Worker /\ WorkerHasItsCR'
<1>1. rec.d \in Device
  BY DEF Worker
<1>2. CASE Finish(r)
  BY <1>2, <1>1 DEF Finish, Worker, WorkerHasItsCR, Visiting, RecPCs
<1>3. CASE \E s \in DeviceStatus : FinishWith(s, r)
  <2>1. PICK s \in DeviceStatus : FinishWith(s, r)
    BY <1>3
  <2>2. [rec.d EXCEPT !.status = s] \in Device
    BY <1>1, DeviceType
  <2>3. rec' = [rec EXCEPT !.pc = "finish", !.requeue = r,
                           !.d = [rec.d EXCEPT !.status = s]]
    BY <2>1 DEF FinishWith, Worker
  <2> QED
    BY <2>2, <2>3, AbsenceAssumption DEF Worker, WorkerHasItsCR, Visiting, RecPCs
<1> QED
  BY <1>2, <1>3

(* What every step of the reconciler starts from. *)
LEMMA BusyType ==
  ASSUME ReconcilerTypeOK, rec.pc \notin {"idle", "panicked"}
  PROVE  /\ rec \in Worker /\ rec.key \in KubeNames /\ rec.d \in Device
         /\ rec.key # NoName /\ rec.d # NoCR
         /\ target \in EdgeNames
         /\ rec.d.spec \in DeviceSpec /\ rec.d.status \in DeviceStatus
  BY DeviceType DEF ReconcilerTypeOK, Worker, WorkerHasItsCR, Visiting, target,
                    GetEdgeDeviceName, DeviceSpec

(* The answer to a patch, decoded into a copy, is a CR. *)
LEMMA DecodedType ==
  ASSUME NEW new \in Device, NEW old \in Device, NEW n \in EdgeNames \cup KubeNames
  PROVE  Decoded(new, old, n) \in Device
<1>1. DecodedSpec(new.spec, old.spec, n) \in DeviceSpec
  BY DEF Device, DeviceSpec, DecodedSpec, Filled
<1>2. DecodedStatus(new.status, old.status) \in DeviceStatus
  <2> DEFINE t == new.status
             u == old.status
             conditions == IF Unconditioned(t) THEN u ELSE t
  <2>1. conditions \in DeviceStatus /\ t \in DeviceStatus /\ u \in DeviceStatus
    BY DEF Device
  <2>2. DecodedStatus(t, u) =
          [synced |-> Filled(t.synced, u.synced, FALSE),
           edgeId |-> Filled(t.edgeId, u.edgeId, FALSE),
           adminState |-> Filled(t.adminState, u.adminState, ""),
           operatingState |-> Filled(t.operatingState, u.operatingState, ""),
           deviceProperties |-> [p \in Props |-> Filled(t.deviceProperties[p],
                                                        u.deviceProperties[p], "no entry")],
           syncedCondition |-> conditions.syncedCondition,
           managingCondition |-> conditions.managingCondition,
           ready |-> conditions.ready]
    BY DEF DecodedStatus
  <2>3. /\ Filled(t.synced, u.synced, FALSE) \in BOOLEAN
        /\ Filled(t.edgeId, u.edgeId, FALSE) \in BOOLEAN
    BY <2>1 DEF DeviceStatus, Filled
  <2>4. /\ Filled(t.adminState, u.adminState, "") \in AdminStates \cup {""}
        /\ Filled(t.operatingState, u.operatingState, "") \in OperatingStates \cup {""}
    BY <2>1 DEF DeviceStatus, Filled
  <2>5. \A p \in Props :
          Filled(t.deviceProperties[p], u.deviceProperties[p], "no entry") \in Entries
    BY <2>1 DEF DeviceStatus, Filled
  <2>6. /\ conditions.syncedCondition \in SyncedConditions
        /\ conditions.managingCondition \in ManagingConditions
        /\ conditions.ready \in {"none", "True", "False"}
    <3> HIDE DEF conditions
    <3> QED
      BY <2>1 DEF DeviceStatus
  <2>7. [p \in Props |-> Filled(t.deviceProperties[p], u.deviceProperties[p], "no entry")]
          \in [Props -> Entries]
    BY <2>5
  <2> HIDE DEF conditions
  <2>8. [synced |-> Filled(t.synced, u.synced, FALSE),
         edgeId |-> Filled(t.edgeId, u.edgeId, FALSE),
         adminState |-> Filled(t.adminState, u.adminState, ""),
         operatingState |-> Filled(t.operatingState, u.operatingState, ""),
         deviceProperties |-> [p \in Props |-> Filled(t.deviceProperties[p],
                                                      u.deviceProperties[p], "no entry")],
         syncedCondition |-> conditions.syncedCondition,
         managingCondition |-> conditions.managingCondition,
         ready |-> conditions.ready] \in DeviceStatus
    BY <2>3, <2>4, <2>6, <2>7 DEF DeviceStatus
  <2> QED
    BY <2>2, <2>8
<1>3. Decoded(new, old, n) =
        [spec |-> DecodedSpec(new.spec, old.spec, n),
         deleting |-> Filled(new.deleting, old.deleting, FALSE),
         finalizer |-> new.finalizer,
         status |-> DecodedStatus(new.status, old.status)]
  BY DEF Decoded
<1> QED
  BY <1>1, <1>2, <1>3 DEF Device, Filled

LEMMA AfterDeleteType ==
  ASSUME NEW d \in Device
  PROVE  AfterDelete(d) \in {"getDevice", "updateDevice", "finish"}
  BY DEF AfterDelete

LEMMA PatchedType ==
  ASSUME ReconcilerTypeOK, rec.pc \notin {"idle", "panicked"},
         NEW cr \in Device, Patched(cr)
  PROVE  /\ kube' \in [KubeNames -> Device \cup {NoCR}]
         /\ current' \in [KubeNames -> SUBSET Holders]
         /\ pending' \subseteq KubeNames
         /\ rec' \in Worker /\ WorkerHasItsCR'
<1> DEFINE d == Decoded(cr, rec.d, rec.key)
           pc == IF d.deleting THEN "finish" ELSE AfterDelete(d)
<1>1. d \in Device
  BY BusyType, DecodedType
<1>2. rec' \in Worker /\ WorkerHasItsCR'
  <2>1. pc \in {"getDevice", "updateDevice", "finish"}
    BY <1>1, AfterDeleteType
  <2>2. rec' = [rec EXCEPT !.d = d, !.pc = pc]
    BY DEF Patched
  <2> HIDE DEF d, pc
  <2> QED
    BY <1>1, <2>1, <2>2, BusyType, AbsenceAssumption
       DEF Worker, WorkerHasItsCR, Visiting, RecPCs
<1>3. Put(rec.key, cr, "reconciler") /\ "reconciler" \in Holders
  BY DEF Patched, Holders
<1> QED
  BY <1>2, <1>3, BusyType, PutType DEF ReconcilerTypeOK

LEMMA AddFinalizerType ==
  ASSUME ReconcilerTypeOK, AddFinalizer
  PROVE  ReconcilerTypeOK'
<1> rec.pc \notin {"idle", "panicked"} /\ TRUE \in BOOLEAN /\ FALSE \in BOOLEAN
  BY DEF AddFinalizer
<1>1. faults' \in 0..MaxFaults
  BY FaultsType DEF AddFinalizer, ReconcilerTypeOK
<1>2. CASE Exists(rec.key) /\ Patched([kube[rec.key] EXCEPT !.finalizer = TRUE])
  <2>1. [kube[rec.key] EXCEPT !.finalizer = TRUE] \in Device
    BY <1>2, BusyType, DeviceType DEF ReconcilerTypeOK, ClusterTypeOK, Exists
  <2> QED
    BY <1>1, <1>2, <2>1, PatchedType DEF AddFinalizer, ReconcilerTypeOK, ClusterTypeOK
<1>3. CASE (Finish(TRUE) \/ Finish(FALSE)) /\ ApiUnchanged
  BY <1>1, <1>3, BusyType, FinishType
     DEF AddFinalizer, ReconcilerTypeOK, ClusterTypeOK, ApiUnchanged
<1> QED
  BY <1>2, <1>3 DEF AddFinalizer

LEMMA DeleteDeviceType ==
  ASSUME ReconcilerTypeOK, DeleteDevice
  PROVE  ReconcilerTypeOK'
<1> rec.pc \notin {"idle", "panicked"} /\ TRUE \in BOOLEAN
  BY DEF DeleteDevice
<1>1. faults' \in 0..MaxFaults
  BY FaultsType DEF DeleteDevice, ReconcilerTypeOK
<1>2. edge' \in [EdgeNames -> EdgeDevice \cup {NoDevice}]
  BY DEF DeleteDevice, ReconcilerTypeOK, ClusterTypeOK
<1>3. rec' = [rec EXCEPT !.pc = "removeFinalizer"] \/ Finish(TRUE)
  BY DEF DeleteDevice
<1>4. rec' \in Worker /\ WorkerHasItsCR'
  <2>1. CASE rec' = [rec EXCEPT !.pc = "removeFinalizer"]
    BY <2>1, BusyType DEF Worker, WorkerHasItsCR, Visiting, RecPCs
  <2> QED
    BY <1>3, <2>1, BusyType, FinishType
<1> QED
  BY <1>1, <1>2, <1>4 DEF DeleteDevice, ReconcilerTypeOK, ClusterTypeOK, ApiUnchanged

LEMMA RemoveFinalizerType ==
  ASSUME ReconcilerTypeOK, RemoveFinalizer
  PROVE  ReconcilerTypeOK'
<1> rec.pc \notin {"idle", "panicked"} /\ TRUE \in BOOLEAN /\ FALSE \in BOOLEAN
  BY DEF RemoveFinalizer
<1>1. faults' \in 0..MaxFaults
  BY FaultsType DEF RemoveFinalizer, ReconcilerTypeOK
<1>2. CASE Exists(rec.key) /\ Patched([kube[rec.key] EXCEPT !.finalizer = FALSE])
  <2>1. [kube[rec.key] EXCEPT !.finalizer = FALSE] \in Device
    BY <1>2, BusyType, DeviceType DEF ReconcilerTypeOK, ClusterTypeOK, Exists
  <2> QED
    BY <1>1, <1>2, <2>1, PatchedType DEF RemoveFinalizer, ReconcilerTypeOK, ClusterTypeOK
<1>3. CASE (Finish(TRUE) \/ Finish(FALSE)) /\ ApiUnchanged
  BY <1>1, <1>3, BusyType, FinishType
     DEF RemoveFinalizer, ReconcilerTypeOK, ClusterTypeOK, ApiUnchanged
<1>4. CASE Store(rec.key, NoCR, {}) /\ Finish(FALSE)
  <2>1. {} \in SUBSET Holders
    OBVIOUS
  <2> QED
    BY <1>1, <1>4, <2>1, BusyType, FinishType, StoreType
       DEF RemoveFinalizer, ReconcilerTypeOK, ClusterTypeOK
<1> QED
  BY <1>2, <1>3, <1>4 DEF RemoveFinalizer

LEMMA FoundType ==
  ASSUME ReconcilerTypeOK, rec.pc \notin {"idle", "panicked"}, NEW b \in BOOLEAN, Found(b)
  PROVE  rec' \in Worker /\ WorkerHasItsCR'
<1>1. Synced(rec.d.status, b) \in DeviceStatus
  BY BusyType, StatusType
<1>2. [rec.d EXCEPT !.status = Synced(rec.d.status, b)] \in Device
  BY <1>1, BusyType, DeviceType
<1>3. rec' = [rec EXCEPT !.pc = "writeSynced",
                         !.d = [rec.d EXCEPT !.status = Synced(rec.d.status, b)]]
  BY BusyType DEF Found, Worker
<1> QED
  BY <1>2, <1>3, BusyType, AbsenceAssumption DEF Worker, WorkerHasItsCR, Visiting, RecPCs

LEMMA GetDeviceType ==
  ASSUME ReconcilerTypeOK, GetDevice
  PROVE  ReconcilerTypeOK'
<1> rec.pc \notin {"idle", "panicked"} /\ TRUE \in BOOLEAN /\ FALSE \in BOOLEAN
  BY DEF GetDevice
<1>1. faults' \in 0..MaxFaults
  BY FaultsType DEF GetDevice, ReconcilerTypeOK
<1>2. CASE Found(TRUE) \/ Found(FALSE)
  BY <1>1, <1>2, FoundType DEF GetDevice, ReconcilerTypeOK, ClusterTypeOK, ApiUnchanged
<1>3. CASE rec' = [rec EXCEPT !.pc = "createDevice"]
  <2>1. rec' \in Worker /\ WorkerHasItsCR'
    BY <1>3, BusyType DEF Worker, WorkerHasItsCR, Visiting, RecPCs
  <2> QED
    BY <1>1, <2>1 DEF GetDevice, ReconcilerTypeOK, ClusterTypeOK, ApiUnchanged
<1>4. CASE FinishWith([rec.d.status EXCEPT !.syncedCondition = "unreachable"], FALSE)
  <2>1. [rec.d.status EXCEPT !.syncedCondition = "unreachable"] \in DeviceStatus
    BY BusyType, StatusType DEF SyncedConditions
  <2> QED
    BY <1>1, <1>4, <2>1, BusyType, FinishType
       DEF GetDevice, ReconcilerTypeOK, ClusterTypeOK, ApiUnchanged
<1> QED
  BY <1>2, <1>3, <1>4 DEF GetDevice

LEMMA EdgeStatesType ==
  /\ \A s : toEdgeXAdminState(s) \in AdminStates
  /\ \A s : toEdgeXOperatingState(s) \in OperatingStates
  BY DEF toEdgeXAdminState, toEdgeXOperatingState, AdminStates, OperatingStates

LEMMA CreateDeviceType ==
  ASSUME ReconcilerTypeOK, CreateDevice
  PROVE  ReconcilerTypeOK'
<1> rec.pc \notin {"idle", "panicked"} /\ TRUE \in BOOLEAN
  BY DEF CreateDevice
<1>1. faults' \in 0..MaxFaults
  BY FaultsType DEF CreateDevice, ReconcilerTypeOK
<1>2. edge' \in [EdgeNames -> EdgeDevice \cup {NoDevice}]
  <2>1. toEdgeXDevice(rec.d, rec.key) \in EdgeDevice
    BY BusyType, EdgeStatesType, DataAssumption DEF toEdgeXDevice, EdgeDevice
  <2> QED
    BY <2>1, BusyType DEF CreateDevice, AddToEdge, ReconcilerTypeOK, ClusterTypeOK
<1>3. rec' \in Worker /\ WorkerHasItsCR'
  <2>1. CASE Found(TRUE)
    BY <2>1, FoundType
  <2>2. CASE CreateFailed
    <3>1. [rec.d.status EXCEPT !.syncedCondition = "createFailed"] \in DeviceStatus
      BY BusyType, StatusType DEF SyncedConditions
    <3> QED
      BY <2>2, <3>1, BusyType, FinishType DEF CreateFailed
  <2> QED
    BY <2>1, <2>2 DEF CreateDevice
<1> QED
  BY <1>1, <1>2, <1>3 DEF CreateDevice, ReconcilerTypeOK, ClusterTypeOK, ApiUnchanged

LEMMA WithStatusType ==
  ASSUME ClusterTypeOK, NEW n \in KubeNames, NEW s \in DeviceStatus, NEW h,
         StatusReply(n, h) = "ok"
  PROVE  WithStatus(n, s) \in Device
  BY DeviceType DEF ClusterTypeOK, StatusReply, Exists, WithStatus

LEMMA WriteSyncedType ==
  ASSUME ReconcilerTypeOK, WriteSynced
  PROVE  ReconcilerTypeOK'
<1> rec.pc \notin {"idle", "panicked"} /\ TRUE \in BOOLEAN /\ FALSE \in BOOLEAN
  BY DEF WriteSynced
<1>1. faults' \in 0..MaxFaults
  BY FaultsType DEF WriteSynced, ReconcilerTypeOK
<1>2. rec' \in Worker /\ WorkerHasItsCR'
  BY BusyType, FinishType DEF WriteSynced
<1>3. CASE ApiUnchanged
  BY <1>1, <1>2, <1>3 DEF WriteSynced, ReconcilerTypeOK, ClusterTypeOK, ApiUnchanged
<1>4. CASE /\ StatusReply(rec.key, "reconciler") = "ok"
           /\ Put(rec.key, WithStatus(rec.key, rec.d.status), "reconciler")
  <2>1. WithStatus(rec.key, rec.d.status) \in Device /\ "reconciler" \in Holders
    BY <1>4, BusyType, WithStatusType DEF ReconcilerTypeOK, Holders
  <2> QED
    BY <1>1, <1>2, <1>4, <2>1, BusyType, PutType
       DEF WriteSynced, ReconcilerTypeOK, ClusterTypeOK
<1> QED
  BY <1>3, <1>4 DEF WriteSynced

LEMMA PatchedStatusType ==
  ASSUME rec.d.status \in DeviceStatus, rec.d.spec \in DeviceSpec
  PROVE  PatchedStatus \in DeviceStatus
<1>1. /\ wantedAdmin \in AdminStates \cup {""}
      /\ wantedOperating \in OperatingStates \cup {""}
  BY DEF wantedAdmin, wantedOperating, Wanted, DeviceSpec
<1> QED
  BY <1>1 DEF PatchedStatus, DeviceStatus

LEMMA UpdateDeviceType ==
  ASSUME ReconcilerTypeOK, UpdateDevice
  PROVE  ReconcilerTypeOK'
<1> rec.pc \notin {"idle", "panicked"} /\ TRUE \in BOOLEAN
  BY DEF UpdateDevice
<1>1. faults' \in 0..MaxFaults
  BY FaultsType DEF UpdateDevice, ReconcilerTypeOK
<1>2. edge' \in [EdgeNames -> EdgeDevice \cup {NoDevice}]
  <2>1. PatchEdge \/ UNCHANGED edge
    BY DEF UpdateDevice
  <2> QED
    BY <2>1, EdgeStatesType
       DEF PatchEdge, Addressed, EdgeDevice, ReconcilerTypeOK, ClusterTypeOK
<1>3. rec' \in Worker /\ WorkerHasItsCR'
  <2>1. CASE AfterPatch
    <3>1. PatchedStatus \in DeviceStatus
      BY BusyType, PatchedStatusType
    <3>2. desiredProperties \in SUBSET Props
      BY DEF desiredProperties
    <3> QED
      BY <2>1, <3>1, <3>2, BusyType
         DEF AfterPatch, Worker, WorkerHasItsCR, Visiting, RecPCs, desiredProperties
  <2>2. CASE UpdateFailed
    <3>1. [rec.d.status EXCEPT !.managingCondition = "updateFailed"] \in DeviceStatus
      BY BusyType, StatusType DEF ManagingConditions
    <3> QED
      BY <2>2, <3>1, BusyType, FinishType DEF UpdateFailed
  <2> QED
    BY <2>1, <2>2 DEF UpdateDevice
<1> QED
  BY <1>1, <1>2, <1>3 DEF UpdateDevice, ReconcilerTypeOK, ClusterTypeOK, ApiUnchanged

LEMMA WriteStatusType ==
  ASSUME ReconcilerTypeOK, WriteStatus
  PROVE  ReconcilerTypeOK'
<1> rec.pc \notin {"idle", "panicked"} /\ TRUE \in BOOLEAN /\ FALSE \in BOOLEAN
  BY DEF WriteStatus
<1>1. faults' \in 0..MaxFaults
  BY FaultsType DEF WriteStatus, ReconcilerTypeOK
<1>2. rec.newStatus \in DeviceStatus
  BY BusyType DEF Worker
<1>3. \A c \in ManagingConditions :
        [rec.newStatus EXCEPT !.managingCondition = c] \in DeviceStatus
  BY <1>2, StatusType
<1>4. rec' \in Worker /\ WorkerHasItsCR'
  <2>1. \E s \in DeviceStatus, r \in BOOLEAN : FinishWith(s, r)
    BY <1>3 DEF WriteStatus, ManagingConditions
  <2> QED
    BY <2>1, BusyType, FinishType
<1>5. CASE ApiUnchanged
  BY <1>1, <1>4, <1>5 DEF WriteStatus, ReconcilerTypeOK, ClusterTypeOK, ApiUnchanged
<1>6. CASE /\ StatusReply(rec.key, "reconciler") = "ok"
           /\ Put(rec.key, WithStatus(rec.key, rec.newStatus), "reconciler")
  <2>1. WithStatus(rec.key, rec.newStatus) \in Device /\ "reconciler" \in Holders
    BY <1>2, <1>6, BusyType, WithStatusType DEF ReconcilerTypeOK, Holders
  <2> QED
    BY <1>1, <1>4, <1>6, <2>1, BusyType, PutType
       DEF WriteStatus, ReconcilerTypeOK, ClusterTypeOK
<1> QED
  BY <1>5, <1>6 DEF WriteStatus

LEMMA NextPropertyType ==
  ASSUME ReconcilerTypeOK, rec.pc \notin {"idle", "panicked"},
         rec.left \subseteq desiredProperties,
         NEW p \in Props, NEW s \in DeviceStatus, NEW made \in BOOLEAN, NEW failed \in BOOLEAN,
         NextProperty(p, s, made, failed)
  PROVE  rec' \in Worker /\ WorkerHasItsCR'
<1>1. rec \in Worker /\ rec.key # NoName /\ rec.d # NoCR
  BY DEF ReconcilerTypeOK, WorkerHasItsCR, Visiting
<1> DEFINE pc == IF rec.left = {p} THEN "writeStatus" ELSE "properties"
           left == rec.left \ {p}
           fail == rec.failed \/ failed
<1>2. pc \in {"writeStatus", "properties"} /\ left \in SUBSET desiredProperties
  OBVIOUS
<1>3. fail \in BOOLEAN
  OBVIOUS
<1>4. rec' = [rec EXCEPT !.pc = pc, !.left = left, !.property = NoName,
                         !.newStatus = s, !.mapMade = made, !.failed = fail]
  BY DEF NextProperty
<1> HIDE DEF pc, left, fail
<1>5. left \in SUBSET Props
  BY <1>2 DEF desiredProperties
<1>6. rec' \in Worker
  BY <1>1, <1>2, <1>3, <1>4, <1>5 DEF Worker, RecPCs
<1>7. rec'.pc = pc /\ rec'.left = left /\ rec'.key = rec.key /\ rec'.d = rec.d
  BY <1>1, <1>4 DEF Worker
<1>8. desiredProperties' = desiredProperties
  BY <1>7 DEF desiredProperties
<1> QED
  BY <1>1, <1>2, <1>6, <1>7, <1>8 DEF WorkerHasItsCR, Visiting

LEMMA GotPropertyType ==
  ASSUME ReconcilerTypeOK, rec.pc \notin {"idle", "panicked"},
         rec.left \subseteq desiredProperties,
         NEW p \in rec.left, NEW entry \in Entries, GotProperty(p, entry)
  PROVE  rec' \in Worker /\ WorkerHasItsCR'
<1> p \in Props /\ TRUE \in BOOLEAN /\ FALSE \in BOOLEAN
  BY DEF desiredProperties
<1> DEFINE status == IF rec.mapMade
                     THEN [rec.newStatus EXCEPT !.deviceProperties[p] = entry]
                     ELSE rec.newStatus
<1>1. status \in DeviceStatus
  BY BusyType, StatusType DEF Worker
<1>2. CASE NextProperty(p, status, TRUE, FALSE)
  BY <1>1, <1>2, NextPropertyType
<1>3. CASE rec' = [rec EXCEPT !.pc = "writeProperty", !.property = p,
                              !.newStatus = status, !.mapMade = TRUE]
  <2> HIDE DEF status
  <2> QED
    BY <1>1, <1>3, BusyType DEF Worker, WorkerHasItsCR, Visiting, RecPCs, desiredProperties
<1> QED
  BY <1>2, <1>3 DEF GotProperty

(* What the requests of the loop rely on. *)
LEMMA VisitType ==
  ASSUME ReconcilerTypeOK, rec.pc \in Visiting \ {"properties"}
  PROVE  /\ rec.left \subseteq desiredProperties /\ rec.property \in rec.left
         /\ rec.property \in Props /\ rec.newStatus \in DeviceStatus
         /\ rec.d.spec.desired[rec.property] \in Values
         /\ rec.pc \notin {"idle", "panicked"}
<1>1. rec.pc \notin {"idle", "panicked"}
  BY DEF Visiting
<1>2. /\ rec.left \subseteq desiredProperties /\ rec.property \in rec.left
      /\ rec.property \in Props /\ rec.newStatus \in DeviceStatus
  BY <1>1, BusyType DEF ReconcilerTypeOK, Worker, WorkerHasItsCR, desiredProperties
<1> QED
  BY <1>1, <1>2, BusyType DEF DeviceSpec, desiredProperties

LEMMA GetPropertyStateType ==
  ASSUME ReconcilerTypeOK, NEW p \in Props, GetPropertyState(p)
  PROVE  ReconcilerTypeOK'
<1> rec.pc \notin {"idle", "panicked"} /\ TRUE \in BOOLEAN
  BY DEF GetPropertyState
<1> rec.left \subseteq desiredProperties /\ p \in rec.left
  BY DEF GetPropertyState, ReconcilerTypeOK, WorkerHasItsCR, Visiting
<1>1. faults' \in 0..MaxFaults
  BY FaultsType DEF GetPropertyState, ReconcilerTypeOK
<1>2. rec' \in Worker /\ WorkerHasItsCR'
  <2>1. CASE ReadFailed(p)
    BY <2>1, BusyType, NextPropertyType DEF ReadFailed, Worker
  <2>2. CASE Panic
    BY <2>2, BusyType DEF Panic, Worker, WorkerHasItsCR, Visiting, RecPCs
  <2>3. CASE GotProperty(p, "no url")
    BY <2>3, GotPropertyType DEF Entries
  <2>4. CASE rec' = [rec EXCEPT !.pc = "readProperty", !.property = p]
    BY <2>4, BusyType DEF Worker, WorkerHasItsCR, Visiting, RecPCs, desiredProperties
  <2> QED
    BY <2>1, <2>2, <2>3, <2>4 DEF GetPropertyState
<1> QED
  BY <1>1, <1>2 DEF GetPropertyState, ReconcilerTypeOK, ClusterTypeOK, ApiUnchanged

LEMMA ReadPropertyType ==
  ASSUME ReconcilerTypeOK, ReadProperty
  PROVE  ReconcilerTypeOK'
<1> DEFINE p == rec.property
<1> rec.pc \in Visiting \ {"properties"} /\ TRUE \in BOOLEAN
  BY DEF ReadProperty, Visiting
<1> rec.pc \notin {"idle", "panicked"} /\ rec.left \subseteq desiredProperties
  BY VisitType
<1>1. faults' \in 0..MaxFaults
  BY FaultsType DEF ReadProperty, ReconcilerTypeOK
<1>2. rec' \in Worker /\ WorkerHasItsCR'
  <2>1. CASE ReadFailed(p)
    <3>1. p \in Props /\ rec.newStatus \in DeviceStatus /\ rec.mapMade \in BOOLEAN
      BY VisitType, BusyType DEF Worker
    <3>2. NextProperty(p, rec.newStatus, rec.mapMade, TRUE)
      BY <2>1 DEF ReadFailed
    <3> HIDE DEF p
    <3> QED
      BY <3>1, <3>2, NextPropertyType
  <2>2. CASE GotProperty(p, "")
    BY <2>2, VisitType, GotPropertyType DEF Entries
  <2>3. CASE Reachable(target) /\ GotProperty(p, edge[target].values[p])
    <3>1. edge[target].values[p] \in Entries
      BY <2>3, VisitType, BusyType
         DEF Reachable, EdgeDevice, Entries, ReconcilerTypeOK, ClusterTypeOK
    <3> QED
      BY <2>3, <3>1, VisitType, GotPropertyType
  <2> QED
    BY <2>1, <2>2, <2>3 DEF ReadProperty
<1> QED
  BY <1>1, <1>2 DEF ReadProperty, ReconcilerTypeOK, ClusterTypeOK, ApiUnchanged

LEMMA NotSetType ==
  ASSUME ReconcilerTypeOK, rec.pc \in Visiting \ {"properties"}, NotSet
  PROVE  rec' \in Worker /\ WorkerHasItsCR'
<1> TRUE \in BOOLEAN
  OBVIOUS
<1> QED
  BY VisitType, NextPropertyType DEF NotSet

LEMMA getPropertyPutType ==
  ASSUME ReconcilerTypeOK, getPropertyPut
  PROVE  ReconcilerTypeOK'
<1> rec.pc \in Visiting \ {"properties"} /\ rec.pc \notin {"idle", "panicked"}
  BY DEF getPropertyPut, Visiting
<1>1. faults' \in 0..MaxFaults
  BY FaultsType DEF getPropertyPut, ReconcilerTypeOK
<1>2. rec' \in Worker /\ WorkerHasItsCR'
  <2>1. CASE rec' = [rec EXCEPT !.pc = "putProperty"]
    BY <2>1, VisitType, BusyType
       DEF Worker, WorkerHasItsCR, Visiting, RecPCs, desiredProperties
  <2> QED
    BY <2>1, NotSetType DEF getPropertyPut
<1> QED
  BY <1>1, <1>2 DEF getPropertyPut, ReconcilerTypeOK, ClusterTypeOK, ApiUnchanged

LEMMA UpdatePropertyStateType ==
  ASSUME ReconcilerTypeOK, UpdatePropertyState
  PROVE  ReconcilerTypeOK'
<1> DEFINE p == rec.property
           desired == rec.d.spec.desired[p]
<1> /\ rec.pc \in Visiting \ {"properties"} /\ rec.pc \notin {"idle", "panicked"}
    /\ TRUE \in BOOLEAN /\ FALSE \in BOOLEAN
  BY DEF UpdatePropertyState, Visiting
<1>1. faults' \in 0..MaxFaults
  BY FaultsType DEF UpdatePropertyState, ReconcilerTypeOK
<1>2. /\ rec.left \subseteq desiredProperties /\ p \in rec.left
      /\ p \in Props /\ rec.newStatus \in DeviceStatus
  BY VisitType
<1>3. desired \in Values
  BY VisitType
<1>4. [rec.newStatus EXCEPT !.deviceProperties[p] = desired] \in DeviceStatus
  BY <1>2, <1>3, StatusType DEF Entries
<1>5. rec' \in Worker /\ WorkerHasItsCR'
  <2>1. CASE NotSet
    BY <2>1, NotSetType
  <2>2. CASE NextProperty(p, [rec.newStatus EXCEPT !.deviceProperties[p] = desired],
                          TRUE, FALSE)
    BY <1>2, <1>4, <2>2, NextPropertyType
  <2> QED
    BY <2>1, <2>2 DEF UpdatePropertyState
<1>6. edge' \in [EdgeNames -> EdgeDevice \cup {NoDevice}]
  <2>1. CASE /\ Reachable(target)
             /\ edge' = [edge EXCEPT ![target].values[p] = desired]
    <3>1. target \in EdgeNames /\ edge[target] \in EdgeDevice
      BY <2>1, BusyType DEF Reachable, ReconcilerTypeOK, ClusterTypeOK
    <3>2. [edge[target] EXCEPT !.values[p] = desired] \in EdgeDevice
      BY <1>2, <1>3, <3>1 DEF EdgeDevice
    <3>3. edge' = [edge EXCEPT ![target] = [edge[target] EXCEPT !.values[p] = desired]]
      BY <2>1
    <3> QED
      BY <3>1, <3>2, <3>3 DEF ReconcilerTypeOK, ClusterTypeOK
  <2>2. CASE UNCHANGED edge
    BY <2>2 DEF ReconcilerTypeOK, ClusterTypeOK
  <2> QED
    BY <2>1, <2>2 DEF UpdatePropertyState
<1> QED
  BY <1>1, <1>5, <1>6 DEF UpdatePropertyState, ReconcilerTypeOK, ClusterTypeOK, ApiUnchanged

LEMMA ReturnType ==
  ASSUME ReconcilerTypeOK, queue \subseteq KubeNames, Return
  PROVE  ReconcilerTypeOK'
<1> rec.pc \notin {"idle", "panicked"} /\ "reconciler" \in Holders
  BY DEF Return, Holders
<1>1. faults' \in 0..MaxFaults
  BY FaultsType DEF Return, ReconcilerTypeOK
<1>2. rec' \in Worker /\ WorkerHasItsCR'
  BY NewStatusType DEF Return, LeftWorker, IdleWorker, Worker, WorkerHasItsCR, Visiting, RecPCs
<1>3. queue' \subseteq KubeNames
  BY BusyType DEF Return
<1>4. CASE Forget(rec.key, "reconciler")
  BY <1>1, <1>2, <1>3, <1>4, BusyType, ForgetType
     DEF Return, ReconcilerTypeOK, ClusterTypeOK
<1>5. CASE /\ StatusReply(rec.key, "reconciler") = "ok"
           /\ PutLast(rec.key, WithStatus(rec.key, DeferredStatus), "reconciler")
  <2>1. DeferredStatus \in DeviceStatus
    <3> DEFINE s == IF rec.d.spec.managed THEN rec.d.status
                    ELSE [rec.d.status EXCEPT !.managingCondition = "notManaged"]
    <3>1. s \in DeviceStatus
      BY BusyType, StatusType DEF ManagingConditions
    <3>2. Summary(s) \in {"none", "True", "False"}
      BY <3>1, StatusType DEF Summary
    <3>3. DeferredStatus = [s EXCEPT !.ready = Summary(s)]
      BY DEF DeferredStatus
    <3> QED
      BY <3>1, <3>2, <3>3, StatusType
  <2>2. WithStatus(rec.key, DeferredStatus) \in Device
    BY <1>5, <2>1, BusyType, WithStatusType DEF ReconcilerTypeOK
  <2> QED
    BY <1>1, <1>2, <1>3, <1>5, <2>2, BusyType, PutType
       DEF Return, ReconcilerTypeOK, ClusterTypeOK
<1> QED
  BY <1>4, <1>5 DEF Return

LEMMA ReconcilerStepType ==
  ASSUME ReconcilerTypeOK, ReconcilerStep
  PROVE  ReconcilerTypeOK'
<1>1. queue \subseteq KubeNames
  BY DEF ReconcilerTypeOK, ClusterTypeOK
<1> QED
  BY <1>1, AddFinalizerType, DeleteDeviceType, RemoveFinalizerType, GetDeviceType,
     CreateDeviceType, WriteSyncedType, UpdateDeviceType, WriteStatusType,
     GetPropertyStateType, ReadPropertyType, getPropertyPutType,
     UpdatePropertyStateType, ReturnType
  DEF ReconcilerStep

LEMMA ReconcileType ==
  ASSUME ReconcilerTypeOK, NEW n \in KubeNames, Reconcile(n)
  PROVE  ReconcilerTypeOK'
<1>1. CASE UNCHANGED <<rec, current>>
  BY <1>1 DEF Reconcile, ReconcilerTypeOK, ClusterTypeOK,
              WorkerHasItsCR, Visiting, desiredProperties
<1>2. CASE /\ Handles(n)
           /\ rec' = [IdleWorker EXCEPT !.pc = FirstRequest(cache[n]),
                                        !.key = n, !.d = cache[n]]
           /\ current' = [current EXCEPT ![n] = ReadFromCache(n, "reconciler")]
  <2>1. cache[n] \in Device
    BY <1>2 DEF Handles, ReconcilerTypeOK, ClusterTypeOK
  <2>2. FirstRequest(cache[n]) \in {"addFinalizer", "deleteDevice", "getDevice",
                                    "updateDevice", "finish"}
    BY <2>1, AfterDeleteType DEF FirstRequest
  <2>3. rec' \in Worker /\ WorkerHasItsCR'
    BY <1>2, <2>1, <2>2, NewStatusType, AbsenceAssumption, NamesAssumption
       DEF IdleWorker, Worker, WorkerHasItsCR, Visiting, RecPCs
  <2>4. current' \in [KubeNames -> SUBSET Holders]
    BY <1>2 DEF ReadFromCache, Holders, ReconcilerTypeOK, ClusterTypeOK
  <2> QED
    BY <2>3, <2>4 DEF Reconcile, ReconcilerTypeOK, ClusterTypeOK
<1> QED
  BY <1>1, <1>2 DEF Reconcile

(***************************************************************************)
(* The syncer.                                                             *)
(***************************************************************************)
SyncerTypeOK == ClusterTypeOK /\ syn \in Round /\ RoundHasItsCopies

LEMMA IdleRoundType == IdleRound \in Round
  BY DEF IdleRound, Round

LEMMA ContinueType ==
  ASSUME NEW r \in Round,
         /\ \A e \in r.redundantEdge : r.edgeDevices[e] # NoDevice
         /\ \A n \in r.synced : r.copy[n] # NoCR
         /\ r.toRead \subseteq r.synced
         /\ r.reading # NoName => r.pc = "apply" /\ r.reading \in r.toRead,
         Continue(r)
  PROVE  syn' \in Round /\ RoundHasItsCopies'
  BY IdleRoundType DEF Continue, RoundHasItsCopies, IdleRound

LEMMA ListEdgeDevicesType ==
  ASSUME SyncerTypeOK, ListEdgeDevices
  PROVE  SyncerTypeOK'
<1>1. faults' \in 0..MaxFaults
  BY FaultsType DEF ListEdgeDevices, SyncerTypeOK
<1>2. \A e \in EdgeNames : toListed(edge[e]) \in Listed \cup {NoDevice}
  BY DEF toListed, Listed, EdgeDevice, SyncerTypeOK, ClusterTypeOK
<1>3. syn' \in Round /\ syn'.pc # "apply" /\ syn'.reading = NoName
  <2> DEFINE listed == [e \in EdgeNames |-> toListed(edge[e])]
  <2>1. listed \in [EdgeNames -> Listed \cup {NoDevice}]
    BY <1>2
  <2>2. \/ syn' = [syn EXCEPT !.pc = "listed", !.edgeDevices = listed]
        \/ syn' = [syn EXCEPT !.pc = "listed"]
        \/ syn' = syn
    BY DEF ListEdgeDevices
  <2>3. syn \in Round /\ syn.pc = "idle" /\ syn.reading = NoName
    BY DEF ListEdgeDevices, SyncerTypeOK, RoundHasItsCopies
  <2> HIDE DEF listed
  <2> QED
    BY <2>1, <2>2, <2>3 DEF Round
<1>4. RoundHasItsCopies'
  BY <1>3 DEF RoundHasItsCopies
<1> QED
  BY <1>1, <1>3, <1>4 DEF ListEdgeDevices, SyncerTypeOK, ClusterTypeOK, ApiUnchanged

LEMMA ListKubeDevicesType ==
  ASSUME SyncerTypeOK, ListKubeDevices
  PROVE  SyncerTypeOK'
<1>1. faults' \in 0..MaxFaults
  BY DEF ListKubeDevices, SyncerTypeOK, ClusterTypeOK, Succeeds
<1>2. PICK S \in Representatives :
        LET both == {n \in S : OnEdge(n)}
            missing == {e \in EdgeNames : /\ syn.edgeDevices[e] # NoDevice
                                          /\ \A n \in S : GetEdgeDeviceName(cache[n]) # e}
        IN  /\ Continue([syn EXCEPT
                  !.pc = "apply",
                  !.redundantEdge = missing,
                  !.edgeDevices = [e \in EdgeNames |->
                                     IF e \in missing THEN @[e] ELSE NoDevice],
                  !.redundantKube = {n \in S : cache[n].status.synced /\ ~OnEdge(n)},
                  !.toRead = IF Props = {} THEN {} ELSE both, !.synced = both,
                  !.copy = [n \in KubeNames |->
                              IF n \in both THEN completeUpdateContent(n) ELSE NoCR]])
            /\ current' = [n \in KubeNames |->
                  IF n \in both THEN ReadFromCache(n, "syncer") ELSE current[n] \ {"syncer"}]
  BY DEF ListKubeDevices
<1> DEFINE both == {n \in S : OnEdge(n)}
           missing == {e \in EdgeNames : /\ syn.edgeDevices[e] # NoDevice
                                         /\ \A n \in S : GetEdgeDeviceName(cache[n]) # e}
           kept == [e \in EdgeNames |-> IF e \in missing THEN syn.edgeDevices[e] ELSE NoDevice]
           copies == [n \in KubeNames |->
                        IF n \in both THEN completeUpdateContent(n) ELSE NoCR]
           gone == {n \in S : cache[n].status.synced /\ ~OnEdge(n)}
           reads == IF Props = {} THEN {} ELSE both
           r == [syn EXCEPT !.pc = "apply", !.redundantEdge = missing, !.edgeDevices = kept,
                            !.redundantKube = gone, !.toRead = reads, !.synced = both,
                            !.copy = copies]
<1>3. S \subseteq KubeNames /\ \A n \in S : cache[n] \in Device
  BY DEF Representatives, OwnCRs, SyncerTypeOK, ClusterTypeOK
<1>4. \A n \in both : completeUpdateContent(n) \in Copy
  <2> SUFFICES ASSUME NEW n \in both
               PROVE  completeUpdateContent(n) \in Copy
    OBVIOUS
  <2>1. /\ cache[n].status \in DeviceStatus
        /\ GetEdgeDeviceName(cache[n]) \in EdgeNames
    BY <1>3, DeviceType DEF GetEdgeDeviceName, DeviceSpec
  <2>2. syn.edgeDevices[GetEdgeDeviceName(cache[n])] \in Listed
    BY <2>1 DEF OnEdge, SyncerTypeOK, Round
  <2>3. \A ed \in Listed : [cache[n].status EXCEPT !.adminState = ed.adminState,
                                                   !.operatingState = ed.operatingState]
                             \in DeviceStatus
    BY <2>1 DEF Listed, DeviceStatus
  <2> QED
    BY <2>1, <2>2, <2>3 DEF completeUpdateContent, Copy
<1>5. /\ missing \subseteq EdgeNames /\ both \subseteq KubeNames
      /\ gone \subseteq KubeNames /\ reads \subseteq both
  BY <1>3
<1>6. kept \in [EdgeNames -> Listed \cup {NoDevice}]
  BY DEF SyncerTypeOK, Round
<1>7. copies \in [KubeNames -> Copy \cup {NoCR}] /\ \A n \in both : copies[n] # NoCR
  BY <1>4, <1>5, CopyAssumption
<1>8. \A e \in missing : kept[e] # NoDevice
  OBVIOUS
<1>9. Continue(r)
  BY <1>2, Zenon DEF SyncerTypeOK, Round
<1>10. /\ r \in Round /\ r.redundantEdge = missing /\ r.edgeDevices = kept
       /\ r.synced = both /\ r.toRead = reads /\ r.copy = copies
       /\ r.reading = NoName
  <2>1. syn.reading = NoName
    BY DEF ListKubeDevices, SyncerTypeOK, RoundHasItsCopies
  <2> HIDE DEF missing, both, gone, reads, kept, copies
  <2> QED
    BY <1>5, <1>6, <1>7, <2>1 DEF SyncerTypeOK, Round
<1>11. syn' \in Round /\ RoundHasItsCopies'
  <2> HIDE DEF r, missing, both, gone, reads, kept, copies
  <2> QED
    BY <1>5, <1>7, <1>8, <1>9, <1>10, ContinueType
<1>12. current' \in [KubeNames -> SUBSET Holders]
  BY <1>2 DEF ReadFromCache, Holders, SyncerTypeOK, ClusterTypeOK
<1> QED
  BY <1>1, <1>11, <1>12 DEF ListKubeDevices, SyncerTypeOK, ClusterTypeOK

(* Reading a listed device changes the properties of its copy, and what is *)
(* still to read.                                                          *)
LEMMA ReadingType ==
  ASSUME SyncerTypeOK, syn.pc = "apply", NEW n \in syn.toRead,
         NEW entries \in [Props -> Entries], NEW left \in SUBSET Props, NEW done \in BOOLEAN,
         syn' = [syn EXCEPT !.toRead = IF done THEN @ \ {n} ELSE @,
                            !.reading = IF done THEN NoName ELSE n,
                            !.unread = left,
                            !.copy[n].status.deviceProperties = entries]
  PROVE  syn' \in Round /\ RoundHasItsCopies'
<1>1. syn.copy[n] \in Copy /\ n \in KubeNames /\ n \in syn.synced
  BY DEF SyncerTypeOK, RoundHasItsCopies, Round
<1> DEFINE status == [syn.copy[n].status EXCEPT !.deviceProperties = entries]
           c == [syn.copy[n] EXCEPT !.status = status]
           copies == [syn.copy EXCEPT ![n] = c]
           toRead == IF done THEN syn.toRead \ {n} ELSE syn.toRead
           reading == IF done THEN NoName ELSE n
<1>2. status \in DeviceStatus
  BY <1>1, StatusType DEF Copy
<1>3. c \in Copy
  <2> HIDE DEF status
  <2> QED
    BY <1>1, <1>2 DEF Copy
<1>4. copies \in [KubeNames -> Copy \cup {NoCR}]
  <2> HIDE DEF c
  <2> QED
    BY <1>3 DEF SyncerTypeOK, Round
<1>5. \A m \in syn.synced : copies[m] # NoCR
  <2> HIDE DEF c
  <2> QED
    BY <1>1, <1>3, CopyAssumption DEF SyncerTypeOK, RoundHasItsCopies, Round
<1>6. PICK t : t = toRead
  OBVIOUS
<1>7. PICK g : g = reading
  OBVIOUS
<1>8. PICK cs : cs = copies
  OBVIOUS
<1>9. t \in SUBSET syn.toRead /\ (g # NoName => g \in t)
  BY <1>6, <1>7
<1>10. g \in KubeNames \cup {NoName}
  BY <1>1, <1>7
<1>11. syn' = [syn EXCEPT !.toRead = t, !.reading = g, !.unread = left, !.copy = cs]
  BY <1>6, <1>7, <1>8
<1> HIDE DEF copies, toRead, reading
<1>12. cs \in [KubeNames -> Copy \cup {NoCR}] /\ \A m \in syn.synced : cs[m] # NoCR
  BY <1>4, <1>5, <1>8
<1>13. syn \in Round /\ t \in SUBSET KubeNames
  BY <1>9 DEF SyncerTypeOK, Round
<1>14. /\ syn' \in Round /\ syn'.pc = syn.pc /\ syn'.redundantEdge = syn.redundantEdge
       /\ syn'.edgeDevices = syn.edgeDevices /\ syn'.synced = syn.synced
       /\ syn'.copy = cs /\ syn'.toRead = t /\ syn'.reading = g
  BY ONLY <1>10, <1>11, <1>12, <1>13, left \in SUBSET Props DEF Round
<1> QED
  BY <1>9, <1>12, <1>14 DEF SyncerTypeOK, RoundHasItsCopies

LEMMA ListPropertiesStateType ==
  ASSUME SyncerTypeOK, NEW n \in KubeNames, ListPropertiesState(n)
  PROVE  SyncerTypeOK'
<1>1. faults' \in 0..MaxFaults
  BY FaultsType DEF ListPropertiesState, SyncerTypeOK
<1>2. syn.pc = "apply" /\ n \in syn.toRead
  BY DEF ListPropertiesState
<1>3. PICK props \in SUBSET Props :
        syn' = [syn EXCEPT
                 !.toRead = IF props = {} THEN @ \ {n} ELSE @,
                 !.reading = IF props = {} THEN NoName ELSE n,
                 !.unread = props,
                 !.copy[n].status.deviceProperties =
                    [p \in Props |-> IF p \in props THEN "" ELSE "no entry"]]
  BY DataAssumption DEF ListPropertiesState
<1>4. [p \in Props |-> IF p \in props THEN "" ELSE "no entry"] \in [Props -> Entries]
  BY DEF Entries
<1> DEFINE done == props = {}
<1>5. done \in BOOLEAN
  OBVIOUS
<1>6. syn' \in Round /\ RoundHasItsCopies'
  BY <1>2, <1>3, <1>4, <1>5, ReadingType
<1> QED
  BY <1>1, <1>6 DEF ListPropertiesState, SyncerTypeOK, ClusterTypeOK, ApiUnchanged

LEMMA ReadListedPropertyType ==
  ASSUME SyncerTypeOK, NEW p \in Props, ReadListedProperty(p)
  PROVE  SyncerTypeOK'
<1> DEFINE n == syn.reading
           e == syn.copy[n].edgeName
           done == syn.unread = {p}
<1>1. faults' \in 0..MaxFaults
  BY FaultsType DEF ReadListedProperty, SyncerTypeOK
<1>2. syn.pc = "apply" /\ n \in syn.toRead /\ n \in KubeNames
  BY DEF ReadListedProperty, SyncerTypeOK, RoundHasItsCopies, Round
<1>3. PICK value \in Entries :
        syn' = [syn EXCEPT
                 !.toRead = IF syn.unread = {p} THEN @ \ {n} ELSE @,
                 !.reading = IF syn.unread = {p} THEN NoName ELSE n,
                 !.unread = @ \ {p},
                 !.copy[n].status.deviceProperties[p] = value]
  <2>1. syn.copy[n] \in Copy
    BY <1>2 DEF SyncerTypeOK, RoundHasItsCopies, Round
  <2>2. "" \in Entries /\ (edge[e] # NoDevice => edge[e].values[p] \in Entries)
    BY <2>1 DEF Copy, Entries, EdgeDevice, SyncerTypeOK, ClusterTypeOK
  <2> QED
    BY <2>2 DEF ReadListedProperty
<1>4. /\ syn.copy[n] \in Copy
      /\ syn.copy[n].status.deviceProperties \in [Props -> Entries]
  BY <1>2 DEF SyncerTypeOK, RoundHasItsCopies, Round, Copy, DeviceStatus
<1> DEFINE entries == [syn.copy[n].status.deviceProperties EXCEPT ![p] = value]
<1>5. entries \in [Props -> Entries] /\ done \in BOOLEAN /\ syn.unread \ {p} \in SUBSET Props
  BY <1>4 DEF SyncerTypeOK, Round
<1>6. syn' = [syn EXCEPT !.toRead = IF done THEN @ \ {n} ELSE @,
                         !.reading = IF done THEN NoName ELSE n,
                         !.unread = syn.unread \ {p},
                         !.copy[n].status.deviceProperties = entries]
  BY <1>3
<1>7. syn' \in Round /\ RoundHasItsCopies'
  <2> HIDE DEF entries, done
  <2> QED
    BY <1>2, <1>5, <1>6, ReadingType
<1> QED
  BY <1>1, <1>7 DEF ReadListedProperty, SyncerTypeOK, ClusterTypeOK, ApiUnchanged

(* What is left of a round after some creations, deletions and updates.    *)
LEMMA LessToDoType ==
  ASSUME SyncerTypeOK, syn.pc = "apply",
         NEW R \in SUBSET EdgeNames, NEW K \in SUBSET KubeNames, R \subseteq syn.redundantEdge,
         Continue([syn EXCEPT !.redundantEdge = R, !.redundantKube = K])
  PROVE  syn' \in Round /\ RoundHasItsCopies'
<1> DEFINE r == [syn EXCEPT !.redundantEdge = R, !.redundantKube = K]
<1>1. /\ r \in Round /\ r.redundantEdge = R /\ r.edgeDevices = syn.edgeDevices
      /\ r.synced = syn.synced /\ r.toRead = syn.toRead /\ r.copy = syn.copy
      /\ r.reading = syn.reading /\ r.pc = "apply"
  BY DEF SyncerTypeOK, Round
<1> HIDE DEF r
<1>2. Continue(r)
  BY DEF r
<1> QED
  BY <1>1, <1>2, ContinueType DEF SyncerTypeOK, RoundHasItsCopies

LEMMA SyncEdgeToKubeType ==
  ASSUME SyncerTypeOK, NEW e \in EdgeNames, NEW busy, SyncEdgeToKube(e, busy)
  PROVE  SyncerTypeOK'
<1>1. faults' \in 0..MaxFaults
  BY FaultsType DEF SyncEdgeToKube, SyncerTypeOK
<1>2. syn' \in Round /\ RoundHasItsCopies'
  <2>1. /\ syn.pc = "apply" /\ syn.redundantKube \in SUBSET KubeNames
        /\ syn.redundantEdge \in SUBSET EdgeNames
        /\ syn = [syn EXCEPT !.redundantKube = syn.redundantKube]
    BY DEF SyncEdgeToKube, SyncerTypeOK, Round
  <2>2. \A R \in SUBSET EdgeNames : [syn EXCEPT !.redundantEdge = R] =
          [syn EXCEPT !.redundantEdge = R, !.redundantKube = syn.redundantKube]
    BY DEF SyncerTypeOK, Round
  <2>3. \E R \in SUBSET EdgeNames : /\ R \subseteq syn.redundantEdge
                                    /\ Continue([syn EXCEPT !.redundantEdge = R])
    BY <2>1 DEF SyncEdgeToKube
  <2> QED
    BY <2>1, <2>2, <2>3, LessToDoType
<1>3. CASE ApiUnchanged
  BY <1>1, <1>2, <1>3 DEF SyncEdgeToKube, SyncerTypeOK, ClusterTypeOK, ApiUnchanged
<1>4. CASE Create(SyncerName[e], completeCreateContent(e))
  <2>1. syn.edgeDevices[e] \in Listed
    BY DEF SyncEdgeToKube, SyncerTypeOK, RoundHasItsCopies, Round
  <2>2. completeCreateContent(e) \in DeviceSpec
    BY <2>1 DEF completeCreateContent, DeviceSpec, Listed
  <2>3. SyncerName[e] \in KubeNames /\ {} \in SUBSET Holders
    BY NamesAssumption
  <2> QED
    BY <1>1, <1>2, <1>4, <2>2, <2>3, NewDeviceType, StoreType
       DEF Create, SyncEdgeToKube, SyncerTypeOK, ClusterTypeOK
<1> QED
  BY <1>3, <1>4 DEF SyncEdgeToKube

LEMMA DeleteRedundantType ==
  ASSUME SyncerTypeOK, NEW n \in KubeNames, DeleteRedundant(n)
  PROVE  SyncerTypeOK'
<1>1. faults' \in 0..MaxFaults
  BY FaultsType DEF DeleteRedundant, SyncerTypeOK
<1>2. syn' \in Round /\ RoundHasItsCopies'
  <2>1. /\ syn.pc = "apply" /\ syn.redundantEdge = {}
        /\ syn.redundantKube \in SUBSET KubeNames
    BY DEF DeleteRedundant, SyncerTypeOK, Round
  <2>2. \A K \in SUBSET KubeNames : [syn EXCEPT !.redundantKube = K] =
          [syn EXCEPT !.redundantEdge = {}, !.redundantKube = K]
    BY <2>1 DEF SyncerTypeOK, Round
  <2>3. \E K \in SUBSET KubeNames : Continue([syn EXCEPT !.redundantKube = K])
    BY <2>1 DEF DeleteRedundant
  <2>4. {} \in SUBSET EdgeNames /\ {} \subseteq syn.redundantEdge
    OBVIOUS
  <2> QED
    BY <2>1, <2>2, <2>3, <2>4, LessToDoType
<1>3. CASE ApiUnchanged
  BY <1>1, <1>2, <1>3 DEF DeleteRedundant, SyncerTypeOK, ClusterTypeOK, ApiUnchanged
<1>4. CASE Exists(n) /\ Delete(n)
  BY <1>1, <1>2, <1>4, DeleteType DEF DeleteRedundant, SyncerTypeOK, ClusterTypeOK
<1> QED
  BY <1>3, <1>4 DEF DeleteRedundant

LEMMA UpdatedType ==
  ASSUME SyncerTypeOK, syn.pc = "apply", syn.toRead = {},
         NEW names \in SUBSET KubeNames, Updated(names)
  PROVE  syn' \in Round /\ RoundHasItsCopies'
<1> DEFINE copies == [n \in KubeNames |-> IF n \in names THEN NoCR ELSE syn.copy[n]]
           r == [syn EXCEPT !.synced = syn.synced \ names, !.copy = copies]
<1>1. copies \in [KubeNames -> Copy \cup {NoCR}]
  BY DEF SyncerTypeOK, Round
<1>2. \A n \in syn.synced \ names : copies[n] # NoCR
  BY DEF SyncerTypeOK, RoundHasItsCopies, Round
<1> HIDE DEF copies
<1>3. /\ r \in Round /\ r.redundantEdge = syn.redundantEdge
      /\ r.edgeDevices = syn.edgeDevices
      /\ r.synced = syn.synced \ names /\ r.toRead = {} /\ r.copy = copies
      /\ r.reading = NoName
  BY <1>1 DEF SyncerTypeOK, RoundHasItsCopies, Round
<1>4. Continue(r)
  BY DEF Updated, copies
<1> HIDE DEF r
<1> QED
  BY <1>2, <1>3, <1>4, ContinueType DEF SyncerTypeOK, RoundHasItsCopies

LEMMA UpdateDeviceStatusType ==
  ASSUME SyncerTypeOK, NEW n \in KubeNames, UpdateDeviceStatus(n)
  PROVE  SyncerTypeOK'
<1>1. faults' \in 0..MaxFaults
  BY FaultsType DEF UpdateDeviceStatus, SyncerTypeOK
<1>2. syn' \in Round /\ RoundHasItsCopies'
  <2>1. Updated({n}) \/ Updated(syn.synced)
    BY DEF UpdateDeviceStatus
  <2>2. {n} \in SUBSET KubeNames /\ syn.synced \in SUBSET KubeNames
    BY DEF SyncerTypeOK, Round
  <2> QED
    BY <2>1, <2>2, UpdatedType DEF UpdateDeviceStatus
<1>3. "syncer" \in Holders
  BY DEF Holders
<1>4. CASE Forget(n, "syncer")
  BY <1>1, <1>2, <1>3, <1>4, ForgetType DEF UpdateDeviceStatus, SyncerTypeOK, ClusterTypeOK
<1>5. CASE /\ UpdateReply(n) = "ok"
           /\ PutLast(n, WithStatus(n, syn.copy[n].status), "syncer")
  <2>1. syn.copy[n].status \in DeviceStatus
    BY DEF UpdateDeviceStatus, SyncerTypeOK, RoundHasItsCopies, Round, Copy
  <2>2. WithStatus(n, syn.copy[n].status) \in Device
    BY <1>5, <2>1, WithStatusType DEF UpdateReply, SyncerTypeOK
  <2> QED
    BY <1>1, <1>2, <1>3, <1>5, <2>2, PutType
       DEF UpdateDeviceStatus, SyncerTypeOK, ClusterTypeOK
<1> QED
  BY <1>4, <1>5 DEF UpdateDeviceStatus

LEMMA SyncerStepType ==
  ASSUME SyncerTypeOK, NEW busy, SyncerStep(busy)
  PROVE  SyncerTypeOK'
  BY ListEdgeDevicesType, ListKubeDevicesType, SyncEdgeToKubeType,
     ListPropertiesStateType, ReadListedPropertyType, DeleteRedundantType,
     UpdateDeviceStatusType
  DEF SyncerStep

(***************************************************************************)
(* The system.                                                             *)
(***************************************************************************)
LEMMA InitType == Init => TypeInv
  <1> SUFFICES ASSUME Init PROVE TypeInv
    OBVIOUS
  <1>1. ClusterTypeOK
    BY BoundsAssumption DEF Init, ClusterInit, ClusterTypeOK, Holders
  <1>2. rec \in Worker /\ WorkerHasItsCR
    BY NewStatusType DEF Init, IdleWorker, Worker, WorkerHasItsCR, Visiting, RecPCs
  <1>3. syn \in Round /\ RoundHasItsCopies
    BY IdleRoundType DEF Init, RoundHasItsCopies, IdleRound
  <1> QED
    BY <1>1, <1>2, <1>3, EnvironmentAssumption DEF Init, TypeInv, TypeOK

LEMMA UserType ==
  ASSUME TypeInv, NEW n \in KubeNames, UserCreate(n) \/ UserUpdate(n) \/ UserDelete(n)
  PROVE  TypeInv'
<1>1. /\ UserStep /\ {} \in SUBSET Holders /\ ClusterTypeOK
      /\ UserSpecs[n] \subseteq DeviceSpec
  BY EnvironmentAssumption DEF UserCreate, UserUpdate, UserDelete, TypeInv, TypeOK
<1>2. /\ kube' \in [KubeNames -> Device \cup {NoCR}]
      /\ current' \in [KubeNames -> SUBSET Holders]
      /\ pending' \subseteq KubeNames
  <2>1. CASE UserCreate(n)
    BY <1>1, <2>1, NewDeviceType, StoreType DEF UserCreate, Create
  <2>2. CASE UserUpdate(n)
    <3>1. PICK s \in UserSpecs[n] : Store(n, [kube[n] EXCEPT !.spec = s], {})
      BY <2>2 DEF UserUpdate
    <3>2. [kube[n] EXCEPT !.spec = s] \in Device
      BY <1>1, <2>2, DeviceType DEF UserUpdate, Exists, ClusterTypeOK
    <3> QED
      BY <1>1, <3>1, <3>2, StoreType
  <2>3. CASE UserDelete(n)
    BY <1>1, <2>3, DeleteType DEF UserDelete
  <2> QED
    BY <2>1, <2>2, <2>3
<1>3. userOps' \in 0..MaxUserOps
  BY <1>1, EnvironmentAssumption DEF UserStep, TypeInv, TypeOK
<1> QED
  BY <1>1, <1>2, <1>3
     DEF UserStep, Succeeds, TypeInv, TypeOK, ClusterTypeOK, WorkerHasItsCR, Visiting,
         RoundHasItsCopies, desiredProperties

LEMMA EdgeType ==
  ASSUME TypeInv, NEW e \in EdgeNames,
         AddEdgeDevice(e) \/ RemoveEdgeDevice(e) \/ ChangeEdgeDevice(e)
  PROVE  TypeInv'
<1>1. EdgeStep /\ ClusterTypeOK /\ EdgeStates \subseteq Listed
  BY EnvironmentAssumption
     DEF AddEdgeDevice, RemoveEdgeDevice, ChangeEdgeDevice, TypeInv, TypeOK
<1>2. edge' \in [EdgeNames -> EdgeDevice \cup {NoDevice}]
  <2>1. CASE AddEdgeDevice(e)
    <3>1. \A s \in EdgeStates :
            [adminState |-> s.adminState, operatingState |-> s.operatingState,
             values |-> [p \in Props |-> DefaultValue], owner |-> NoName] \in EdgeDevice
      BY <1>1, DataAssumption DEF EdgeDevice, Listed
    <3> QED
      BY <1>1, <2>1, <3>1 DEF AddEdgeDevice, ClusterTypeOK
  <2>2. CASE RemoveEdgeDevice(e)
    BY <1>1, <2>2 DEF RemoveEdgeDevice, ClusterTypeOK
  <2>3. CASE ChangeEdgeDevice(e)
    <3>1. edge[e] \in EdgeDevice
      BY <1>1, <2>3 DEF ChangeEdgeDevice, ClusterTypeOK
    <3>2. \A s \in Listed : [edge[e] EXCEPT !.adminState = s.adminState,
                                            !.operatingState = s.operatingState] \in EdgeDevice
      BY <3>1 DEF EdgeDevice, Listed
    <3>3. \A p \in Props, v \in Values : [edge[e] EXCEPT !.values[p] = v] \in EdgeDevice
      BY <3>1 DEF EdgeDevice
    <3>4. \E d \in EdgeDevice : edge' = [edge EXCEPT ![e] = d]
      <4>1. CASE \E s \in EdgeStates :
                   edge' = [edge EXCEPT ![e].adminState = s.adminState,
                                        ![e].operatingState = s.operatingState]
        <5>1. PICK s \in EdgeStates :
                edge' = [edge EXCEPT ![e] = [edge[e] EXCEPT !.adminState = s.adminState,
                                                            !.operatingState = s.operatingState]]
          BY <4>1, <1>1 DEF ClusterTypeOK
        <5> QED
          BY <1>1, <3>2, <5>1
      <4>2. CASE \E p \in Props, v \in Values : edge' = [edge EXCEPT ![e].values[p] = v]
        <5>1. PICK p \in Props, v \in Values :
                edge' = [edge EXCEPT ![e] = [edge[e] EXCEPT !.values[p] = v]]
          BY <4>2
        <5> QED
          BY <3>3, <5>1
      <4> QED
        BY <2>3, <4>1, <4>2 DEF ChangeEdgeDevice
    <3> QED
      BY <1>1, <3>4 DEF ClusterTypeOK
  <2> QED
    BY <2>1, <2>2, <2>3
<1>3. edgeOps' \in 0..MaxEdgeOps
  BY <1>1, EnvironmentAssumption DEF EdgeStep, TypeInv, TypeOK
<1> QED
  BY <1>1, <1>2, <1>3
     DEF EdgeStep, Succeeds, TypeInv, TypeOK, ClusterTypeOK, WorkerHasItsCR, Visiting,
         RoundHasItsCopies, desiredProperties

LEMMA InformerType ==
  ASSUME ClusterTypeOK, NEW n \in KubeNames, Deliver(n) \/ Relist(n) \/ Resync
  PROVE  ClusterTypeOK'
<1>1. faults' \in 0..MaxFaults
  BY FaultsType DEF Deliver, Relist, Resync, ClusterTypeOK
<1> QED
  BY <1>1 DEF Deliver, Relist, Resync, Holders, ClusterTypeOK

LEMMA RestartType ==
  ASSUME TypeInv, Restart
  PROVE  TypeInv'
<1>1. faults' \in 0..MaxFaults
  BY FaultsType DEF Restart, TypeInv, TypeOK
<1>2. rec' \in Worker /\ WorkerHasItsCR'
  BY NewStatusType DEF Restart, IdleWorker, Worker, WorkerHasItsCR, Visiting, RecPCs
<1>3. syn' \in Round /\ RoundHasItsCopies'
  BY IdleRoundType DEF Restart, RoundHasItsCopies, IdleRound
<1> QED
  BY <1>1, <1>2, <1>3 DEF Restart, others, Holders, TypeInv, TypeOK, ClusterTypeOK

LEMMA StepType ==
  ASSUME TypeInv, [Next]_vars
  PROVE  TypeInv'
<1> USE DEF TypeInv, TypeOK
<1>1. CASE \E n \in KubeNames : UserCreate(n) \/ UserUpdate(n) \/ UserDelete(n)
  BY <1>1, UserType
<1>2. CASE \E e \in EdgeNames :
             AddEdgeDevice(e) \/ RemoveEdgeDevice(e) \/ ChangeEdgeDevice(e)
  BY <1>2, EdgeType
<1>3. CASE \E n \in KubeNames : TakeKey(n)
  BY <1>3, ReconcileType
     DEF TakeKey, others, ReconcilerTypeOK, RoundHasItsCopies
<1>4. CASE \/ \E n \in KubeNames : WatchDelivers(n) \/ WatchBreaks(n)
           \/ InformerResyncs /\ KubeNames # {}
  <2>1. PICK n \in KubeNames : Deliver(n) \/ Relist(n) \/ Resync
    BY <1>4 DEF WatchDelivers, WatchBreaks, InformerResyncs
  <2>2. UNCHANGED <<rec, syn, others>>
    BY <1>4 DEF WatchDelivers, WatchBreaks, InformerResyncs
  <2> QED
    BY <2>1, <2>2, InformerType
       DEF others, WorkerHasItsCR, Visiting, RoundHasItsCopies, desiredProperties
<1>5. CASE InformerResyncs /\ KubeNames = {}
  BY <1>5 DEF InformerResyncs, Resync, others, ClusterTypeOK, WorkerHasItsCR, Visiting,
              RoundHasItsCopies, desiredProperties
<1>6. CASE ReconcilerRuns
  BY <1>6, ReconcilerStepType
     DEF ReconcilerRuns, others, ReconcilerTypeOK, RoundHasItsCopies
<1>7. CASE SyncerRuns
  <2>1. rounds' \in 0..MaxRounds
    BY <1>7, EnvironmentAssumption DEF SyncerRuns
  <2> QED
    BY <1>7, <2>1, SyncerStepType
       DEF SyncerRuns, SyncerTypeOK, WorkerHasItsCR, Visiting, desiredProperties
<1>8. CASE Restart
  BY <1>8, RestartType
<1>9. CASE UNCHANGED vars
  BY <1>9 DEF vars, clusterVars, others, ClusterTypeOK, WorkerHasItsCR, Visiting,
              RoundHasItsCopies, desiredProperties
<1> QED
  BY <1>1, <1>2, <1>3, <1>4, <1>5, <1>6, <1>7, <1>8, <1>9 DEF Next, Environment

THEOREM TypeInvariance == Spec => []TypeInv
<1>1. Init => TypeInv
  BY InitType
<1>2. TypeInv /\ [Next]_vars => TypeInv'
  BY StepType
<1> QED
  BY <1>1, <1>2, PTL DEF Spec

(* Type correctness: every variable of the process, of the API server and  *)
(* of the edge keeps to its type, whatever the names, the specs users      *)
(* submit, the failures and the bounds.                                    *)
THEOREM TypeCorrect == Spec => []TypeOK
<1>1. TypeInv => TypeOK
  BY DEF TypeInv
<1> QED
  BY <1>1, TypeInvariance, PTL
=============================================================================
