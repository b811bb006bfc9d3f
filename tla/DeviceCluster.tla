--------------------------- MODULE DeviceCluster ---------------------------
(***************************************************************************)
(* The Device CRs of the cluster and the devices of EdgeX.                 *)
(* DeviceController and DeviceSyncer extend this module with the code of   *)
(* pkg/controllers; DeviceSystem composes them with users and failures.    *)
(***************************************************************************)
EXTENDS Cluster

CONSTANTS
  Props,         \* device properties (EdgeX core commands)
  Readable,      \* properties whose command has a GET
  Writable,      \* properties whose command has a PUT
  Values,        \* values a property takes on the device
  DefaultValue,  \* value of every property of a new device
  NoDevice

ASSUME NamesAssumption ==
  /\ NoName \notin KubeNames \cup Props
  /\ SyncerName \in [EdgeNames -> KubeNames]
  /\ NodePool \notin OtherPools

ASSUME DataAssumption ==
  /\ Readable \subseteq Props /\ Writable \subseteq Props
  /\ DefaultValue \in Values
  /\ {"", "no entry", "no url"} \cap Values = {}

----------------------------------------------------------------------------
(* The objects.  "" is a field left unset. *)

AdminStates == {"LOCKED", "UNLOCKED"}
OperatingStates == {"UP", "DOWN", "UNKNOWN"}

(* An entry of status.deviceProperties: absent, recorded without a GET URL *)
(* or a value ("" when the device gave none).                              *)
Entries == Values \cup {"", "no entry", "no url"}

SyncedConditions == {"none", "True", "unreachable", "createFailed"}
ManagingConditions ==
  {"none", "True", "notManaged", "updateFailed", "statusFailed", "propertiesFailed"}

DeviceStatus ==
  [synced: BOOLEAN, edgeId: BOOLEAN,
   adminState: AdminStates \cup {""}, operatingState: OperatingStates \cup {""},
   deviceProperties: [Props -> Entries],
   syncedCondition: SyncedConditions, managingCondition: ManagingConditions,
   ready: {"none", "True", "False"}]

NewStatus ==
  [synced |-> FALSE, edgeId |-> FALSE, adminState |-> "", operatingState |-> "",
   deviceProperties |-> [p \in Props |-> "no entry"],
   syncedCondition |-> "none", managingCondition |-> "none", ready |-> "none"]

(* What a user writes.  edgeName is what GetEdgeDeviceName makes of the    *)
(* EdgeX label, or of the CR's own name when there is no label.            *)
DeviceSpec ==
  [edgeName: EdgeNames, nodePool: {NodePool} \cup OtherPools, managed: BOOLEAN,
   adminState: AdminStates \cup {""}, operatingState: OperatingStates \cup {""},
   desired: [Props -> Values \cup {""}]]

Device == [spec: DeviceSpec, deleting: BOOLEAN, finalizer: BOOLEAN, status: DeviceStatus]

NewDevice(spec) ==
  [spec |-> spec, deleting |-> FALSE, finalizer |-> FALSE, status |-> NewStatus]

GetEdgeDeviceName(d) == d.spec.edgeName

(* The answer new to a patch of n, decoded into the copy old, whose        *)
(* finalizer the caller has changed like the patch.  A label or an entry   *)
(* of a map that is not in the answer stays, too; the list of conditions   *)
(* is replaced if the answer has one.  A CR that stands for the device of  *)
(* its own name has no label.                                              *)
DecodedSpec(new, old, n) ==
  [edgeName |-> Filled(new.edgeName, old.edgeName, n),
   nodePool |-> new.nodePool,
   managed |-> Filled(new.managed, old.managed, FALSE),
   adminState |-> Filled(new.adminState, old.adminState, ""),
   operatingState |-> Filled(new.operatingState, old.operatingState, ""),
   desired |-> [p \in Props |-> Filled(new.desired[p], old.desired[p], "")]]

Unconditioned(s) == {s.syncedCondition, s.managingCondition, s.ready} = {"none"}

DecodedStatus(new, old) ==
  LET conditions == IF Unconditioned(new) THEN old ELSE new
  IN  [synced |-> Filled(new.synced, old.synced, FALSE),
       edgeId |-> Filled(new.edgeId, old.edgeId, FALSE),
       adminState |-> Filled(new.adminState, old.adminState, ""),
       operatingState |-> Filled(new.operatingState, old.operatingState, ""),
       deviceProperties |-> [p \in Props |-> Filled(new.deviceProperties[p],
                                                    old.deviceProperties[p], "no entry")],
       syncedCondition |-> conditions.syncedCondition,
       managingCondition |-> conditions.managingCondition,
       ready |-> conditions.ready]

Replaced(new, old, n) == new   \* faulty form of Decoded

Decoded(new, old, n) ==
  [spec |-> DecodedSpec(new.spec, old.spec, n),
   deleting |-> Filled(new.deleting, old.deleting, FALSE),
   finalizer |-> new.finalizer,
   status |-> DecodedStatus(new.status, old.status)]

(* A device on EdgeX.  owner is history: the CR for which this controller  *)
(* created it, NoName for a device that came into being on the edge.       *)
EdgeDevice ==
  [adminState: AdminStates, operatingState: OperatingStates,
   values: [Props -> Values], owner: KubeNames \cup {NoName}]

----------------------------------------------------------------------------
ASSUME AbsenceAssumption == NoCR \notin Device /\ NoDevice \notin EdgeDevice

ClusterTypeOK ==
  /\ kube \in [KubeNames -> Device \cup {NoCR}]
  /\ cache \in [KubeNames -> Device \cup {NoCR}]
  /\ current \in [KubeNames -> SUBSET Holders]
  /\ pending \subseteq KubeNames
  /\ queue \subseteq KubeNames
  /\ edge \in [EdgeNames -> EdgeDevice \cup {NoDevice}]
  /\ faults \in 0..MaxFaults

ClusterInit ==
  /\ kube = [n \in KubeNames |-> NoCR]
  /\ cache = [n \in KubeNames |-> NoCR]
  /\ current = [n \in KubeNames |-> {"cache"}]
  /\ pending = {}
  /\ queue = {}
  /\ edge = [e \in EdgeNames |-> NoDevice]
  /\ faults = 0

Create(n, spec) == Store(n, NewDevice(spec), {})
=============================================================================
