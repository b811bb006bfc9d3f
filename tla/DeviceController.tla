-------------------------- MODULE DeviceController --------------------------
(***************************************************************************)
(* DeviceReconciler of pkg/controllers/device_controller.go.  The worker   *)
(* (there is one) runs Reconcile for one key at a time; every request to   *)
(* the API server or to EdgeX is a step of its own, because users, the     *)
(* syncer and the edge act between two of them.  rec is the worker: where  *)
(* it is, and the local variables of Reconcile that outlive a request.     *)
(***************************************************************************)
EXTENDS DeviceCluster

VARIABLE rec

RecPCs == {"idle", "addFinalizer", "deleteDevice", "removeFinalizer",
           "getDevice", "createDevice", "writeSynced", "updateDevice",
           "properties", "readProperty", "writeProperty", "putProperty",
           "writeStatus", "finish", "panicked"}

Worker ==
  [pc: RecPCs,
   key: KubeNames \cup {NoName},
   d: Device \cup {NoCR},            \* the local copy of the CR
   newStatus: DeviceStatus,          \* newDeviceStatus of reconcileUpdateDevice
   left: SUBSET Props,               \* properties the loop has still to visit
   property: Props \cup {NoName},    \* the property being read or written
   mapMade: BOOLEAN,                 \* newDeviceStatus.DeviceProperties # nil
   failed: BOOLEAN,                  \* failedPropertyNames is not empty
   requeue: BOOLEAN,                 \* Reconcile asks for another run
   panics: BOOLEAN]                  \* Reconcile panics

IdleWorker ==
  [pc |-> "idle", key |-> NoName, d |-> NoCR, newStatus |-> NewStatus,
   left |-> {}, property |-> NoName, mapMade |-> FALSE, failed |-> FALSE,
   requeue |-> FALSE, panics |-> FALSE]

Finish(requeue) == rec' = [rec EXCEPT !.pc = "finish", !.requeue = requeue]

FinishWith(status, requeue) ==
  rec' = [rec EXCEPT !.pc = "finish", !.requeue = requeue, !.d.status = status]

target == GetEdgeDeviceName(rec.d)

----------------------------------------------------------------------------
(* Conversions of pkg/clients/edgex-foundry/util.go: an unset state is not *)
(* left out of the request but becomes UNLOCKED, or UNKNOWN.               *)
toEdgeXAdminState(s) == IF s = "LOCKED" THEN "LOCKED" ELSE "UNLOCKED"

OperatingStateAsIs(s) == s  \* faulty form of toEdgeXOperatingState

toEdgeXOperatingState(s) == IF s \in {"UP", "DOWN"} THEN s ELSE "UNKNOWN"

toEdgeXDevice(d, n) ==
  [adminState |-> toEdgeXAdminState(d.spec.adminState),
   operatingState |-> toEdgeXOperatingState(d.spec.operatingState),
   values |-> [p \in Props |-> DefaultValue], owner |-> n]

----------------------------------------------------------------------------
(* Reconcile: the dispatch. *)

(* Some definitions of this module and of DeviceSyncer are preceded by a   *)
(* faulty form of theirs, in which a property must fail.                   *)

AfterDeleteIfManaged(d) ==  \* faulty form of AfterDelete: creates managed CRs only
  IF ~d.spec.managed THEN "finish"
  ELSE IF ~d.status.synced THEN "getDevice" ELSE "updateDevice"

(* After reconcileDeleteDevice returned nil for a CR that is not deleted. *)
AfterDelete(d) ==
  IF ~d.status.synced THEN "getDevice"
  ELSE IF d.spec.managed THEN "updateDevice" ELSE "finish"

(* Faulty forms of FirstRequest: without the finalizer; without the        *)
(* deletion on the edge; with no deletion of a CR that is not synced.      *)
FirstRequestUnguarded(d) == IF d.deleting THEN "deleteDevice" ELSE AfterDelete(d)

FirstRequestReleases(d) ==
  IF d.deleting THEN "removeFinalizer"
  ELSE IF ~d.finalizer THEN "addFinalizer" ELSE AfterDelete(d)

FirstRequestOfSynced(d) ==
  IF d.deleting THEN IF d.status.synced THEN "deleteDevice" ELSE "finish"
  ELSE IF ~d.finalizer THEN "addFinalizer" ELSE AfterDelete(d)

FirstRequest(d) ==
  IF d.deleting THEN "deleteDevice"
  ELSE IF ~d.finalizer THEN "addFinalizer" ELSE AfterDelete(d)

HandlesAnyPool(n) == cache[n] # NoCR  \* faulty form of Handles

(* A CR that is not in the cache or not of this pool is left alone. *)
Handles(n) == cache[n] # NoCR /\ cache[n].spec.nodePool = NodePool

(* The worker takes a key; rec.d is the cached CR. *)
Reconcile(n) ==
  /\ rec.pc = "idle"
  /\ n \in queue
  /\ queue' = queue \ {n}
  /\ IF Handles(n)
     THEN /\ rec' = [IdleWorker EXCEPT !.pc = FirstRequest(cache[n]),
                                       !.key = n, !.d = cache[n]]
          /\ current' = [current EXCEPT ![n] = ReadFromCache(n, "reconciler")]
     ELSE UNCHANGED <<rec, current>>
  /\ UNCHANGED <<kube, cache, pending, edge, faults>>

SummaryOfSynced(s) ==  \* faulty form of Summary
  IF s.syncedCondition = "True" THEN "True" ELSE "False"

(* conditions.SetSummary over the Synced and Managing conditions. *)
Summary(s) ==
  LET conds == {s.syncedCondition, s.managingCondition} \ {"none"}
  IN  IF conds = {} THEN s.ready
      ELSE IF conds = {"True"} THEN "True" ELSE "False"

(* The status that the deferred function of Reconcile sends. *)
DeferredStatus ==
  LET s == IF rec.d.spec.managed THEN rec.d.status
           ELSE [rec.d.status EXCEPT !.managingCondition = "notManaged"]
  IN  [s EXCEPT !.ready = Summary(s)]

(* The worker after Reconcile: free again, or taken down with the process. *)
LeftWorker == [IdleWorker EXCEPT !.pc = IF rec.panics THEN "panicked" ELSE "idle"]

(* The deferred status update, whose error is only logged, and the return. *)
(* The deferred function runs also when Reconcile panics.                  *)
Return ==
  /\ rec.pc = "finish"
  /\ \/ /\ Succeeds
        /\ IF StatusReply(rec.key, "reconciler") = "ok"
           THEN PutLast(rec.key, WithStatus(rec.key, DeferredStatus), "reconciler")
           ELSE Forget(rec.key, "reconciler")
     \/ Fails({"api"}) /\ Forget(rec.key, "reconciler")
  /\ queue' = IF rec.requeue THEN queue \cup {rec.key} ELSE queue
  /\ rec' = LeftWorker
  /\ UNCHANGED <<cache, edge>>

----------------------------------------------------------------------------
(* reconcileDeleteDevice *)

(* Both patches carry no resourceVersion: they apply to whatever CR has    *)
(* the name, which is decoded into d.                                      *)
Patched(cr) ==
  LET d == Decoded(cr, rec.d, rec.key)
  IN  /\ Put(rec.key, cr, "reconciler")
      /\ rec' = [rec EXCEPT !.d = d,
                            !.pc = IF d.deleting THEN "finish" ELSE AfterDelete(d)]

AddFinalizer ==
  /\ rec.pc = "addFinalizer"
  /\ \/ Succeeds /\ Exists(rec.key)
        /\ Patched([kube[rec.key] EXCEPT !.finalizer = TRUE])
     \/ Succeeds /\ ~Exists(rec.key) /\ Finish(FALSE) /\ ApiUnchanged
     \/ Fails({"api"}) /\ Finish(TRUE) /\ ApiUnchanged
  /\ UNCHANGED <<cache, queue, edge>>

(* Whether IsNotFoundErr knows the text that EdgeX answers to the deletion *)
(* of an unknown device: yes, no, or either.                               *)
CONSTANT DeleteNotFoundRecognised
ASSUME RecognitionAssumption == DeleteNotFoundRecognised \in SUBSET BOOLEAN \ {{}}

DeleteDevice ==
  /\ rec.pc = "deleteDevice"
  /\ \/ /\ Succeeds /\ edge[target] # NoDevice
        /\ edge' = [edge EXCEPT ![target] = NoDevice]
        /\ rec' = [rec EXCEPT !.pc = "removeFinalizer"]
     \/ /\ Succeeds /\ edge[target] = NoDevice /\ UNCHANGED edge
        /\ \/ TRUE \in DeleteNotFoundRecognised /\ rec' = [rec EXCEPT !.pc = "removeFinalizer"]
           \/ FALSE \in DeleteNotFoundRecognised /\ Finish(TRUE)
     \/ Fails({"unreachable", "server"}) /\ Finish(TRUE) /\ UNCHANGED edge
     \/ /\ Fails({"lost"}) /\ Finish(TRUE)
        /\ edge' = [edge EXCEPT ![target] = NoDevice]
  /\ ApiUnchanged
  /\ UNCHANGED <<cache, queue>>

(* The last finalizer of a deleted CR goes, and the CR with it.            *)
RemoveFinalizer ==
  /\ rec.pc = "removeFinalizer"
  /\ \/ /\ Succeeds /\ Exists(rec.key) /\ kube[rec.key].deleting
        /\ Store(rec.key, NoCR, {}) /\ Finish(FALSE)
     \/ /\ Succeeds /\ Exists(rec.key) /\ ~kube[rec.key].deleting
        /\ Patched([kube[rec.key] EXCEPT !.finalizer = FALSE])
     \/ Succeeds /\ ~Exists(rec.key) /\ Finish(FALSE) /\ ApiUnchanged
     \/ Fails({"api"}) /\ Finish(TRUE) /\ ApiUnchanged
  /\ UNCHANGED <<cache, queue, edge>>

----------------------------------------------------------------------------
(* reconcileCreateDevice *)

Synced(status, hasId) ==
  [status EXCEPT !.synced = TRUE, !.edgeId = hasId, !.syncedCondition = "True"]

Found(hasId) ==
  rec' = [rec EXCEPT !.pc = "writeSynced", !.d.status = Synced(rec.d.status, hasId)]

(* EdgexDeviceClient.Get: only a 404 is an error of EdgeX; a 5xx with a    *)
(* JSON body decodes to an empty device.  An unreachable EdgeX is not      *)
(* reported to the workqueue.                                              *)
GetDevice ==
  /\ rec.pc = "getDevice"
  /\ \/ Succeeds /\ edge[target] # NoDevice /\ Found(TRUE)
     \/ /\ Succeeds /\ edge[target] = NoDevice
        /\ rec' = [rec EXCEPT !.pc = "createDevice"]
     \/ Fails({"server"}) /\ Found(FALSE)
     \/ /\ Fails({"unreachable", "lost"})
        /\ FinishWith([rec.d.status EXCEPT !.syncedCondition = "unreachable"], FALSE)
  /\ ApiUnchanged
  /\ UNCHANGED <<cache, queue, edge>>

CreateFailed ==
  FinishWith([rec.d.status EXCEPT !.syncedCondition = "createFailed"], TRUE)

AddToEdge == edge' = [edge EXCEPT ![target] = toEdgeXDevice(rec.d, rec.key)]

(* EdgexDeviceClient.Create: the device exists after a 207 whose one item  *)
(* is a 201, or after a reply that never came.                             *)
CreateDevice ==
  /\ rec.pc = "createDevice"
  /\ \/ Succeeds /\ edge[target] = NoDevice /\ AddToEdge /\ Found(TRUE)
     \/ Succeeds /\ edge[target] # NoDevice /\ CreateFailed /\ UNCHANGED edge
     \/ Fails({"unreachable", "server", "item"}) /\ CreateFailed /\ UNCHANGED edge
     \/ Fails({"lost"}) /\ edge[target] = NoDevice /\ AddToEdge /\ CreateFailed
  /\ ApiUnchanged
  /\ UNCHANGED <<cache, queue>>

(* Status().Update of the Synced status; every error asks for another run. *)
WriteSynced ==
  /\ rec.pc = "writeSynced"
  /\ \/ /\ Succeeds /\ StatusReply(rec.key, "reconciler") = "ok"
        /\ Put(rec.key, WithStatus(rec.key, rec.d.status), "reconciler") /\ Finish(FALSE)
     \/ /\ Succeeds /\ StatusReply(rec.key, "reconciler") # "ok"
        /\ Finish(TRUE) /\ ApiUnchanged
     \/ Fails({"api"}) /\ Finish(TRUE) /\ ApiUnchanged
  /\ UNCHANGED <<cache, queue, edge>>

----------------------------------------------------------------------------
(* reconcileUpdateDevice *)

(* A state that the spec leaves unset, or that the status already shows,   *)
(* is blanked in the copy that is sent.                                    *)
Wanted(specified, reported) ==
  IF specified # "" /\ specified # reported THEN specified ELSE ""

wantedAdmin == Wanted(rec.d.spec.adminState, rec.d.status.adminState)
wantedOperating == Wanted(rec.d.spec.operatingState, rec.d.status.operatingState)

(* newDeviceStatus after the PATCH. *)
PatchedStatus ==
  LET s == rec.d.status
  IN  [s EXCEPT !.adminState = IF wantedAdmin # "" THEN wantedAdmin ELSE @,
                !.operatingState = IF wantedOperating # "" THEN wantedOperating ELSE @]

(* EdgeX executes the PATCH built by toEdgeXUpdateDevice, which names the  *)
(* device by the name of the CR and, when it is known, by its id: no       *)
(* device has the name, or another name than the id's, is an error of the  *)
(* one item.                                                               *)
Addressed ==
  /\ rec.key \in EdgeNames /\ edge[rec.key] # NoDevice
  /\ rec.d.status.edgeId => rec.key = target

PatchEdge ==
  edge' = IF Addressed
          THEN [edge EXCEPT
                 ![rec.key].adminState = toEdgeXAdminState(wantedAdmin),
                 ![rec.key].operatingState = toEdgeXOperatingState(wantedOperating)]
          ELSE edge

unrecordedProperties ==  \* faulty form of desiredProperties
  {p \in Props : rec.d.spec.desired[p] \notin {"", rec.d.status.deviceProperties[p]}}

desiredProperties == {p \in Props : rec.d.spec.desired[p] # ""}

(* Properties are reconciled only for a device that is up and unlocked.    *)
AfterPatch ==
  LET up == /\ PatchedStatus.operatingState = "UP"
            /\ PatchedStatus.adminState = "UNLOCKED"
  IN  rec' = [rec EXCEPT
               !.pc = IF up /\ desiredProperties # {} THEN "properties" ELSE "writeStatus",
               !.newStatus = PatchedStatus,
               !.left = IF up THEN desiredProperties ELSE {},
               !.mapMade = \E p \in Props : rec.d.status.deviceProperties[p] # "no entry"]

UpdateFailed ==
  FinishWith([rec.d.status EXCEPT !.managingCondition = "updateFailed"], TRUE)

(* EdgexDeviceClient.Update: any 207 is a success, whatever its item says. *)
UpdateDevice ==
  /\ rec.pc = "updateDevice"
  /\ \/ Succeeds /\ PatchEdge /\ AfterPatch
     \/ Fails({"item"}) /\ AfterPatch /\ UNCHANGED edge
     \/ Fails({"unreachable", "server"}) /\ UpdateFailed /\ UNCHANGED edge
     \/ Fails({"lost"}) /\ PatchEdge /\ UpdateFailed
  /\ ApiUnchanged
  /\ UNCHANGED <<cache, queue>>

(* Status().Update of newDeviceStatus; the Managing condition is set on    *)
(* the local copy and reaches the API server with the deferred update.     *)
WriteStatus ==
  /\ rec.pc = "writeStatus"
  /\ LET managing(c) == [rec.newStatus EXCEPT !.managingCondition = c]
     IN \/ /\ Succeeds /\ StatusReply(rec.key, "reconciler") = "ok"
           /\ Put(rec.key, WithStatus(rec.key, rec.newStatus), "reconciler")
           /\ FinishWith(managing(IF rec.failed THEN "propertiesFailed" ELSE "True"), FALSE)
        \/ /\ Succeeds /\ StatusReply(rec.key, "reconciler") # "ok"
           /\ FinishWith(managing("statusFailed"), TRUE) /\ ApiUnchanged
        \/ Fails({"api"}) /\ FinishWith(managing("statusFailed"), TRUE) /\ ApiUnchanged
  /\ UNCHANGED <<cache, queue, edge>>

----------------------------------------------------------------------------
(* reconcileDeviceProperties: one read, and one write when it is needed,   *)
(* for every desired property, in an order the map iteration chooses.      *)

Reachable(e) ==
  /\ edge[e] # NoDevice
  /\ edge[e].adminState = "UNLOCKED"
  /\ edge[e].operatingState # "DOWN"

(* The GET URL is in the status, or must be looked up in core-command. *)
URLKnown(p) ==
  /\ p \in Readable
  /\ rec.d.status.deviceProperties[p] \notin {"no entry", "no url"}

(* On to the next property, or out of the loop. *)
NextProperty(p, status, made, failed) ==
  rec' = [rec EXCEPT !.pc = IF rec.left = {p} THEN "writeStatus" ELSE "properties",
                     !.left = @ \ {p}, !.property = NoName, !.newStatus = status,
                     !.mapMade = made, !.failed = @ \/ failed]

ReadFailed(p) == NextProperty(p, rec.newStatus, rec.mapMade, TRUE)

(* The entry read for p is kept only if the map existed before; a value    *)
(* other than the desired one is followed by a write.                      *)
GotProperty(p, entry) ==
  LET status == IF rec.mapMade
                THEN [rec.newStatus EXCEPT !.deviceProperties[p] = entry]
                ELSE rec.newStatus
  IN  IF entry = rec.d.spec.desired[p]
      THEN NextProperty(p, status, TRUE, FALSE)
      ELSE rec' = [rec EXCEPT !.pc = "writeProperty", !.property = p,
                              !.newStatus = status, !.mapMade = TRUE]

(* The nil state of a property without a read command is dereferenced; the *)
(* deferred function runs while the panic unwinds.                         *)
Panic == rec' = [rec EXCEPT !.pc = "finish", !.panics = TRUE]

(* GetPropertyState up to the GET.  Without a known URL the commands of    *)
(* the device are listed first: a device unknown to core-command is a      *)
(* tolerated error with an empty state, no GET command (or a 5xx, which    *)
(* decodes to no command at all) a tolerated error with no state.          *)
GetPropertyState(p) ==
  /\ rec.pc = "properties" /\ p \in rec.left
  /\ \/ /\ Succeeds
        /\ URLKnown(p) \/ (p \in Readable /\ edge[target] # NoDevice)
        /\ rec' = [rec EXCEPT !.pc = "readProperty", !.property = p]
     \/ /\ Succeeds /\ ~URLKnown(p) /\ edge[target] = NoDevice
        /\ GotProperty(p, "no url")
     \/ Succeeds /\ p \notin Readable /\ edge[target] # NoDevice /\ Panic
     \/ Fails({"server"}) /\ ~URLKnown(p) /\ Panic
     \/ Fails({"unreachable", "lost"}) /\ ~URLKnown(p) /\ ReadFailed(p)
  /\ ApiUnchanged
  /\ UNCHANGED <<cache, queue, edge>>

(* The GET.  Of the 5xx only a 500 is an error: the body of another, if it *)
(* is JSON, is an event without a reading.                                 *)
ReadProperty ==
  LET p == rec.property
  IN  /\ rec.pc = "readProperty"
      /\ \/ Succeeds /\ Reachable(target) /\ GotProperty(p, edge[target].values[p])
         \/ Succeeds /\ ~Reachable(target) /\ ReadFailed(p)
         \/ Fails({"unreachable", "lost", "server"}) /\ ReadFailed(p)
         \/ Fails({"server"}) /\ GotProperty(p, "")
      /\ ApiUnchanged
      /\ UNCHANGED <<cache, queue, edge>>

NotSet == NextProperty(rec.property, rec.newStatus, TRUE, TRUE)

(* The look-up of the PUT command, without which there is an error. *)
getPropertyPut ==
  LET found == edge[target] # NoDevice /\ rec.property \in Writable
  IN  /\ rec.pc = "writeProperty"
      /\ \/ Succeeds /\ found /\ rec' = [rec EXCEPT !.pc = "putProperty"]
         \/ Succeeds /\ ~found /\ NotSet
         \/ Fails({"unreachable", "lost", "server"}) /\ NotSet
      /\ ApiUnchanged
      /\ UNCHANGED <<cache, queue, edge>>

(* UpdatePropertyState: the PUT. *)
UpdatePropertyState ==
  LET p == rec.property
      desired == rec.d.spec.desired[p]
      set == edge' = [edge EXCEPT ![target].values[p] = desired]
  IN  /\ rec.pc = "putProperty"
      /\ \/ /\ Succeeds /\ Reachable(target) /\ set
            /\ NextProperty(p, [rec.newStatus EXCEPT !.deviceProperties[p] = desired],
                            TRUE, FALSE)
         \/ Succeeds /\ ~Reachable(target) /\ NotSet /\ UNCHANGED edge
         \/ Fails({"unreachable", "server"}) /\ NotSet /\ UNCHANGED edge
         \/ Fails({"lost"}) /\ Reachable(target) /\ set /\ NotSet
      /\ ApiUnchanged
      /\ UNCHANGED <<cache, queue>>

----------------------------------------------------------------------------
ReconcilerStep ==
  \/ AddFinalizer \/ DeleteDevice \/ RemoveFinalizer
  \/ GetDevice \/ CreateDevice \/ WriteSynced
  \/ UpdateDevice \/ WriteStatus
  \/ (\E p \in Props : GetPropertyState(p))
  \/ ReadProperty \/ getPropertyPut \/ UpdatePropertyState
  \/ Return
=============================================================================
