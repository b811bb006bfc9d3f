--------------------------- MODULE DeviceServices ---------------------------
(***************************************************************************)
(* DeviceServiceReconciler and DeviceServiceSyncer: the admin state is     *)
(* managed from the cloud, and a deferred function writes the conditions.  *)
(***************************************************************************)
EXTENDS EdgeObjects

(* After reconcileDeleteDeviceService returned nil. *)
ServiceAfterDelete(d) ==
  IF ~d.status.synced THEN "getObject"
  ELSE IF d.spec.managed THEN "updateObject" ELSE "finish"

ServiceReconcile(n) == TakesKey(n, ServiceAfterDelete(cache[n]))
AddServiceFinalizer == AddsFinalizer(ServiceAfterDelete(Answered(TRUE)))
RemoveServiceFinalizer == RemovesFinalizer
DeleteService == DeletesObject

(* reconcileCreateDeviceService; the look-up leaves the condition alone.   *)
GetService == GetsObject(GetEdgeName(rec.d))

CreateService ==
  CreatesObject(toEdgexDeviceService(rec.d.spec.definition),
                [Synced(TRUE) EXCEPT !.syncedCondition = "True"],
                [rec.d.status EXCEPT !.syncedCondition = "createFailed"])

WriteServiceSynced == WritesStatus("writeSynced", rec.d.status, rec.d.status)

----------------------------------------------------------------------------
(* reconcileUpdateDeviceService *)

Managing(condition) == [rec.d.status EXCEPT !.managingCondition = condition]

(* A state that the status already shows is blanked, and EdgeX leaves the  *)
(* state of the service alone then.                                        *)
Wanted ==
  IF rec.d.spec.adminState = rec.d.status.adminState THEN "" ELSE rec.d.spec.adminState

PatchService(s) ==
  LET e == GetEdgeName(rec.d)
  IN  edge' = IF edge[e] = NoObject \/ s = "" THEN edge
              ELSE [edge EXCEPT ![e].adminState = s]

Patched ==
  rec' = [rec EXCEPT !.pc = "writeStatus",
                     !.d.status.adminState = IF Wanted = "" THEN @ ELSE Wanted]

UpdateFailed == FinishWith(Managing("updateFailed"), TRUE)

(* EdgexDeviceServiceClient.Update sends nothing without an id, and takes  *)
(* a 207 for a success whatever it says of its item.                       *)
UpdateService ==
  /\ rec.pc = "updateObject"
  /\ IF ~rec.d.status.edgeId
     THEN Succeeds /\ UpdateFailed /\ UNCHANGED edge
     ELSE \/ Succeeds /\ PatchService(Wanted) /\ Patched
          \/ Fails({"item"}) /\ UNCHANGED edge /\ Patched
          \/ Fails({"unreachable", "server"}) /\ UNCHANGED edge /\ UpdateFailed
          \/ Fails({"lost"}) /\ PatchService(Wanted) /\ UpdateFailed
  /\ ApiUnchanged
  /\ UNCHANGED <<cache, queue>>

WriteServiceStatus ==
  WritesStatus("writeStatus", Managing("statusFailed"), Managing("True"))

----------------------------------------------------------------------------
ReadyIfSynced(s) ==   \* faulty form of ServiceSummary: one condition decides
  IF s.syncedCondition = "none" THEN s.ready
  ELSE IF s.syncedCondition = "True" THEN "True" ELSE "False"

(* conditions.SetSummary over the Synced and Managing conditions. *)
ServiceSummary(s) ==
  LET conds == {s.syncedCondition, s.managingCondition} \ {"none"}
  IN  IF conds = {} THEN s.ready ELSE IF conds = {"True"} THEN "True" ELSE "False"

DeferredServiceStatus ==
  LET s == IF rec.d.spec.managed THEN rec.d.status ELSE Managing("notManaged")
  IN  [s EXCEPT !.ready = ServiceSummary(s)]

(* The deferred status update, whose error is only logged.                 *)
EndServiceReconcile ==
  /\ Ends
  /\ \/ /\ Succeeds
        /\ IF StatusReply(rec.key, "reconciler") = "ok"
           THEN PutLast(rec.key, WithStatus(rec.key, DeferredServiceStatus), "reconciler")
           ELSE Forget(rec.key, "reconciler")
     \/ Fails({"api"}) /\ Forget(rec.key, "reconciler")

ServiceReconcilerStep ==
  \/ AddServiceFinalizer \/ RemoveServiceFinalizer \/ DeleteService
  \/ GetService \/ CreateService \/ WriteServiceSynced
  \/ UpdateService \/ WriteServiceStatus \/ EndServiceReconcile

----------------------------------------------------------------------------
(* DeviceServiceSyncer *)

ServicesOnEdge == {e \in EdgeNames : edge[e] # NoObject}

ListEdgeServices ==
  ListsEdge([e \in ServicesOnEdge |-> toKubeDeviceService(edge[e].definition)])

staleContent(n, state) == cache[n].status   \* faulty form: shows no new state

(* completeUpdateContent: the listed state over the cached status.         *)
completeUpdateService(n, state) == [cache[n].status EXCEPT !.adminState = state]

ListKubeServices ==
  ListsKube([n \in {m \in OwnCRs : OnEdge(m)} |->
               completeUpdateService(n, syn.listed[GetEdgeName(cache[n])].adminState)])

(* completeCreateContent: an unmanaged CR of this pool. *)
completeCreateService(e) ==
  [edgeName |-> e, nodePool |-> NodePool, managed |-> FALSE,
   adminState |-> syn.listed[e].adminState, definition |-> syn.listed[e].definition]

CreateServiceCR(e) == CreatesCR(e, completeCreateService(e))

DeleteServiceCR(n) == DeletesCR(n)

Updated(names) ==
  Continue([syn EXCEPT !.synced = [n \in KubeNames |-> IF n \in names THEN NoCR ELSE @[n]]])

BlindReply(n) == IF Exists(n) THEN "ok" ELSE "notFound"  \* faulty form of ServiceUpdateReply

ServiceUpdateReply(n) == StatusReply(n, "syncer")

(* updateDeviceServices: a conflict is skipped, any other error ends the   *)
(* stage.                                                                  *)
UpdateServiceCR(n) ==
  LET reply == ServiceUpdateReply(n)
  IN  /\ syn.pc = "apply" /\ syn.redundantEdge = {} /\ syn.redundantKube = {}
      /\ n \in ToUpdate(syn)
      /\ \/ /\ Succeeds /\ reply = "ok"
            /\ PutLast(n, WithStatus(n, syn.synced[n]), "syncer") /\ Updated({n})
         \/ Succeeds /\ reply = "conflict" /\ Forget(n, "syncer") /\ Updated({n})
         \/ Succeeds /\ reply = "notFound" /\ Forget(n, "syncer") /\ Updated(ToUpdate(syn))
         \/ Fails({"api"}) /\ Forget(n, "syncer") /\ Updated(ToUpdate(syn))
      /\ UNCHANGED <<cache, queue, edge>>

ServiceSyncerStep ==
  \/ ListEdgeServices \/ ListKubeServices
  \/ (\E e \in EdgeNames : CreateServiceCR(e))
  \/ (\E n \in KubeNames : DeleteServiceCR(n) \/ UpdateServiceCR(n))
=============================================================================
