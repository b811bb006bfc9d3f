----------------------------- MODULE EdgeObjects -----------------------------
(***************************************************************************)
(* DeviceService and DeviceProfile CRs and what their controllers and      *)
(* syncers have in common.  Both keep the order that Device does not: the  *)
(* finalizer goes first, the object on the edge after it.                  *)
(***************************************************************************)
EXTENDS Cluster, Conversions

CONSTANT NoObject

AdminStates == {"LOCKED", "UNLOCKED"}

(* Of a DeviceProfile, managed and adminState are never set, and of its    *)
(* status only synced and edgeId.  "" is a field left unset.  definition   *)
(* is the rest of the spec.                                                *)
ObjectSpec ==
  [edgeName: EdgeNames, nodePool: {NodePool} \cup OtherPools,
   managed: BOOLEAN, adminState: AdminStates \cup {""}, definition: Definition]

ObjectStatus ==
  [synced: BOOLEAN, edgeId: BOOLEAN, adminState: AdminStates \cup {""},
   syncedCondition: {"none", "True", "createFailed"},
   managingCondition: {"none", "True", "notManaged", "updateFailed", "statusFailed"},
   ready: {"none", "True", "False"}]

Object == [spec: ObjectSpec, deleting: BOOLEAN, finalizer: BOOLEAN, status: ObjectStatus]

NewObject(spec) ==
  [spec |-> spec, deleting |-> FALSE, finalizer |-> FALSE,
   status |-> [synced |-> FALSE, edgeId |-> FALSE, adminState |-> "",
               syncedCondition |-> "none", managingCondition |-> "none",
               ready |-> "none"]]

(* GetEdgeDeviceServiceName, GetEdgeDeviceProfileName: the label, or the   *)
(* CR's own name.                                                          *)
GetEdgeName(d) == d.spec.edgeName

(* The answer new to a patch of n, decoded into the copy old, as for a     *)
(* Device; of the definition the copy has then what the answer has.        *)
DecodedObjectSpec(new, old, n) ==
  [edgeName |-> Filled(new.edgeName, old.edgeName, n),
   nodePool |-> new.nodePool,
   managed |-> Filled(new.managed, old.managed, FALSE),
   adminState |-> Filled(new.adminState, old.adminState, ""),
   definition |-> new.definition]

Unconditioned(s) == {s.syncedCondition, s.managingCondition, s.ready} = {"none"}

DecodedObjectStatus(new, old) ==
  LET conditions == IF Unconditioned(new) THEN old ELSE new
  IN  [synced |-> Filled(new.synced, old.synced, FALSE),
       edgeId |-> Filled(new.edgeId, old.edgeId, FALSE),
       adminState |-> Filled(new.adminState, old.adminState, ""),
       syncedCondition |-> conditions.syncedCondition,
       managingCondition |-> conditions.managingCondition,
       ready |-> conditions.ready]

DecodedObject(new, old, n) ==
  [spec |-> DecodedObjectSpec(new.spec, old.spec, n),
   deleting |-> Filled(new.deleting, old.deleting, FALSE),
   finalizer |-> new.finalizer,
   status |-> DecodedObjectStatus(new.status, old.status)]

(* An object on EdgeX.  owner is history: the CR for which this controller *)
(* created it, NoName for an object that came into being on the edge.      *)
EdgeObject ==
  [adminState: AdminStates \cup {""}, definition: Definition, owner: KubeNames \cup {NoName}]

ASSUME ObjectNamesAssumption ==
  /\ NoName \notin KubeNames \cup EdgeNames
  /\ SyncerName \in [EdgeNames -> KubeNames]
  /\ NodePool \notin OtherPools

ASSUME ObjectAbsenceAssumption == NoCR \notin Object /\ NoObject \notin EdgeObject

VARIABLES
  rec,   \* the worker of the controller: the next request, and local variables
  syn    \* the round of the syncer

ObjectWorker ==
  [pc: {"idle", "addFinalizer", "removeFinalizer", "deleteObject", "getObject",
        "createObject", "writeSynced", "updateObject", "writeStatus", "finish"},
   key: KubeNames \cup {NoName},
   edgeName: EdgeNames \cup {NoName},   \* the name on the edge, taken at the start
   d: Object \cup {NoCR},               \* the local copy of the CR
   requeue: BOOLEAN]

IdleObjectWorker ==
  [pc |-> "idle", key |-> NoName, edgeName |-> NoName, d |-> NoCR, requeue |-> FALSE]

(* What a round keeps of a listed object: what List made of it.            *)
ListedObject == [adminState: AdminStates \cup {""}, definition: Definition]

ASSUME ListedAssumption == NoObject \notin ListedObject

ObjectRound ==
  [pc: {"idle", "listed", "apply"},
   listed: [EdgeNames -> ListedObject \cup {NoObject}],
   redundantEdge: SUBSET EdgeNames,   \* objects to create a CR for
   redundantKube: SUBSET KubeNames,   \* CRs to delete
   synced: [KubeNames -> ObjectStatus \cup {NoCR}]]   \* the updates to send

IdleObjectRound ==
  [pc |-> "idle", listed |-> [e \in EdgeNames |-> NoObject],
   redundantEdge |-> {}, redundantKube |-> {}, synced |-> [n \in KubeNames |-> NoCR]]

----------------------------------------------------------------------------
(* The worker.  next is what Reconcile goes on with after the deletion     *)
(* handler returned nil for a CR that is not being deleted.                *)

Finish(requeue) == rec' = [rec EXCEPT !.pc = "finish", !.requeue = requeue]

FinishWith(status, requeue) ==
  rec' = [rec EXCEPT !.pc = "finish", !.requeue = requeue, !.d.status = status]

HandlesAnyPool(n) == cache[n] # NoCR   \* faulty form of Handles

(* Reconcile takes a key of a CR that is cached and of this pool.          *)
Handles(n) == cache[n] # NoCR /\ cache[n].spec.nodePool = NodePool

FirstRequestUnguarded(d, next) ==   \* faulty form: no finalizer is added
  IF d.deleting THEN "removeFinalizer" ELSE next

FirstRequest(d, next) ==
  IF d.deleting THEN "removeFinalizer"
  ELSE IF ~d.finalizer THEN "addFinalizer" ELSE next

TakesKey(n, next) ==
  /\ rec.pc = "idle" /\ n \in queue
  /\ queue' = queue \ {n}
  /\ IF Handles(n)
     THEN /\ rec' = [IdleObjectWorker EXCEPT
                       !.pc = FirstRequest(cache[n], next), !.key = n,
                       !.edgeName = GetEdgeName(cache[n]), !.d = cache[n]]
          /\ current' = [current EXCEPT ![n] = ReadFromCache(n, "reconciler")]
     ELSE UNCHANGED <<rec, current>>
  /\ UNCHANGED <<kube, cache, pending, edge, faults>>

(* Both patches of the finalizer go by name: whatever CR has it is decoded *)
(* into d.                                                                 *)
WithFinalizer(finalizer) == [kube[rec.key] EXCEPT !.finalizer = finalizer]

Answered(finalizer) == DecodedObject(WithFinalizer(finalizer), rec.d, rec.key)

AddsFinalizer(next) ==
  /\ rec.pc = "addFinalizer"
  /\ \/ /\ Succeeds /\ Exists(rec.key)
        /\ Put(rec.key, WithFinalizer(TRUE), "reconciler")
        /\ rec' = [rec EXCEPT !.d = Answered(TRUE),
                     !.pc = IF Answered(TRUE).deleting THEN "finish" ELSE next]
     \/ Succeeds /\ ~Exists(rec.key) /\ Finish(FALSE) /\ ApiUnchanged
     \/ Fails({"api"}) /\ Finish(TRUE) /\ ApiUnchanged
  /\ UNCHANGED <<cache, queue, edge>>

RemovesFinalizer ==
  /\ rec.pc = "removeFinalizer"
  /\ \/ /\ Succeeds /\ Exists(rec.key)
        /\ IF kube[rec.key].deleting
           THEN Store(rec.key, NoCR, {})
           ELSE Put(rec.key, WithFinalizer(FALSE), "reconciler")
        /\ rec' = [rec EXCEPT !.pc = "deleteObject", !.d = Answered(FALSE)]
     \/ Succeeds /\ ~Exists(rec.key) /\ Finish(FALSE) /\ ApiUnchanged
     \/ Fails({"api"}) /\ Finish(TRUE) /\ ApiUnchanged
  /\ UNCHANGED <<cache, queue, edge>>

(* The deletion on the edge.  IsNotFoundErr may know the text EdgeX sends  *)
(* for an object that is not there, or not.  Reconcile ends here: d, which *)
(* had a deletion timestamp, still has it.                                 *)
DeletesObject ==
  /\ rec.pc = "deleteObject"
  /\ \/ Succeeds /\ edge' = [edge EXCEPT ![rec.edgeName] = NoObject] /\ Finish(FALSE)
     \/ Succeeds /\ edge[rec.edgeName] = NoObject /\ UNCHANGED edge /\ Finish(TRUE)
     \/ Fails({"unreachable", "server"}) /\ UNCHANGED edge /\ Finish(TRUE)
     \/ /\ Fails({"lost"}) /\ Finish(TRUE)
        /\ edge' = [edge EXCEPT ![rec.edgeName] = NoObject]
  /\ ApiUnchanged
  /\ UNCHANGED <<cache, queue>>

Synced(hasId) == [rec.d.status EXCEPT !.synced = TRUE, !.edgeId = hasId]

WritesNext(status) == rec' = [rec EXCEPT !.pc = "writeSynced", !.d.status = status]

(* Get: only a 404 is an error of EdgeX, another body decodes to an object *)
(* without id.  An unreachable EdgeX is not reported to the workqueue.     *)
GetsObject(e) ==
  /\ rec.pc = "getObject"
  /\ \/ Succeeds /\ edge[e] # NoObject /\ WritesNext(Synced(TRUE))
     \/ Succeeds /\ edge[e] = NoObject /\ rec' = [rec EXCEPT !.pc = "createObject"]
     \/ Fails({"server"}) /\ WritesNext(Synced(FALSE))
     \/ Fails({"unreachable", "lost"}) /\ Finish(FALSE)
  /\ ApiUnchanged
  /\ UNCHANGED <<cache, queue, edge>>

(* Create: anything but a 201 in a 207 is an error, also for an object     *)
(* that came into being since Get.                                         *)
CreatesObject(definition, createdStatus, failedStatus) ==
  LET e == GetEdgeName(rec.d)
      made == [edge EXCEPT ![e] = [adminState |-> rec.d.spec.adminState,
                                   definition |-> definition, owner |-> rec.key]]
  IN  /\ rec.pc = "createObject"
      /\ \/ Succeeds /\ edge[e] = NoObject /\ edge' = made /\ WritesNext(createdStatus)
         \/ Succeeds /\ edge[e] # NoObject /\ UNCHANGED edge /\ FinishWith(failedStatus, TRUE)
         \/ /\ Fails({"unreachable", "server", "item"}) /\ UNCHANGED edge
            /\ FinishWith(failedStatus, TRUE)
         \/ /\ Fails({"lost"}) /\ FinishWith(failedStatus, TRUE)
            /\ edge' = IF edge[e] = NoObject THEN made ELSE edge
      /\ ApiUnchanged
      /\ UNCHANGED <<cache, queue>>

(* Status().Update of the local copy, in a handler. *)
WritesStatus(pc, failedStatus, writtenStatus) ==
  /\ rec.pc = pc
  /\ \/ /\ Succeeds /\ StatusReply(rec.key, "reconciler") = "ok"
        /\ Put(rec.key, WithStatus(rec.key, rec.d.status), "reconciler")
        /\ FinishWith(writtenStatus, FALSE)
     \/ /\ Succeeds /\ StatusReply(rec.key, "reconciler") # "ok"
        /\ ApiUnchanged /\ FinishWith(failedStatus, TRUE)
     \/ Fails({"api"}) /\ ApiUnchanged /\ FinishWith(failedStatus, TRUE)
  /\ UNCHANGED <<cache, queue, edge>>

Ends ==
  /\ rec.pc = "finish"
  /\ queue' = IF rec.requeue THEN queue \cup {rec.key} ELSE queue
  /\ rec' = IdleObjectWorker
  /\ UNCHANGED <<cache, edge>>

----------------------------------------------------------------------------
(* The round of a syncer: two lists, then the stages one after the other.  *)

ToUpdate(round) == {n \in KubeNames : round.synced[n] # NoCR}

Continue(round) ==
  syn' = IF round.redundantEdge \cup round.redundantKube \cup ToUpdate(round) = {}
         THEN IdleObjectRound ELSE round

(* List does not look at the HTTP status: a 5xx with a body is no objects. *)
(* definition[e] is what List makes of the definition of e.                *)
ListsEdge(definition) ==
  /\ syn.pc = "idle"
  /\ \/ /\ Succeeds
        /\ syn' = [syn EXCEPT !.pc = "listed", !.listed = [e \in EdgeNames |->
                     IF edge[e] = NoObject THEN NoObject
                     ELSE [adminState |-> edge[e].adminState, definition |-> definition[e]]]]
     \/ Fails({"server"}) /\ syn' = [syn EXCEPT !.pc = "listed"]
     \/ Fails({"unreachable", "lost"}) /\ UNCHANGED syn
  /\ ApiUnchanged
  /\ UNCHANGED <<cache, queue, edge>>

(* The CRs of this pool in the cache; of several that stand for one object *)
(* the map keeps one.                                                      *)
OwnCRs == {n \in KubeNames : cache[n] # NoCR /\ cache[n].spec.nodePool = NodePool}

Representatives ==
  {S \in SUBSET OwnCRs :
     \A n \in OwnCRs :
       \E m \in S : \A k \in S : GetEdgeName(cache[k]) = GetEdgeName(cache[n]) <=> k = m}

OnEdge(n) == syn.listed[GetEdgeName(cache[n])] # NoObject

(* The difference of the lists; refreshed[n] is the status to send for n,  *)
(* NoCR if the round updates nothing.                                      *)
ListsKube(refreshed) ==
  /\ syn.pc = "listed"
  /\ \E S \in Representatives :
       LET missing == {e \in EdgeNames : /\ syn.listed[e] # NoObject
                                         /\ \A n \in S : GetEdgeName(cache[n]) # e}
           updates == [n \in KubeNames |->
                         IF n \in S /\ OnEdge(n) THEN refreshed[n] ELSE NoCR]
       IN  /\ Continue([pc |-> "apply", redundantEdge |-> missing,
                        listed |-> [e \in EdgeNames |->
                                      IF e \in missing THEN syn.listed[e] ELSE NoObject],
                        redundantKube |-> {n \in S : cache[n].status.synced /\ ~OnEdge(n)},
                        synced |-> updates])
           /\ current' = [n \in KubeNames |->
                 IF updates[n] # NoCR THEN ReadFromCache(n, "syncer")
                                      ELSE current[n] \ {"syncer"}]
  /\ Succeeds
  /\ UNCHANGED <<kube, cache, pending, queue, edge>>

(* syncEdgeToKube: a name in use is skipped, an error ends the stage.      *)
CreatesCR(e, spec) ==
  LET n == SyncerName[e]
  IN  /\ syn.pc = "apply" /\ e \in syn.redundantEdge
      /\ \/ /\ Succeeds /\ CanCreate(n, {rec.key} \cup syn.redundantKube)
            /\ Store(n, NewObject(spec), {})
            /\ Continue([syn EXCEPT !.redundantEdge = @ \ {e}, !.listed[e] = NoObject])
         \/ /\ Succeeds /\ Exists(n) /\ ApiUnchanged
            /\ Continue([syn EXCEPT !.redundantEdge = @ \ {e}, !.listed[e] = NoObject])
         \/ /\ Fails({"api"}) /\ ApiUnchanged
            /\ Continue([syn EXCEPT !.redundantEdge = {},
                                    !.listed = [f \in EdgeNames |-> NoObject]])
      /\ UNCHANGED <<cache, queue, edge>>

(* Redundant CRs are deleted by name; an error ends the stage.             *)
DeletesCR(n) ==
  /\ syn.pc = "apply" /\ syn.redundantEdge = {} /\ n \in syn.redundantKube
  /\ \/ /\ Succeeds /\ Exists(n) /\ Delete(n)
        /\ Continue([syn EXCEPT !.redundantKube = @ \ {n}])
     \/ /\ Succeeds /\ ~Exists(n) /\ ApiUnchanged
        /\ Continue([syn EXCEPT !.redundantKube = {}])
     \/ Fails({"api"}) /\ ApiUnchanged /\ Continue([syn EXCEPT !.redundantKube = {}])
  /\ UNCHANGED <<cache, queue, edge>>
=============================================================================
