-------------------------- MODULE EdgeSafetyProofs --------------------------
(***************************************************************************)
(* More safety of EdgeObjectSystem.                                        *)
(*                                                                         *)
(* First, that the definition of a device service or profile goes from CRs *)
(* to EdgeX and back as often as it likes without losing more than its     *)
(* known losses: every copy of a definition is a conversion of another     *)
(* one, and a conversion loses nothing twice.                              *)
(*                                                                         *)
(* Then GuardInv, that what the process knows of a CR from an old copy     *)
(* holds of the CR.  A CR moves in five ways only (Moves); each part of    *)
(* GuardInv survives all of them, and each action makes at most one.  From *)
(* it: the life of a CR, and that the process acts for the right CR and    *)
(* for no other pool.                                                      *)
(***************************************************************************)
EXTENDS EdgeObjectProofs

(* What users submit is complete; so is, in the model, what operators add. *)
UsersWriteWhole ==
  /\ \A n \in Unfiltered : \A s \in UserSpecs[n] : ServiceParts \subseteq s.definition
  /\ \A n \in KubeNames \ Unfiltered :
       \A s \in UserSpecs[n] : ProfileParts \subseteq s.definition

Losses == {"Resource.IsHidden", "Attributes.number", "Attributes.other"}

Kept(k, d) ==
  IF k = "DeviceService" THEN ServiceParts \subseteq d ELSE ProfileParts \ d \subseteq Losses

DefInv ==
  /\ \A n \in KubeNames : kube[n] # NoCR => Kept(kind, kube[n].spec.definition)
  /\ \A n \in KubeNames : cache[n] # NoCR => Kept(kind, cache[n].spec.definition)
  /\ rec.pc # "idle" => Kept(kind, rec.d.spec.definition)
  /\ \A e \in EdgeNames : edge[e] # NoObject => Kept(kind, edge[e].definition)
  /\ \A e \in EdgeNames : syn.listed[e] # NoObject => Kept(kind, syn.listed[e].definition)

(***************************************************************************)
(* The conversions.                                                        *)
(***************************************************************************)
LEMMA ServiceConversions ==
  ASSUME NEW d, Kept("DeviceService", d)
  PROVE  /\ Kept("DeviceService", toEdgexDeviceService(d))
         /\ Kept("DeviceService", toKubeDeviceService(d))
  BY DEF Kept, ServiceParts, toEdgexDeviceService, toKubeDeviceService

LEMMA ToEdgeProfile ==
  ASSUME NEW d, NEW p \in ProfileParts, p \in d, p \notin Losses
  PROVE  p \in toEdgeXDeviceProfile(d)
<1>1. CASE p \in {"Description", "Manufacturer", "Model", "Labels"}
  BY <1>1 DEF toEdgeXDeviceProfile
<1>2. CASE p \in DeviceResource
  <2>1. CASE p \in ResourceProperties
    BY <2>1 DEF ResourceProperties, toEdgeXDeviceProfile, toEdgeXDeviceResource,
                toEdgeXProfileProperty
  <2>2. CASE p \notin ResourceProperties
    BY <1>2, <2>2 DEF DeviceResource, Losses, toEdgeXDeviceProfile, toEdgeXDeviceResource
  <2> QED
    BY <2>1, <2>2
<1>3. CASE p \in DeviceCommand
  BY <1>3 DEF DeviceCommand, ResourceOperation, toEdgeXDeviceProfile, toEdgeXDeviceCommand,
              toEdgeXResourceOperations
<1> QED
  BY <1>1, <1>2, <1>3 DEF ProfileParts

LEMMA ToKubeProfile ==
  ASSUME NEW d, NEW p \in ProfileParts, p \in d, p \notin Losses
  PROVE  p \in toKubeDeviceProfile(d)
<1>1. CASE p \in {"Description", "Manufacturer", "Model", "Labels"}
  BY <1>1 DEF toKubeDeviceProfile
<1>2. CASE p \in DeviceResource
  <2>1. CASE p \in ResourceProperties
    BY <2>1 DEF ResourceProperties, toKubeDeviceProfile, toKubeDeviceResource,
                toKubeProfileProperty
  <2>2. CASE p \notin ResourceProperties
    BY <1>2, <2>2 DEF DeviceResource, Losses, toKubeDeviceProfile, toKubeDeviceResource
  <2> QED
    BY <2>1, <2>2
<1>3. CASE p \in DeviceCommand
  BY <1>3 DEF DeviceCommand, ResourceOperation, toKubeDeviceProfile, toKubeDeviceCommand,
              toKubeResourceOperations
<1> QED
  BY <1>1, <1>2, <1>3 DEF ProfileParts

LEMMA ProfileConversions ==
  ASSUME NEW d, Kept("DeviceProfile", d)
  PROVE  /\ Kept("DeviceProfile", toEdgeXDeviceProfile(d))
         /\ Kept("DeviceProfile", toKubeDeviceProfile(d))
  BY ToEdgeProfile, ToKubeProfile DEF Kept

LEMMA KindType ==
  ASSUME IInv
  PROVE  kind \in {"DeviceService", "DeviceProfile"}
  BY Types, ObjectEnvironmentAssumption

LEMMA WholeKept ==
  ASSUME IInv
  PROVE  Kept(kind, Whole)
  BY DEF Kept, Whole

(***************************************************************************)
(* The writes of the process keep the spec.                                *)
(***************************************************************************)
SpecsKept ==
  \A m \in KubeNames : kube'[m] # NoCR => kube[m] # NoCR /\ kube'[m].spec = kube[m].spec

LEMMA StoreSpecs ==
  ASSUME IInv, NEW n \in KubeNames, NEW cr, NEW hs, Store(n, cr, hs),
         cr # NoCR => kube[n] # NoCR /\ cr.spec = kube[n].spec
  PROVE  SpecsKept
<1>1. \A m \in KubeNames : kube'[m] = IF m = n THEN cr ELSE kube[m]
  BY Types DEF Store, ApiTypeOK
<1> QED
  BY <1>1 DEF SpecsKept

LEMMA PutSpecs ==
  ASSUME IInv, NEW n \in KubeNames, NEW cr, NEW g, Put(n, cr, g) \/ PutLast(n, cr, g),
         kube[n] # NoCR, cr.spec = kube[n].spec
  PROVE  SpecsKept
<1>1. CASE cr = kube[n]
  BY <1>1 DEF Put, PutLast, Forget, SpecsKept
<1>2. CASE cr # kube[n]
  BY <1>2, StoreSpecs DEF Put, PutLast
<1> QED
  BY <1>1, <1>2

LEMMA DeleteSpecs ==
  ASSUME IInv, NEW n \in KubeNames, Exists(n), Delete(n)
  PROVE  SpecsKept
<1> DEFINE marked == [kube[n] EXCEPT !.deleting = TRUE]
<1>1. marked.spec = kube[n].spec /\ kube[n] # NoCR
  BY Types, ObjectType DEF Exists
<1>2. ApiUnchanged \/ Store(n, marked, {}) \/ Store(n, NoCR, {})
  BY DEF Delete
<1> HIDE DEF marked
<1>3. CASE ApiUnchanged
  BY <1>3 DEF ApiUnchanged, SpecsKept
<1>4. CASE Store(n, marked, {})
  BY <1>1, <1>4, StoreSpecs
<1>5. CASE Store(n, NoCR, {})
  <2>1. \A m \in KubeNames : kube'[m] = IF m = n THEN NoCR ELSE kube[m]
    BY <1>5, Types DEF Store, ApiTypeOK
  <2> QED
    BY <2>1 DEF SpecsKept
<1> QED
  BY <1>2, <1>3, <1>4, <1>5

LEMMA WithStatusSpecs ==
  ASSUME IInv, NEW n \in KubeNames, NEW s, NEW g, Exists(n),
         Put(n, WithStatus(n, s), g) \/ PutLast(n, WithStatus(n, s), g)
  PROVE  SpecsKept
<1> DEFINE cr == WithStatus(n, s)
<1>1. kube[n] \in Object /\ kube[n] # NoCR
  BY Types DEF Exists
<1>2. cr.spec = kube[n].spec
  BY <1>1 DEF WithStatus, Object
<1>3. Put(n, cr, g) \/ PutLast(n, cr, g)
  OBVIOUS
<1> HIDE DEF cr
<1> QED
  BY <1>1, <1>2, <1>3, PutSpecs

(***************************************************************************)
(* The worker.                                                             *)
(***************************************************************************)
(* What a step of the worker of a busy reconciliation does.                *)
WorkerKeeps ==
  /\ SpecsKept
  /\ rec'.pc # "idle" => Kept(kind, rec'.d.spec.definition)
  /\ \A e \in EdgeNames : edge'[e] # NoObject => Kept(kind, edge'[e].definition)
  /\ UNCHANGED cache

SameSpec == rec'.d.spec = rec.d.spec

LEMMA StatusOnly ==
  ASSUME IInv, rec.pc # "idle", NEW s, NEW p, NEW r,
         \/ Finish(r) \/ FinishWith(s, r) \/ WritesNext(s)
         \/ rec' = [rec EXCEPT !.pc = p] \/ Patched
  PROVE  SameSpec
<1>1. rec \in ObjectWorker /\ rec.d \in Object /\ rec.d.status \in ObjectStatus
  BY Busy
<1>2. CASE Finish(r)
  BY <1>1, <1>2 DEF Finish, SameSpec, ObjectWorker
<1>3. CASE rec' = [rec EXCEPT !.pc = p]
  BY <1>1, <1>3 DEF SameSpec, ObjectWorker
<1>4. CASE FinishWith(s, r) \/ WritesNext(s)
  <2>1. rec'.d = [rec.d EXCEPT !.status = s]
    BY <1>1, <1>4 DEF FinishWith, WritesNext, ObjectWorker
  <2>2. [rec.d EXCEPT !.status = s].spec = rec.d.spec
    BY <1>1 DEF Object
  <2> QED
    BY <2>1, <2>2 DEF SameSpec
<1>5. CASE Patched
  BY <1>1, <1>5 DEF Patched, SameSpec, ObjectWorker, Object
<1> QED
  BY <1>2, <1>3, <1>4, <1>5

LEMMA WorkerKept ==
  ASSUME IInv, DefInv, rec.pc # "idle", SameSpec
  PROVE  Kept(kind, rec'.d.spec.definition)
  BY DEF DefInv, SameSpec

LEMMA SameEdge ==
  ASSUME DefInv, UNCHANGED edge
  PROVE  \A e \in EdgeNames : edge'[e] # NoObject => Kept(kind, edge'[e].definition)
  BY DEF DefInv

LEMMA SameApi ==
  ASSUME ApiUnchanged
  PROVE  SpecsKept
  BY DEF ApiUnchanged, SpecsKept

LEMMA GetKeeps ==
  ASSUME IInv, DefInv, NEW e, GetsObject(e)
  PROVE  WorkerKeeps
<1>1. rec.pc # "idle" /\ UNCHANGED <<edge, cache>> /\ ApiUnchanged
  BY DEF GetsObject
<1>2. SameSpec
  BY <1>1, StatusOnly DEF GetsObject
<1> QED
  BY <1>1, <1>2, WorkerKept, SameEdge, SameApi DEF WorkerKeeps

LEMMA CreatesKeeps ==
  ASSUME IInv, DefInv, NEW definition, NEW made, NEW failed,
         CreatesObject(definition, made, failed), Kept(kind, definition)
  PROVE  WorkerKeeps
<1>1. rec.pc # "idle" /\ UNCHANGED cache /\ ApiUnchanged
  BY DEF CreatesObject
<1>2. SameSpec
  BY <1>1, StatusOnly DEF CreatesObject
<1> DEFINE obj == [adminState |-> rec.d.spec.adminState, definition |-> definition,
                   owner |-> rec.key]
           f == GetEdgeName(rec.d)
<1>3. edge' = edge \/ edge' = [edge EXCEPT ![f] = obj]
  BY DEF CreatesObject
<1>4. obj.definition = definition
  OBVIOUS
<1> HIDE DEF obj, f
<1>5. ASSUME NEW e \in EdgeNames, edge'[e] # NoObject
      PROVE  Kept(kind, edge'[e].definition)
  <2>1. edge'[e] = edge[e] \/ edge'[e] = obj
    BY <1>3, Types
  <2> QED
    BY <1>4, <1>5, <2>1 DEF DefInv
<1> QED
  BY <1>1, <1>2, <1>5, WorkerKept, SameApi DEF WorkerKeeps

LEMMA DeletesKeeps ==
  ASSUME IInv, DefInv, DeletesObject
  PROVE  WorkerKeeps
<1>1. rec.pc # "idle" /\ UNCHANGED cache /\ ApiUnchanged
  BY DEF DeletesObject
<1>2. Finish(FALSE) \/ Finish(TRUE)
  BY DEF DeletesObject
<1>3. SameSpec
  BY <1>1, <1>2, StatusOnly
<1>4. \A e \in EdgeNames : edge'[e] = edge[e] \/ edge'[e] = NoObject
  BY Types DEF DeletesObject
<1>5. \A e \in EdgeNames : edge'[e] # NoObject => Kept(kind, edge'[e].definition)
  BY <1>4 DEF DefInv
<1> QED
  BY <1>1, <1>3, <1>5, WorkerKept, SameApi DEF WorkerKeeps

(* The fields of a decoded answer that say what the CR is of. *)
LEMMA DecodedFields ==
  ASSUME NEW new, NEW old, NEW n
  PROVE  LET d == DecodedObject(new, old, n)
         IN  /\ d.spec.edgeName \in {new.spec.edgeName, old.spec.edgeName}
             /\ d.spec.nodePool = new.spec.nodePool
             /\ d.spec.definition = new.spec.definition
             /\ new.deleting = TRUE => d.deleting = TRUE
  BY DEF DecodedObject, DecodedObjectSpec, Filled, GetEdgeName

LEMMA AnsweredFields ==
  ASSUME NEW b
  PROVE  LET cr == WithFinalizer(b)
             d == Answered(b)
         IN  /\ d.spec.edgeName \in {cr.spec.edgeName, rec.d.spec.edgeName}
             /\ d.spec.nodePool = cr.spec.nodePool
             /\ d.spec.definition = cr.spec.definition
             /\ cr.deleting = TRUE => d.deleting = TRUE
<1> DEFINE cr == WithFinalizer(b)
           old == rec.d
           n == rec.key
           d == DecodedObject(cr, old, n)
<1>1. Answered(b) = d
  BY DEF Answered
<1>2. /\ d.spec.edgeName \in {cr.spec.edgeName, old.spec.edgeName}
      /\ d.spec.nodePool = cr.spec.nodePool
      /\ d.spec.definition = cr.spec.definition
      /\ cr.deleting = TRUE => d.deleting = TRUE
  <2> HIDE DEF cr, old, n
  <2> QED
    BY DecodedFields
<1> HIDE DEF d
<1> QED
  BY ONLY <1>1, <1>2

LEMMA PatchedKeeps ==
  ASSUME IInv, DefInv, rec.pc \notin {"idle", "finish"}, Exists(rec.key), NEW b \in BOOLEAN, NEW pc,
         NEW cr, cr = WithFinalizer(b), NEW d, d = Answered(b),
         Put(rec.key, cr, "reconciler") \/ Store(rec.key, NoCR, {}),
         rec' = [rec EXCEPT !.d = d, !.pc = pc], UNCHANGED <<cache, edge>>
  PROVE  WorkerKeeps
<1>1. rec.key \in KubeNames /\ kube[rec.key] \in Object /\ kube[rec.key] # NoCR
  BY Busy, Types DEF Exists
<1>2. cr.spec = kube[rec.key].spec /\ d.spec.definition = cr.spec.definition
  BY AnsweredHonest, AnsweredFields
<1>3. SpecsKept
  <2>1. CASE Put(rec.key, cr, "reconciler")
    BY <1>1, <1>2, <2>1, PutSpecs
  <2>2. CASE Store(rec.key, NoCR, {})
    <3>1. \A m \in KubeNames : kube'[m] = IF m = rec.key THEN NoCR ELSE kube[m]
      BY <2>2, Types DEF Store, ApiTypeOK
    <3> QED
      BY <3>1 DEF SpecsKept
  <2> QED
    BY <2>1, <2>2
<1>4. rec'.d = d
  BY Busy DEF ObjectWorker
<1>5. Kept(kind, rec'.d.spec.definition)
  BY <1>1, <1>2, <1>4 DEF DefInv
<1> QED
  BY <1>3, <1>5, SameEdge DEF WorkerKeeps

LEMMA FinalizerKeeps ==
  ASSUME IInv, DefInv, NEW next, AddsFinalizer(next) \/ RemovesFinalizer
  PROVE  WorkerKeeps
<1>1. rec.pc \notin {"idle", "finish"} /\ UNCHANGED <<cache, edge>>
  BY DEF AddsFinalizer, RemovesFinalizer
<1>2. CASE ApiUnchanged /\ (Finish(TRUE) \/ Finish(FALSE))
  <2>1. SameSpec
    BY <1>1, <1>2, StatusOnly
  <2> QED
    BY <1>1, <1>2, <2>1, WorkerKept, SameEdge, SameApi DEF WorkerKeeps
<1> DEFINE Patches(b, cr, d) ==
             /\ Exists(rec.key)
             /\ Put(rec.key, cr, "reconciler") \/ Store(rec.key, NoCR, {})
             /\ cr = WithFinalizer(b) /\ d = Answered(b)
             /\ \E pc \in {next, "finish", "deleteObject"} :
                  rec' = [rec EXCEPT !.d = d, !.pc = pc]
<1>3. \/ ApiUnchanged /\ (Finish(TRUE) \/ Finish(FALSE))
      \/ Patches(TRUE, WithFinalizer(TRUE), Answered(TRUE))
      \/ Patches(FALSE, WithFinalizer(FALSE), Answered(FALSE))
  BY DEF AddsFinalizer, RemovesFinalizer
<1>4. ASSUME NEW b \in BOOLEAN, NEW cr, NEW d, Patches(b, cr, d)
      PROVE  WorkerKeeps
  BY <1>1, <1>4, PatchedKeeps
<1> HIDE DEF Patches
<1> QED
  BY <1>2, <1>3, <1>4

LEMMA WritesStatusKeeps ==
  ASSUME IInv, DefInv, NEW pc, NEW failed, NEW written, WritesStatus(pc, failed, written),
         pc # "idle"
  PROVE  WorkerKeeps
<1>1. rec.pc # "idle" /\ UNCHANGED <<cache, edge>>
  BY DEF WritesStatus
<1>2. SameSpec
  BY <1>1, StatusOnly DEF WritesStatus
<1>3. \/ ApiUnchanged
      \/ /\ StatusReply(rec.key, "reconciler") = "ok"
         /\ Put(rec.key, WithStatus(rec.key, rec.d.status), "reconciler")
  BY DEF WritesStatus
<1>4. SpecsKept
  <2>1. CASE ApiUnchanged
    BY <2>1, SameApi
  <2>2. CASE /\ StatusReply(rec.key, "reconciler") = "ok"
             /\ Put(rec.key, WithStatus(rec.key, rec.d.status), "reconciler")
    BY <1>1, <2>2, Busy, WithStatusSpecs DEF StatusReply
  <2> QED
    BY <1>3, <2>1, <2>2
<1> QED
  BY <1>1, <1>2, <1>4, WorkerKept, SameEdge DEF WorkerKeeps

LEMMA EndKeeps ==
  ASSUME IInv, DefInv, EndServiceReconcile \/ EndProfileReconcile
  PROVE  WorkerKeeps
<1>1. rec.pc # "idle" /\ rec'.pc = "idle" /\ UNCHANGED <<cache, edge>>
  BY IdleOK DEF EndServiceReconcile, EndProfileReconcile, Ends
<1>2. \/ Forget(rec.key, "reconciler")
      \/ /\ StatusReply(rec.key, "reconciler") = "ok"
         /\ PutLast(rec.key, WithStatus(rec.key, DeferredServiceStatus), "reconciler")
  BY DEF EndServiceReconcile, EndProfileReconcile
<1>3. SpecsKept
  <2>1. CASE Forget(rec.key, "reconciler")
    BY <2>1 DEF Forget, SpecsKept
  <2>2. CASE /\ StatusReply(rec.key, "reconciler") = "ok"
             /\ PutLast(rec.key, WithStatus(rec.key, DeferredServiceStatus), "reconciler")
    BY <1>1, <2>2, Busy, WithStatusSpecs DEF StatusReply
  <2> QED
    BY <1>2, <2>1, <2>2
<1> QED
  BY <1>1, <1>3, SameEdge DEF WorkerKeeps

LEMMA UpdateKeeps ==
  ASSUME IInv, DefInv, UpdateService
  PROVE  WorkerKeeps
<1>1. rec.pc # "idle" /\ UNCHANGED cache /\ ApiUnchanged
  BY DEF UpdateService
<1>2. Patched \/ FinishWith(Managing("updateFailed"), TRUE)
  BY DEF UpdateService, UpdateFailed
<1>3. SameSpec
  BY <1>1, <1>2, StatusOnly
<1>4. edge' = edge \/ PatchService(Wanted)
  BY DEF UpdateService
<1>5. \A e \in EdgeNames : edge'[e] # NoObject => Kept(kind, edge'[e].definition)
  <2>1. CASE edge' = edge
    BY <2>1, SameEdge
  <2>2. CASE PatchService(Wanted) /\ edge' # edge
    <3> DEFINE f == GetEdgeName(rec.d)
    <3>1. edge[f] # NoObject /\ f \in EdgeNames
      BY <1>1, <2>2, Busy, SpecType DEF PatchService, GetEdgeName
    <3>2. edge' = [edge EXCEPT ![f].adminState = Wanted]
      BY <2>2 DEF PatchService
    <3>3. edge[f] \in EdgeObject
      BY <3>1, Types
    <3>4. [edge[f] EXCEPT !.adminState = Wanted].definition = edge[f].definition
      BY <3>3 DEF EdgeObject
    <3> DEFINE obj == [edge[f] EXCEPT !.adminState = Wanted]
    <3>5. edge' = [edge EXCEPT ![f] = obj]
      BY <3>1, <3>2, Types
    <3>6. obj.definition = edge[f].definition
      BY <3>4
    <3> HIDE DEF obj, f
    <3>7. ASSUME NEW e \in EdgeNames, edge'[e] # NoObject
          PROVE  Kept(kind, edge'[e].definition)
      <4>1. edge'[e] = IF e = f THEN obj ELSE edge[e]
        BY <3>5, Types
      <4> QED
        BY <3>1, <3>6, <3>7, <4>1 DEF DefInv
    <3> QED
      BY <3>7
  <2> QED
    BY <1>4, <2>1, <2>2
<1> QED
  BY <1>1, <1>3, <1>5, WorkerKept, SameApi DEF WorkerKeeps

LEMMA ReconcilerKeeps ==
  ASSUME IInv, DefInv, ObjectReconcilerRuns
  PROVE  WorkerKeeps
<1>1. CASE kind = "DeviceService" /\ ServiceReconcilerStep
  <2>1. CASE CreateService
    <3>1. rec.pc # "idle"
      BY <2>1 DEF CreateService, CreatesObject
    <3>2. Kept(kind, toEdgexDeviceService(rec.d.spec.definition))
      BY <1>1, <3>1, ServiceConversions DEF DefInv
    <3> QED
      BY <2>1, <3>2, CreatesKeeps DEF CreateService
  <2>2. CASE WriteServiceSynced \/ WriteServiceStatus
    BY <2>2, WritesStatusKeeps DEF WriteServiceSynced, WriteServiceStatus
  <2>3. CASE AddServiceFinalizer \/ RemoveServiceFinalizer \/ DeleteService \/ GetService
    BY <2>3, FinalizerKeeps, DeletesKeeps, GetKeeps
       DEF AddServiceFinalizer, RemoveServiceFinalizer, DeleteService, GetService
  <2> QED
    BY <1>1, <2>1, <2>2, <2>3, UpdateKeeps, EndKeeps DEF ServiceReconcilerStep
<1>2. CASE kind = "DeviceProfile" /\ ProfileReconcilerStep
  <2>1. CASE CreateProfile
    <3>1. rec.pc # "idle"
      BY <2>1 DEF CreateProfile, CreatesObject
    <3>2. Kept(kind, toEdgeXDeviceProfile(rec.d.spec.definition))
      BY <1>2, <3>1, ProfileConversions DEF DefInv
    <3> QED
      BY <2>1, <3>2, CreatesKeeps DEF CreateProfile
  <2>2. CASE WriteProfileSynced
    BY <2>2, WritesStatusKeeps DEF WriteProfileSynced
  <2>3. CASE AddProfileFinalizer \/ RemoveProfileFinalizer \/ DeleteProfile \/ GetProfile
    BY <2>3, FinalizerKeeps, DeletesKeeps, GetKeeps
       DEF AddProfileFinalizer, RemoveProfileFinalizer, DeleteProfile, GetProfile
  <2> QED
    BY <1>2, <2>1, <2>2, <2>3, EndKeeps DEF ProfileReconcilerStep
<1> QED
  BY <1>1, <1>2 DEF ObjectReconcilerRuns

LEMMA ReconcilerDef ==
  ASSUME IInv, DefInv, ObjectReconcilerRuns
  PROVE  DefInv'
<1>1. WorkerKeeps /\ UNCHANGED <<syn, kind>>
  BY ReconcilerKeeps DEF ObjectReconcilerRuns, Others
<1> QED
  BY <1>1 DEF WorkerKeeps, SpecsKept, DefInv

LEMMA TakeKeyDef ==
  ASSUME IInv, DefInv, NEW n \in KubeNames, TakeObjectKey(n)
  PROVE  DefInv'
<1>1. PICK next : TakesKey(n, next)
  BY DEF TakeObjectKey, ServiceReconcile, ProfileReconcile
<1>2. UNCHANGED <<kube, cache, edge, syn, kind>>
  BY <1>1 DEF TakesKey, TakeObjectKey, Others
<1>3. rec'.pc # "idle" => Kept(kind, rec'.d.spec.definition)
  <2>1. CASE UNCHANGED rec
    BY <2>1 DEF DefInv
  <2>2. CASE ~UNCHANGED rec
    <3>1. cache[n] # NoCR /\ rec'.d = cache[n]
      BY <1>1, <2>2 DEF TakesKey, Handles, IdleObjectWorker
    <3> QED
      BY <3>1 DEF DefInv
  <2> QED
    BY <2>1, <2>2
<1> QED
  BY <1>2, <1>3 DEF DefInv

(***************************************************************************)
(* The round.                                                              *)
(***************************************************************************)
LEMMA ListsEdgeDef ==
  ASSUME IInv, DefInv, NEW definition, ListsEdge(definition), UNCHANGED <<rec, kind>>,
         \A e \in EdgeNames : edge[e] # NoObject => Kept(kind, definition[e])
  PROVE  DefInv'
<1>1. ApiUnchanged /\ UNCHANGED <<cache, edge>>
  BY DEF ListsEdge
<1> DEFINE list == [e \in EdgeNames |->
                     IF edge[e] = NoObject THEN NoObject
                     ELSE [adminState |-> edge[e].adminState, definition |-> definition[e]]]
<1>2. \/ syn' = [syn EXCEPT !.pc = "listed", !.listed = list]
      \/ syn' = [syn EXCEPT !.pc = "listed"]
      \/ syn' = syn
  BY DEF ListsEdge
<1>3. \A e \in EdgeNames : list[e] # NoObject => Kept(kind, list[e].definition)
  OBVIOUS
<1> HIDE DEF list
<1>4. syn'.listed = list \/ syn'.listed = syn.listed
  BY <1>2, Round DEF ObjectRound
<1>5. \A e \in EdgeNames : syn'.listed[e] # NoObject => Kept(kind, syn'.listed[e].definition)
  BY <1>3, <1>4 DEF DefInv
<1> QED
  BY <1>1, <1>5 DEF ApiUnchanged, DefInv

LEMMA ListsKubeDef ==
  ASSUME IInv, DefInv, NEW refreshed, ListsKube(refreshed), UNCHANGED <<rec, kind>>
  PROVE  DefInv'
<1>1. UNCHANGED <<kube, cache, edge>>
  BY DEF ListsKube
<1>2. PICK missing, gone, updates :
        Continue([pc |-> "apply", redundantEdge |-> missing,
                  listed |-> [e \in EdgeNames |->
                                IF e \in missing THEN syn.listed[e] ELSE NoObject],
                  redundantKube |-> gone, synced |-> updates])
  <2>1. PICK S \in Representatives :
        LET missing == {e \in EdgeNames : /\ syn.listed[e] # NoObject
                                          /\ \A n \in S : GetEdgeName(cache[n]) # e}
            updates == [n \in KubeNames |->
                          IF n \in S /\ OnEdge(n) THEN refreshed[n] ELSE NoCR]
        IN  Continue([pc |-> "apply", redundantEdge |-> missing,
                         listed |-> [e \in EdgeNames |->
                                       IF e \in missing THEN syn.listed[e] ELSE NoObject],
                         redundantKube |-> {n \in S : cache[n].status.synced /\ ~OnEdge(n)},
                         synced |-> updates])
    BY DEF ListsKube
  <2> QED
    BY <2>1
<1>3. \A e \in EdgeNames : syn'.listed[e] # NoObject => syn'.listed[e] = syn.listed[e]
  BY <1>2, IdleOK DEF Continue
<1> QED
  BY <1>1, <1>3 DEF DefInv

(* A stage that creates no CR. *)
LEMMA StageDef ==
  ASSUME IInv, DefInv, SpecsKept, UNCHANGED <<cache, edge, rec, kind>>,
         \A e \in EdgeNames : syn'.listed[e] # NoObject => syn'.listed[e] = syn.listed[e]
  PROVE  DefInv'
  BY DEF SpecsKept, DefInv

LEMMA DeletesCRDef ==
  ASSUME IInv, DefInv, NEW n \in KubeNames, DeletesCR(n), UNCHANGED <<rec, kind>>
  PROVE  DefInv'
<1>1. syn.pc = "apply" /\ UNCHANGED <<cache, edge>>
  BY DEF DeletesCR
<1>2. \/ Continue([syn EXCEPT !.redundantKube = @ \ {n}])
      \/ Continue([syn EXCEPT !.redundantKube = {}])
  BY DEF DeletesCR
<1>3. SpecsKept
  BY SameApi, DeleteSpecs DEF DeletesCR
<1> QED
  BY <1>1, <1>2, <1>3, LessToDo, StageDef

LEMMA UpdateServiceCRDef ==
  ASSUME IInv, DefInv, NEW n \in KubeNames, UpdateServiceCR(n), UNCHANGED <<rec, kind>>
  PROVE  DefInv'
<1>1. syn.pc = "apply" /\ UNCHANGED <<cache, edge>>
  BY DEF UpdateServiceCR
<1>2. \E names \in SUBSET KubeNames : Updated(names)
  BY DEF UpdateServiceCR, ToUpdate
<1>3. \/ Forget(n, "syncer")
      \/ /\ StatusReply(n, "syncer") = "ok"
         /\ PutLast(n, WithStatus(n, syn.synced[n]), "syncer")
  BY DEF UpdateServiceCR, ServiceUpdateReply
<1>4. SpecsKept
  <2>1. CASE Forget(n, "syncer")
    BY <2>1 DEF Forget, SpecsKept
  <2>2. CASE /\ StatusReply(n, "syncer") = "ok"
             /\ PutLast(n, WithStatus(n, syn.synced[n]), "syncer")
    BY <2>2, WithStatusSpecs DEF StatusReply
  <2> QED
    BY <1>3, <2>1, <2>2
<1> QED
  BY <1>1, <1>2, <1>4, LessToDo, StageDef

LEMMA CreatesCRDef ==
  ASSUME IInv, DefInv, NEW e \in EdgeNames, NEW spec, CreatesCR(e, spec), UNCHANGED <<rec, kind>>,
         spec.definition = syn.listed[e].definition
  PROVE  DefInv'
<1>1. syn.pc = "apply" /\ e \in syn.redundantEdge /\ UNCHANGED <<cache, edge>>
  BY DEF CreatesCR
<1>2. \/ Continue([syn EXCEPT !.redundantEdge = @ \ {e}, !.listed[e] = NoObject])
      \/ Continue([syn EXCEPT !.redundantEdge = {}, !.listed = [f \in EdgeNames |-> NoObject]])
  BY DEF CreatesCR
<1>3. \A f \in EdgeNames : syn'.listed[f] # NoObject => syn'.listed[f] = syn.listed[f]
  BY <1>1, <1>2, LessToDo
<1>4. ApiUnchanged \/ Store(SyncerName[e], NewObject(spec), {})
  BY DEF CreatesCR
<1>5. NewObject(spec).spec = spec
  BY DEF NewObject
<1>6. ASSUME NEW m \in KubeNames, kube'[m] # NoCR
      PROVE  Kept(kind, kube'[m].spec.definition)
  <2>1. Kept(kind, spec.definition)
    BY <1>1, Round DEF DefInv
  <2> DEFINE cr == NewObject(spec)
  <2>2. cr.spec = spec
    BY <1>5
  <2>3. kube' = kube \/ kube' = [kube EXCEPT ![SyncerName[e]] = cr]
    BY <1>4 DEF ApiUnchanged, Store
  <2> HIDE DEF cr
  <2>4. kube'[m] = kube[m] \/ kube'[m] = cr
    BY <2>3, Types DEF ApiTypeOK
  <2> QED
    BY <1>6, <2>1, <2>2, <2>4 DEF DefInv
<1> QED
  BY <1>1, <1>3, <1>6 DEF DefInv

LEMMA SyncerDef ==
  ASSUME IInv, DefInv, ObjectSyncerRuns
  PROVE  DefInv'
<1>1. UNCHANGED <<rec, kind>>
  BY DEF ObjectSyncerRuns, Others
<1>2. CASE kind = "DeviceService" /\ ListEdgeServices
  <2> DEFINE definition == [e \in ServicesOnEdge |-> toKubeDeviceService(edge[e].definition)]
  <2>1. ListsEdge(definition)
    BY <1>2 DEF ListEdgeServices
  <2>2. ASSUME NEW e \in EdgeNames, edge[e] # NoObject
        PROVE  Kept(kind, definition[e])
    <3>1. definition[e] = toKubeDeviceService(edge[e].definition)
      BY <2>2 DEF ServicesOnEdge
    <3> QED
      BY <1>2, <2>2, <3>1, ServiceConversions DEF DefInv
  <2> HIDE DEF definition
  <2> QED
    BY <1>1, <2>1, <2>2, ListsEdgeDef
<1>3. CASE kind = "DeviceProfile" /\ ListEdgeProfiles
  <2> DEFINE definition == [e \in ProfilesOnEdge |-> toKubeDeviceProfile(edge[e].definition)]
  <2>1. ListsEdge(definition)
    BY <1>3 DEF ListEdgeProfiles
  <2>2. ASSUME NEW e \in EdgeNames, edge[e] # NoObject
        PROVE  Kept(kind, definition[e])
    <3>1. definition[e] = toKubeDeviceProfile(edge[e].definition)
      BY <2>2 DEF ProfilesOnEdge
    <3> QED
      BY <1>3, <2>2, <3>1, ProfileConversions DEF DefInv
  <2> HIDE DEF definition
  <2> QED
    BY <1>1, <2>1, <2>2, ListsEdgeDef
<1>4. CASE ListKubeServices \/ ListKubeProfiles
  BY <1>1, <1>4, ListsKubeDef DEF ListKubeServices, ListKubeProfiles
<1>5. ASSUME NEW e \in EdgeNames, CreateServiceCR(e) \/ CreateProfileCR(e)
      PROVE  DefInv'
  BY <1>1, <1>5, CreatesCRDef
     DEF CreateServiceCR, CreateProfileCR, completeCreateService, completeCreateProfile
<1>6. ASSUME NEW n \in KubeNames, DeleteServiceCR(n) \/ DeleteProfileCR(n) \/ UpdateServiceCR(n)
      PROVE  DefInv'
  BY <1>1, <1>6, DeletesCRDef, UpdateServiceCRDef DEF DeleteServiceCR, DeleteProfileCR
<1> QED
  BY <1>2, <1>3, <1>4, <1>5, <1>6 DEF ObjectSyncerRuns, ServiceSyncerStep, ProfileSyncerStep

(***************************************************************************)
(* Users, operators, and the system.                                       *)
(***************************************************************************)
LEMMA UserDef ==
  ASSUME IInv, DefInv, UsersWriteWhole, NEW n \in Names,
         UserCreates(n) \/ UserUpdates(n) \/ UserDeletes(n)
  PROVE  DefInv'
<1>1. UNCHANGED <<cache, edge, rec, syn, kind>> /\ n \in KubeNames
  BY ObjectEnvironmentAssumption
     DEF UserCreates, UserUpdates, UserDeletes, UserStep, Names
<1>2. \A s \in UserSpecs[n] : Kept(kind, s.definition)
  BY KindType DEF UsersWriteWhole, Names, Kept
<1>3. CASE UserCreates(n) \/ UserUpdates(n)
  <2>1. PICK cr, s : s \in UserSpecs[n] /\ cr.spec = s /\ Store(n, cr, {})
    <3>1. CASE UserCreates(n)
      <4>1. PICK s \in UserSpecs[n] : Store(n, NewObject(s), {})
        BY <3>1 DEF UserCreates
      <4>2. NewObject(s).spec = s
        BY DEF NewObject
      <4> QED
        BY <4>1, <4>2
    <3>2. CASE UserUpdates(n)
      <4>1. PICK s \in UserSpecs[n] : Store(n, [kube[n] EXCEPT !.spec = s], {})
        BY <3>2 DEF UserUpdates
      <4>2. kube[n] \in Object
        BY <1>1, <3>2, Types DEF UserUpdates
      <4>3. [kube[n] EXCEPT !.spec = s].spec = s
        BY <4>2 DEF Object
      <4> QED
        BY <4>1, <4>3
    <3> QED
      BY <1>3, <3>1, <3>2
  <2>2. \A m \in KubeNames : kube'[m] = IF m = n THEN cr ELSE kube[m]
    BY <2>1, Types DEF Store, ApiTypeOK
  <2> QED
    BY <1>1, <1>2, <2>1, <2>2 DEF DefInv
<1>4. CASE UserDeletes(n)
  <2>1. SpecsKept
    BY <1>1, <1>4, DeleteSpecs DEF UserDeletes
  <2> QED
    BY <1>1, <2>1, StageDef
<1> QED
  BY <1>3, <1>4

LEMMA OperatorDef ==
  ASSUME IInv, DefInv, NEW e \in EdgeNames,
         OperatorAdds(e) \/ OperatorRemoves(e) \/ OperatorChanges(e)
  PROVE  DefInv'
<1>1. ApiUnchanged /\ UNCHANGED <<cache, rec, syn, kind>>
  BY DEF OperatorAdds, OperatorRemoves, OperatorChanges, EdgeStep
<1>2. PICK obj : /\ edge' = [edge EXCEPT ![e] = obj]
                 /\ obj # NoObject => Kept(kind, obj.definition)
  <2>1. CASE OperatorAdds(e)
    <3>1. PICK s \in EdgeStates[e] :
            edge' = [edge EXCEPT ![e] = [adminState |-> s, definition |-> Whole, owner |-> NoName]]
      BY <2>1 DEF OperatorAdds
    <3> DEFINE added == [adminState |-> s, definition |-> Whole, owner |-> NoName]
    <3>2. edge' = [edge EXCEPT ![e] = added] /\ Kept(kind, added.definition)
      BY <3>1, WholeKept
    <3> QED
      BY <3>2
  <2>2. CASE OperatorRemoves(e)
    BY <2>2 DEF OperatorRemoves
  <2>3. CASE OperatorChanges(e)
    <3>1. PICK s \in AdminStates : edge' = [edge EXCEPT ![e].adminState = s]
      BY <2>3 DEF OperatorChanges
    <3>2. edge[e] # NoObject /\ edge[e] \in EdgeObject
      BY <2>3, Types DEF OperatorChanges
    <3>3. [edge[e] EXCEPT !.adminState = s].definition = edge[e].definition
      BY <3>2 DEF EdgeObject
    <3>4. edge' = [edge EXCEPT ![e] = [edge[e] EXCEPT !.adminState = s]]
      BY <3>1, Types
    <3> QED
      BY <3>2, <3>3, <3>4 DEF DefInv
  <2> QED
    BY <2>1, <2>2, <2>3
<1>3. \A f \in EdgeNames : edge'[f] = IF f = e THEN obj ELSE edge[f]
  BY <1>2, Types
<1>4. \A f \in EdgeNames : edge'[f] # NoObject => Kept(kind, edge'[f].definition)
  BY <1>2, <1>3 DEF DefInv
<1> QED
  BY <1>1, <1>4 DEF ApiUnchanged, DefInv

LEMMA WatchDef ==
  ASSUME IInv, DefInv, NEW n \in KubeNames, ObjectWatchDelivers(n) \/ ObjectWatchBreaks(n)
  PROVE  DefInv'
<1>1. UNCHANGED <<kube, edge, rec, syn, kind>> /\ cache' = [cache EXCEPT ![n] = kube[n]]
  BY DEF ObjectWatchDelivers, ObjectWatchBreaks, Deliver, Relist, Others
<1>2. \A m \in KubeNames : cache'[m] = cache[m] \/ cache'[m] = kube[m]
  BY <1>1, Types
<1> QED
  BY <1>1, <1>2 DEF DefInv

LEMMA RestartDef ==
  ASSUME IInv, DefInv, Restarts
  PROVE  DefInv'
<1>1. /\ rec'.pc = "idle" /\ \A e \in EdgeNames : syn'.listed[e] = NoObject
      /\ cache' = kube /\ UNCHANGED <<kube, edge, kind>>
  BY IdleOK DEF Restarts, Others
<1> QED
  BY <1>1 DEF DefInv

LEMMA StepDef ==
  ASSUME IInv, DefInv, UsersWriteWhole, [ObjectNext]_objectVars
  PROVE  DefInv'
<1>1. ASSUME NEW n \in Names, UserCreates(n) \/ UserUpdates(n) \/ UserDeletes(n) \/ TakeObjectKey(n)
                              \/ ObjectWatchDelivers(n) \/ ObjectWatchBreaks(n)
      PROVE  DefInv'
  <2>1. n \in KubeNames
    BY ObjectEnvironmentAssumption DEF Names
  <2> QED
    BY <1>1, <2>1, UserDef, TakeKeyDef, WatchDef
<1>2. ASSUME NEW e \in Objects, OperatorAdds(e) \/ OperatorRemoves(e) \/ OperatorChanges(e)
      PROVE  DefInv'
  BY <1>2, OperatorDef DEF Objects
<1>3. CASE ObjectsResync \/ UNCHANGED objectVars
  BY <1>3 DEF ObjectsResync, Resync, Others, objectVars, clusterVars, DefInv
<1> QED
  BY <1>1, <1>2, <1>3, ReconcilerDef, SyncerDef, RestartDef DEF ObjectNext

LEMMA InitDef ==
  ASSUME ObjectInit
  PROVE  DefInv
  BY IdleOK DEF ObjectInit, DefInv

(* If users submit complete definitions, every CR and every object holds   *)
(* one, but for the parts the conversions are known to lose.               *)
THEOREM DefinitionsSurvive ==
  ASSUME UsersWriteWhole
  PROVE  ObjectSpecification => []DefinitionsKept
<1>1. ObjectInit => DefInv
  BY InitDef
<1>2. IInv /\ DefInv /\ [ObjectNext]_objectVars => DefInv'
  BY StepDef
<1>3. IInv /\ DefInv => DefinitionsKept
  <2>1. ASSUME IInv, DefInv, NEW d, Kept(kind, d)
        PROVE  Whole \ d \subseteq KnownLosses
    <3>1. CASE kind = "DeviceService"
      BY <2>1, <3>1 DEF Kept, Whole
    <3>2. CASE kind # "DeviceService"
      BY <2>1, <3>2 DEF Kept, Whole, KnownLosses, Losses
    <3> QED
      BY <3>1, <3>2
  <2> QED
    BY <2>1 DEF DefInv, DefinitionsKept, Exists
<1> QED
  BY <1>1, <1>2, <1>3, Invariance, PTL DEF ObjectSpecification

(***************************************************************************)
(* The moves of one CR.                                                    *)
(***************************************************************************)
(* A new CR is bare, and nobody holds a copy of one before it.             *)
Born(n, cr) ==
  /\ ~Exists(n) /\ cr # NoCR
  /\ ~cr.finalizer /\ ~cr.deleting /\ ~cr.status.synced
  /\ n \in Steady => cache[n] = NoCR /\ n # rec.key /\ n \notin syn.redundantKube

(* A CR with the finalizer goes as soon as the worker takes it off.        *)
Dies(n, cr) ==
  /\ Exists(n) /\ cr = NoCR
  /\ kube[n].finalizer => /\ kube[n].deleting
                          /\ n = rec.key /\ rec.pc = "removeFinalizer" /\ rec'.pc = "deleteObject"

Same(n, cr) ==
  /\ cr.finalizer = kube[n].finalizer /\ cr.deleting = kube[n].deleting
  /\ cr.status.synced = kube[n].status.synced
Guards(n, cr) ==
  /\ ~kube[n].finalizer /\ cr.finalizer
  /\ cr.deleting = kube[n].deleting /\ cr.status.synced = kube[n].status.synced
Syncs(n, cr) ==
  /\ ~kube[n].status.synced /\ cr.status.synced
  /\ n \in Steady => kube[n].finalizer
  /\ cr.finalizer = kube[n].finalizer /\ cr.deleting = kube[n].deleting
Marks(n, cr) ==
  /\ ~kube[n].deleting /\ cr.deleting /\ kube[n].finalizer
  /\ cr.finalizer = kube[n].finalizer /\ cr.status.synced = kube[n].status.synced
Strips(n, cr) ==
  /\ n \notin Steady /\ kube[n].finalizer /\ ~cr.finalizer /\ ~kube[n].deleting
  /\ cr.deleting = kube[n].deleting /\ cr.status.synced = kube[n].status.synced

Lives(n, cr) ==
  /\ Exists(n) /\ cr # NoCR /\ SameCR(cr, n)
  /\ Same(n, cr) \/ Guards(n, cr) \/ Syncs(n, cr) \/ Marks(n, cr) \/ Strips(n, cr)

Moves(n, cr) == Born(n, cr) \/ Dies(n, cr) \/ Lives(n, cr)

(* The process writes no CR of another pool.                               *)
Ours(n) ==
  userOps' = userOps /\ n \in Steady /\ Exists(n) => kube[n].spec.nodePool = NodePool

OneMoves ==
  \/ UNCHANGED kube
  \/ \E n \in KubeNames : /\ \A m \in KubeNames \ {n} : kube'[m] = kube[m]
                          /\ Moves(n, kube'[n]) /\ Ours(n)

LEMMA CRFields ==
  ASSUME NEW d \in Object
  PROVE  /\ d.finalizer \in BOOLEAN /\ d.deleting \in BOOLEAN /\ d.status.synced \in BOOLEAN
         /\ \A s : /\ [d EXCEPT !.status = s].status = s
                   /\ [d EXCEPT !.status = s].spec = d.spec
                   /\ [d EXCEPT !.status = s].finalizer = d.finalizer
                   /\ [d EXCEPT !.status = s].deleting = d.deleting
         /\ \A s : /\ [d EXCEPT !.spec = s].spec = s
                   /\ [d EXCEPT !.spec = s].status = d.status
                   /\ [d EXCEPT !.spec = s].finalizer = d.finalizer
                   /\ [d EXCEPT !.spec = s].deleting = d.deleting
         /\ \A b : /\ [d EXCEPT !.finalizer = b].spec = d.spec
                   /\ [d EXCEPT !.finalizer = b].status = d.status
                   /\ [d EXCEPT !.finalizer = b].finalizer = b
                   /\ [d EXCEPT !.finalizer = b].deleting = d.deleting
         /\ [d EXCEPT !.deleting = TRUE].spec = d.spec
         /\ [d EXCEPT !.deleting = TRUE].status = d.status
         /\ [d EXCEPT !.deleting = TRUE].finalizer = d.finalizer
         /\ [d EXCEPT !.deleting = TRUE].deleting = TRUE
  BY DEF Object, ObjectStatus

LEMMA StoreMoves ==
  ASSUME IInv, NEW n \in KubeNames, NEW cr, NEW hs, Store(n, cr, hs), Moves(n, cr), Ours(n)
  PROVE  OneMoves
<1>1. \A m \in KubeNames : kube'[m] = IF m = n THEN cr ELSE kube[m]
  BY Types DEF Store, ApiTypeOK
<1>2. Moves(n, kube'[n])
  BY <1>1
<1> QED
  BY <1>1, <1>2 DEF OneMoves

LEMMA PutMoves ==
  ASSUME IInv, NEW n \in KubeNames, NEW cr, NEW g, Put(n, cr, g) \/ PutLast(n, cr, g),
         Moves(n, cr), Ours(n)
  PROVE  OneMoves
<1>1. CASE cr = kube[n]
  BY <1>1 DEF Put, PutLast, Forget, OneMoves
<1>2. CASE cr # kube[n]
  BY <1>2, StoreMoves DEF Put, PutLast
<1> QED
  BY <1>1, <1>2

LEMMA DeleteMoves ==
  ASSUME IInv, NEW n \in KubeNames, Exists(n), Delete(n), Ours(n)
  PROVE  OneMoves
<1> DEFINE marked == [kube[n] EXCEPT !.deleting = TRUE]
<1>1. kube[n] \in Object /\ kube[n] # NoCR
  BY Types DEF Exists
<1>2. marked \in Object /\ marked # NoCR
  BY <1>1, ObjectType, ObjectAbsenceAssumption
<1>3. /\ marked.spec = kube[n].spec /\ marked.status = kube[n].status
      /\ marked.finalizer = kube[n].finalizer /\ marked.deleting
  BY <1>1, CRFields
<1>4. \/ ApiUnchanged
      \/ kube[n].finalizer /\ ~kube[n].deleting /\ Store(n, marked, {})
      \/ ~kube[n].finalizer /\ Store(n, NoCR, {})
  BY DEF Delete
<1> HIDE DEF marked
<1>5. CASE ApiUnchanged
  BY <1>5 DEF ApiUnchanged, OneMoves
<1>6. CASE kube[n].finalizer /\ ~kube[n].deleting /\ Store(n, marked, {})
  <2>1. Moves(n, marked)
    BY <1>2, <1>3, <1>6 DEF Moves, Lives, SameCR, Marks
  <2> QED
    BY <1>6, <2>1, StoreMoves
<1>7. CASE ~kube[n].finalizer /\ Store(n, NoCR, {})
  <2>1. Moves(n, NoCR)
    BY <1>7 DEF Moves, Dies
  <2> QED
    BY <1>7, <2>1, StoreMoves
<1> QED
  BY <1>4, <1>5, <1>6, <1>7

LEMMA CreateMoves ==
  ASSUME IInv, NEW n \in KubeNames, NEW s \in ObjectSpec,
         CanCreate(n, {rec.key} \cup syn.redundantKube), Store(n, NewObject(s), {})
  PROVE  OneMoves
<1> DEFINE new == NewObject(s)
<1>1. new # NoCR /\ ~new.finalizer /\ ~new.deleting /\ ~new.status.synced
  <2>1. new # NoCR
    BY NewObjectType, ObjectAbsenceAssumption
  <2> QED
    BY <2>1 DEF NewObject
<1>2. ~Exists(n) /\ (n \in Steady => cache[n] = NoCR /\ n # rec.key /\ n \notin syn.redundantKube)
  BY DEF CanCreate, Steady
<1>3. Store(n, new, {})
  OBVIOUS
<1> HIDE DEF new
<1>4. Moves(n, new)
  BY <1>1, <1>2 DEF Moves, Born
<1> QED
  BY <1>2, <1>3, <1>4, StoreMoves DEF Ours

LEMMA StatusMoves ==
  ASSUME IInv, NEW n \in KubeNames, NEW s \in ObjectStatus, NEW g, Exists(n), Ours(n),
         Put(n, WithStatus(n, s), g) \/ PutLast(n, WithStatus(n, s), g),
         kube[n].status.synced => s.synced,
         n \in Steady /\ s.synced => kube[n].finalizer
  PROVE  OneMoves
<1> DEFINE cr == WithStatus(n, s)
<1>1. kube[n] \in Object
  BY Types
<1>2. /\ cr \in Object /\ cr.spec = kube[n].spec /\ cr.status = s
      /\ cr.finalizer = kube[n].finalizer /\ cr.deleting = kube[n].deleting
  <2>1. cr = [kube[n] EXCEPT !.status = s]
    BY DEF WithStatus
  <2> HIDE DEF cr
  <2>2. cr \in Object
    BY <1>1, <2>1, ObjectType
  <2> QED
    BY <1>1, <2>1, <2>2, CRFields
<1>3. Put(n, cr, g) \/ PutLast(n, cr, g)
  OBVIOUS
<1>4. kube[n].status.synced \in BOOLEAN /\ s.synced \in BOOLEAN
  BY <1>1, CRFields DEF ObjectStatus
<1>5. cr # NoCR
  BY <1>2, ObjectAbsenceAssumption
<1> HIDE DEF cr
<1>6. SameCR(cr, n)
  BY <1>2 DEF SameCR
<1>7. Same(n, cr) \/ Syncs(n, cr)
  BY <1>2, <1>4 DEF Same, Syncs
<1>8. Moves(n, cr)
  BY <1>5, <1>6, <1>7 DEF Moves, Lives
<1> QED
  BY <1>3, <1>8, PutMoves

(***************************************************************************)
(* What the moves leave to the others.                                     *)
(***************************************************************************)
LEMMA Each ==
  ASSUME OneMoves, NEW n \in KubeNames
  PROVE  kube'[n] = kube[n] \/ (Moves(n, kube'[n]) /\ Ours(n))
  BY DEF OneMoves

(* What was seen of a CR still holds, until the worker takes the finalizer *)
(* off.                                                                    *)
LEMMA StaysSeen ==
  ASSUME OneMoves, NEW n \in Steady, kube[n] # NoCR, kube'[n] # NoCR
  PROVE  /\ kube'[n].spec.edgeName = kube[n].spec.edgeName
         /\ kube'[n].spec.nodePool = kube[n].spec.nodePool
         /\ kube[n].finalizer => kube'[n].finalizer
         /\ kube[n].deleting => kube'[n].deleting
<1>1. kube'[n] = kube[n] \/ Lives(n, kube'[n])
  BY Each DEF Moves, Born, Dies, Exists, Steady
<1> QED
  BY <1>1 DEF Lives, SameCR, Same, Guards, Syncs, Marks, Strips

LEMMA StaysThere ==
  ASSUME OneMoves, NEW n \in Steady, kube[n] # NoCR, kube[n].finalizer,
         \/ ~kube[n].deleting \/ n # rec.key
         \/ rec.pc # "removeFinalizer" \/ rec'.pc # "deleteObject"
  PROVE  kube'[n] # NoCR /\ kube'[n].finalizer
<1>1. kube'[n] # NoCR
  BY Each DEF Moves, Dies, Lives, Born, Steady
<1> QED
  BY <1>1, StaysSeen

LEMMA StaysAway ==
  ASSUME OneMoves, NEW n \in Steady, kube[n] = NoCR,
         cache[n] # NoCR \/ n = rec.key \/ n \in syn.redundantKube
  PROVE  kube'[n] = NoCR
  BY Each DEF Moves, Born, Dies, Lives, Exists, Steady

LEMMA KubeGuarded ==
  ASSUME GuardInv, OneMoves
  PROVE  DeletingIsGuarded' /\ SyncedIsGuarded'
<1>1. ASSUME NEW n \in KubeNames, kube'[n] # NoCR, kube'[n].deleting
      PROVE  kube'[n].finalizer
  <2>1. CASE kube'[n] = kube[n]
    BY <1>1, <2>1 DEF GuardInv, DeletingIsGuarded, Exists
  <2>2. CASE Born(n, kube'[n]) \/ Lives(n, kube'[n])
    BY <1>1, <2>2 DEF GuardInv, DeletingIsGuarded, Born, Lives, Same, Guards, Syncs, Marks, Strips
  <2> QED
    BY <1>1, <2>1, <2>2, Each DEF Moves, Dies
<1>2. ASSUME NEW n \in Steady, kube'[n] # NoCR, kube'[n].status.synced
      PROVE  kube'[n].finalizer
  <2> n \in KubeNames
    BY DEF Steady
  <2>1. CASE kube'[n] = kube[n]
    BY <1>2, <2>1 DEF GuardInv, SyncedIsGuarded, Exists
  <2>2. CASE Born(n, kube'[n]) \/ Lives(n, kube'[n])
    BY <1>2, <2>2 DEF GuardInv, SyncedIsGuarded, Born, Lives, Same, Guards, Syncs, Marks, Strips
  <2> QED
    BY <1>2, <2>1, <2>2, Each DEF Moves, Dies
<1> QED
  BY <1>1, <1>2 DEF DeletingIsGuarded, SyncedIsGuarded, Steady, Exists

LEMMA CacheGuarded ==
  ASSUME GuardInv, OneMoves, UNCHANGED cache
  PROVE  CacheKnows'
<1> SUFFICES ASSUME NEW n \in Steady, cache[n] # NoCR
             PROVE  /\ cache[n].status.synced => cache[n].finalizer
                    /\ cache[n].finalizer /\ ~cache[n].deleting => kube'[n] # NoCR
                    /\ kube'[n] # NoCR =>
                         /\ SameCR(cache[n], n)'
                         /\ cache[n].finalizer => kube'[n].finalizer
                         /\ cache[n].deleting => kube'[n].deleting
  BY DEF CacheKnows, Steady, Exists
<1>1. /\ cache[n].status.synced => cache[n].finalizer
      /\ cache[n].finalizer /\ ~cache[n].deleting => kube[n] # NoCR
      /\ kube[n] # NoCR =>
           /\ cache[n].spec.edgeName = kube[n].spec.edgeName
           /\ cache[n].spec.nodePool = kube[n].spec.nodePool
           /\ cache[n].finalizer => kube[n].finalizer
           /\ cache[n].deleting => kube[n].deleting
  BY DEF GuardInv, CacheKnows, SameCR, Exists
<1>2. ASSUME cache[n].finalizer, ~cache[n].deleting
      PROVE  kube'[n] # NoCR
  <2>1. kube[n] # NoCR /\ kube[n].finalizer
    BY <1>1, <1>2
  <2>2. ~(n = rec.key /\ rec.pc = "removeFinalizer")
    BY <1>2, <2>1 DEF GuardInv, WorkerKnows
  <2> QED
    BY <2>1, <2>2, StaysThere
<1>3. ASSUME kube'[n] # NoCR
      PROVE  /\ SameCR(cache[n], n)'
             /\ cache[n].finalizer => kube'[n].finalizer
             /\ cache[n].deleting => kube'[n].deleting
  <2>1. kube[n] # NoCR
    BY <1>3, StaysAway
  <2> QED
    BY <1>1, <1>3, <2>1, StaysSeen DEF SameCR
<1> QED
  BY <1>1, <1>2, <1>3

LEMMA OtherWorkerGuarded ==
  ASSUME IInv, GuardInv, OneMoves, UNCHANGED <<cache, rec>>
  PROVE  WorkerKnows'
<1> SUFFICES ASSUME rec.pc # "idle", rec.key \in Steady
             PROVE  WorkerKnows'
  BY DEF WorkerKnows, Steady
<1> DEFINE n == rec.key
<1>1. WorkerKnows
  BY DEF GuardInv
<1>2. kube[n] = NoCR => kube'[n] = NoCR
  BY StaysAway
<1>3. rec.pc = rec'.pc /\ Exists(n) /\ kube[n].finalizer => Exists(n)' /\ kube'[n].finalizer
  <2>1. rec.pc # "removeFinalizer" \/ rec'.pc # "deleteObject"
    OBVIOUS
  <2> QED
    BY <2>1, StaysThere DEF Exists
<1>4. Exists(n)' => /\ Exists(n)
                    /\ kube'[n].spec.edgeName = kube[n].spec.edgeName
                    /\ kube'[n].spec.nodePool = kube[n].spec.nodePool
                    /\ kube[n].finalizer => kube'[n].finalizer
                    /\ kube[n].deleting => kube'[n].deleting
  BY <1>2, StaysSeen DEF Exists
<1> QED
  BY <1>1, <1>3, <1>4 DEF WorkerKnows, SameCR

(* The rest of a round. *)
LEMMA RoundGuarded ==
  ASSUME IInv, GuardInv, OneMoves, Outdated("syncer"),
         syn'.redundantKube \subseteq syn.redundantKube,
         \A n \in KubeNames : syn'.synced[n] # NoCR => syn'.synced[n] = syn.synced[n]
  PROVE  RoundKnows'
<1>1. ASSUME NEW n \in Steady, n \in syn'.redundantKube, kube'[n] # NoCR
      PROVE  kube'[n].spec.nodePool = NodePool
  <2>1. kube[n] # NoCR
    BY <1>1, StaysAway
  <2> QED
    BY <1>1, <2>1, StaysSeen DEF GuardInv, RoundKnows, Exists
<1>2. ASSUME NEW n \in Steady, syn'.synced[n] # NoCR, "syncer" \in current'[n]
      PROVE  /\ kube'[n].spec.nodePool = NodePool
             /\ syn'.synced[n].synced => kube'[n].finalizer
  BY <1>2 DEF GuardInv, RoundKnows, Outdated, Steady
<1> QED
  BY <1>1, <1>2 DEF RoundKnows, Steady, Exists

(* A step that is not the worker's and leaves the round as it was.         *)
LEMMA OthersGuarded ==
  ASSUME IInv, GuardInv, OneMoves, Outdated("syncer"), UNCHANGED <<cache, rec>>,
         syn'.redundantKube \subseteq syn.redundantKube,
         \A n \in KubeNames : syn'.synced[n] # NoCR => syn'.synced[n] = syn.synced[n]
  PROVE  GuardInv'
  BY KubeGuarded, CacheGuarded, OtherWorkerGuarded, RoundGuarded DEF GuardInv

(***************************************************************************)
(* The worker.                                                             *)
(***************************************************************************)
(* What a step of the worker of a busy reconciliation does.                *)
WorkerGuards == WorkerKnows' /\ OneMoves /\ Outdated("syncer") /\ UNCHANGED cache

LEMMA WriterOutdated ==
  ASSUME IInv, NEW n \in KubeNames, NEW cr, NEW g,
         \/ Put(n, cr, "reconciler") \/ PutLast(n, cr, g) \/ Store(n, cr, {})
         \/ Forget(n, g) \/ ApiUnchanged
  PROVE  Outdated("syncer")
<1>1. CASE ApiUnchanged
  BY <1>1 DEF ApiUnchanged, Outdated
<1>2. CASE Forget(n, g)
  BY <1>2, Types DEF Forget, Outdated, ApiTypeOK
<1>3. CASE \E hs \in {{}, {"reconciler"}} : Store(n, cr, hs)
  <2>1. PICK hs \in {{}, {"reconciler"}} : Store(n, cr, hs)
    BY <1>3
  <2>2. \A m \in KubeNames : /\ kube'[m] = IF m = n THEN cr ELSE kube[m]
                             /\ current'[m] = IF m = n THEN hs ELSE current[m]
    BY <2>1, Types DEF Store, ApiTypeOK
  <2> QED
    BY <2>1, <2>2 DEF Outdated
<1>4. CASE Put(n, cr, "reconciler") /\ cr = kube[n]
  BY <1>4, Types DEF Put, Outdated, ApiTypeOK
<1> QED
  BY <1>1, <1>2, <1>3, <1>4 DEF Put, PutLast

LEMMA WorkerOurs ==
  ASSUME GuardInv, rec.pc # "idle"
  PROVE  Ours(rec.key)
  BY DEF GuardInv, WorkerKnows, SameCR, Ours

(* The worker goes on with the CR it has, or finishes.                     *)
GoesAhead ==
  /\ rec'.key = rec.key /\ rec'.edgeName = rec.edgeName /\ SameSpec
  /\ rec'.pc \in Working \cup {"finish"}
  /\ rec'.pc \in Working /\ rec.key \in Steady => rec.pc \in Working
  /\ rec.pc = "addFinalizer" => rec'.d.status = rec.d.status

LEMMA WorkerGoesAhead ==
  ASSUME IInv, GuardInv, OneMoves, UNCHANGED cache, rec.pc \notin {"idle", "finish"}, GoesAhead
  PROVE  WorkerKnows'
<1> SUFFICES ASSUME rec.key \in Steady
             PROVE  WorkerKnows'
  BY DEF WorkerKnows, Steady, GoesAhead
<1> DEFINE n == rec.key
<1>1. WorkerKnows /\ rec'.key = n /\ rec'.d.spec = rec.d.spec /\ rec'.edgeName = rec.edgeName
  BY DEF GuardInv, GoesAhead, SameSpec
<1>2. kube'[n] # NoCR => /\ Exists(n)
                         /\ kube'[n].spec.edgeName = kube[n].spec.edgeName
                         /\ kube'[n].spec.nodePool = kube[n].spec.nodePool
                         /\ kube[n].deleting => kube'[n].deleting
  BY StaysAway, StaysSeen DEF Exists
<1>3. rec.pc \in Working => kube'[n] # NoCR /\ kube'[n].finalizer
  <2>1. rec'.pc # "deleteObject"
    BY DEF GoesAhead, Working
  <2> QED
    BY <1>1, <2>1, StaysThere DEF WorkerKnows, Exists
<1>4. rec'.pc \in Working => kube'[n] # NoCR /\ kube'[n].finalizer
  BY <1>3 DEF GoesAhead
<1>5. ASSUME kube'[n] # NoCR, rec'.d.status.synced
      PROVE  kube'[n].finalizer
  <2>1. n \in KubeNames
    BY DEF Steady
  <2>2. CASE rec.pc \in Working
    BY <1>3, <2>2
  <2>3. CASE rec.pc = "addFinalizer"
    BY <1>1, <1>5, <2>3 DEF WorkerKnows, GoesAhead
  <2>4. CASE rec.pc = "removeFinalizer"
    <3>1. kube'[n].deleting
      BY <1>1, <1>2, <1>5, <2>4 DEF WorkerKnows, Exists
    <3> QED
      BY <1>5, <2>1, <3>1, KubeGuarded DEF DeletingIsGuarded, Exists
  <2>5. CASE rec.pc = "deleteObject"
    BY <1>1, <1>2, <1>5, <2>5 DEF WorkerKnows, Exists
  <2> QED
    BY <2>2, <2>3, <2>4, <2>5, Busy DEF Steps, Working
<1>6. rec'.pc \notin {"addFinalizer", "removeFinalizer", "deleteObject"}
  BY DEF GoesAhead, Working
<1>7. rec'.d.spec.nodePool = NodePool /\ rec'.d.spec.edgeName = rec'.edgeName
  BY <1>1 DEF WorkerKnows
<1>8. Exists(rec.key)' <=> kube'[n] # NoCR
  BY <1>1 DEF Exists
<1>9. Exists(rec.key)' => SameCR(rec.d, rec.key)'
  <2>1. kube'[n] # NoCR => /\ rec.d.spec.edgeName = kube'[n].spec.edgeName
                           /\ rec.d.spec.nodePool = kube'[n].spec.nodePool
    BY <1>1, <1>2 DEF WorkerKnows, SameCR
  <2> QED
    BY <1>1, <1>8, <2>1 DEF SameCR
<1> QED
  BY <1>1, <1>4, <1>5, <1>6, <1>7, <1>8, <1>9 DEF WorkerKnows

LEMMA Ahead ==
  ASSUME IInv, rec.pc # "idle", NEW s, NEW r, NEW p \in Working \cup {"finish"},
         \/ Finish(r)
         \/ rec.pc # "addFinalizer" /\ (FinishWith(s, r) \/ WritesNext(s) \/ Patched)
         \/ rec.pc # "addFinalizer" /\ rec' = [rec EXCEPT !.pc = p],
         rec'.pc \in Working /\ rec.key \in Steady => rec.pc \in Working
  PROVE  GoesAhead
<1>1. SameSpec
  BY StatusOnly
<1>2. rec'.key = rec.key /\ rec'.edgeName = rec.edgeName /\ rec'.pc \in Working \cup {"finish"}
  BY Busy DEF Finish, FinishWith, WritesNext, Patched, ObjectWorker, Working
<1>3. Finish(r) => rec'.d = rec.d
  BY Busy DEF Finish, ObjectWorker
<1> QED
  BY <1>1, <1>2, <1>3 DEF GoesAhead

LEMMA QuietGuards ==
  ASSUME IInv, GuardInv, rec.pc \notin {"idle", "finish"}, ApiUnchanged, UNCHANGED cache, GoesAhead
  PROVE  WorkerGuards
<1>1. OneMoves
  BY DEF ApiUnchanged, OneMoves
<1> QED
  BY <1>1, Busy, WorkerGoesAhead, WriterOutdated DEF WorkerGuards

LEMMA GetGuards ==
  ASSUME IInv, GuardInv, NEW e, GetsObject(e)
  PROVE  WorkerGuards
<1>1. rec.pc = "getObject" /\ ApiUnchanged /\ UNCHANGED cache
  BY DEF GetsObject
<1>2. GoesAhead
  BY <1>1, Ahead DEF GetsObject, Working
<1> QED
  BY <1>1, <1>2, QuietGuards

LEMMA CreatesGuards ==
  ASSUME IInv, GuardInv, NEW definition, NEW made, NEW failed,
         CreatesObject(definition, made, failed)
  PROVE  WorkerGuards
<1>1. rec.pc = "createObject" /\ ApiUnchanged /\ UNCHANGED cache
  BY DEF CreatesObject
<1>2. GoesAhead
  BY <1>1, Ahead DEF CreatesObject, Working
<1> QED
  BY <1>1, <1>2, QuietGuards

LEMMA UpdateGuards ==
  ASSUME IInv, GuardInv, UpdateService
  PROVE  WorkerGuards
<1>1. rec.pc = "updateObject" /\ ApiUnchanged /\ UNCHANGED cache
  BY DEF UpdateService
<1>2. GoesAhead
  BY <1>1, Ahead DEF UpdateService, UpdateFailed, Working
<1> QED
  BY <1>1, <1>2, QuietGuards

LEMMA DeletesGuards ==
  ASSUME IInv, GuardInv, DeletesObject
  PROVE  WorkerGuards
<1>1. rec.pc = "deleteObject" /\ ApiUnchanged /\ UNCHANGED cache
  BY DEF DeletesObject
<1>2. Finish(TRUE) \/ Finish(FALSE)
  BY DEF DeletesObject
<1>3. rec'.pc = "finish"
  BY <1>1, <1>2, Busy DEF Finish, ObjectWorker
<1>4. GoesAhead
  BY <1>1, <1>2, <1>3, Ahead DEF Working
<1> QED
  BY <1>1, <1>4, QuietGuards

LEMMA WritesStatusGuards ==
  ASSUME IInv, GuardInv, NEW pc \in {"writeSynced", "writeStatus"}, NEW failed, NEW written,
         WritesStatus(pc, failed, written)
  PROVE  WorkerGuards
<1>1. rec.pc = pc /\ UNCHANGED cache /\ rec.pc \in Working
  BY DEF WritesStatus, Working
<1>2. GoesAhead
  BY <1>1, Ahead DEF WritesStatus, Working
<1>3. CASE ApiUnchanged
  BY <1>1, <1>2, <1>3, QuietGuards
<1>4. CASE /\ StatusReply(rec.key, "reconciler") = "ok"
           /\ Put(rec.key, WithStatus(rec.key, rec.d.status), "reconciler")
  <2>1. rec.key \in KubeNames /\ rec.d.status \in ObjectStatus
    BY <1>1, Busy
  <2>2. Exists(rec.key) /\ (kube[rec.key].status.synced => rec.d.status.synced)
    BY <1>4, <2>1 DEF StatusReply, IInv, CurrentWorker
  <2>3. rec.key \in Steady => kube[rec.key].finalizer
    BY <1>1 DEF GuardInv, WorkerKnows
  <2>4. OneMoves
    BY <1>1, <1>4, <2>1, <2>2, <2>3, WorkerOurs, StatusMoves
  <2>5. Outdated("syncer")
    BY <1>4, <2>1, WriterOutdated
  <2>6. WorkerKnows'
    BY <1>1, <1>2, <2>4, WorkerGoesAhead
  <2> QED
    BY <1>1, <2>4, <2>5, <2>6 DEF WorkerGuards
<1> QED
  BY <1>3, <1>4 DEF WritesStatus

LEMMA PutStores ==
  ASSUME IInv, NEW n \in KubeNames, NEW cr, NEW g, Put(n, cr, g)
  PROVE  kube'[n] = cr
  BY Types DEF Put, Store, ApiTypeOK

LEMMA GivesUpGuards ==
  ASSUME IInv, GuardInv, rec.pc \in {"addFinalizer", "removeFinalizer"},
         Finish(TRUE) \/ Finish(FALSE), ApiUnchanged, UNCHANGED cache
  PROVE  WorkerGuards
<1>1. rec'.pc = "finish"
  BY Busy DEF Finish, ObjectWorker
<1>2. GoesAhead
  BY <1>1, Ahead DEF Working
<1> QED
  BY <1>2, QuietGuards

LEMMA AddsGuards ==
  ASSUME IInv, GuardInv, NEW next \in Working \cup {"finish"}, AddsFinalizer(next)
  PROVE  WorkerGuards
<1> DEFINE n == rec.key
           cr == WithFinalizer(TRUE)
           d == Answered(TRUE)
<1>1. rec.pc = "addFinalizer" /\ UNCHANGED cache
  BY DEF AddsFinalizer
<1>2. \/ (Finish(TRUE) \/ Finish(FALSE)) /\ ApiUnchanged
      \/ /\ Exists(n) /\ Put(n, cr, "reconciler")
         /\ rec' = [rec EXCEPT !.d = d, !.pc = IF d.deleting THEN "finish" ELSE next]
  BY DEF AddsFinalizer
<1>3. CASE /\ Exists(n) /\ Put(n, cr, "reconciler")
           /\ rec' = [rec EXCEPT !.d = d, !.pc = IF d.deleting THEN "finish" ELSE next]
  <2>1. n \in KubeNames /\ kube[n] \in Object /\ kube[n] # NoCR
    BY <1>1, <1>3, Busy, Types DEF Exists
  <2>2. cr \in Object /\ cr # NoCR /\ d \in Object
    BY <1>1, <1>3, AnsweredHonest
  <2>3. /\ cr.spec = kube[n].spec /\ cr.status = kube[n].status
        /\ cr.finalizer = TRUE /\ cr.deleting = kube[n].deleting
        /\ kube[n].finalizer \in BOOLEAN
    BY <2>1, CRFields DEF WithFinalizer
  <2>9. d.spec.edgeName \in {cr.spec.edgeName, rec.d.spec.edgeName}
        /\ d.spec.nodePool = cr.spec.nodePool
    BY AnsweredFields
  <2> HIDE DEF cr, d
  <2>4. Moves(n, cr)
    <3>1. SameCR(cr, n)
      BY <2>3 DEF SameCR
    <3>2. Same(n, cr) \/ Guards(n, cr)
      BY <2>3 DEF Same, Guards
    <3> QED
      BY <1>3, <2>2, <3>1, <3>2 DEF Moves, Lives
  <2>5. OneMoves /\ Outdated("syncer") /\ kube'[n] = cr
    BY <1>1, <1>3, <2>1, <2>4, PutMoves, PutStores, WorkerOurs, WriterOutdated
  <2>6. /\ rec'.pc \in Working \cup {"finish"} /\ rec'.key = n /\ rec'.edgeName = rec.edgeName
        /\ rec'.d = d
    BY <1>1, <1>3, Busy DEF ObjectWorker
  <2>7. n \in Steady => /\ d.spec.nodePool = NodePool /\ d.spec.edgeName = rec.edgeName
                        /\ d.spec.edgeName = cr.spec.edgeName
    BY <1>1, <1>3, <2>3, <2>9 DEF GuardInv, WorkerKnows, SameCR
  <2>8. WorkerKnows'
    <3>1. /\ kube'[rec'.key] # NoCR /\ kube'[rec'.key].finalizer
          /\ rec'.key \in Steady =>
               /\ rec'.d.spec.edgeName = kube'[rec'.key].spec.edgeName
               /\ rec'.d.spec.nodePool = kube'[rec'.key].spec.nodePool
      BY <2>2, <2>3, <2>5, <2>6, <2>7, <2>9
    <3>2. rec'.pc \notin {"addFinalizer", "removeFinalizer", "deleteObject"}
      BY <2>6 DEF Working
    <3>3. rec'.key \in Steady =>
            rec'.d.spec.nodePool = NodePool /\ rec'.d.spec.edgeName = rec'.edgeName
      BY <2>6, <2>7
    <3> QED
      BY <3>1, <3>2, <3>3 DEF WorkerKnows, SameCR, Exists, Steady
  <2> QED
    BY <1>1, <2>5, <2>8 DEF WorkerGuards
<1> QED
  BY <1>1, <1>2, <1>3, GivesUpGuards

LEMMA RemovesGuards ==
  ASSUME IInv, GuardInv, RemovesFinalizer
  PROVE  WorkerGuards
<1> DEFINE n == rec.key
           cr == WithFinalizer(FALSE)
           d == Answered(FALSE)
<1>1. rec.pc = "removeFinalizer" /\ UNCHANGED cache
  BY DEF RemovesFinalizer
<1>2. \/ (Finish(TRUE) \/ Finish(FALSE)) /\ ApiUnchanged
      \/ /\ Exists(n) /\ rec' = [rec EXCEPT !.pc = "deleteObject", !.d = d]
         /\ IF kube[n].deleting THEN Store(n, NoCR, {}) ELSE Put(n, cr, "reconciler")
  BY DEF RemovesFinalizer
<1>3. CASE /\ Exists(n) /\ rec' = [rec EXCEPT !.pc = "deleteObject", !.d = d]
           /\ IF kube[n].deleting THEN Store(n, NoCR, {}) ELSE Put(n, cr, "reconciler")
  <2>1. n \in KubeNames /\ kube[n] \in Object /\ kube[n] # NoCR
    BY <1>1, <1>3, Busy, Types DEF Exists
  <2>2. cr \in Object /\ cr # NoCR
    BY <1>1, <1>3, AnsweredHonest
  <2>3. /\ cr.spec = kube[n].spec /\ cr.status = kube[n].status
        /\ cr.finalizer = FALSE /\ cr.deleting = kube[n].deleting
        /\ kube[n].finalizer \in BOOLEAN
    BY <2>1, CRFields DEF WithFinalizer
  <2>8. /\ d.spec.edgeName \in {cr.spec.edgeName, rec.d.spec.edgeName}
        /\ d.spec.nodePool = cr.spec.nodePool
        /\ cr.deleting = TRUE => d.deleting = TRUE
        /\ cr.deleting \in BOOLEAN
    BY <2>1, <2>3, AnsweredFields, ObjectType
  <2>4. /\ rec'.pc = "deleteObject" /\ rec'.key = n /\ rec'.edgeName = rec.edgeName
        /\ rec'.d = d
    BY <1>1, <1>3, Busy DEF ObjectWorker
  <2> HIDE DEF cr, d
  <2>5. n \in Steady =>
          /\ kube[n].deleting
          /\ d.spec.nodePool = NodePool /\ d.spec.edgeName = rec.edgeName
    BY <1>1, <1>3, <2>3, <2>8 DEF GuardInv, WorkerKnows, SameCR
  <2>6. CASE cr.deleting
    <3>1. Store(n, NoCR, {})
      BY <1>3, <2>3, <2>6
    <3>2. Moves(n, NoCR)
      BY <1>1, <1>3, <2>3, <2>4, <2>6 DEF Moves, Dies
    <3>3. OneMoves /\ Outdated("syncer")
      BY <1>1, <2>1, <3>1, <3>2, StoreMoves, WorkerOurs, WriterOutdated
    <3>4. kube'[n] = NoCR
      BY <2>1, <3>1, Types DEF Store, ApiTypeOK
    <3>5. WorkerKnows'
      <4>1. kube'[rec'.key] = NoCR /\ rec'.d.deleting
        BY <2>4, <2>6, <2>8, <3>4
      <4>2. rec'.key \in Steady =>
              rec'.d.spec.nodePool = NodePool /\ rec'.d.spec.edgeName = rec'.edgeName
        BY <2>4, <2>5
      <4> QED
        BY <2>4, <4>1, <4>2 DEF WorkerKnows, Working, Exists, Steady
    <3> QED
      BY <1>1, <3>3, <3>5 DEF WorkerGuards
  <2>7. CASE ~cr.deleting
    <3>1. n \notin Steady
      BY <2>3, <2>5, <2>7
    <3>2. Moves(n, cr)
      <4>1. SameCR(cr, n)
        BY <2>3 DEF SameCR
      <4>2. Same(n, cr) \/ Strips(n, cr)
        BY <2>3, <2>7, <3>1 DEF Same, Strips
      <4> QED
        BY <1>3, <2>2, <4>1, <4>2 DEF Moves, Lives
    <3>3. OneMoves /\ Outdated("syncer")
      BY <1>1, <1>3, <2>1, <2>3, <2>7, <3>2, PutMoves, WorkerOurs, WriterOutdated
    <3>4. WorkerKnows'
      BY <2>4, <3>1 DEF WorkerKnows, Steady
    <3> QED
      BY <1>1, <3>3, <3>4 DEF WorkerGuards
  <2> QED
    BY <2>6, <2>7
<1> QED
  BY <1>1, <1>2, <1>3, GivesUpGuards

LEMMA DeferredType ==
  ASSUME IInv, rec.pc # "idle"
  PROVE  /\ DeferredServiceStatus \in ObjectStatus
         /\ DeferredServiceStatus.synced = rec.d.status.synced
<1> DEFINE s == IF rec.d.spec.managed THEN rec.d.status ELSE Managing("notManaged")
<1>1. s \in ObjectStatus /\ Credible(s) /\ s.synced = rec.d.status.synced
  BY Busy, ManagingTrusted DEF Trusted
<1>2. DeferredServiceStatus = [s EXCEPT !.ready = ServiceSummary(s)]
  BY DEF DeferredServiceStatus
<1> HIDE DEF s
<1> QED
  BY <1>1, <1>2, SummaryHonest

LEMMA EndGuards ==
  ASSUME IInv, GuardInv, EndServiceReconcile \/ EndProfileReconcile
  PROVE  WorkerGuards
<1>1. rec.pc = "finish" /\ rec'.pc = "idle" /\ UNCHANGED cache
  BY IdleOK DEF EndServiceReconcile, EndProfileReconcile, Ends
<1>2. rec.key \in KubeNames
  BY <1>1, Busy
<1>3. WorkerKnows'
  BY <1>1 DEF WorkerKnows
<1>4. \/ Forget(rec.key, "reconciler")
      \/ /\ StatusReply(rec.key, "reconciler") = "ok"
         /\ PutLast(rec.key, WithStatus(rec.key, DeferredServiceStatus), "reconciler")
  BY DEF EndServiceReconcile, EndProfileReconcile
<1>5. OneMoves
  <2>1. CASE Forget(rec.key, "reconciler")
    BY <2>1 DEF Forget, OneMoves
  <2>2. CASE /\ StatusReply(rec.key, "reconciler") = "ok"
             /\ PutLast(rec.key, WithStatus(rec.key, DeferredServiceStatus), "reconciler")
    <3>1. Exists(rec.key) /\ (kube[rec.key].status.synced => rec.d.status.synced)
      BY <1>2, <2>2 DEF StatusReply, IInv, CurrentWorker
    <3>2. rec.key \in Steady /\ rec.d.status.synced => kube[rec.key].finalizer
      BY <1>1, <3>1 DEF GuardInv, WorkerKnows
    <3> QED
      BY <1>1, <1>2, <2>2, <3>1, <3>2, DeferredType, WorkerOurs, StatusMoves
  <2> QED
    BY <1>4, <2>1, <2>2
<1>6. Outdated("syncer")
  BY <1>2, <1>4, WriterOutdated
<1> QED
  BY <1>1, <1>3, <1>5, <1>6 DEF WorkerGuards

LEMMA ReconcilerGuards ==
  ASSUME IInv, GuardInv, ServiceReconcilerStep \/ ProfileReconcilerStep
  PROVE  WorkerGuards
<1>1. \A d : /\ ServiceAfterDelete(d) \in Working \cup {"finish"}
             /\ ProfileAfterDelete(d) \in Working \cup {"finish"}
  BY DEF ServiceAfterDelete, ProfileAfterDelete, Working
<1>2. CASE AddServiceFinalizer \/ AddProfileFinalizer
  BY <1>1, <1>2, AddsGuards DEF AddServiceFinalizer, AddProfileFinalizer
<1>3. CASE DeleteService \/ DeleteProfile
  BY <1>1, <1>3, DeletesGuards DEF DeleteService, DeleteProfile
<1>4. CASE RemoveServiceFinalizer \/ RemoveProfileFinalizer \/ GetService \/ GetProfile
  BY <1>4, RemovesGuards, GetGuards
     DEF RemoveServiceFinalizer, RemoveProfileFinalizer, GetService, GetProfile
<1>5. CASE CreateService \/ CreateProfile
  BY <1>5, CreatesGuards DEF CreateService, CreateProfile
<1>6. CASE WriteServiceSynced \/ WriteServiceStatus \/ WriteProfileSynced
  BY <1>6, WritesStatusGuards DEF WriteServiceSynced, WriteServiceStatus, WriteProfileSynced
<1> QED
  BY <1>2, <1>3, <1>4, <1>5, <1>6, UpdateGuards, EndGuards
     DEF ServiceReconcilerStep, ProfileReconcilerStep

LEMMA ReconcilerGuarded ==
  ASSUME IInv, GuardInv, ObjectReconcilerRuns
  PROVE  GuardInv' /\ OneMoves
<1>1. WorkerGuards /\ UNCHANGED syn
  BY ReconcilerGuards DEF ObjectReconcilerRuns
<1> QED
  BY <1>1, KubeGuarded, CacheGuarded, RoundGuarded DEF WorkerGuards, GuardInv

LEMMA TakeKeyGuarded ==
  ASSUME IInv, GuardInv, NEW n \in KubeNames, TakeObjectKey(n)
  PROVE  GuardInv' /\ OneMoves
<1>1. PICK next \in Working \cup {"finish"} : TakesKey(n, next)
  BY DEF TakeObjectKey, ServiceReconcile, ProfileReconcile, ServiceAfterDelete,
         ProfileAfterDelete, Working
<1>2. rec.pc = "idle" /\ UNCHANGED <<kube, cache, syn>>
  BY <1>1 DEF TakesKey, TakeObjectKey
<1>3. OneMoves
  BY <1>2 DEF OneMoves
<1>4. Outdated("syncer")
  BY <1>1, Types DEF TakesKey, Outdated, ReadFromCache, ApiTypeOK
<1>5. WorkerKnows'
  <2>1. CASE UNCHANGED rec
    BY <1>2, <2>1 DEF WorkerKnows
  <2>2. CASE ~UNCHANGED rec
    <3>1. Handles(n) /\ rec' = [IdleObjectWorker EXCEPT
                       !.pc = FirstRequest(cache[n], next), !.key = n,
                       !.edgeName = GetEdgeName(cache[n]), !.d = cache[n]]
      BY <1>1, <2>2 DEF TakesKey
    <3>2. /\ rec'.pc = FirstRequest(cache[n], next) /\ rec'.key = n
          /\ rec'.edgeName = cache[n].spec.edgeName /\ rec'.d = cache[n]
      BY <3>1 DEF IdleObjectWorker, GetEdgeName
    <3>3. cache[n] # NoCR /\ cache[n].spec.nodePool = NodePool
      BY <3>1 DEF Handles
    <3>4. ASSUME n \in Steady
          PROVE  /\ cache[n].status.synced => cache[n].finalizer
                 /\ cache[n].finalizer /\ ~cache[n].deleting => Exists(n)
                 /\ Exists(n) =>
                      /\ SameCR(cache[n], n)
                      /\ cache[n].finalizer => kube[n].finalizer
                      /\ cache[n].deleting => kube[n].deleting
      BY <3>3, <3>4 DEF GuardInv, CacheKnows
    <3>5. CASE cache[n].deleting
      <4>1. rec'.pc = "removeFinalizer"
        BY <3>2, <3>5 DEF FirstRequest
      <4> QED
        BY <1>2, <3>2, <3>3, <3>4, <3>5, <4>1 DEF WorkerKnows, Working, Steady, Exists, SameCR
    <3>6. CASE ~cache[n].deleting /\ ~cache[n].finalizer
      <4>1. rec'.pc = "addFinalizer"
        BY <3>2, <3>6 DEF FirstRequest
      <4> QED
        BY <1>2, <3>2, <3>3, <3>4, <3>6, <4>1 DEF WorkerKnows, Working, Steady, Exists, SameCR
    <3>7. CASE ~cache[n].deleting /\ cache[n].finalizer
      <4>1. rec'.pc \in Working \cup {"finish"}
        BY <3>2, <3>7 DEF FirstRequest
      <4> QED
        BY <1>2, <3>2, <3>3, <3>4, <3>7, <4>1 DEF WorkerKnows, Working, Steady, Exists, SameCR
    <3> QED
      BY <3>5, <3>6, <3>7
  <2> QED
    BY <2>1, <2>2
<1> QED
  BY <1>2, <1>3, <1>4, <1>5, KubeGuarded, CacheGuarded, RoundGuarded DEF GuardInv

(***************************************************************************)
(* The round.                                                              *)
(***************************************************************************)
LEMMA ListsEdgeGuarded ==
  ASSUME IInv, GuardInv, NEW definition, ListsEdge(definition), UNCHANGED rec
  PROVE  GuardInv' /\ OneMoves
<1>1. ApiUnchanged /\ UNCHANGED cache
  BY DEF ListsEdge
<1>2. OneMoves /\ Outdated("syncer")
  BY <1>1 DEF ApiUnchanged, OneMoves, Outdated
<1>3. syn'.redundantKube = syn.redundantKube /\ syn'.synced = syn.synced
  BY Round DEF ListsEdge, ObjectRound
<1> QED
  BY <1>1, <1>2, <1>3, OthersGuarded

LEMMA ListsKubeGuarded ==
  ASSUME IInv, GuardInv, NEW refreshed, ListsKube(refreshed), UNCHANGED rec,
         \A n \in OwnCRs : OnEdge(n) /\ refreshed[n] # NoCR =>
           (refreshed[n].synced => cache[n].status.synced)
  PROVE  GuardInv' /\ OneMoves
<1>1. UNCHANGED <<kube, cache>>
  BY DEF ListsKube
<1>2. OneMoves
  BY <1>1 DEF OneMoves
<1>3. PICK S \in Representatives :
        LET missing == {e \in EdgeNames : /\ syn.listed[e] # NoObject
                                          /\ \A n \in S : GetEdgeName(cache[n]) # e}
            updates == [n \in KubeNames |->
                          IF n \in S /\ OnEdge(n) THEN refreshed[n] ELSE NoCR]
        IN  /\ Continue([pc |-> "apply", redundantEdge |-> missing,
                         listed |-> [e \in EdgeNames |->
                                       IF e \in missing THEN syn.listed[e] ELSE NoObject],
                         redundantKube |-> {n \in S : cache[n].status.synced /\ ~OnEdge(n)},
                         synced |-> updates])
            /\ current' = [n \in KubeNames |->
                  IF updates[n] # NoCR THEN ReadFromCache(n, "syncer")
                                       ELSE current[n] \ {"syncer"}]
  BY DEF ListsKube
<1> DEFINE missing == {e \in EdgeNames : /\ syn.listed[e] # NoObject
                                         /\ \A n \in S : GetEdgeName(cache[n]) # e}
           listed == [e \in EdgeNames |-> IF e \in missing THEN syn.listed[e] ELSE NoObject]
           updates == [n \in KubeNames |->
                         IF n \in S /\ OnEdge(n) THEN refreshed[n] ELSE NoCR]
           gone == {n \in S : cache[n].status.synced /\ ~OnEdge(n)}
<1>4. /\ Continue([pc |-> "apply", redundantEdge |-> missing, listed |-> listed,
                   redundantKube |-> gone, synced |-> updates])
      /\ current' = [n \in KubeNames |->
            IF updates[n] # NoCR THEN ReadFromCache(n, "syncer") ELSE current[n] \ {"syncer"}]
  BY <1>3
<1>5. S \subseteq OwnCRs
  BY DEF Representatives
<1>6. /\ gone \subseteq OwnCRs
      /\ \A n \in KubeNames : updates[n] # NoCR =>
           n \in OwnCRs /\ OnEdge(n) /\ updates[n] = refreshed[n]
  BY <1>5
<1> HIDE DEF missing, listed, updates, gone
<1>7. /\ syn'.redundantKube \subseteq gone
      /\ \A n \in KubeNames : syn'.synced[n] # NoCR => syn'.synced[n] = updates[n]
  BY <1>4, IdleOK DEF Continue
<1>8. ASSUME NEW n \in Steady, n \in OwnCRs
      PROVE  /\ cache[n] # NoCR /\ cache[n].spec.nodePool = NodePool
             /\ Exists(n) => kube[n].spec.nodePool = NodePool
             /\ cache[n].status.synced /\ Exists(n) => kube[n].finalizer
  BY <1>8 DEF OwnCRs, GuardInv, CacheKnows, SameCR
<1>9. ASSUME NEW n \in Steady, n \in syn'.redundantKube, kube'[n] # NoCR
      PROVE  kube'[n].spec.nodePool = NodePool
  BY <1>1, <1>6, <1>7, <1>8, <1>9 DEF Exists
<1>10. ASSUME NEW n \in Steady, syn'.synced[n] # NoCR, "syncer" \in current'[n]
      PROVE  /\ kube'[n].spec.nodePool = NodePool
             /\ syn'.synced[n].synced => kube'[n].finalizer
  <2>1. n \in KubeNames
    BY DEF Steady
  <2>2. /\ syn'.synced[n] = refreshed[n] /\ n \in OwnCRs /\ OnEdge(n) /\ refreshed[n] # NoCR
        /\ updates[n] # NoCR
    BY <1>6, <1>7, <1>10, <2>1
  <2>3. "cache" \in current[n]
    BY <1>4, <1>10, <2>1, <2>2 DEF ReadFromCache
  <2>4. cache[n] = kube[n]
    BY <2>1, <2>3 DEF IInv, CurrentCache
  <2>5. kube[n] # NoCR /\ kube[n].spec.nodePool = NodePool
        /\ (cache[n].status.synced => kube[n].finalizer)
    BY <1>8, <2>2, <2>4 DEF Exists
  <2>6. syn'.synced[n].synced => cache[n].status.synced
    BY <2>2
  <2> QED
    BY <1>1, <2>5, <2>6
<1>11. RoundKnows'
  BY <1>9, <1>10 DEF RoundKnows, Steady, Exists
<1> QED
  BY <1>1, <1>2, <1>11, KubeGuarded, CacheGuarded, OtherWorkerGuarded DEF GuardInv

LEMMA ListKubeGuarded ==
  ASSUME IInv, GuardInv, ListKubeServices \/ ListKubeProfiles, UNCHANGED rec
  PROVE  GuardInv' /\ OneMoves
<1>1. CASE ListKubeServices
  <2> DEFINE refreshed ==
               [n \in {m \in OwnCRs : OnEdge(m)} |->
                  completeUpdateService(n, syn.listed[GetEdgeName(cache[n])].adminState)]
  <2>1. ListsKube(refreshed)
    BY <1>1 DEF ListKubeServices
  <2>2. ASSUME NEW n \in OwnCRs, OnEdge(n)
        PROVE  refreshed[n].synced = cache[n].status.synced
    <3>1. cache[n].status \in ObjectStatus
      BY Types, ObjectType DEF OwnCRs
    <3> DEFINE old == cache[n].status
               new == refreshed[n]
    <3>2. PICK a : new = [old EXCEPT !.adminState = a]
      BY <2>2 DEF completeUpdateService
    <3>3. old \in ObjectStatus /\ new.synced = refreshed[n].synced
          /\ old.synced = cache[n].status.synced
      BY <3>1
    <3> HIDE DEF old, new, refreshed
    <3>4. new.synced = old.synced
      BY <3>2, <3>3 DEF ObjectStatus
    <3> QED
      BY <3>3, <3>4
  <2> HIDE DEF refreshed
  <2> QED
    BY <2>1, <2>2, ListsKubeGuarded
<1>2. CASE ListKubeProfiles
  <2> DEFINE refreshed == [n \in OwnCRs |-> completeUpdateProfile(n)]
  <2>1. \A n \in OwnCRs : refreshed[n] = NoCR
    BY DEF completeUpdateProfile
  <2>2. ListsKube(refreshed)
    BY <1>2 DEF ListKubeProfiles
  <2> HIDE DEF refreshed
  <2> QED
    BY <2>1, <2>2, ListsKubeGuarded
<1> QED
  BY <1>1, <1>2

LEMMA CreatesCRGuarded ==
  ASSUME IInv, GuardInv, NEW e \in EdgeNames, CreateServiceCR(e) \/ CreateProfileCR(e),
         UNCHANGED rec
  PROVE  GuardInv' /\ OneMoves
<1>1. PICK spec \in ObjectSpec : CreatesCR(e, spec)
  <2>1. syn.listed[e] \in ListedObject
    BY Round DEF CreateServiceCR, CreateProfileCR, CreatesCR
  <2>2. syn.listed[e].adminState \in States /\ syn.listed[e].definition \in Definition
    BY <2>1 DEF ListedObject, States
  <2>3. completeCreateService(e) \in ObjectSpec /\ completeCreateProfile(e) \in ObjectSpec
    BY <2>2 DEF completeCreateService, completeCreateProfile, ObjectSpec, States
  <2> QED
    BY <2>3 DEF CreateServiceCR, CreateProfileCR
<1>2. syn.pc = "apply" /\ UNCHANGED cache /\ SyncerName[e] \in KubeNames
  BY <1>1, ObjectNamesAssumption DEF CreatesCR
<1>3. \/ Continue([syn EXCEPT !.redundantEdge = @ \ {e}, !.listed[e] = NoObject])
      \/ Continue([syn EXCEPT !.redundantEdge = {}, !.listed = [f \in EdgeNames |-> NoObject]])
  BY <1>1 DEF CreatesCR
<1>4. \/ ApiUnchanged
      \/ /\ CanCreate(SyncerName[e], {rec.key} \cup syn.redundantKube)
         /\ Store(SyncerName[e], NewObject(spec), {})
  BY <1>1 DEF CreatesCR
<1>5. OneMoves
  <2>1. CASE ApiUnchanged
    BY <2>1 DEF ApiUnchanged, OneMoves
  <2> QED
    BY <1>2, <1>4, <2>1, CreateMoves
<1>6. Outdated("syncer")
  BY <1>2, <1>4, WriterOutdated
<1> QED
  BY <1>2, <1>3, <1>5, <1>6, LessToDo, OthersGuarded

LEMMA DeletesCRGuarded ==
  ASSUME IInv, GuardInv, NEW n \in KubeNames, DeletesCR(n), UNCHANGED rec
  PROVE  GuardInv' /\ OneMoves
<1>1. syn.pc = "apply" /\ UNCHANGED cache /\ n \in syn.redundantKube
  BY DEF DeletesCR
<1>2. \/ Continue([syn EXCEPT !.redundantKube = @ \ {n}])
      \/ Continue([syn EXCEPT !.redundantKube = {}])
  BY DEF DeletesCR
<1>3. ApiUnchanged \/ (Exists(n) /\ Delete(n))
  BY DEF DeletesCR
<1>4. Ours(n)
  BY <1>1 DEF GuardInv, RoundKnows, Ours
<1>5. OneMoves
  <2>1. CASE ApiUnchanged
    BY <2>1 DEF ApiUnchanged, OneMoves
  <2> QED
    BY <1>3, <1>4, <2>1, DeleteMoves
<1>6. Outdated("syncer")
  BY <1>3, WriterOutdated DEF Delete
<1> QED
  BY <1>1, <1>2, <1>5, <1>6, LessToDo, OthersGuarded

LEMMA UpdateCRGuarded ==
  ASSUME IInv, GuardInv, NEW n \in KubeNames, UpdateServiceCR(n), UNCHANGED rec
  PROVE  GuardInv' /\ OneMoves
<1>1. syn.pc = "apply" /\ UNCHANGED cache /\ n \in ToUpdate(syn)
  BY DEF UpdateServiceCR
<1>2. \E names \in SUBSET KubeNames : Updated(names)
  BY DEF UpdateServiceCR, ToUpdate
<1>3. \/ Forget(n, "syncer")
      \/ /\ StatusReply(n, "syncer") = "ok"
         /\ PutLast(n, WithStatus(n, syn.synced[n]), "syncer")
  BY DEF UpdateServiceCR, ServiceUpdateReply
<1>4. OneMoves
  <2>1. CASE Forget(n, "syncer")
    BY <2>1 DEF Forget, OneMoves
  <2>2. CASE /\ StatusReply(n, "syncer") = "ok"
             /\ PutLast(n, WithStatus(n, syn.synced[n]), "syncer")
    <3>1. Exists(n) /\ "syncer" \in current[n] /\ syn.synced[n] # NoCR
      BY <1>1, <2>2 DEF StatusReply, ToUpdate
    <3>2. syn.synced[n] \in ObjectStatus
      BY <3>1, Round
    <3>3. kube[n].status.synced => syn.synced[n].synced
      BY <3>1 DEF IInv, CurrentRound
    <3>4. n \in Steady /\ syn.synced[n].synced => kube[n].finalizer
      BY <3>1 DEF GuardInv, RoundKnows
    <3>5. Ours(n)
      BY <3>1 DEF GuardInv, RoundKnows, Ours
    <3> QED
      BY <2>2, <3>1, <3>2, <3>3, <3>4, <3>5, StatusMoves
  <2> QED
    BY <1>3, <2>1, <2>2
<1>5. Outdated("syncer")
  BY <1>3, WriterOutdated
<1> QED
  BY <1>1, <1>2, <1>4, <1>5, LessToDo, OthersGuarded

LEMMA SyncerGuarded ==
  ASSUME IInv, GuardInv, ObjectSyncerRuns
  PROVE  GuardInv' /\ OneMoves
<1>1. UNCHANGED rec
  BY DEF ObjectSyncerRuns
<1>2. CASE ListEdgeServices \/ ListEdgeProfiles
  BY <1>1, <1>2, ListsEdgeGuarded DEF ListEdgeServices, ListEdgeProfiles
<1> QED
  BY <1>1, <1>2, ListKubeGuarded, CreatesCRGuarded, DeletesCRGuarded, UpdateCRGuarded
     DEF ObjectSyncerRuns, ServiceSyncerStep, ProfileSyncerStep, DeleteServiceCR, DeleteProfileCR

(***************************************************************************)
(* Users, operators, the informer, and the system.                         *)
(***************************************************************************)
LEMMA UserGuarded ==
  ASSUME IInv, GuardInv, NEW n \in KubeNames, UserCreates(n) \/ UserUpdates(n) \/ UserDeletes(n)
  PROVE  GuardInv' /\ OneMoves
<1>1. UNCHANGED <<cache, rec, syn>> /\ userOps' = userOps + 1 /\ Ours(n)
  <2>1. UNCHANGED <<cache, rec, syn>> /\ userOps' = userOps + 1
    BY DEF UserCreates, UserUpdates, UserDeletes, UserStep
  <2>2. userOps' # userOps
    <3>1. userOps \in 0..MaxUserOps /\ MaxUserOps \in Nat
      BY Types, ObjectEnvironmentAssumption
    <3> QED
      BY <2>1, <3>1
  <2> QED
    BY <2>1, <2>2 DEF Ours
<1>2. OneMoves /\ Outdated("syncer")
  <2>1. CASE UserCreates(n)
    <3>1. PICK s \in UserSpecs[n] : Store(n, NewObject(s), {})
      BY <2>1 DEF UserCreates
    <3>2. s \in ObjectSpec /\ CanCreate(n, {rec.key} \cup syn.redundantKube)
      BY <2>1, ObjectEnvironmentAssumption DEF UserCreates
    <3> QED
      BY <3>1, <3>2, CreateMoves, WriterOutdated
  <2>2. CASE UserUpdates(n)
    <3>1. PICK s \in UserSpecs[n] :
            /\ s.edgeName = kube[n].spec.edgeName /\ s.nodePool = kube[n].spec.nodePool
            /\ Store(n, [kube[n] EXCEPT !.spec = s], {})
      BY <2>2 DEF UserUpdates
    <3> DEFINE edited == [kube[n] EXCEPT !.spec = s]
    <3>2. s \in ObjectSpec /\ Exists(n) /\ kube[n] \in Object
      BY <2>2, ObjectEnvironmentAssumption, Types DEF UserUpdates
    <3>3. edited \in Object /\ edited # NoCR
      BY <3>2, ObjectType, ObjectAbsenceAssumption
    <3>4. /\ edited.spec = s /\ edited.status = kube[n].status
          /\ edited.finalizer = kube[n].finalizer /\ edited.deleting = kube[n].deleting
      BY <3>2, CRFields
    <3>5. Store(n, edited, {})
      BY <3>1
    <3> HIDE DEF edited
    <3>6. Moves(n, edited)
      BY <3>1, <3>2, <3>3, <3>4 DEF Moves, Lives, SameCR, Same
    <3> QED
      BY <1>1, <3>5, <3>6, StoreMoves, WriterOutdated
  <2>3. CASE UserDeletes(n)
    <3>1. Exists(n) /\ Delete(n)
      BY <2>3 DEF UserDeletes
    <3>2. Outdated("syncer")
      BY <3>1, WriterOutdated DEF Delete
    <3> QED
      BY <1>1, <3>1, <3>2, DeleteMoves
  <2> QED
    BY <2>1, <2>2, <2>3
<1> QED
  BY <1>1, <1>2, OthersGuarded

LEMMA QuietGuarded ==
  ASSUME IInv, GuardInv, UNCHANGED <<kube, cache, current, rec, syn>>
  PROVE  GuardInv' /\ OneMoves
<1>1. OneMoves /\ Outdated("syncer")
  BY DEF OneMoves, Outdated
<1> QED
  BY <1>1, OthersGuarded

LEMMA WatchGuarded ==
  ASSUME IInv, GuardInv, NEW n \in KubeNames, ObjectWatchDelivers(n) \/ ObjectWatchBreaks(n)
  PROVE  GuardInv' /\ OneMoves
<1>1. /\ UNCHANGED <<kube, rec, syn>> /\ cache' = [cache EXCEPT ![n] = kube[n]]
      /\ current' = [current EXCEPT ![n] = @ \cup {"cache"}]
  BY DEF ObjectWatchDelivers, ObjectWatchBreaks, Deliver, Relist
<1>2. OneMoves
  BY <1>1 DEF OneMoves
<1>3. Outdated("syncer")
  BY <1>1, Types DEF Outdated, ApiTypeOK
<1>4. \A m \in KubeNames : cache'[m] = IF m = n THEN kube[m] ELSE cache[m]
  BY <1>1, Types
<1>5. CacheKnows'
  BY <1>1, <1>4 DEF GuardInv, CacheKnows, SyncedIsGuarded, SameCR, Exists, Steady
<1>6. WorkerKnows'
  BY <1>1, <1>4 DEF GuardInv, WorkerKnows, SameCR, Exists, Steady
<1> QED
  BY <1>1, <1>2, <1>3, <1>5, <1>6, KubeGuarded, RoundGuarded DEF GuardInv

LEMMA RestartGuarded ==
  ASSUME IInv, GuardInv, Restarts
  PROVE  GuardInv' /\ OneMoves
<1>1. /\ rec'.pc = "idle" /\ syn' = IdleObjectRound /\ cache' = kube /\ UNCHANGED kube
  BY IdleOK DEF Restarts
<1>2. OneMoves
  BY <1>1 DEF OneMoves
<1>3. CacheKnows'
  BY <1>1 DEF GuardInv, CacheKnows, SyncedIsGuarded, SameCR, Exists, Steady
<1>4. WorkerKnows' /\ RoundKnows'
  BY <1>1, IdleOK DEF WorkerKnows, RoundKnows, Steady
<1> QED
  BY <1>2, <1>3, <1>4, KubeGuarded DEF GuardInv

LEMMA StepGuarded ==
  ASSUME IInv, GuardInv, [ObjectNext]_objectVars
  PROVE  GuardInv' /\ OneMoves
<1>1. ASSUME NEW n \in Names, UserCreates(n) \/ UserUpdates(n) \/ UserDeletes(n) \/ TakeObjectKey(n)
                              \/ ObjectWatchDelivers(n) \/ ObjectWatchBreaks(n)
      PROVE  GuardInv' /\ OneMoves
  <2>1. n \in KubeNames
    BY ObjectEnvironmentAssumption DEF Names
  <2> QED
    BY <1>1, <2>1, UserGuarded, TakeKeyGuarded, WatchGuarded
<1>2. ASSUME NEW e \in Objects, OperatorAdds(e) \/ OperatorRemoves(e) \/ OperatorChanges(e)
      PROVE  GuardInv' /\ OneMoves
  BY <1>2, QuietGuarded
     DEF OperatorAdds, OperatorRemoves, OperatorChanges, EdgeStep, ApiUnchanged
<1>3. CASE ObjectsResync \/ UNCHANGED objectVars
  BY <1>3, QuietGuarded DEF ObjectsResync, Resync, objectVars, clusterVars
<1> QED
  BY <1>1, <1>2, <1>3, ReconcilerGuarded, SyncerGuarded, RestartGuarded DEF ObjectNext

LEMMA InitGuarded ==
  ASSUME ObjectInit
  PROVE  GuardInv
<1>1. \A n \in KubeNames : kube[n] = NoCR /\ cache[n] = NoCR
  BY DEF ObjectInit
<1>2. rec.pc = "idle" /\ syn = IdleObjectRound
  BY IdleOK DEF ObjectInit
<1> QED
  BY <1>1, <1>2, IdleOK
     DEF GuardInv, DeletingIsGuarded, SyncedIsGuarded, CacheKnows, WorkerKnows, RoundKnows,
         Exists, Steady

(* What the cache, the worker and the round say of a CR holds of the CR    *)
(* that is stored, for every name that is not reused at once.              *)
THEOREM GuardInvariance == ObjectSpecification => [](IInv /\ GuardInv)
<1>1. ObjectInit => GuardInv
  BY InitGuarded
<1>2. IInv /\ GuardInv /\ [ObjectNext]_objectVars => GuardInv'
  BY StepGuarded
<1> QED
  BY <1>1, <1>2, Invariance, PTL DEF ObjectSpecification

(***************************************************************************)
(* The life of a CR.                                                       *)
(***************************************************************************)
StoredCRs == {n \in KubeNames : Exists(n)}
GuardedCRs == {n \in KubeNames : Exists(n) /\ kube[n].finalizer}
SyncedCRs == {n \in KubeNames : Exists(n) /\ kube[n].status.synced}
DeletingCRs == {n \in KubeNames : Exists(n) /\ kube[n].deleting}

LEMMA SetsMove ==
  ASSUME NEW n \in KubeNames, \A m \in KubeNames \ {n} : kube'[m] = kube[m]
  PROVE  /\ StoredCRs' = IF kube'[n] # NoCR THEN StoredCRs \cup {n} ELSE StoredCRs \ {n}
         /\ GuardedCRs' = IF kube'[n] # NoCR /\ kube'[n].finalizer
                          THEN GuardedCRs \cup {n} ELSE GuardedCRs \ {n}
         /\ SyncedCRs' = IF kube'[n] # NoCR /\ kube'[n].status.synced
                         THEN SyncedCRs \cup {n} ELSE SyncedCRs \ {n}
         /\ DeletingCRs' = IF kube'[n] # NoCR /\ kube'[n].deleting
                           THEN DeletingCRs \cup {n} ELSE DeletingCRs \ {n}
<1>1. StoredCRs' = IF kube'[n] # NoCR THEN StoredCRs \cup {n} ELSE StoredCRs \ {n}
  BY DEF StoredCRs, Exists
<1>2. GuardedCRs' = IF kube'[n] # NoCR /\ kube'[n].finalizer
                    THEN GuardedCRs \cup {n} ELSE GuardedCRs \ {n}
  BY DEF GuardedCRs, Exists
<1>3. SyncedCRs' = IF kube'[n] # NoCR /\ kube'[n].status.synced
                   THEN SyncedCRs \cup {n} ELSE SyncedCRs \ {n}
  BY DEF SyncedCRs, Exists
<1>4. DeletingCRs' = IF kube'[n] # NoCR /\ kube'[n].deleting
                     THEN DeletingCRs \cup {n} ELSE DeletingCRs \ {n}
  BY DEF DeletingCRs, Exists
<1> QED
  BY <1>1, <1>2, <1>3, <1>4

(* Every way a CR may move is one action of its life, or none.             *)
LEMMA LifeStep ==
  ASSUME OneMoves, kube \in [KubeNames -> Object \cup {NoCR}],
         kube' \in [KubeNames -> Object \cup {NoCR}]
  PROVE  [Life!Next]_(Life!lifeVars)
<1> USE DEF Life!lifeVars
<1>1. CASE UNCHANGED kube
  BY <1>1 DEF Exists
<1>2. ASSUME NEW n \in KubeNames, Moves(n, kube'[n]),
             \A m \in KubeNames \ {n} : kube'[m] = kube[m]
      PROVE  [Life!Next]_(Life!lifeVars)
  <2> DEFINE old == kube[n]
             new == kube'[n]
  <2>1. /\ old # NoCR => /\ old.finalizer \in BOOLEAN /\ old.deleting \in BOOLEAN
                         /\ old.status.synced \in BOOLEAN
        /\ new # NoCR => /\ new.finalizer \in BOOLEAN /\ new.deleting \in BOOLEAN
                         /\ new.status.synced \in BOOLEAN
    BY CRFields
  <2>2. /\ n \in StoredCRs <=> old # NoCR
        /\ n \in GuardedCRs <=> old # NoCR /\ old.finalizer
        /\ n \in SyncedCRs <=> old # NoCR /\ old.status.synced
        /\ n \in DeletingCRs <=> old # NoCR /\ old.deleting
    BY DEF StoredCRs, GuardedCRs, SyncedCRs, DeletingCRs, Exists
  <2>3. /\ StoredCRs' = IF new # NoCR THEN StoredCRs \cup {n} ELSE StoredCRs \ {n}
        /\ GuardedCRs' = IF new # NoCR /\ new.finalizer
                         THEN GuardedCRs \cup {n} ELSE GuardedCRs \ {n}
        /\ SyncedCRs' = IF new # NoCR /\ new.status.synced
                        THEN SyncedCRs \cup {n} ELSE SyncedCRs \ {n}
        /\ DeletingCRs' = IF new # NoCR /\ new.deleting
                          THEN DeletingCRs \cup {n} ELSE DeletingCRs \ {n}
    BY <1>2, SetsMove
  <2>4. /\ old = NoCR => /\ new # NoCR /\ ~new.finalizer /\ ~new.deleting
                         /\ ~new.status.synced
        /\ old # NoCR /\ new = NoCR => (old.finalizer => old.deleting)
    BY <1>2 DEF Moves, Born, Dies, Lives, Exists
  <2>5. ASSUME old # NoCR, new # NoCR
        PROVE  Same(n, new) \/ Guards(n, new) \/ Syncs(n, new) \/ Marks(n, new) \/ Strips(n, new)
    BY <1>2, <2>5 DEF Moves, Born, Dies, Lives, Exists
  <2>6. CASE old = NoCR
    <3>1. Life!Create(n)
      BY <2>1, <2>2, <2>3, <2>4, <2>6
      DEF Life!Create, StoredCRs, GuardedCRs, SyncedCRs, DeletingCRs
    <3> QED
      BY <3>1 DEF Life!Next
  <2>7. CASE old # NoCR /\ new = NoCR
    <3>1. Life!Vanish(n)
      BY <2>2, <2>3, <2>4, <2>7
      DEF Life!Vanish, StoredCRs, GuardedCRs, SyncedCRs, DeletingCRs
    <3> QED
      BY <3>1 DEF Life!Next
  <2>8. CASE old # NoCR /\ new # NoCR
    <3>1. \/ /\ StoredCRs' = StoredCRs /\ GuardedCRs' = GuardedCRs
             /\ SyncedCRs' = SyncedCRs /\ DeletingCRs' = DeletingCRs
          \/ /\ StoredCRs' = StoredCRs /\ GuardedCRs' = GuardedCRs /\ DeletingCRs' = DeletingCRs
             /\ n \in StoredCRs \ SyncedCRs /\ SyncedCRs' = SyncedCRs \cup {n}
             /\ n \in GuardedCRs \cup PromptReuse
          \/ /\ StoredCRs' = StoredCRs /\ SyncedCRs' = SyncedCRs /\ DeletingCRs' = DeletingCRs
             /\ n \in StoredCRs \ GuardedCRs /\ GuardedCRs' = GuardedCRs \cup {n}
          \/ /\ StoredCRs' = StoredCRs /\ GuardedCRs' = GuardedCRs /\ SyncedCRs' = SyncedCRs
             /\ n \in GuardedCRs \ DeletingCRs /\ DeletingCRs' = DeletingCRs \cup {n}
          \/ /\ StoredCRs' = StoredCRs /\ SyncedCRs' = SyncedCRs /\ DeletingCRs' = DeletingCRs
             /\ n \in (GuardedCRs \cap PromptReuse) \ DeletingCRs
             /\ GuardedCRs' = GuardedCRs \ {n}
      BY <2>1, <2>2, <2>3, <2>5, <2>8 DEF Same, Guards, Syncs, Marks, Strips, Steady
    <3> QED
      BY <3>1 DEF StoredCRs, GuardedCRs, SyncedCRs, DeletingCRs,
                  Life!Next, Life!Sync, Life!Guard, Life!MarkDeleted, Life!Strip
  <2> QED
    BY <2>6, <2>7, <2>8
<1> QED
  BY <1>1, <1>2 DEF OneMoves

LEMMA LifeInit ==
  ASSUME ObjectInit
  PROVE  Life!Init
  BY DEF ObjectInit, Life!Init, Exists

(* The life of every DeviceService and DeviceProfile CR is the one stated  *)
(* in Lifecycle, for any number of CRs, objects, failures and operations,  *)
(* and whichever names are reused promptly: guarded before synced, never   *)
(* gone unmarked once guarded, and no mark taken back.                     *)
THEOREM ObjectsImplementLifecycle == ObjectSpecification => ImplementsLifecycle
<1>1. IInv /\ GuardInv /\ (IInv /\ GuardInv)' /\ [ObjectNext]_objectVars
        => [Life!Next]_(Life!lifeVars)
  BY StepGuarded, LifeStep DEF IInv, ObjectTypeOK
<1>2. ObjectInit => Life!Init
  BY LifeInit
<1> QED
  BY <1>1, <1>2, GuardInvariance, PTL DEF ObjectSpecification, ImplementsLifecycle, Life!Spec

(***************************************************************************)
(* What is done on the edge.                                               *)
(***************************************************************************)
(* What a step does to the object e: the worker creates it for the CR it   *)
(* has in hand, or changes it for that CR, or nobody gives it an owner.    *)
Acts(e) ==
  /\ rec.pc \in {"createObject", "updateObject"} /\ rec' # rec /\ edge'[e] # edge[e]
       => e = GetEdgeName(rec.d)
  /\ edge'[e] # NoObject =>
       \/ edge[e] # NoObject /\ edge'[e].owner = edge[e].owner
       \/ edge'[e].owner = NoName
       \/ rec.pc = "createObject" /\ edge'[e].owner = rec.key

LEMMA SameActs ==
  ASSUME UNCHANGED edge
  PROVE  \A e \in EdgeNames : Acts(e)
  BY DEF Acts

LEMMA OperatorActs ==
  ASSUME IInv, NEW f \in EdgeNames,
         OperatorAdds(f) \/ OperatorRemoves(f) \/ OperatorChanges(f)
  PROVE  \A e \in EdgeNames : Acts(e)
<1>1. edge \in [EdgeNames -> EdgeObject \cup {NoObject}] /\ rec' = rec
  BY Types DEF OperatorAdds, OperatorRemoves, OperatorChanges, EdgeStep
<1>2. CASE OperatorAdds(f)
  <2>1. PICK s \in EdgeStates[f] :
          edge' = [edge EXCEPT ![f] = [adminState |-> s, definition |-> Whole, owner |-> NoName]]
    BY <1>2 DEF OperatorAdds
  <2>2. \A e \in EdgeNames \ {f} : edge'[e] = edge[e]
    BY <1>1, <2>1
  <2>3. edge'[f].owner = NoName
    BY <1>1, <2>1
  <2> QED
    BY <1>1, <2>2, <2>3 DEF Acts
<1>3. CASE OperatorRemoves(f)
  <2>1. edge'[f] = NoObject /\ \A e \in EdgeNames \ {f} : edge'[e] = edge[e]
    BY <1>1, <1>3 DEF OperatorRemoves
  <2> QED
    BY <1>1, <2>1 DEF Acts
<1>4. CASE OperatorChanges(f)
  <2>1. PICK s \in AdminStates : edge' = [edge EXCEPT ![f].adminState = s] /\ edge[f] # NoObject
    BY <1>4 DEF OperatorChanges
  <2>2. \A e \in EdgeNames \ {f} : edge'[e] = edge[e]
    BY <1>1, <2>1
  <2>3. edge[f] \in EdgeObject /\ edge'[f] = [edge[f] EXCEPT !.adminState = s]
    BY <1>1, <2>1
  <2>4. edge'[f].owner = edge[f].owner
    BY <2>3 DEF EdgeObject
  <2> QED
    BY <1>1, <2>1, <2>2, <2>4 DEF Acts
<1> QED
  BY <1>2, <1>3, <1>4

LEMMA CreatesActs ==
  ASSUME IInv, NEW definition, NEW made, NEW failed, CreatesObject(definition, made, failed)
  PROVE  \A e \in EdgeNames : Acts(e)
<1> DEFINE f == GetEdgeName(rec.d)
           obj == [adminState |-> rec.d.spec.adminState,
                   definition |-> definition, owner |-> rec.key]
<1>1. rec.pc = "createObject" /\ (edge' = edge \/ edge' = [edge EXCEPT ![f] = obj])
  BY DEF CreatesObject
<1>2. obj.owner = rec.key
  OBVIOUS
<1> HIDE DEF f, obj
<1>3. edge \in [EdgeNames -> EdgeObject \cup {NoObject}]
  BY Types
<1>4. \A e \in EdgeNames : edge'[e] = edge[e] \/ (e = f /\ edge'[e] = obj)
  BY <1>1, <1>3
<1> QED
  BY <1>1, <1>2, <1>4 DEF Acts, f

LEMMA DeletesActs ==
  ASSUME IInv, DeletesObject
  PROVE  \A e \in EdgeNames : Acts(e)
<1>1. rec.pc = "deleteObject"
      /\ (edge' = edge \/ edge' = [edge EXCEPT ![rec.edgeName] = NoObject])
  BY DEF DeletesObject
<1>2. \A e \in EdgeNames : edge'[e] = edge[e] \/ edge'[e] = NoObject
  BY <1>1, Types
<1> QED
  BY <1>1, <1>2 DEF Acts

LEMMA UpdateActs ==
  ASSUME IInv, UpdateService
  PROVE  \A e \in EdgeNames : Acts(e)
<1> DEFINE f == GetEdgeName(rec.d)
<1>1. edge' = edge \/ (edge[f] # NoObject /\ edge' = [edge EXCEPT ![f].adminState = Wanted])
  BY DEF UpdateService, PatchService
<1> HIDE DEF f
<1>2. edge \in [EdgeNames -> EdgeObject \cup {NoObject}]
  BY Types
<1>3. \A e \in EdgeNames \ {f} : edge'[e] = edge[e]
  BY <1>1, <1>2
<1>4. ASSUME f \in EdgeNames, edge' # edge
      PROVE  edge[f] # NoObject /\ edge'[f].owner = edge[f].owner
  <2>1. edge[f] \in EdgeObject /\ edge'[f] = [edge[f] EXCEPT !.adminState = Wanted]
    BY <1>1, <1>2, <1>4
  <2> QED
    BY <1>1, <1>4, <2>1 DEF EdgeObject
<1> QED
  BY <1>1, <1>3, <1>4 DEF Acts, f

LEMMA WorkerActs ==
  ASSUME IInv, ServiceReconcilerStep \/ ProfileReconcilerStep
  PROVE  \A e \in EdgeNames : Acts(e)
<1>1. CASE CreateService \/ CreateProfile
  BY <1>1, CreatesActs DEF CreateService, CreateProfile
<1>2. CASE DeleteService \/ DeleteProfile
  BY <1>2, DeletesActs DEF DeleteService, DeleteProfile
<1>3. CASE AddServiceFinalizer \/ AddProfileFinalizer \/ RemoveServiceFinalizer
           \/ RemoveProfileFinalizer \/ GetService \/ GetProfile
  BY <1>3, SameActs
     DEF AddServiceFinalizer, AddProfileFinalizer, AddsFinalizer, RemoveServiceFinalizer,
         RemoveProfileFinalizer, RemovesFinalizer, GetService, GetProfile, GetsObject
<1>4. CASE WriteServiceSynced \/ WriteServiceStatus \/ WriteProfileSynced
           \/ EndServiceReconcile \/ EndProfileReconcile
  BY <1>4, SameActs
     DEF WriteServiceSynced, WriteServiceStatus, WriteProfileSynced, WritesStatus,
         EndServiceReconcile, EndProfileReconcile, Ends
<1> QED
  BY <1>1, <1>2, <1>3, <1>4, UpdateActs DEF ServiceReconcilerStep, ProfileReconcilerStep

LEMMA SyncerActs ==
  ASSUME ServiceSyncerStep \/ ProfileSyncerStep
  PROVE  \A e \in EdgeNames : Acts(e)
<1>1. UNCHANGED edge
  BY DEF ServiceSyncerStep, ProfileSyncerStep, ListEdgeServices, ListEdgeProfiles, ListsEdge,
         ListKubeServices, ListKubeProfiles, ListsKube, CreateServiceCR, CreateProfileCR,
         CreatesCR, DeleteServiceCR, DeleteProfileCR, DeletesCR, UpdateServiceCR
<1> QED
  BY <1>1, SameActs

LEMMA StepActs ==
  ASSUME IInv, [ObjectNext]_objectVars
  PROVE  \A e \in EdgeNames : Acts(e)
<1>1. CASE \E n \in Names : UserCreates(n) \/ UserUpdates(n) \/ UserDeletes(n) \/ TakeObjectKey(n)
                            \/ ObjectWatchDelivers(n) \/ ObjectWatchBreaks(n)
  <2>1. UNCHANGED edge
    BY <1>1 DEF UserCreates, UserUpdates, UserDeletes, UserStep, TakeObjectKey, ServiceReconcile,
                ProfileReconcile, TakesKey, ObjectWatchDelivers, ObjectWatchBreaks, Deliver, Relist
  <2> QED
    BY <2>1, SameActs
<1>2. CASE \E e \in Objects : OperatorAdds(e) \/ OperatorRemoves(e) \/ OperatorChanges(e)
  BY <1>2, OperatorActs DEF Objects
<1>3. CASE ObjectsResync \/ Restarts \/ UNCHANGED objectVars
  BY <1>3, SameActs DEF ObjectsResync, Resync, Restarts, objectVars, clusterVars
<1>4. CASE ObjectReconcilerRuns
  BY <1>4, WorkerActs DEF ObjectReconcilerRuns
<1>5. CASE ObjectSyncerRuns
  BY <1>5, SyncerActs DEF ObjectSyncerRuns
<1> QED
  BY <1>1, <1>2, <1>3, <1>4, <1>5 DEF ObjectNext

(* When the worker creates or changes an object, the CR it does so for is  *)
(* stored, guarded and of this pool, as the worker read it from a cache    *)
(* that may be old.                                                        *)
LEMMA WorkerIsRight ==
  ASSUME IInv, GuardInv, rec.pc \in {"createObject", "updateObject"}, rec.key \notin PromptReuse
  PROVE  /\ OfThisPool(rec.key) /\ kube[rec.key].finalizer
         /\ GetEdgeName(kube[rec.key]) = GetEdgeName(rec.d)
<1>1. rec.key \in Steady
  BY Busy DEF Steady
<1> QED
  BY <1>1 DEF GuardInv, WorkerKnows, Working, SameCR, OfThisPool, GetEdgeName

(* The worker creates and changes objects on the edge only for a CR that   *)
(* is stored, guarded by the finalizer, of this pool and standing for that *)
(* object: what it read from an old cache and learned from its patch of    *)
(* the finalizer, which goes by name, cannot mislead it about another CR.  *)
THEOREM WorkerActsForTheCR == ObjectSpecification => ActsForTheCR
<1> DEFINE A == rec.pc \in {"createObject", "updateObject"} /\ rec' # rec =>
                  \A e \in EdgeNames : edge'[e] # edge[e] =>
                    \/ rec.key \in PromptReuse
                    \/ /\ OfThisPool(rec.key) /\ kube[rec.key].finalizer
                       /\ GetEdgeName(kube[rec.key]) = e
<1>1. IInv /\ GuardInv /\ [ObjectNext]_objectVars => [A]_<<rec, edge>>
  BY StepActs, WorkerIsRight DEF Acts
<1> QED
  BY <1>1, GuardInvariance, PTL DEF ObjectSpecification, ActsForTheCR

(* The process changes no CR of another pool and makes no object for one,  *)
(* though its syncer deletes CRs by name and its caches hold the CRs of    *)
(* all pools.                                                              *)
THEOREM OtherPoolsSafe == ObjectSpecification => OtherPoolsLeftAlone
<1> DEFINE A == userOps' = userOps =>
                  \A n \in KubeNames \ PromptReuse :
                    Exists(n) /\ kube[n].spec.nodePool # NodePool =>
                      /\ kube'[n] = kube[n]
                      /\ OwnedBy(n)' \subseteq OwnedBy(n)
<1>1. ASSUME IInv, GuardInv, [ObjectNext]_objectVars
      PROVE  A
  <2> SUFFICES ASSUME userOps' = userOps, NEW n \in KubeNames \ PromptReuse,
                      Exists(n), kube[n].spec.nodePool # NodePool
               PROVE  kube'[n] = kube[n] /\ OwnedBy(n)' \subseteq OwnedBy(n)
    OBVIOUS
  <2>1. kube'[n] = kube[n]
    BY <1>1, StepGuarded, Each DEF Ours, Steady
  <2>2. rec.pc = "createObject" => rec.key # n
    BY <1>1, WorkerIsRight DEF OfThisPool
  <2>3. n # NoName
    BY ObjectNamesAssumption
  <2>4. \A e \in EdgeNames : edge'[e] # NoObject /\ edge'[e].owner = n
                               => edge[e] # NoObject /\ edge[e].owner = n
    BY <1>1, <2>2, <2>3, StepActs DEF Acts
  <2> QED
    BY <2>1, <2>4 DEF OwnedBy
<1>2. IInv /\ GuardInv /\ [ObjectNext]_objectVars => [A]_<<kube, edge>>
  BY <1>1
<1> QED
  BY <1>2, GuardInvariance, PTL DEF ObjectSpecification, OtherPoolsLeftAlone
=============================================================================
