------------------------- MODULE DeviceSafetyProofs -------------------------
(***************************************************************************)
(* The inductive invariant of DeviceSystem, and what follows from it: no   *)
(* device is left behind on the edge, and a synced CR is guarded.  Both    *)
(* are of the names that are not used again while the process still holds  *)
(* a copy of the CR that had them (Steady), whatever the other names do.   *)
(***************************************************************************)
EXTENDS DeviceTypeProofs

(* The step of the worker that lets a CR go. *)
LetGo(n) == rec.pc = "removeFinalizer" /\ rec.key = n /\ rec'.pc = "finish"

(* cr may be stored after kube[n]: it stands for the same device, keeps    *)
(* the guard and the deletion mark; it is new only if no copy of the name  *)
(* is left, and gone only if unguarded or released.                        *)
FollowsSteadily(n, cr) ==
  /\ Exists(n) /\ cr # NoCR =>
       /\ GetEdgeDeviceName(cr) = GetEdgeDeviceName(kube[n])
       /\ kube[n].finalizer => cr.finalizer
       /\ kube[n].deleting => cr.deleting
  /\ ~Exists(n) /\ cr # NoCR => cache[n] = NoCR /\ n # rec.key
  /\ Exists(n) /\ cr = NoCR => ~kube[n].finalizer \/ LetGo(n)
  /\ cr # NoCR /\ cr.status.synced => cr.finalizer

(* Under a reused name only the deletion mark is sure to have its guard.   *)
Follows(n, cr) ==
  /\ cr # NoCR /\ cr.deleting => cr.finalizer
  /\ n \in Steady => FollowsSteadily(n, cr)

CRsFollow == \A n \in KubeNames : Follows(n, kube'[n])

(* A copy is current after a step only if it was and the CR did not change. *)
CopiesFollow ==
  \A n \in KubeNames : \A h \in {"cache", "syncer"} :
    h \in current'[n] => h \in current[n] /\ kube'[n] = kube[n]

OwnersKept == \A n \in KubeNames : OwnedBy(n)' \subseteq OwnedBy(n)

(* The parts of IInv that are about the API server, the edge and the copies. *)
LEMMA SteadyNames == Steady \subseteq KubeNames
  BY DEF Steady

LEMMA CRsGuarded ==
  ASSUME IInv, CRsFollow
  PROVE  SyncedIsGuarded' /\ DeletingIsGuarded'
<1>1. SyncedIsGuarded'
  BY SteadyNames DEF CRsFollow, Follows, FollowsSteadily, SyncedIsGuarded, Exists
<1>2. DeletingIsGuarded'
  BY DEF CRsFollow, Follows, DeletingIsGuarded, Exists
<1> QED
  BY <1>1, <1>2

LEMMA OwnedGuarded ==
  ASSUME IInv, CRsFollow, OwnersKept
  PROVE  OwnedDeviceIsGuarded'
<1> SUFFICES ASSUME NEW n \in Steady, NEW e \in OwnedBy(n)'
             PROVE  Exists(n)' /\ kube'[n].finalizer /\ GetEdgeDeviceName(kube'[n]) = e
  BY DEF OwnedDeviceIsGuarded, GetEdgeDeviceName
<1>1. e \in OwnedBy(n)
  BY SteadyNames DEF OwnersKept
<1>2. Exists(n) /\ kube[n].finalizer /\ GetEdgeDeviceName(kube[n]) = e
  BY <1>1 DEF IInv, OwnedDeviceIsGuarded
<1>3. ~LetGo(n)
  BY <1>1 DEF LetGo, IInv, WorkerIsOfTheCR
<1> QED
  BY <1>2, <1>3, SteadyNames DEF CRsFollow, Follows, FollowsSteadily, Exists

LEMMA CacheFollows ==
  ASSUME IInv, CRsFollow, CopiesFollow, UNCHANGED cache
  PROVE  CacheIsOfTheCR' /\ CurrentCacheIsExact'
<1>1. CurrentCacheIsExact'
  BY DEF CopiesFollow, IInv, CurrentCacheIsExact
<1>2. CacheIsOfTheCR'
  <2> SUFFICES ASSUME NEW n \in Steady, cache[n] # NoCR
               PROVE  /\ Exists(n)' => GetEdgeDeviceName(cache[n]) = GetEdgeDeviceName(kube'[n])
                      /\ cache[n].finalizer /\ ~cache[n].deleting =>
                           Exists(n)' /\ kube'[n].finalizer
                      /\ cache[n].deleting =>
                           cache[n].finalizer /\ (Exists(n)' => kube'[n].deleting)
                      /\ cache[n].status.synced => cache[n].finalizer
    BY DEF CacheIsOfTheCR, SameDevice, GetEdgeDeviceName
  <2>1. /\ Exists(n) => GetEdgeDeviceName(cache[n]) = GetEdgeDeviceName(kube[n])
        /\ cache[n].finalizer /\ ~cache[n].deleting => Exists(n) /\ kube[n].finalizer
        /\ cache[n].deleting => cache[n].finalizer /\ (Exists(n) => kube[n].deleting)
        /\ cache[n].status.synced => cache[n].finalizer
    BY DEF IInv, CacheIsOfTheCR, SameDevice
  <2>2. FollowsSteadily(n, kube'[n])
    BY SteadyNames DEF CRsFollow, Follows
  <2>3. ~cache[n].deleting => ~LetGo(n)
    BY DEF LetGo, IInv, WorkerIsOfTheCR
  <2> QED
    BY <2>1, <2>2, <2>3 DEF FollowsSteadily, Exists
<1> QED
  BY <1>1, <1>2

LEMMA WorkerFollows ==
  ASSUME IInv, CRsFollow, OwnersKept, UNCHANGED <<rec, cache>>
  PROVE  WorkerIsOfTheCR'
<1>1. CASE rec.key \notin Steady
  BY <1>1 DEF WorkerIsOfTheCR
<1>2. CASE rec.key \in Steady
  <2>1. rec.key \in KubeNames
    BY <1>2, SteadyNames
  <2>2. FollowsSteadily(rec.key, kube'[rec.key]) /\ ~LetGo(rec.key)
    BY <1>2, <2>1 DEF CRsFollow, Follows, LetGo
  <2>3. WorkerIsOfTheCR /\ rec' = rec /\ cache' = cache
    BY DEF IInv
  <2>4. OwnedBy(rec.key) = {} => (OwnedBy(rec.key) = {})'
    BY <2>1, <2>3 DEF OwnersKept, OwnedBy
  <2>5. rec.pc = "removeFinalizer" => (OwnedBy(rec.key) = {})'
    BY <1>2, <2>3, <2>4 DEF WorkerIsOfTheCR
  <2>6. rec.pc \in Working =>
          (Exists(rec.key) /\ kube[rec.key].finalizer /\ SameDevice(rec.d, rec.key))'
    BY <1>2, <2>2, <2>3 DEF WorkerIsOfTheCR, FollowsSteadily, Exists, SameDevice, GetEdgeDeviceName
  <2>7. rec.pc \in {"deleteDevice", "removeFinalizer"} =>
          (Exists(rec.key) => kube[rec.key].deleting /\ SameDevice(rec.d, rec.key))'
    BY <1>2, <2>2, <2>3 DEF WorkerIsOfTheCR, FollowsSteadily, Exists, SameDevice, GetEdgeDeviceName
  <2>8. rec.pc = "finish" /\ rec.d.status.synced => (Exists(rec.key) => kube[rec.key].finalizer)'
    BY <1>2, <2>2, <2>3 DEF WorkerIsOfTheCR, FollowsSteadily, Exists
  <2>9. rec.pc = "addFinalizer" =>
          ~rec.d.status.synced /\ (Exists(rec.key) => SameDevice(rec.d, rec.key))'
    BY <1>2, <2>2, <2>3 DEF WorkerIsOfTheCR, FollowsSteadily, Exists, SameDevice, GetEdgeDeviceName
  <2> QED
    BY <1>2, <2>3, <2>5, <2>6, <2>7, <2>8, <2>9 DEF WorkerIsOfTheCR
<1> QED
  BY <1>1, <1>2

LEMMA SyncerFollows ==
  ASSUME IInv, CopiesFollow,
         \A n \in KubeNames : syn'.copy[n] # NoCR =>
           syn.copy[n] # NoCR /\ syn'.copy[n].status.synced = syn.copy[n].status.synced
  PROVE  SyncerCopyIsGuarded'
  BY SteadyNames DEF CopiesFollow, IInv, SyncerCopyIsGuarded, Exists

(* What is left to prove for a step, once it is well-typed.                *)
StoredIsSafe ==
  /\ OwnedDeviceIsGuarded /\ SyncedIsGuarded /\ DeletingIsGuarded
  /\ CacheIsOfTheCR /\ CurrentCacheIsExact /\ SyncerCopyIsGuarded

Safe == StoredIsSafe /\ WorkerIsOfTheCR

CopiesKept ==
  \A n \in KubeNames : syn'.copy[n] # NoCR =>
    syn.copy[n] # NoCR /\ syn'.copy[n].status.synced = syn.copy[n].status.synced

LEMMA StoredFollows ==
  ASSUME IInv, CRsFollow, CopiesFollow, OwnersKept, CopiesKept, UNCHANGED cache
  PROVE  StoredIsSafe'
  BY CRsGuarded, OwnedGuarded, CacheFollows, SyncerFollows DEF StoredIsSafe, CopiesKept

(***************************************************************************)
(* The writes.                                                             *)
(***************************************************************************)
LEMMA SameFollows ==
  ASSUME IInv, NEW n \in KubeNames
  PROVE  Follows(n, kube[n])
  BY DEF Follows, FollowsSteadily, Exists, IInv, SyncedIsGuarded, DeletingIsGuarded

LEMMA Typed ==
  ASSUME TypeInv
  PROVE  /\ kube \in [KubeNames -> Device \cup {NoCR}]
         /\ current \in [KubeNames -> SUBSET Holders]
         /\ edge \in [EdgeNames -> EdgeDevice \cup {NoDevice}]
         /\ ReconcilerTypeOK /\ SyncerTypeOK /\ syn \in Round
         /\ rec.pc \notin {"idle", "panicked"} =>
              /\ rec \in Worker /\ rec.key \in KubeNames
              /\ rec.d \in Device /\ target \in EdgeNames
<1>1. ReconcilerTypeOK /\ SyncerTypeOK /\ syn \in Round
  BY DEF TypeInv, TypeOK, ClusterTypeOK, ReconcilerTypeOK, SyncerTypeOK
<1> QED
  BY <1>1, BusyType DEF TypeInv, TypeOK, ClusterTypeOK

LEMMA KubeType ==
  ASSUME IInv
  PROVE  /\ kube \in [KubeNames -> Device \cup {NoCR}]
         /\ current \in [KubeNames -> SUBSET Holders]
         /\ edge \in [EdgeNames -> EdgeDevice \cup {NoDevice}]
         /\ ReconcilerTypeOK /\ SyncerTypeOK
  BY Typed DEF IInv

LEMMA StoreFollows ==
  ASSUME IInv, NEW n \in KubeNames, NEW cr, NEW h \in SUBSET {"reconciler"},
         Follows(n, cr), Store(n, cr, h)
  PROVE  CRsFollow /\ CopiesFollow
<1>1. \A m \in KubeNames : kube'[m] = IF m = n THEN cr ELSE kube[m]
  BY KubeType DEF Store
<1>2. \A m \in KubeNames : current'[m] = IF m = n THEN h ELSE current[m]
  BY KubeType DEF Store
<1>3. CRsFollow
  BY <1>1, SameFollows DEF CRsFollow
<1>4. CopiesFollow
  BY <1>1, <1>2 DEF CopiesFollow
<1> QED
  BY <1>3, <1>4

LEMMA UnchangedFollows ==
  ASSUME IInv, UNCHANGED kube
  PROVE  CRsFollow
  BY SameFollows DEF CRsFollow

LEMMA ApiUnchangedFollows ==
  ASSUME IInv, ApiUnchanged
  PROVE  CRsFollow /\ CopiesFollow
  BY UnchangedFollows DEF ApiUnchanged, CopiesFollow

LEMMA ForgetFollows ==
  ASSUME IInv, NEW n \in KubeNames, NEW h, Forget(n, h)
  PROVE  CRsFollow /\ CopiesFollow
  BY UnchangedFollows, KubeType DEF Forget, CopiesFollow

LEMMA PutFollows ==
  ASSUME IInv, NEW n \in KubeNames, NEW cr, Follows(n, cr),
         \/ Put(n, cr, "reconciler")
         \/ \E h \in Holders : PutLast(n, cr, h)
  PROVE  CRsFollow /\ CopiesFollow
<1>1. CASE Put(n, cr, "reconciler") /\ cr = kube[n]
  BY <1>1, UnchangedFollows, KubeType DEF Put, CopiesFollow
<1>2. CASE Put(n, cr, "reconciler") /\ cr # kube[n]
  BY <1>2, StoreFollows DEF Put
<1>3. CASE \E h \in Holders : PutLast(n, cr, h)
  BY <1>3, StoreFollows, ForgetFollows DEF PutLast
<1> QED
  BY <1>1, <1>2, <1>3

(* What changing one field of a CR leaves. *)
LEMMA DeviceFields ==
  ASSUME NEW d \in Device, NEW x
  PROVE  /\ LET c == [d EXCEPT !.deleting = x]
            IN  /\ c.deleting = x
                /\ c.spec = d.spec /\ c.finalizer = d.finalizer /\ c.status = d.status
         /\ LET c == [d EXCEPT !.spec = x]
            IN  /\ c.spec = x
                /\ c.deleting = d.deleting /\ c.finalizer = d.finalizer
                /\ c.status = d.status
         /\ LET c == [d EXCEPT !.finalizer = x]
            IN  /\ c.finalizer = x
                /\ c.spec = d.spec /\ c.deleting = d.deleting /\ c.status = d.status
         /\ LET c == [d EXCEPT !.status = x]
            IN  /\ c.status = x
                /\ c.spec = d.spec /\ c.deleting = d.deleting /\ c.finalizer = d.finalizer
  BY DEF Device

LEMMA DeleteFollows ==
  ASSUME IInv, NEW n \in KubeNames, Exists(n), Delete(n)
  PROVE  CRsFollow /\ CopiesFollow
<1>1. kube[n] \in Device
  BY KubeType DEF Exists
<1>2. Follows(n, kube[n])
  BY SameFollows
<1>3. CASE ApiUnchanged
  BY <1>3, ApiUnchangedFollows
<1>4. CASE kube[n].finalizer /\ Store(n, [kube[n] EXCEPT !.deleting = TRUE], {})
  <2>1. Follows(n, [kube[n] EXCEPT !.deleting = TRUE])
    BY <1>1, <1>2, <1>4, DeviceFields, DeviceType, AbsenceAssumption
       DEF Follows, FollowsSteadily, Exists, GetEdgeDeviceName
  <2> QED
    BY <1>4, <2>1, StoreFollows
<1>5. CASE ~kube[n].finalizer /\ Store(n, NoCR, {})
  <2>1. Follows(n, NoCR)
    BY <1>5 DEF Follows, FollowsSteadily
  <2> QED
    BY <1>5, <2>1, StoreFollows
<1> QED
  BY <1>3, <1>4, <1>5 DEF Delete

LEMMA CreateFollows ==
  ASSUME IInv, NEW n \in KubeNames, NEW busy, NEW s,
         rec.key \in busy, CanCreate(n, busy), Create(n, s)
  PROVE  CRsFollow /\ CopiesFollow
<1>1. Follows(n, NewDevice(s))
  BY DEF CanCreate, Follows, FollowsSteadily, Steady, NewDevice, NewStatus, Exists
<1> QED
  BY <1>1, StoreFollows DEF Create

(***************************************************************************)
(* Users, the edge and the informer.                                       *)
(***************************************************************************)
LEMMA UserSafe ==
  ASSUME IInv, NEW n \in KubeNames,
         UserCreate(n) \/ UserUpdate(n) \/ UserDelete(n)
  PROVE  Safe'
<1>1. CRsFollow /\ CopiesFollow
  <2>1. CASE UserCreate(n)
    BY <2>1, CreateFollows DEF UserCreate
  <2>2. CASE UserUpdate(n)
    <3>1. PICK s \in UserSpecs[n] : /\ s.edgeName = kube[n].spec.edgeName
                                    /\ Store(n, [kube[n] EXCEPT !.spec = s], {})
      BY <2>2 DEF UserUpdate
    <3>2. kube[n] \in Device /\ Follows(n, kube[n])
      BY <2>2, SameFollows, KubeType DEF UserUpdate, Exists
    <3>3. Follows(n, [kube[n] EXCEPT !.spec = s])
      <4>1. [kube[n] EXCEPT !.spec = s] \in Device
        BY <3>2, DeviceType, EnvironmentAssumption
      <4> QED
        BY <2>2, <3>1, <3>2, <4>1, DeviceFields, AbsenceAssumption
           DEF UserUpdate, Follows, FollowsSteadily, Exists, GetEdgeDeviceName
    <3> QED
      BY <3>1, <3>3, StoreFollows
  <2>3. CASE UserDelete(n)
    BY <2>3, DeleteFollows DEF UserDelete
  <2> QED
    BY <2>1, <2>2, <2>3
<1>2. UNCHANGED <<cache, edge, rec, syn>>
  BY DEF UserCreate, UserUpdate, UserDelete, UserStep
<1>3. OwnersKept /\ CopiesKept
  BY <1>2 DEF OwnersKept, OwnedBy, CopiesKept
<1> QED
  BY <1>1, <1>2, <1>3, StoredFollows, WorkerFollows DEF Safe

(* Operators and devices give no device to a CR.                           *)
LEMMA EdgeOwners ==
  ASSUME TypeInv, NEW e \in EdgeNames,
         AddEdgeDevice(e) \/ RemoveEdgeDevice(e) \/ ChangeEdgeDevice(e)
  PROVE  OwnersKept
<1> SUFFICES ASSUME NEW n \in KubeNames, NEW x \in EdgeNames,
                    edge'[x] # NoDevice, edge'[x].owner = n
             PROVE  edge[x] # NoDevice /\ edge[x].owner = n
  BY DEF OwnersKept, OwnedBy
<1>1. CASE AddEdgeDevice(e)
  BY <1>1, Typed, NamesAssumption DEF AddEdgeDevice
<1>2. CASE RemoveEdgeDevice(e)
  BY <1>2, Typed DEF RemoveEdgeDevice
<1>3. CASE ChangeEdgeDevice(e)
  <2>1. edge[e] \in EdgeDevice
    BY <1>3, Typed DEF ChangeEdgeDevice
  <2>2. \E d : edge' = [edge EXCEPT ![e] = d] /\ d.owner = edge[e].owner
    <3>1. CASE \E s \in EdgeStates :
                 edge' = [edge EXCEPT ![e].adminState = s.adminState,
                                      ![e].operatingState = s.operatingState]
      <4>1. PICK s \in EdgeStates :
              edge' = [edge EXCEPT ![e] = [edge[e] EXCEPT !.adminState = s.adminState,
                                                          !.operatingState = s.operatingState]]
        BY <3>1, Typed
      <4>2. [edge[e] EXCEPT !.adminState = s.adminState,
                            !.operatingState = s.operatingState].owner = edge[e].owner
        BY <2>1 DEF EdgeDevice
      <4> QED
        BY <4>1, <4>2
    <3>2. CASE \E p \in Props, v \in Values : edge' = [edge EXCEPT ![e].values[p] = v]
      <4>1. PICK p \in Props, v \in Values :
              edge' = [edge EXCEPT ![e] = [edge[e] EXCEPT !.values[p] = v]]
        BY <3>2
      <4>2. [edge[e] EXCEPT !.values[p] = v].owner = edge[e].owner
        BY <2>1 DEF EdgeDevice
      <4> QED
        BY <4>1, <4>2
    <3> QED
      BY <1>3, <3>1, <3>2 DEF ChangeEdgeDevice
  <2> QED
    BY <1>3, <2>2, Typed DEF ChangeEdgeDevice
<1> QED
  BY <1>1, <1>2, <1>3

LEMMA EdgeSafe ==
  ASSUME IInv, NEW e \in EdgeNames,
         AddEdgeDevice(e) \/ RemoveEdgeDevice(e) \/ ChangeEdgeDevice(e)
  PROVE  Safe'
<1>1. UNCHANGED <<kube, current, cache, rec, syn>>
  BY DEF AddEdgeDevice, RemoveEdgeDevice, ChangeEdgeDevice, EdgeStep
<1>2. CRsFollow /\ CopiesFollow /\ CopiesKept
  BY <1>1, UnchangedFollows DEF CopiesFollow, CopiesKept
<1> QED
  BY <1>1, <1>2, EdgeOwners, StoredFollows, WorkerFollows DEF Safe, IInv

LEMMA SeenSafe ==
  ASSUME IInv, UNCHANGED <<kube, edge, rec, syn>>, NEW n \in KubeNames,
         cache' = [cache EXCEPT ![n] = kube[n]],
         current' = [current EXCEPT ![n] = @ \cup {"cache"}]
  PROVE  Safe'
<1>1. \A m \in KubeNames : cache'[m] = IF m = n THEN kube[n] ELSE cache[m]
  BY DEF IInv, TypeInv, TypeOK, ClusterTypeOK
<1>2. \A m \in KubeNames :
        current'[m] = IF m = n THEN current[m] \cup {"cache"} ELSE current[m]
  BY KubeType
<1>3. CurrentCacheIsExact'
  BY <1>1, <1>2 DEF IInv, CurrentCacheIsExact
<1>4. CacheIsOfTheCR'
  BY <1>1, SteadyNames
     DEF IInv, CacheIsOfTheCR, SyncedIsGuarded, DeletingIsGuarded, Exists, SameDevice,
         GetEdgeDeviceName
<1>5. OwnedDeviceIsGuarded' /\ SyncedIsGuarded' /\ DeletingIsGuarded'
  BY DEF IInv, OwnedDeviceIsGuarded, OwnedBy, SyncedIsGuarded, DeletingIsGuarded, Exists,
         GetEdgeDeviceName
<1>6. SyncerCopyIsGuarded'
  BY <1>2, SteadyNames DEF IInv, SyncerCopyIsGuarded, Exists
<1>7. WorkerIsOfTheCR'
  <2>1. CASE rec.key \notin Steady
    BY <2>1 DEF WorkerIsOfTheCR
  <2>2. CASE rec.key \in Steady
    <3>1. rec.key \in KubeNames
      BY <2>2, SteadyNames
    <3> QED
      BY <1>1, <2>2, <3>1 DEF IInv, WorkerIsOfTheCR, Exists, SameDevice, OwnedBy, GetEdgeDeviceName
  <2> QED
    BY <2>1, <2>2
<1> QED
  BY <1>3, <1>4, <1>5, <1>6, <1>7 DEF Safe, StoredIsSafe

LEMMA RestartSafe ==
  ASSUME IInv, Restart
  PROVE  Safe'
<1>1. /\ rec' = IdleWorker /\ syn' = IdleRound /\ cache' = kube /\ kube' = kube /\ edge' = edge
      /\ current' = [n \in KubeNames |-> {"cache"}]
  BY DEF Restart
<1>2. OwnedDeviceIsGuarded' /\ SyncedIsGuarded' /\ DeletingIsGuarded'
  BY <1>1 DEF IInv, OwnedDeviceIsGuarded, OwnedBy, SyncedIsGuarded, DeletingIsGuarded, Exists,
              GetEdgeDeviceName
<1>3. CacheIsOfTheCR' /\ CurrentCacheIsExact'
  BY <1>1, SteadyNames
     DEF IInv, CacheIsOfTheCR, CurrentCacheIsExact, SyncedIsGuarded, DeletingIsGuarded,
         Exists, SameDevice, GetEdgeDeviceName
<1>4. WorkerIsOfTheCR'
  BY <1>1 DEF WorkerIsOfTheCR, IdleWorker, Working
<1>5. SyncerCopyIsGuarded'
  BY <1>1, SteadyNames DEF SyncerCopyIsGuarded, IdleRound
<1> QED
  BY <1>2, <1>3, <1>4, <1>5 DEF Safe, StoredIsSafe

(***************************************************************************)
(* The worker.                                                             *)
(***************************************************************************)
(* A step of the worker that leaves the edge alone or only takes from it.  *)
LEMMA WorkerStored ==
  ASSUME IInv, CRsFollow, CopiesFollow, OwnersKept, UNCHANGED <<cache, syn>>
  PROVE  StoredIsSafe'
  BY StoredFollows DEF CopiesKept

LEMMA TakeKeySafe ==
  ASSUME IInv, NEW n \in KubeNames, Reconcile(n), UNCHANGED syn
  PROVE  Safe'
<1>1. UNCHANGED <<kube, cache, edge>>
  BY DEF Reconcile
<1>2. CopiesFollow
  BY <1>1, KubeType DEF Reconcile, ReadFromCache, CopiesFollow
<1>3. StoredIsSafe'
  BY <1>1, <1>2, UnchangedFollows, WorkerStored DEF OwnersKept, OwnedBy
<1>4. WorkerIsOfTheCR'
  <2>1. CASE UNCHANGED rec
    BY <1>1, <2>1, UnchangedFollows, WorkerFollows DEF OwnersKept, OwnedBy
  <2>2. CASE /\ Handles(n)
             /\ rec' = [IdleWorker EXCEPT !.pc = FirstRequest(cache[n]),
                                          !.key = n, !.d = cache[n]]
    <3> DEFINE c == cache[n]
    <3>1. rec'.pc = FirstRequest(c) /\ rec'.key = n /\ rec'.d = c /\ c # NoCR
      BY <2>2 DEF IdleWorker, Handles
    <3>2. n \in Steady =>
            /\ Exists(n) => SameDevice(c, n)
            /\ c.finalizer /\ ~c.deleting => Exists(n) /\ kube[n].finalizer
            /\ c.deleting => c.finalizer /\ (Exists(n) => kube[n].deleting)
            /\ c.status.synced => c.finalizer
      BY <3>1 DEF IInv, CacheIsOfTheCR
    <3>3. CASE c.deleting
      <4>1. rec'.pc = "deleteDevice"
        BY <3>1, <3>3 DEF FirstRequest
      <4> QED
        BY <1>1, <3>1, <3>2, <3>3, <4>1
           DEF WorkerIsOfTheCR, Working, Exists, SameDevice, GetEdgeDeviceName
    <3>4. CASE ~c.deleting /\ ~c.finalizer
      <4>1. rec'.pc = "addFinalizer"
        BY <3>1, <3>4 DEF FirstRequest
      <4> QED
        BY <1>1, <3>1, <3>2, <3>4, <4>1
           DEF WorkerIsOfTheCR, Working, Exists, SameDevice, GetEdgeDeviceName
    <3>5. CASE ~c.deleting /\ c.finalizer
      <4>1. rec'.pc \in {"getDevice", "updateDevice", "finish"}
        BY <3>1, <3>5 DEF FirstRequest, AfterDelete
      <4> QED
        BY <1>1, <3>1, <3>2, <3>5, <4>1
           DEF WorkerIsOfTheCR, Working, Exists, SameDevice, GetEdgeDeviceName
    <3> QED
      BY <3>3, <3>4, <3>5
  <2> QED
    BY <2>1, <2>2 DEF Reconcile
<1> QED
  BY <1>3, <1>4 DEF Safe

LEMMA Busy ==
  ASSUME IInv, rec.pc \notin {"idle", "panicked"}
  PROVE  rec \in Worker /\ rec.key \in KubeNames /\ rec.d \in Device /\ target \in EdgeNames
  BY BusyType, KubeType

(* What is decoded into a copy of the same device is of that device.       *)
LEMMA DecodedFields ==
  ASSUME NEW new, NEW old, NEW n
  PROVE  LET d == Decoded(new, old, n)
         IN  /\ GetEdgeDeviceName(d) \in {GetEdgeDeviceName(new), GetEdgeDeviceName(old)}
             /\ d.status = DecodedStatus(new.status, old.status)
             /\ d.status.synced = Filled(new.status.synced, old.status.synced, FALSE)
  BY DEF Decoded, DecodedSpec, DecodedStatus, Filled, GetEdgeDeviceName

(* A patch of the finalizers stores a CR and decodes it into the worker's. *)
LEMMA PatchedStores ==
  ASSUME IInv, rec.pc \notin {"idle", "panicked"}, NEW cr \in Device, Patched(cr)
  PROVE  /\ kube'[rec.key] = cr /\ rec'.key = rec.key
         /\ rec'.d = Decoded(cr, rec.d, rec.key) /\ rec'.d \in Device
         /\ rec'.pc = IF rec'.d.deleting THEN "finish" ELSE AfterDelete(rec'.d)
<1> DEFINE d == Decoded(cr, rec.d, rec.key)
           pc == IF d.deleting THEN "finish" ELSE AfterDelete(d)
<1>1. rec \in Worker /\ rec.key \in KubeNames /\ rec.d \in Device
  BY Busy
<1>2. kube'[rec.key] = cr
  BY <1>1, KubeType DEF Patched, Put, Store
<1>3. d \in Device
  BY <1>1, DecodedType
<1>4. rec' = [rec EXCEPT !.d = d, !.pc = pc]
  BY DEF Patched
<1>5. rec'.key = rec.key /\ rec'.d = d /\ rec'.pc = pc
  <2> HIDE DEF d, pc
  <2> QED
    BY ONLY <1>1, <1>4 DEF Worker
<1> QED
  BY <1>2, <1>3, <1>5

(* The worker is through with its CR.                                      *)
LEMMA FinishSafe ==
  ASSUME rec'.pc = "finish", rec'.key = rec.key,
         rec.key \in Steady /\ rec'.d.status.synced =>
           (Exists(rec.key)' => kube'[rec.key].finalizer)
  PROVE  WorkerIsOfTheCR'
  BY DEF WorkerIsOfTheCR, Working, Exists

(* The worker goes on with its CR, whose guard nobody else takes away.     *)
LEMMA WorkOn ==
  ASSUME IInv, rec.pc \in Working, CRsFollow,
         rec'.key = rec.key, GetEdgeDeviceName(rec'.d) = target,
         rec'.pc \in Working \cup {"finish", "panicked"}
  PROVE  WorkerIsOfTheCR'
<1> SUFFICES ASSUME rec.key \in Steady
             PROVE  WorkerIsOfTheCR'
  BY DEF WorkerIsOfTheCR
<1>1. rec.key \in KubeNames
  BY SteadyNames
<1>2. /\ Exists(rec.key) /\ kube[rec.key].finalizer
      /\ GetEdgeDeviceName(kube[rec.key]) = target
  BY DEF IInv, WorkerIsOfTheCR, SameDevice, target
<1>3. ~LetGo(rec.key)
  BY DEF LetGo, Working
<1>4. /\ kube'[rec.key] # NoCR /\ kube'[rec.key].finalizer
      /\ GetEdgeDeviceName(kube'[rec.key]) = target
  BY <1>1, <1>2, <1>3 DEF CRsFollow, Follows, FollowsSteadily, Exists
<1> QED
  BY <1>4 DEF WorkerIsOfTheCR, Working, Exists, SameDevice, GetEdgeDeviceName

LEMMA AddFinalizerSafe ==
  ASSUME IInv, AddFinalizer, UNCHANGED syn
  PROVE  Safe'
<1>1. /\ rec.pc = "addFinalizer" /\ (rec.key \in Steady => ~rec.d.status.synced)
      /\ rec \in Worker /\ rec.key \in KubeNames /\ rec.d \in Device
      /\ UNCHANGED <<cache, edge>>
  BY Busy DEF AddFinalizer, IInv, WorkerIsOfTheCR
<1>2. OwnersKept
  BY <1>1 DEF OwnersKept, OwnedBy
<1>3. CASE (Finish(TRUE) \/ Finish(FALSE)) /\ ApiUnchanged
  <2>1. rec'.pc = "finish" /\ rec'.key = rec.key /\ rec'.d = rec.d
    BY <1>1, <1>3 DEF Finish, Worker
  <2> QED
    BY <1>1, <1>2, <1>3, <2>1, ApiUnchangedFollows, WorkerStored, FinishSafe DEF Safe
<1>4. CASE Exists(rec.key) /\ Patched([kube[rec.key] EXCEPT !.finalizer = TRUE])
  <2> DEFINE cr == [kube[rec.key] EXCEPT !.finalizer = TRUE]
  <2>1. kube[rec.key] \in Device /\ Follows(rec.key, kube[rec.key])
    BY <1>1, <1>4, SameFollows, KubeType DEF Exists
  <2>2. cr \in Device /\ cr # NoCR /\ cr.finalizer
    <3>1. TRUE \in BOOLEAN
      OBVIOUS
    <3>2. cr \in Device
      BY <2>1, <3>1, DeviceType
    <3>3. cr.finalizer
      BY <2>1, DeviceFields
    <3> QED
      BY <3>2, <3>3, AbsenceAssumption
  <2>3. Follows(rec.key, cr)
    BY <1>4, <2>1, <2>2, DeviceFields DEF Follows, FollowsSteadily, Exists, GetEdgeDeviceName
  <2>4. CRsFollow /\ CopiesFollow
    BY <1>1, <1>4, <2>3, PutFollows DEF Patched
  <2>5. StoredIsSafe'
    BY <1>1, <1>2, <2>4, WorkerStored
  <2>6. /\ kube'[rec.key] = cr /\ rec'.d = Decoded(cr, rec.d, rec.key) /\ rec'.key = rec.key
        /\ rec'.pc \in {"getDevice", "updateDevice", "finish"}
    <3> HIDE DEF cr
    <3> QED
      BY <1>1, <1>4, <2>2, PatchedStores, AfterDeleteType DEF cr
  <2>7. GetEdgeDeviceName(cr) = GetEdgeDeviceName(kube[rec.key])
    BY <2>1, DeviceFields DEF GetEdgeDeviceName
  <2>8. rec.key \in Steady => GetEdgeDeviceName(rec.d) = GetEdgeDeviceName(kube[rec.key])
    BY <1>1, <1>4 DEF IInv, WorkerIsOfTheCR, SameDevice
  <2>9. rec.key \in Steady => GetEdgeDeviceName(rec'.d) = GetEdgeDeviceName(kube'[rec.key])
    <3> HIDE DEF cr
    <3> DEFINE d == Decoded(cr, rec.d, rec.key)
    <3>1. GetEdgeDeviceName(d) \in {GetEdgeDeviceName(cr), GetEdgeDeviceName(rec.d)}
      BY DecodedFields
    <3> HIDE DEF d
    <3>2. rec'.d = d /\ kube'[rec.key] = cr
      BY <2>6 DEF d
    <3> QED
      BY ONLY <2>7, <2>8, <3>1, <3>2
  <2>10. WorkerIsOfTheCR'
    <3> HIDE DEF cr
    <3> QED
      BY <2>2, <2>6, <2>9 DEF WorkerIsOfTheCR, Working, Exists, SameDevice, GetEdgeDeviceName
  <2> QED
    BY <2>5, <2>10 DEF Safe
<1> QED
  BY <1>3, <1>4 DEF AddFinalizer

LEMMA DeleteDeviceSafe ==
  ASSUME IInv, DeleteDevice, UNCHANGED syn
  PROVE  Safe'
<1>1. /\ rec.pc = "deleteDevice"
      /\ rec \in Worker /\ rec.key \in KubeNames /\ rec.d \in Device
      /\ target \in EdgeNames
      /\ UNCHANGED <<cache, kube, current>> /\ ApiUnchanged
  BY Busy DEF DeleteDevice, ApiUnchanged
<1>2. edge' = [edge EXCEPT ![target] = NoDevice] \/ edge' = edge
  BY DEF DeleteDevice
<1>3. OwnersKept
  BY <1>1, <1>2, KubeType DEF OwnersKept, OwnedBy
<1>4. StoredIsSafe'
  BY <1>1, <1>3, ApiUnchangedFollows, WorkerStored
<1>5. rec.key \in Steady /\ Exists(rec.key) =>
        /\ kube[rec.key].deleting /\ kube[rec.key].finalizer
        /\ GetEdgeDeviceName(kube[rec.key]) = target
  BY <1>1 DEF IInv, WorkerIsOfTheCR, DeletingIsGuarded, SameDevice, target
<1>6. CASE Finish(TRUE)
  <2>1. rec'.pc = "finish" /\ rec'.key = rec.key
    BY <1>1, <1>6 DEF Finish, Worker
  <2> QED
    BY <1>1, <1>4, <1>5, <2>1, FinishSafe DEF Safe, Exists
<1>7. CASE rec' = [rec EXCEPT !.pc = "removeFinalizer"] /\ edge'[target] = NoDevice
  <2>1. rec'.pc = "removeFinalizer" /\ rec'.key = rec.key /\ rec'.d = rec.d
    BY <1>1, <1>7 DEF Worker
  <2>2. CASE rec.key \notin Steady
    BY <1>4, <2>1, <2>2 DEF Safe, WorkerIsOfTheCR
  <2>3. CASE rec.key \in Steady
    <3>1. \A e \in EdgeNames : edge[e] # NoDevice /\ edge[e].owner = rec.key => e = target
      BY <1>1, <1>5, <2>3 DEF IInv, OwnedDeviceIsGuarded, OwnedBy
    <3>2. (OwnedBy(rec.key) = {})'
      BY <1>1, <1>2, <1>7, <2>1, <3>1, KubeType DEF OwnedBy
    <3>3. cache[rec.key] # NoCR => cache[rec.key].deleting
      BY <1>1, <2>3 DEF IInv, WorkerIsOfTheCR
    <3>4. WorkerIsOfTheCR'
      BY <1>1, <1>5, <2>1, <2>3, <3>2, <3>3
         DEF WorkerIsOfTheCR, Working, Exists, SameDevice, GetEdgeDeviceName, target
    <3> QED
      BY <1>4, <3>4 DEF Safe
  <2> QED
    BY <2>2, <2>3
<1>8. \/ Finish(TRUE)
      \/ rec' = [rec EXCEPT !.pc = "removeFinalizer"] /\ edge'[target] = NoDevice
  BY <1>1, KubeType DEF DeleteDevice
<1> QED
  BY <1>6, <1>7, <1>8

LEMMA RemoveFinalizerSafe ==
  ASSUME IInv, RemoveFinalizer, UNCHANGED syn
  PROVE  Safe'
<1>1. /\ rec.pc = "removeFinalizer"
      /\ rec \in Worker /\ rec.key \in KubeNames
      /\ UNCHANGED <<cache, edge>>
      /\ Exists(rec.key) /\ (kube[rec.key].deleting \/ rec.key \in Steady) =>
           kube[rec.key].deleting /\ kube[rec.key].finalizer
  BY Busy DEF RemoveFinalizer, IInv, WorkerIsOfTheCR, DeletingIsGuarded
<1>2. OwnersKept
  BY <1>1 DEF OwnersKept, OwnedBy
<1>3. CASE (Finish(TRUE) \/ Finish(FALSE)) /\ ApiUnchanged
  <2>1. rec'.pc = "finish" /\ rec'.key = rec.key
    BY <1>1, <1>3 DEF Finish, Worker
  <2> QED
    BY <1>1, <1>2, <1>3, <2>1, ApiUnchangedFollows, WorkerStored, FinishSafe
       DEF Safe, ApiUnchanged, Exists
<1>4. CASE Exists(rec.key) /\ kube[rec.key].deleting /\ Store(rec.key, NoCR, {}) /\ Finish(FALSE)
  <2>1. rec'.pc = "finish" /\ rec'.key = rec.key
    BY <1>1, <1>4 DEF Finish, Worker
  <2>2. Follows(rec.key, NoCR)
    BY <1>1, <2>1 DEF Follows, FollowsSteadily, LetGo
  <2>3. CRsFollow /\ CopiesFollow
    BY <1>1, <1>4, <2>2, StoreFollows
  <2>4. kube'[rec.key] = NoCR
    BY <1>1, <1>4, KubeType DEF Store
  <2> QED
    BY <1>1, <1>2, <2>1, <2>3, <2>4, WorkerStored, FinishSafe DEF Safe, Exists
<1>5. CASE /\ Exists(rec.key) /\ ~kube[rec.key].deleting
           /\ Patched([kube[rec.key] EXCEPT !.finalizer = FALSE])
  <2> DEFINE cr == [kube[rec.key] EXCEPT !.finalizer = FALSE]
  <2>1. rec.key \notin Steady /\ kube[rec.key] \in Device
    BY <1>1, <1>5, KubeType DEF Exists
  <2>2. cr \in Device /\ cr.deleting = kube[rec.key].deleting
    <3>1. FALSE \in BOOLEAN
      OBVIOUS
    <3> QED
      BY <2>1, <3>1, DeviceType, DeviceFields
  <2> HIDE DEF cr
  <2>3. Follows(rec.key, cr)
    BY <1>5, <2>1, <2>2 DEF Follows
  <2>4. CRsFollow /\ CopiesFollow
    BY <1>1, <1>5, <2>3, PutFollows DEF Patched, cr
  <2>5. rec'.key = rec.key
    BY <1>1, <1>5, <2>2, PatchedStores DEF cr
  <2>6. WorkerIsOfTheCR'
    BY <2>1, <2>5 DEF WorkerIsOfTheCR
  <2> QED
    BY <1>1, <1>2, <2>4, <2>6, WorkerStored DEF Safe
<1> QED
  BY <1>1, <1>3, <1>4, <1>5 DEF RemoveFinalizer

(* The worker still has the CR it began with, after whichever step.        *)
Stays ==
  /\ rec'.key = rec.key /\ GetEdgeDeviceName(rec'.d) = target
  /\ rec'.pc \in Working \cup {"finish", "panicked"}

LEMMA WorkSafe ==
  ASSUME IInv, rec.pc \in Working, CRsFollow, CopiesFollow, OwnersKept, Stays,
         UNCHANGED <<cache, syn>>
  PROVE  Safe'
  BY WorkerStored, WorkOn DEF Safe, Stays

LEMMA FoundStays ==
  ASSUME IInv, rec.pc \in Working, NEW b, Found(b)
  PROVE  Stays
<1>1. rec \in Worker /\ rec.d \in Device
  BY Busy DEF Working
<1>2. PICK s : rec' = [rec EXCEPT !.pc = "writeSynced", !.d = [rec.d EXCEPT !.status = s]]
  BY <1>1 DEF Found
<1>3. /\ rec'.pc = "writeSynced" /\ rec'.key = rec.key
      /\ rec'.d = [rec.d EXCEPT !.status = s]
  BY <1>1, <1>2 DEF Worker
<1> QED
  BY <1>1, <1>3, DeviceFields DEF Stays, target, GetEdgeDeviceName, Working

LEMMA FinishStays ==
  ASSUME IInv, rec.pc \in Working, NEW r, Finish(r) \/ \E s : FinishWith(s, r)
  PROVE  Stays
<1>1. rec \in Worker /\ rec.d \in Device
  BY Busy DEF Working
<1>2. CASE Finish(r)
  BY <1>1, <1>2 DEF Finish, Worker, Stays, target
<1>3. CASE \E s : FinishWith(s, r)
  <2>1. PICK s : FinishWith(s, r)
    BY <1>3
  <2>2. rec' = [rec EXCEPT !.pc = "finish", !.requeue = r, !.d = [rec.d EXCEPT !.status = s]]
    BY <1>1, <2>1 DEF FinishWith
  <2>3. rec'.pc = "finish" /\ rec'.key = rec.key /\ rec'.d = [rec.d EXCEPT !.status = s]
    BY <1>1, <2>2 DEF Worker
  <2> QED
    BY <1>1, <2>3, DeviceFields DEF Stays, target, GetEdgeDeviceName
<1> QED
  BY <1>2, <1>3

(* A status may be stored if it is not synced, or the CR is guarded.       *)
LEMMA StatusFollows ==
  ASSUME IInv, NEW n \in KubeNames, NEW s \in DeviceStatus, Exists(n),
         n \in Steady /\ s.synced => kube[n].finalizer
  PROVE  Follows(n, WithStatus(n, s))
<1>1. kube[n] \in Device /\ Follows(n, kube[n])
  BY SameFollows, KubeType DEF Exists
<1>2. WithStatus(n, s) \in Device
  BY <1>1, DeviceType DEF WithStatus
<1> QED
  BY <1>1, <1>2, DeviceFields, AbsenceAssumption
     DEF Follows, FollowsSteadily, Exists, GetEdgeDeviceName, WithStatus

LEMMA GetDeviceSafe ==
  ASSUME IInv, GetDevice, UNCHANGED syn
  PROVE  Safe'
<1>1. rec.pc \in Working /\ UNCHANGED <<cache, edge>> /\ ApiUnchanged
  BY DEF GetDevice, Working
<1>2. rec \in Worker /\ rec.d \in Device
  BY <1>1, Busy DEF Working
<1>3. Stays
  <2>1. CASE Found(TRUE) \/ Found(FALSE)
    BY <1>1, <2>1, FoundStays
  <2>2. CASE rec' = [rec EXCEPT !.pc = "createDevice"]
    BY <1>2, <2>2 DEF Stays, Worker, Working, target
  <2>3. CASE FinishWith([rec.d.status EXCEPT !.syncedCondition = "unreachable"], FALSE)
    BY <1>1, <2>3, FinishStays
  <2> QED
    BY <2>1, <2>2, <2>3 DEF GetDevice
<1> QED
  BY <1>1, <1>3, ApiUnchangedFollows, WorkSafe DEF OwnersKept, OwnedBy

(* A device is made for the CR the worker has, which is guarded.           *)
LEMMA CreateDeviceSafe ==
  ASSUME IInv, CreateDevice, UNCHANGED syn
  PROVE  Safe'
<1>1. rec.pc = "createDevice" /\ rec.pc \in Working /\ UNCHANGED cache /\ ApiUnchanged
  BY DEF CreateDevice, Working
<1>2. rec \in Worker /\ rec.key \in KubeNames /\ rec.d \in Device /\ target \in EdgeNames
  BY <1>1, Busy DEF Working
<1>3. CRsFollow /\ CopiesFollow
  BY <1>1, ApiUnchangedFollows
<1>4. Stays
  <2>1. CASE Found(TRUE)
    BY <1>1, <2>1, FoundStays
  <2>2. CASE CreateFailed
    BY <1>1, <2>2, FinishStays DEF CreateFailed
  <2> QED
    BY <2>1, <2>2 DEF CreateDevice
<1>5. rec.key \in Steady =>
        /\ Exists(rec.key) /\ kube[rec.key].finalizer
        /\ GetEdgeDeviceName(kube[rec.key]) = target
  BY <1>1 DEF IInv, WorkerIsOfTheCR, SameDevice, target
<1>6. OwnedDeviceIsGuarded'
  <2>1. CASE UNCHANGED edge
    BY <1>3, <2>1, OwnedGuarded DEF OwnersKept, OwnedBy
  <2>2. CASE AddToEdge
    <3>1. toEdgeXDevice(rec.d, rec.key).owner = rec.key
      BY DEF toEdgeXDevice
    <3>2. \A n \in KubeNames : OwnedBy(n)' \subseteq
            OwnedBy(n) \cup (IF n = rec.key THEN {target} ELSE {})
      BY <1>2, <2>2, <3>1, KubeType DEF AddToEdge, OwnedBy
    <3> QED
      BY <1>1, <1>5, <3>2, SteadyNames
         DEF IInv, OwnedDeviceIsGuarded, ApiUnchanged, Exists, GetEdgeDeviceName
  <2> QED
    BY <2>1, <2>2 DEF CreateDevice
<1>7. SyncedIsGuarded' /\ DeletingIsGuarded' /\ CacheIsOfTheCR' /\ CurrentCacheIsExact'
      /\ SyncerCopyIsGuarded'
  BY <1>1, <1>3, CRsGuarded, CacheFollows, SyncerFollows
<1> QED
  BY <1>1, <1>3, <1>4, <1>6, <1>7, WorkOn DEF Safe, StoredIsSafe, Stays

(* The CR the worker works on exists and is guarded. *)
LEMMA WorkerGuarded ==
  ASSUME IInv, rec.pc \in Working
  PROVE  /\ rec.key \in KubeNames
         /\ rec.key \in Steady => Exists(rec.key) /\ kube[rec.key].finalizer
  BY Busy DEF IInv, WorkerIsOfTheCR, Working

LEMMA WriteSyncedSafe ==
  ASSUME IInv, WriteSynced, UNCHANGED syn
  PROVE  Safe'
<1>1. rec.pc \in Working /\ UNCHANGED <<cache, edge>>
  BY DEF WriteSynced, Working
<1>2. rec.d.status \in DeviceStatus
  BY <1>1, Busy, DeviceType DEF Working
<1>3. Stays
  BY <1>1, FinishStays DEF WriteSynced
<1>4. CRsFollow /\ CopiesFollow
  <2>1. CASE /\ StatusReply(rec.key, "reconciler") = "ok"
             /\ Put(rec.key, WithStatus(rec.key, rec.d.status), "reconciler")
    <3>1. Exists(rec.key)
      BY <2>1 DEF StatusReply
    <3> QED
      BY <1>1, <1>2, <2>1, <3>1, WorkerGuarded, StatusFollows, PutFollows
  <2>2. CASE ApiUnchanged
    BY <2>2, ApiUnchangedFollows
  <2> QED
    BY <2>1, <2>2 DEF WriteSynced
<1> QED
  BY <1>1, <1>3, <1>4, WorkSafe DEF OwnersKept, OwnedBy

LEMMA WriteStatusSafe ==
  ASSUME IInv, WriteStatus, UNCHANGED syn
  PROVE  Safe'
<1>1. rec.pc \in Working /\ UNCHANGED <<cache, edge>>
  BY DEF WriteStatus, Working
<1>2. rec.newStatus \in DeviceStatus
  BY <1>1, Busy DEF Working, Worker
<1>3. Stays
  BY <1>1, FinishStays DEF WriteStatus
<1>4. CRsFollow /\ CopiesFollow
  <2>1. CASE /\ StatusReply(rec.key, "reconciler") = "ok"
             /\ Put(rec.key, WithStatus(rec.key, rec.newStatus), "reconciler")
    <3>1. Exists(rec.key)
      BY <2>1 DEF StatusReply
    <3> QED
      BY <1>1, <1>2, <2>1, <3>1, WorkerGuarded, StatusFollows, PutFollows
  <2>2. CASE ApiUnchanged
    BY <2>2, ApiUnchangedFollows
  <2> QED
    BY <2>1, <2>2 DEF WriteStatus
<1> QED
  BY <1>1, <1>3, <1>4, WorkSafe DEF OwnersKept, OwnedBy

(* A device whose state or values are written keeps its owner.             *)
LEMMA SameOwner ==
  ASSUME TypeInv, NEW e \in EdgeNames, edge[e] # NoDevice,
         NEW d, d.owner = edge[e].owner, edge' = [edge EXCEPT ![e] = d]
  PROVE  OwnersKept
  BY Typed DEF OwnersKept, OwnedBy

LEMMA PatchKeepsOwner ==
  ASSUME TypeInv, PatchEdge \/ UNCHANGED edge
  PROVE  OwnersKept
<1>1. CASE UNCHANGED edge
  BY <1>1 DEF OwnersKept, OwnedBy
<1>2. CASE PatchEdge /\ Addressed
  <2> DEFINE e == rec.key
             d == [edge[e] EXCEPT
                     !.adminState = toEdgeXAdminState(wantedAdmin),
                     !.operatingState = toEdgeXOperatingState(wantedOperating)]
  <2>1. e \in EdgeNames /\ edge[e] # NoDevice /\ edge[e] \in EdgeDevice
    BY <1>2, Typed DEF Addressed
  <2>2. edge' = [edge EXCEPT ![e] = d]
    BY <1>2, <2>1, Typed DEF PatchEdge
  <2>3. d.owner = edge[e].owner
    BY <2>1 DEF EdgeDevice
  <2> QED
    BY <2>1, <2>2, <2>3, SameOwner
<1> QED
  BY <1>1, <1>2 DEF PatchEdge

LEMMA SetKeepsOwner ==
  ASSUME TypeInv, NEW e \in EdgeNames, edge[e] # NoDevice, NEW p \in Props, NEW v,
         edge' = [edge EXCEPT ![e].values[p] = v]
  PROVE  OwnersKept
<1>1. edge[e] \in EdgeDevice
  BY Typed
<1>2. edge' = [edge EXCEPT ![e] = [edge[e] EXCEPT !.values[p] = v]]
  OBVIOUS
<1>3. [edge[e] EXCEPT !.values[p] = v].owner = edge[e].owner
  BY <1>1 DEF EdgeDevice
<1> QED
  BY <1>1, <1>2, <1>3, SameOwner

LEMMA UpdateDeviceSafe ==
  ASSUME IInv, UpdateDevice, UNCHANGED syn
  PROVE  Safe'
<1>1. rec.pc \in Working /\ UNCHANGED cache /\ ApiUnchanged
  BY DEF UpdateDevice, Working
<1>2. OwnersKept
  BY PatchKeepsOwner DEF UpdateDevice, IInv
<1>3. Stays
  <2>1. CASE AfterPatch
    <3>1. rec \in Worker
      BY <1>1, Busy DEF Working
    <3>2. /\ rec'.key = rec.key /\ rec'.d = rec.d
          /\ rec'.pc \in {"properties", "writeStatus"}
      BY <2>1, <3>1 DEF AfterPatch, Worker
    <3> QED
      BY <3>2 DEF Stays, Working, target
  <2>2. CASE UpdateFailed
    BY <1>1, <2>2, FinishStays DEF UpdateFailed
  <2> QED
    BY <2>1, <2>2 DEF UpdateDevice
<1> QED
  BY <1>1, <1>2, <1>3, ApiUnchangedFollows, WorkSafe

LEMMA NextPropertyStays ==
  ASSUME IInv, rec.pc \in Working, NEW p, NEW s, NEW made, NEW failed,
         NextProperty(p, s, made, failed)
  PROVE  Stays
<1>1. rec \in Worker
  BY Busy DEF Working
<1>2. rec'.key = rec.key /\ rec'.d = rec.d /\ rec'.pc \in {"properties", "writeStatus"}
  BY <1>1 DEF NextProperty, Worker
<1> QED
  BY <1>2 DEF Stays, Working, target

LEMMA GotPropertyStays ==
  ASSUME IInv, rec.pc \in Working, NEW p, NEW entry, GotProperty(p, entry)
  PROVE  Stays
<1> DEFINE s == IF rec.mapMade
                THEN [rec.newStatus EXCEPT !.deviceProperties[p] = entry]
                ELSE rec.newStatus
<1>1. CASE NextProperty(p, s, TRUE, FALSE)
  <2> HIDE DEF s
  <2> QED
    BY <1>1, NextPropertyStays
<1>2. CASE rec' = [rec EXCEPT !.pc = "writeProperty", !.property = p,
                              !.newStatus = s, !.mapMade = TRUE]
  <2> HIDE DEF s
  <2>1. rec \in Worker
    BY Busy DEF Working
  <2>2. rec'.key = rec.key /\ rec'.d = rec.d /\ rec'.pc = "writeProperty"
    BY <1>2, <2>1 DEF Worker
  <2> QED
    BY <2>2 DEF Stays, Working, target
<1> QED
  BY <1>1, <1>2 DEF GotProperty

LEMMA GetPropertyStateSafe ==
  ASSUME IInv, NEW p \in Props, GetPropertyState(p), UNCHANGED syn
  PROVE  Safe'
<1>1. rec.pc \in Working /\ UNCHANGED <<cache, edge>> /\ ApiUnchanged
  BY DEF GetPropertyState, Working
<1>2. Stays
  <2>1. CASE ReadFailed(p)
    BY <1>1, <2>1, NextPropertyStays DEF ReadFailed
  <2>2. CASE \E entry : GotProperty(p, entry)
    BY <1>1, <2>2, GotPropertyStays
  <2>3. CASE Panic
    <3>1. rec \in Worker
      BY <1>1, Busy DEF Working
    <3>2. rec'.key = rec.key /\ rec'.d = rec.d /\ rec'.pc = "finish"
      BY <2>3, <3>1 DEF Panic, Worker
    <3> QED
      BY <3>2 DEF Stays, target
  <2>4. CASE rec' = [rec EXCEPT !.pc = "readProperty", !.property = p]
    <3>1. rec \in Worker
      BY <1>1, Busy DEF Working
    <3>2. rec'.key = rec.key /\ rec'.d = rec.d /\ rec'.pc = "readProperty"
      BY <2>4, <3>1 DEF Worker
    <3> QED
      BY <3>2 DEF Stays, Working, target
  <2> QED
    BY <2>1, <2>2, <2>3, <2>4 DEF GetPropertyState
<1> QED
  BY <1>1, <1>2, ApiUnchangedFollows, WorkSafe DEF OwnersKept, OwnedBy

LEMMA ReadPropertySafe ==
  ASSUME IInv, ReadProperty, UNCHANGED syn
  PROVE  Safe'
<1>1. rec.pc \in Working /\ UNCHANGED <<cache, edge>> /\ ApiUnchanged
  BY DEF ReadProperty, Working
<1>2. Stays
  <2>1. CASE ReadFailed(rec.property)
    BY <1>1, <2>1, NextPropertyStays DEF ReadFailed
  <2>2. CASE \E entry : GotProperty(rec.property, entry)
    BY <1>1, <2>2, GotPropertyStays
  <2> QED
    BY <2>1, <2>2 DEF ReadProperty
<1> QED
  BY <1>1, <1>2, ApiUnchangedFollows, WorkSafe DEF OwnersKept, OwnedBy

LEMMA getPropertyPutSafe ==
  ASSUME IInv, getPropertyPut, UNCHANGED syn
  PROVE  Safe'
<1>1. rec.pc \in Working /\ UNCHANGED <<cache, edge>> /\ ApiUnchanged
  BY DEF getPropertyPut, Working
<1>2. Stays
  <2>1. CASE NotSet
    BY <1>1, <2>1, NextPropertyStays DEF NotSet
  <2>2. CASE rec' = [rec EXCEPT !.pc = "putProperty"]
    <3>1. rec \in Worker
      BY <1>1, Busy DEF Working
    <3>2. rec'.key = rec.key /\ rec'.d = rec.d /\ rec'.pc = "putProperty"
      BY <2>2, <3>1 DEF Worker
    <3> QED
      BY <3>2 DEF Stays, Working, target
  <2> QED
    BY <2>1, <2>2 DEF getPropertyPut
<1> QED
  BY <1>1, <1>2, ApiUnchangedFollows, WorkSafe DEF OwnersKept, OwnedBy

LEMMA UpdatePropertyStateSafe ==
  ASSUME IInv, UpdatePropertyState, UNCHANGED syn
  PROVE  Safe'
<1>1. rec.pc \in Working /\ UNCHANGED cache /\ ApiUnchanged
  BY DEF UpdatePropertyState, Working
<1>2. /\ target \in EdgeNames
      /\ rec.property \in Props
  <2>1. WorkerHasItsCR /\ rec.pc = "putProperty"
    BY DEF UpdatePropertyState, IInv, TypeInv
  <2> QED
    BY <1>1, <2>1, Busy DEF Working, WorkerHasItsCR, Visiting, desiredProperties
<1>3. OwnersKept
  <2>1. CASE /\ Reachable(target)
             /\ edge' = [edge EXCEPT ![target].values[rec.property]
                           = rec.d.spec.desired[rec.property]]
    BY <1>2, <2>1, SetKeepsOwner DEF Reachable, IInv
  <2>2. CASE UNCHANGED edge
    BY <2>2, PatchKeepsOwner DEF IInv
  <2> QED
    BY <2>1, <2>2 DEF UpdatePropertyState
<1>4. Stays
  <2>1. \E s, b : NextProperty(rec.property, s, TRUE, b)
    BY DEF UpdatePropertyState, NotSet
  <2> QED
    BY <1>1, <2>1, NextPropertyStays
<1> QED
  BY <1>1, <1>3, <1>4, ApiUnchangedFollows, WorkSafe

LEMMA DeferredSynced ==
  ASSUME rec.d.status \in DeviceStatus
  PROVE  DeferredStatus \in DeviceStatus /\ DeferredStatus.synced = rec.d.status.synced
<1> DEFINE s == IF rec.d.spec.managed THEN rec.d.status
                ELSE [rec.d.status EXCEPT !.managingCondition = "notManaged"]
<1>1. s \in DeviceStatus /\ s.synced = rec.d.status.synced
  <2>1. [rec.d.status EXCEPT !.managingCondition = "notManaged"] \in DeviceStatus
    BY StatusType DEF ManagingConditions
  <2>2. [rec.d.status EXCEPT !.managingCondition = "notManaged"].synced = rec.d.status.synced
    BY DEF DeviceStatus
  <2> QED
    BY <2>1, <2>2
<1>2. Summary(s) \in {"none", "True", "False"}
  BY <1>1, StatusType DEF Summary
<1>3. DeferredStatus = [s EXCEPT !.ready = Summary(s)]
  BY DEF DeferredStatus
<1> HIDE DEF s
<1>4. [s EXCEPT !.ready = Summary(s)] \in DeviceStatus
  BY <1>1, <1>2, StatusType
<1>5. [s EXCEPT !.ready = Summary(s)].synced = s.synced
  BY <1>1 DEF DeviceStatus
<1> QED
  BY <1>1, <1>3, <1>4, <1>5

LEMMA ReturnSafe ==
  ASSUME IInv, Return, UNCHANGED syn
  PROVE  Safe'
<1>1. /\ rec.pc = "finish" /\ UNCHANGED <<cache, edge>>
      /\ rec'.pc \in {"idle", "panicked"}
  BY DEF Return, LeftWorker, IdleWorker
<1>2. rec.key \in KubeNames /\ rec.d.status \in DeviceStatus
  BY <1>1, Busy, DeviceType
<1>3. CRsFollow /\ CopiesFollow
  <2>1. CASE /\ StatusReply(rec.key, "reconciler") = "ok"
             /\ PutLast(rec.key, WithStatus(rec.key, DeferredStatus), "reconciler")
    <3>1. Exists(rec.key)
      BY <2>1 DEF StatusReply
    <3>2. rec.key \in Steady /\ DeferredStatus.synced => kube[rec.key].finalizer
      BY <1>1, <1>2, <3>1, DeferredSynced DEF IInv, WorkerIsOfTheCR
    <3>3. "reconciler" \in Holders
      BY DEF Holders
    <3> QED
      BY <1>1, <1>2, <2>1, <3>1, <3>2, <3>3, DeferredSynced, StatusFollows, PutFollows
  <2>2. CASE Forget(rec.key, "reconciler")
    BY <1>2, <2>2, ForgetFollows
  <2> QED
    BY <2>1, <2>2 DEF Return
<1>4. WorkerIsOfTheCR'
  BY <1>1 DEF WorkerIsOfTheCR, Working
<1> QED
  BY <1>1, <1>3, <1>4, WorkerStored DEF Safe, OwnersKept, OwnedBy

LEMMA ReconcilerSafe ==
  ASSUME IInv, ReconcilerStep, UNCHANGED syn
  PROVE  Safe'
  BY AddFinalizerSafe, DeleteDeviceSafe, RemoveFinalizerSafe, GetDeviceSafe,
     CreateDeviceSafe, WriteSyncedSafe, UpdateDeviceSafe, UpdatePropertyStateSafe,
     WriteStatusSafe, GetPropertyStateSafe, ReadPropertySafe, getPropertyPutSafe, ReturnSafe
  DEF ReconcilerStep

(***************************************************************************)
(* The syncer.                                                             *)
(***************************************************************************)
(* A step of the syncer that leaves the edge alone.                        *)
LEMMA SyncerSafe ==
  ASSUME IInv, CRsFollow, CopiesFollow, CopiesKept, UNCHANGED <<cache, edge, rec>>
  PROVE  Safe'
<1>1. OwnersKept
  BY DEF OwnersKept, OwnedBy
<1> QED
  BY <1>1, StoredFollows, WorkerFollows DEF Safe

LEMMA RoundType ==
  ASSUME IInv
  PROVE  syn \in Round
  BY KubeType DEF SyncerTypeOK

(* What a round goes on with has no copies but those it had.               *)
LEMMA ContinueKeeps ==
  ASSUME NEW r,
         \A n \in KubeNames : r.copy[n] # NoCR => syn.copy[n] # NoCR /\ r.copy[n] = syn.copy[n],
         Continue(r)
  PROVE  CopiesKept
  BY DEF Continue, IdleRound, CopiesKept

LEMMA ListEdgeDevicesSafe ==
  ASSUME IInv, ListEdgeDevices, UNCHANGED rec
  PROVE  Safe'
<1>1. syn'.copy = syn.copy
  <2>1. \/ \E listed : syn' = [syn EXCEPT !.pc = "listed", !.edgeDevices = listed]
        \/ syn' = [syn EXCEPT !.pc = "listed"]
        \/ syn' = syn
    BY DEF ListEdgeDevices
  <2> QED
    BY <2>1, RoundType DEF Round
<1>2. UNCHANGED <<cache, edge>> /\ ApiUnchanged
  BY DEF ListEdgeDevices
<1> QED
  BY <1>1, <1>2, ApiUnchangedFollows, SyncerSafe DEF CopiesKept

(* t tells the same as s of synced and the conditions. *)
SameMarks(s, t) ==
  /\ t.synced = s.synced /\ t.ready = s.ready
  /\ t.syncedCondition = s.syncedCondition /\ t.managingCondition = s.managingCondition

(* The copies a round takes from the cache, with the states of the list of *)
(* EdgeX, are current if the cache is.                                     *)
LEMMA ListedCopies ==
  ASSUME syn \in Round, cache \in [KubeNames -> Device \cup {NoCR}], ListKubeDevices
  PROVE  \E both \in SUBSET KubeNames :
           /\ \A n \in KubeNames : syn'.copy[n] # NoCR =>
                n \in both /\ SameMarks(cache[n].status, syn'.copy[n].status)
           /\ current' = [n \in KubeNames |->
                IF n \in both THEN ReadFromCache(n, "syncer") ELSE current[n] \ {"syncer"}]
           /\ \A n \in both : cache[n] # NoCR
<1>1. PICK S \in Representatives :
        LET both == {n \in S : OnEdge(n)}
            missing == {e \in EdgeNames : /\ syn.edgeDevices[e] # NoDevice
                                          /\ \A n \in S : GetEdgeDeviceName(cache[n]) # e}
        IN  /\ Continue([syn EXCEPT
                  !.pc = "apply",
                  !.redundantEdge = missing,
                  !.edgeDevices = [e \in EdgeNames |->
                                     IF e \in missing THEN @[e] ELSE NoDevice],
                  !.redundantKube = {n \in S : cache[n].status.synced /\ ~OnEdge(n)},
                  !.toRead = IF Props = {} THEN {} ELSE both, !.synced = both,
                  !.copy = [n \in KubeNames |->
                              IF n \in both THEN completeUpdateContent(n) ELSE NoCR]])
            /\ current' = [n \in KubeNames |->
                  IF n \in both THEN ReadFromCache(n, "syncer")
                  ELSE current[n] \ {"syncer"}]
  BY DEF ListKubeDevices
<1> DEFINE both == {n \in S : OnEdge(n)}
           missing == {e \in EdgeNames : /\ syn.edgeDevices[e] # NoDevice
                                         /\ \A n \in S : GetEdgeDeviceName(cache[n]) # e}
           kept == [e \in EdgeNames |-> IF e \in missing THEN syn.edgeDevices[e] ELSE NoDevice]
           copies == [n \in KubeNames |->
                        IF n \in both THEN completeUpdateContent(n) ELSE NoCR]
           gone == {n \in S : cache[n].status.synced /\ ~OnEdge(n)}
           reads == IF Props = {} THEN {} ELSE both
           r == [syn EXCEPT !.pc = "apply", !.redundantEdge = missing, !.edgeDevices = kept,
                            !.redundantKube = gone, !.toRead = reads, !.synced = both,
                            !.copy = copies]
<1>2. S \subseteq KubeNames /\ \A n \in S : cache[n] # NoCR
  BY DEF Representatives, OwnCRs
<1>3. Continue(r)
  BY <1>1, Zenon DEF Round
<1>4. r.copy = copies
  <2> HIDE DEF missing, both, gone, reads, kept, copies
  <2> QED
    BY DEF Round
<1>5. \A n \in KubeNames : syn'.copy[n] = NoCR \/ syn'.copy[n] = copies[n]
  <2> HIDE DEF r, copies
  <2> QED
    BY <1>3, <1>4 DEF Continue, IdleRound
<1>6. \A n \in both : SameMarks(cache[n].status, completeUpdateContent(n).status)
  <2> SUFFICES ASSUME NEW n \in both
               PROVE  SameMarks(cache[n].status, completeUpdateContent(n).status)
    OBVIOUS
  <2>1. cache[n].status \in DeviceStatus
    BY <1>2, DeviceType
  <2>2. \A a, o : SameMarks(cache[n].status,
                    [cache[n].status EXCEPT !.adminState = a, !.operatingState = o])
    BY <2>1 DEF DeviceStatus, SameMarks
  <2> QED
    BY <2>2 DEF completeUpdateContent
<1>7. \A n \in KubeNames : syn'.copy[n] # NoCR =>
        n \in both /\ SameMarks(cache[n].status, syn'.copy[n].status)
  <2> HIDE DEF both
  <2> QED
    BY <1>5, <1>6
<1>8. both \in SUBSET KubeNames /\ \A n \in both : cache[n] # NoCR
  BY <1>2
<1> QED
  BY <1>1, <1>7, <1>8

(* The copies a round takes from the cache are of the stored CR as long as *)
(* they are current.                                                       *)
LEMMA ListKubeDevicesSafe ==
  ASSUME IInv, ListKubeDevices, UNCHANGED rec
  PROVE  Safe'
<1>1. UNCHANGED <<kube, cache, edge>>
  BY DEF ListKubeDevices
<1>2. PICK both \in SUBSET KubeNames :
        /\ \A n \in KubeNames : syn'.copy[n] # NoCR =>
             n \in both /\ syn'.copy[n].status.synced = cache[n].status.synced
        /\ current' = [n \in KubeNames |->
             IF n \in both THEN ReadFromCache(n, "syncer") ELSE current[n] \ {"syncer"}]
        /\ \A n \in both : cache[n] # NoCR
  <2>1. cache \in [KubeNames -> Device \cup {NoCR}]
    BY DEF IInv, TypeInv, TypeOK, ClusterTypeOK
  <2> QED
    BY <2>1, RoundType, ListedCopies DEF SameMarks
<1>3. \A n \in KubeNames : /\ "cache" \in current'[n] => "cache" \in current[n]
                           /\ n \in both /\ "syncer" \in current'[n] => "cache" \in current[n]
  BY <1>2, KubeType DEF ReadFromCache
<1>4. CurrentCacheIsExact' /\ CacheIsOfTheCR'
  BY <1>1, <1>3, SteadyNames DEF IInv, CurrentCacheIsExact, CacheIsOfTheCR, Exists, SameDevice,
                    GetEdgeDeviceName
<1>5. SyncerCopyIsGuarded'
  BY <1>1, <1>2, <1>3, SteadyNames
     DEF IInv, SyncerCopyIsGuarded, CurrentCacheIsExact, SyncedIsGuarded, Exists
<1>6. CRsFollow /\ OwnersKept
  BY <1>1, UnchangedFollows DEF OwnersKept, OwnedBy
<1> QED
  BY <1>1, <1>4, <1>5, <1>6, CRsGuarded, OwnedGuarded, WorkerFollows DEF Safe, StoredIsSafe

(* Reading the properties of a listed device leaves the marks of its copy. *)
LEMMA ReadingKeeps ==
  ASSUME syn \in Round, NEW n \in KubeNames, syn.copy[n] \in Copy,
         NEW toRead, NEW reading, NEW left, NEW entries,
         syn' = [syn EXCEPT !.toRead = toRead, !.reading = reading, !.unread = left,
                            !.copy[n].status.deviceProperties = entries]
  PROVE  \A m \in KubeNames :
           \/ syn'.copy[m] = syn.copy[m]
           \/ m = n /\ SameMarks(syn.copy[m].status, syn'.copy[m].status)
<1> DEFINE status == [syn.copy[n].status EXCEPT !.deviceProperties = entries]
           c == [syn.copy[n] EXCEPT !.status = status]
           copies == [syn.copy EXCEPT ![n] = c]
<1>1. c.status = status
  <2> HIDE DEF status
  <2> QED
    BY DEF Copy
<1>2. SameMarks(syn.copy[n].status, c.status)
  <2>1. SameMarks(syn.copy[n].status, status)
    BY DEF Copy, DeviceStatus, SameMarks
  <2> QED
    BY <1>1, <2>1
<1>3. syn' = [syn EXCEPT !.toRead = toRead, !.reading = reading, !.unread = left,
                         !.copy = copies]
  OBVIOUS
<1>4. syn'.copy = copies
  <2> HIDE DEF copies
  <2>1. syn \in Round
    OBVIOUS
  <2> QED
    BY ONLY <1>3, <2>1 DEF Round
<1> HIDE DEF c
<1> QED
  BY <1>2, <1>4 DEF Round

LEMMA ReadingSafe ==
  ASSUME IInv, ApiUnchanged, UNCHANGED <<cache, edge, rec>>,
         NEW n \in syn.toRead, syn.pc = "apply",
         NEW toRead, NEW reading, NEW left, NEW entries,
         syn' = [syn EXCEPT !.toRead = toRead, !.reading = reading, !.unread = left,
                            !.copy[n].status.deviceProperties = entries]
  PROVE  Safe'
<1>1. syn \in Round /\ n \in KubeNames /\ syn.copy[n] \in Copy /\ syn.copy[n] # NoCR
  BY RoundType DEF IInv, TypeInv, RoundHasItsCopies, Round
<1>2. \A m \in KubeNames :
        \/ syn'.copy[m] = syn.copy[m]
        \/ m = n /\ SameMarks(syn.copy[m].status, syn'.copy[m].status)
  BY <1>1, ReadingKeeps
<1>3. CopiesKept
  BY <1>1, <1>2 DEF CopiesKept, SameMarks
<1> QED
  BY <1>3, ApiUnchangedFollows, SyncerSafe

LEMMA ListPropertiesStateSafe ==
  ASSUME IInv, NEW n \in KubeNames, ListPropertiesState(n), UNCHANGED rec
  PROVE  Safe'
<1>1. UNCHANGED <<cache, edge>> /\ ApiUnchanged /\ syn.pc = "apply" /\ n \in syn.toRead
  BY DEF ListPropertiesState
<1>2. PICK props :
        syn' = [syn EXCEPT
                 !.toRead = IF props = {} THEN @ \ {n} ELSE @,
                 !.reading = IF props = {} THEN NoName ELSE n,
                 !.unread = props,
                 !.copy[n].status.deviceProperties =
                    [p \in Props |-> IF p \in props THEN "" ELSE "no entry"]]
  BY DEF ListPropertiesState
<1> QED
  BY <1>1, <1>2, ReadingSafe

LEMMA ReadListedPropertySafe ==
  ASSUME IInv, NEW p \in Props, ReadListedProperty(p), UNCHANGED rec
  PROVE  Safe'
<1> DEFINE n == syn.reading
<1>1. UNCHANGED <<cache, edge>> /\ ApiUnchanged
  BY DEF ReadListedProperty
<1>2. syn.pc = "apply" /\ n \in syn.toRead
  BY DEF ReadListedProperty, IInv, TypeInv, RoundHasItsCopies
<1>3. PICK value :
        syn' = [syn EXCEPT
                 !.toRead = IF syn.unread = {p} THEN @ \ {n} ELSE @,
                 !.reading = IF syn.unread = {p} THEN NoName ELSE n,
                 !.unread = @ \ {p},
                 !.copy[n].status.deviceProperties[p] = value]
  BY DEF ReadListedProperty
<1> DEFINE entries == [syn.copy[n].status.deviceProperties EXCEPT ![p] = value]
<1>4. syn' = [syn EXCEPT
               !.toRead = IF syn.unread = {p} THEN @ \ {n} ELSE @,
               !.reading = IF syn.unread = {p} THEN NoName ELSE n,
               !.unread = @ \ {p},
               !.copy[n].status.deviceProperties = entries]
  BY <1>3
<1> HIDE DEF entries
<1> QED
  BY <1>1, <1>2, <1>4, ReadingSafe

LEMMA SyncEdgeToKubeSafe ==
  ASSUME IInv, NEW e \in EdgeNames, SyncEdgeToKube(e, {rec.key}), UNCHANGED rec
  PROVE  Safe'
<1>1. UNCHANGED <<cache, edge>>
  BY DEF SyncEdgeToKube
<1>2. CopiesKept
  <2>1. PICK R : Continue([syn EXCEPT !.redundantEdge = R])
    BY DEF SyncEdgeToKube
  <2>2. [syn EXCEPT !.redundantEdge = R].copy = syn.copy
    BY RoundType DEF Round
  <2> QED
    BY <2>1, <2>2, ContinueKeeps
<1>3. CRsFollow /\ CopiesFollow
  <2>1. CASE ApiUnchanged
    BY <2>1, ApiUnchangedFollows
  <2>2. CASE /\ CanCreate(SyncerName[e], {rec.key})
             /\ Create(SyncerName[e], completeCreateContent(e))
    BY <2>2, CreateFollows, NamesAssumption
  <2> QED
    BY <2>1, <2>2 DEF SyncEdgeToKube
<1> QED
  BY <1>1, <1>2, <1>3, SyncerSafe

LEMMA DeleteRedundantSafe ==
  ASSUME IInv, NEW n \in KubeNames, DeleteRedundant(n), UNCHANGED rec
  PROVE  Safe'
<1>1. UNCHANGED <<cache, edge>>
  BY DEF DeleteRedundant
<1>2. CopiesKept
  <2>1. PICK K : Continue([syn EXCEPT !.redundantKube = K])
    BY DEF DeleteRedundant
  <2>2. [syn EXCEPT !.redundantKube = K].copy = syn.copy
    BY RoundType DEF Round
  <2> QED
    BY <2>1, <2>2, ContinueKeeps
<1>3. CRsFollow /\ CopiesFollow
  BY ApiUnchangedFollows, DeleteFollows DEF DeleteRedundant
<1> QED
  BY <1>1, <1>2, <1>3, SyncerSafe

LEMMA UpdateDeviceStatusSafe ==
  ASSUME IInv, NEW n \in KubeNames, UpdateDeviceStatus(n), UNCHANGED rec
  PROVE  Safe'
<1>1. UNCHANGED <<cache, edge>>
  BY DEF UpdateDeviceStatus
<1>2. CopiesKept
  <2>1. PICK names : Updated(names)
    BY DEF UpdateDeviceStatus
  <2> DEFINE copies == [m \in KubeNames |-> IF m \in names THEN NoCR ELSE syn.copy[m]]
             r == [syn EXCEPT !.synced = syn.synced \ names, !.copy = copies]
  <2>2. Continue(r)
    BY <2>1 DEF Updated
  <2>3. r.copy = copies
    <3> HIDE DEF copies
    <3> QED
      BY RoundType DEF Round
  <2>4. \A m \in KubeNames : copies[m] # NoCR => syn.copy[m] # NoCR /\ copies[m] = syn.copy[m]
    OBVIOUS
  <2> HIDE DEF r, copies
  <2> QED
    BY <2>2, <2>3, <2>4, ContinueKeeps
<1>3. CRsFollow /\ CopiesFollow
  <2>1. CASE Forget(n, "syncer")
    BY <2>1, ForgetFollows
  <2>2. CASE /\ UpdateReply(n) = "ok"
             /\ PutLast(n, WithStatus(n, syn.copy[n].status), "syncer")
    <3>1. Exists(n) /\ "syncer" \in current[n]
      BY <2>2 DEF UpdateReply, StatusReply
    <3>2. syn.copy[n] \in Copy /\ syn.copy[n] # NoCR
      BY RoundType DEF UpdateDeviceStatus, IInv, TypeInv, RoundHasItsCopies, Round
    <3>3. syn.copy[n].status \in DeviceStatus
      BY <3>2 DEF Copy
    <3>4. n \in Steady /\ syn.copy[n].status.synced => kube[n].finalizer
      BY <3>1, <3>2 DEF IInv, SyncerCopyIsGuarded
    <3>5. "syncer" \in Holders
      BY DEF Holders
    <3> QED
      BY <2>2, <3>1, <3>3, <3>4, <3>5, StatusFollows, PutFollows
  <2> QED
    BY <2>1, <2>2 DEF UpdateDeviceStatus
<1> QED
  BY <1>1, <1>2, <1>3, SyncerSafe

LEMMA SyncerStepSafe ==
  ASSUME IInv, SyncerStep({rec.key}), UNCHANGED rec
  PROVE  Safe'
  BY ListEdgeDevicesSafe, ListKubeDevicesSafe, ListPropertiesStateSafe, ReadListedPropertySafe,
     SyncEdgeToKubeSafe, DeleteRedundantSafe, UpdateDeviceStatusSafe
  DEF SyncerStep

(***************************************************************************)
(* The system.                                                             *)
(***************************************************************************)
LEMMA SameSafe ==
  ASSUME IInv, UNCHANGED <<kube, cache, current, edge, rec, syn>>
  PROVE  Safe'
<1>1. CRsFollow /\ CopiesFollow /\ CopiesKept
  BY UnchangedFollows DEF CopiesFollow, CopiesKept
<1> QED
  BY <1>1, SyncerSafe

LEMMA StepSafe ==
  ASSUME IInv, [Next]_vars
  PROVE  IInv'
<1>1. TypeInv'
  BY StepType DEF IInv
<1>2. Safe'
  <2>1. CASE Environment
    BY <2>1, UserSafe, EdgeSafe DEF Environment
  <2>2. CASE \E n \in KubeNames : TakeKey(n)
    BY <2>2, TakeKeySafe DEF TakeKey
  <2>3. CASE \E n \in KubeNames : WatchDelivers(n) \/ WatchBreaks(n)
    BY <2>3, SeenSafe DEF WatchDelivers, WatchBreaks, Deliver, Relist
  <2>4. CASE ReconcilerRuns
    BY <2>4, ReconcilerSafe DEF ReconcilerRuns
  <2>5. CASE SyncerRuns
    BY <2>5, SyncerStepSafe DEF SyncerRuns
  <2>6. CASE InformerResyncs \/ UNCHANGED vars
    BY <2>6, SameSafe DEF InformerResyncs, Resync, vars, clusterVars
  <2>7. CASE Restart
    BY <2>7, RestartSafe
  <2> QED
    BY <2>1, <2>2, <2>3, <2>4, <2>5, <2>6, <2>7 DEF Next
<1> QED
  BY <1>1, <1>2 DEF IInv, Safe, StoredIsSafe

LEMMA InitSafe ==
  ASSUME Init
  PROVE  IInv
<1>1. TypeInv
  BY InitType
<1>2. Safe
  BY SteadyNames, NamesAssumption
     DEF Init, ClusterInit, IdleWorker, IdleRound, Safe, StoredIsSafe, OwnedDeviceIsGuarded,
         OwnedBy, SyncedIsGuarded, DeletingIsGuarded, CacheIsOfTheCR, CurrentCacheIsExact,
         SyncerCopyIsGuarded, WorkerIsOfTheCR, Working, Exists
<1> QED
  BY <1>1, <1>2 DEF IInv, Safe, StoredIsSafe

(* The inductive invariant: what the caches, the worker's copy and the     *)
(* syncer's copies may be relied on for although they are old, through     *)
(* crashes, lost replies and whatever users do: for the names that are not *)
(* used again while the process holds a copy of the CR that had them, and  *)
(* whatever happens under the others.                                      *)
THEOREM Invariance == Spec => []IInv
<1>1. Init => IInv
  BY InitSafe
<1>2. IInv /\ [Next]_vars => IInv'
  BY StepSafe
<1> QED
  BY <1>1, <1>2, PTL DEF Spec

(* No device is left behind on the edge: a device that the controller made *)
(* has its CR, which stands for it and whose finalizer makes the deletion  *)
(* of the CR wait for the deletion of the device.                          *)
THEOREM NothingLeftBehind == Spec => []OwnedDeviceIsGuarded
<1>1. IInv => OwnedDeviceIsGuarded
  BY DEF IInv
<1> QED
  BY <1>1, Invariance, PTL

(* A CR whose status says synced has the finalizer, whichever of the three *)
(* status updates of the process wrote that status and from which copy.    *)
THEOREM SyncedGuarded == Spec => []SyncedIsGuarded
<1>1. IInv => SyncedIsGuarded
  BY DEF IInv
<1> QED
  BY <1>1, Invariance, PTL

(* The reconciler changes a device only for the CR its copy is of: that CR *)
(* is there, guarded, and stands for the device.                           *)
THEOREM UpdatesServe == Spec => UpdatesServeTheCR
<1>1. IInv /\ rec.pc \in {"updateDevice", "putProperty"} /\ rec.key \in Steady =>
        /\ Exists(rec.key) /\ kube[rec.key].finalizer
        /\ GetEdgeDeviceName(kube[rec.key]) = target
  BY DEF IInv, WorkerIsOfTheCR, Working, SameDevice, target
<1>2. IInv => [rec.pc \in {"updateDevice", "putProperty"} /\ rec' # rec
                 /\ edge' # edge /\ rec.key \in Steady =>
                   /\ Exists(rec.key) /\ kube[rec.key].finalizer
                   /\ GetEdgeDeviceName(kube[rec.key]) = target]_<<rec, edge>>
  BY <1>1
<1> QED
  BY <1>2, Invariance, PTL DEF UpdatesServeTheCR
=============================================================================
