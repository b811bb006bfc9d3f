------------------------- MODULE DeviceStatusProofs -------------------------
(***************************************************************************)
(* What the three writers of a CR's status (the two updates of the         *)
(* reconciler and the one of the syncer) preserve, each writing from a     *)
(* copy of its own: synced is never taken back, and Ready tells the truth. *)
(* A copy that is not current is refused by the API server, so it is       *)
(* enough to know what the current copies say.                             *)
(* From that follows the life of a CR, as Lifecycle states it.  Its second *)
(* part relies only on what stays true while another process works on the  *)
(* same CRs; ReplicasProofs uses it for each of two.                       *)
(***************************************************************************)
EXTENDS DeviceOwnershipProofs

LEMMA Types ==
  ASSUME StatusInv
  PROVE  /\ kube \in [KubeNames -> Device \cup {NoCR}]
         /\ cache \in [KubeNames -> Device \cup {NoCR}]
         /\ current \in [KubeNames -> SUBSET Holders]
         /\ ReconcilerTypeOK /\ SyncerTypeOK /\ syn \in Round
  BY DEF StatusInv, TypeInv, TypeOK, ClusterTypeOK, ReconcilerTypeOK, SyncerTypeOK

(***************************************************************************)
(* The writes.                                                             *)
(***************************************************************************)
(* cr may be stored after kube[n].                                         *)
Truthful(n, cr) ==
  cr # NoCR => Honest(cr.status) /\ (Exists(n) /\ kube[n].status.synced => cr.status.synced)

WritesTruthful == \A n \in KubeNames : Truthful(n, kube'[n])

(* No copy of h becomes current, and none stays so if the CR changes.      *)
Outdated(h) ==
  \A n \in KubeNames : h \in current'[n] => h \in current[n] /\ kube'[n] = kube[n]

LEMMA SameTruthful ==
  ASSUME StatusInv, NEW n \in KubeNames
  PROVE  Truthful(n, kube[n])
  BY DEF StatusInv, AllHonest, KubeHonest, Truthful, Exists

LEMMA UnchangedTruthful ==
  ASSUME StatusInv, UNCHANGED kube
  PROVE  WritesTruthful
  BY SameTruthful DEF WritesTruthful

LEMMA StoreTruthful ==
  ASSUME StatusInv, NEW n \in KubeNames, NEW cr, NEW hs, Truthful(n, cr), Store(n, cr, hs)
  PROVE  /\ WritesTruthful /\ \A h \in Holders \ hs : Outdated(h)
         /\ kube'[n] = cr /\ current'[n] = hs
<1>1. \A m \in KubeNames : /\ kube'[m] = IF m = n THEN cr ELSE kube[m]
                           /\ current'[m] = IF m = n THEN hs ELSE current[m]
  BY Types DEF Store
<1> QED
  BY <1>1, SameTruthful DEF WritesTruthful, Outdated

LEMMA ApiUnchangedTruthful ==
  ASSUME StatusInv, ApiUnchanged
  PROVE  WritesTruthful /\ \A h \in Holders : Outdated(h)
  BY UnchangedTruthful DEF ApiUnchanged, Outdated

LEMMA ForgetTruthful ==
  ASSUME StatusInv, NEW n \in KubeNames, NEW g, Forget(n, g)
  PROVE  WritesTruthful /\ \A h \in Holders : Outdated(h)
  BY UnchangedTruthful, Types DEF Forget, Outdated

LEMMA PutTruthful ==
  ASSUME StatusInv, NEW n \in KubeNames, NEW cr, Truthful(n, cr), Put(n, cr, "reconciler")
  PROVE  WritesTruthful /\ Outdated("cache") /\ Outdated("syncer") /\ kube'[n] = cr
<1>1. CASE cr = kube[n]
  BY <1>1, UnchangedTruthful, Types DEF Put, Outdated
<1>2. CASE cr # kube[n]
  BY <1>2, StoreTruthful DEF Put, Holders
<1> QED
  BY <1>1, <1>2

LEMMA PutLastTruthful ==
  ASSUME StatusInv, NEW n \in KubeNames, NEW cr, NEW g, Truthful(n, cr), PutLast(n, cr, g)
  PROVE  WritesTruthful /\ \A h \in Holders : Outdated(h)
  BY StoreTruthful, ForgetTruthful DEF PutLast

LEMMA DeleteTruthful ==
  ASSUME StatusInv, NEW n \in KubeNames, Exists(n), Delete(n)
  PROVE  WritesTruthful /\ \A h \in Holders : Outdated(h)
<1>1. Truthful(n, [kube[n] EXCEPT !.deleting = TRUE])
  BY Types, SameTruthful, DeviceFields DEF Truthful, Exists
<1>2. Truthful(n, NoCR)
  BY DEF Truthful
<1> QED
  BY <1>1, <1>2, StoreTruthful, ApiUnchangedTruthful DEF Delete

LEMMA CreateTruthful ==
  ASSUME StatusInv, NEW n \in KubeNames, NEW s, ~Exists(n), Create(n, s)
  PROVE  WritesTruthful /\ \A h \in Holders : Outdated(h)
<1>1. Truthful(n, NewDevice(s))
  BY DEF Truthful, NewDevice, NewStatus, Honest, Credible
<1> QED
  BY <1>1, StoreTruthful DEF Create

LEMMA StatusTruthful ==
  ASSUME StatusInv, NEW n \in KubeNames, NEW s, Exists(n), Honest(s),
         kube[n].status.synced => s.synced
  PROVE  Truthful(n, WithStatus(n, s)) /\ WithStatus(n, s).status = s
  BY Types, DeviceFields DEF Truthful, Exists, WithStatus

(***************************************************************************)
(* What a step leaves to those who do not take it.                         *)
(***************************************************************************)
LEMMA StoredHonest ==
  ASSUME StatusInv, WritesTruthful, Outdated("cache"), UNCHANGED cache
  PROVE  KubeHonest' /\ CacheHonest' /\ CurrentCacheIsExact'
<1>1. KubeHonest'
  BY DEF WritesTruthful, Truthful, KubeHonest, Exists
<1>2. CacheHonest'
  BY DEF StatusInv, AllHonest, CacheHonest
<1>3. CurrentCacheIsExact'
  BY DEF StatusInv, AllHonest, CurrentCacheIsExact, Outdated
<1> QED
  BY <1>1, <1>2, <1>3

LEMMA OtherWorker ==
  ASSUME StatusInv, Outdated("reconciler"), UNCHANGED rec
  PROVE  WorkerHonest'
<1>1. CASE rec.pc \in {"idle", "panicked"}
  BY <1>1 DEF WorkerHonest
<1>2. CASE rec.pc \notin {"idle", "panicked"}
  <2>1. rec.key \in KubeNames
    BY <1>2, BusyType, Types
  <2> QED
    BY <1>2, <2>1 DEF StatusInv, AllHonest, WorkerHonest, Outdated, Exists
<1> QED
  BY <1>1, <1>2

(* A round that has only copies it had. *)
FewerCopies == \A n \in KubeNames : syn'.copy[n] # NoCR => syn'.copy[n] = syn.copy[n]

LEMMA OtherRound ==
  ASSUME StatusInv, Outdated("syncer"), FewerCopies
  PROVE  RoundHonest'
  BY DEF StatusInv, AllHonest, RoundHonest, Outdated, FewerCopies, Exists

LEMMA OthersHonest ==
  ASSUME StatusInv, WritesTruthful, \A h \in Holders : Outdated(h), FewerCopies,
         UNCHANGED <<cache, rec>>
  PROVE  AllHonest'
  BY StoredHonest, OtherWorker, OtherRound DEF AllHonest, Holders

(***************************************************************************)
(* Users, the edge, the informer, restarts.                                *)
(***************************************************************************)
LEMMA UserHonest ==
  ASSUME StatusInv, NEW n \in KubeNames, UserCreate(n) \/ UserUpdate(n) \/ UserDelete(n)
  PROVE  WritesTruthful /\ AllHonest'
<1>1. WritesTruthful /\ \A h \in Holders : Outdated(h)
  <2>1. CASE UserCreate(n)
    BY <2>1, CreateTruthful DEF UserCreate, CanCreate
  <2>2. CASE UserUpdate(n)
    <3>1. PICK s : Store(n, [kube[n] EXCEPT !.spec = s], {})
      BY <2>2 DEF UserUpdate
    <3>2. Truthful(n, [kube[n] EXCEPT !.spec = s])
      BY <2>2, Types, SameTruthful, DeviceFields DEF UserUpdate, Truthful, Exists
    <3> QED
      BY <3>1, <3>2, StoreTruthful
  <2>3. CASE UserDelete(n)
    BY <2>3, DeleteTruthful DEF UserDelete
  <2> QED
    BY <2>1, <2>2, <2>3
<1>2. UNCHANGED <<cache, rec, syn>>
  BY DEF UserCreate, UserUpdate, UserDelete, UserStep
<1> QED
  BY <1>1, <1>2, OthersHonest DEF FewerCopies

LEMMA SameHonest ==
  ASSUME StatusInv, UNCHANGED <<kube, cache, current, rec, syn>>
  PROVE  WritesTruthful /\ AllHonest'
<1>1. WritesTruthful /\ \A h \in Holders : Outdated(h)
  BY UnchangedTruthful DEF Outdated
<1> QED
  BY <1>1, OthersHonest DEF FewerCopies

LEMMA SeenHonest ==
  ASSUME StatusInv, UNCHANGED <<kube, rec, syn>>, NEW n \in KubeNames,
         cache' = [cache EXCEPT ![n] = kube[n]],
         current' = [current EXCEPT ![n] = @ \cup {"cache"}]
  PROVE  WritesTruthful /\ AllHonest'
<1>1. \A m \in KubeNames :
        /\ cache'[m] = IF m = n THEN kube[n] ELSE cache[m]
        /\ current'[m] = IF m = n THEN current[m] \cup {"cache"} ELSE current[m]
  BY Types
<1>2. WritesTruthful
  BY UnchangedTruthful
<1>3. KubeHonest' /\ CacheHonest' /\ CurrentCacheIsExact'
  BY <1>1 DEF StatusInv, AllHonest, KubeHonest, CacheHonest, CurrentCacheIsExact, Exists
<1>4. Outdated("reconciler") /\ Outdated("syncer")
  BY <1>1 DEF Outdated
<1> QED
  BY <1>2, <1>3, <1>4, OtherWorker, OtherRound DEF AllHonest, FewerCopies

LEMMA RestartHonest ==
  ASSUME StatusInv, Restart
  PROVE  WritesTruthful /\ AllHonest'
<1>1. /\ rec' = IdleWorker /\ syn' = IdleRound /\ cache' = kube /\ kube' = kube
  BY DEF Restart
<1>2. KubeHonest' /\ CacheHonest' /\ CurrentCacheIsExact'
  BY <1>1 DEF StatusInv, AllHonest, KubeHonest, CacheHonest, CurrentCacheIsExact, Exists
<1>3. WorkerHonest' /\ RoundHonest'
  BY <1>1 DEF WorkerHonest, RoundHonest, IdleWorker, IdleRound
<1> QED
  BY <1>1, <1>2, <1>3, UnchangedTruthful DEF AllHonest

(***************************************************************************)
(* Statuses.                                                               *)
(***************************************************************************)
LEMMA StatusFields ==
  ASSUME NEW s \in DeviceStatus, NEW x
  PROVE  /\ LET t == [s EXCEPT !.managingCondition = x]
            IN  /\ t.managingCondition = x
                /\ t.synced = s.synced /\ t.ready = s.ready
                /\ t.syncedCondition = s.syncedCondition
         /\ LET t == [s EXCEPT !.syncedCondition = x]
            IN  /\ t.syncedCondition = x
                /\ t.synced = s.synced /\ t.ready = s.ready
                /\ t.managingCondition = s.managingCondition
         /\ LET t == [s EXCEPT !.ready = x]
            IN  /\ t.ready = x
                /\ t.synced = s.synced /\ t.syncedCondition = s.syncedCondition
                /\ t.managingCondition = s.managingCondition
         /\ LET t == Synced(s, x)
            IN  /\ t.synced = TRUE /\ t.syncedCondition = "True"
                /\ t.ready = s.ready /\ t.managingCondition = s.managingCondition
  BY DEF DeviceStatus, Synced

LEMMA MarksKept ==
  ASSUME NEW s \in DeviceStatus, NEW x, NEW y
  PROVE  /\ SameMarks(s, [s EXCEPT !.adminState = x, !.operatingState = y])
         /\ SameMarks(s, [s EXCEPT !.deviceProperties = x])
         /\ SameMarks(s, [s EXCEPT !.deviceProperties[x] = y])
<1>1. SameMarks(s, [s EXCEPT !.adminState = x, !.operatingState = y])
  BY DEF DeviceStatus, SameMarks
<1>2. SameMarks(s, [s EXCEPT !.deviceProperties = x])
  BY DEF DeviceStatus, SameMarks
<1>3. SameMarks(s, [s EXCEPT !.deviceProperties[x] = y])
  BY DEF DeviceStatus, SameMarks
<1> QED
  BY <1>1, <1>2, <1>3

LEMMA MarksHonest ==
  ASSUME NEW s, NEW t, SameMarks(s, t), Honest(s)
  PROVE  Honest(t) /\ t.synced = s.synced
  BY DEF SameMarks, Honest, Credible

LEMMA SyncedHonest ==
  ASSUME NEW s \in DeviceStatus, Honest(s), NEW b
  PROVE  Honest(Synced(s, b)) /\ Synced(s, b).synced
<1>1. /\ Synced(s, b).synced = TRUE /\ Synced(s, b).syncedCondition = "True"
      /\ Synced(s, b).ready = s.ready
      /\ Synced(s, b).managingCondition = s.managingCondition
  BY DEF Synced, DeviceStatus
<1> QED
  BY <1>1 DEF Honest, Credible

LEMMA FailedCredible ==
  ASSUME NEW s \in DeviceStatus, Credible(s)
  PROVE  /\ \A c \in {"unreachable", "createFailed"} :
              /\ Credible([s EXCEPT !.syncedCondition = c])
              /\ [s EXCEPT !.syncedCondition = c].synced = s.synced
         /\ \A c \in {"notManaged", "updateFailed"} :
              /\ Credible([s EXCEPT !.managingCondition = c])
              /\ [s EXCEPT !.managingCondition = c].synced = s.synced
  BY StatusFields DEF Credible

(* The summary is Ready only over conditions that agree. *)
LEMMA SummaryHonest ==
  ASSUME NEW s \in DeviceStatus, Credible(s)
  PROVE  Honest([s EXCEPT !.ready = Summary(s)])
<1> DEFINE t == [s EXCEPT !.ready = Summary(s)]
           conds == {s.syncedCondition, s.managingCondition} \ {"none"}
<1>1. /\ t.ready = Summary(s) /\ t.synced = s.synced
      /\ t.syncedCondition = s.syncedCondition /\ t.managingCondition = s.managingCondition
  BY StatusFields
<1>2. Summary(s) = IF conds = {} THEN s.ready ELSE IF conds = {"True"} THEN "True" ELSE "False"
  BY DEF Summary
<1>3. Summary(s) = "True" =>
        /\ {s.syncedCondition, s.managingCondition} \subseteq {"none", "True"}
        /\ s.synced
  <2>1. CASE conds = {}
    BY <1>2, <2>1 DEF Credible
  <2>2. CASE conds = {"True"}
    BY <2>2 DEF Credible
  <2>3. CASE conds # {} /\ conds # {"True"}
    BY <1>2, <2>3
  <2> QED
    BY <2>1, <2>2, <2>3
<1> HIDE DEF t
<1> QED
  BY <1>1, <1>3 DEF Honest, Credible, t

LEMMA DeferredHonest ==
  ASSUME rec.d.status \in DeviceStatus, Credible(rec.d.status)
  PROVE  Honest(DeferredStatus) /\ DeferredStatus.synced = rec.d.status.synced
<1> DEFINE s == IF rec.d.spec.managed THEN rec.d.status
                ELSE [rec.d.status EXCEPT !.managingCondition = "notManaged"]
<1>1. s \in DeviceStatus /\ Credible(s) /\ s.synced = rec.d.status.synced
  BY FailedCredible, StatusType DEF ManagingConditions
<1>2. DeferredStatus = [s EXCEPT !.ready = Summary(s)]
  BY DEF DeferredStatus
<1> HIDE DEF s
<1> QED
  BY <1>1, <1>2, SummaryHonest, StatusFields

(***************************************************************************)
(* The worker.                                                             *)
(***************************************************************************)
LEMMA WorkerStep ==
  ASSUME StatusInv, WritesTruthful, Outdated("cache"), Outdated("syncer"),
         UNCHANGED <<cache, syn>>, WorkerHonest'
  PROVE  WritesTruthful /\ AllHonest'
  BY StoredHonest, OtherRound DEF AllHonest, FewerCopies

LEMMA BusyWorker ==
  ASSUME StatusInv, rec.pc \notin {"idle", "panicked"}
  PROVE  /\ rec \in Worker /\ rec.key \in KubeNames /\ rec.d \in Device
         /\ rec.d.status \in DeviceStatus /\ rec.newStatus \in DeviceStatus
         /\ Credible(rec.d.status)
         /\ rec.pc # "finish" => Honest(rec.d.status)
         /\ rec.pc \in {"writeSynced", "updateDevice"} \cup Looping => rec.d.status.synced
         /\ rec.pc \in Looping => Honest(rec.newStatus) /\ rec.newStatus.synced
         /\ "reconciler" \in current[rec.key] /\ Exists(rec.key)
              /\ kube[rec.key].status.synced => rec.d.status.synced
<1>1. rec \in Worker /\ rec.key \in KubeNames /\ rec.d \in Device /\ rec.d.status \in DeviceStatus
  BY BusyType, Types
<1>2. rec.newStatus \in DeviceStatus
  BY <1>1 DEF Worker
<1> QED
  BY <1>1, <1>2 DEF StatusInv, AllHonest, WorkerHonest

(* The worker's copy does not lag behind the synced mark after the step.   *)
SeesSynced ==
  "reconciler" \in current'[rec.key] /\ kube'[rec.key] # NoCR /\ kube'[rec.key].status.synced =>
    rec'.d.status.synced

LEMMA StillSees ==
  ASSUME StatusInv, rec.pc \notin {"idle", "panicked"}, Outdated("reconciler"),
         rec.d.status.synced => rec'.d.status.synced
  PROVE  SeesSynced
<1> SUFFICES ASSUME "reconciler" \in current'[rec.key], kube'[rec.key] # NoCR,
                    kube'[rec.key].status.synced
             PROVE  rec'.d.status.synced
  BY DEF SeesSynced
<1>1. rec.key \in KubeNames
  BY BusyWorker
<1>2. "reconciler" \in current[rec.key] /\ kube'[rec.key] = kube[rec.key]
  BY <1>1 DEF Outdated
<1>3. Exists(rec.key) /\ kube[rec.key].status.synced
  BY <1>2 DEF Exists
<1>4. rec.d.status.synced
  BY <1>2, <1>3, BusyWorker
<1> QED
  BY <1>4

LEMMA Finished ==
  ASSUME rec'.pc = "finish", rec'.key = rec.key, Credible(rec'.d.status), SeesSynced
  PROVE  WorkerHonest'
  BY DEF WorkerHonest, SeesSynced, Looping, Visiting, Exists

(* What Finish and FinishWith leave in the worker's hands. *)
LEMMA FinishFields ==
  ASSUME StatusInv, rec.pc \notin {"idle", "panicked"}, NEW r
  PROVE  /\ Finish(r) => rec'.pc = "finish" /\ rec'.key = rec.key /\ rec'.d = rec.d
         /\ \A s : FinishWith(s, r) =>
              rec'.pc = "finish" /\ rec'.key = rec.key /\ rec'.d.status = s
<1>1. rec \in Worker /\ rec.d \in Device
  BY BusyWorker
<1>2. Finish(r) => rec'.pc = "finish" /\ rec'.key = rec.key /\ rec'.d = rec.d
  BY <1>1 DEF Finish, Worker
<1>3. ASSUME NEW s, FinishWith(s, r)
      PROVE  rec'.pc = "finish" /\ rec'.key = rec.key /\ rec'.d.status = s
  <2>1. rec' = [rec EXCEPT !.pc = "finish", !.requeue = r, !.d = [rec.d EXCEPT !.status = s]]
    BY <1>1, <1>3 DEF FinishWith
  <2>2. rec'.pc = "finish" /\ rec'.key = rec.key /\ rec'.d = [rec.d EXCEPT !.status = s]
    BY <1>1, <2>1 DEF Worker
  <2> QED
    BY <1>1, <2>2, DeviceFields
<1> QED
  BY <1>2, <1>3

(* The requests that end the worker's visit without a write: the status it *)
(* goes on with is credible and no less synced.                            *)
LEMMA FinishHonest ==
  ASSUME StatusInv, rec.pc \notin {"idle", "panicked"}, ApiUnchanged, UNCHANGED <<cache, syn>>,
         NEW r,
         \/ Finish(r)
         \/ \E s : FinishWith(s, r) /\ Credible(s) /\ s.synced = rec.d.status.synced
  PROVE  WritesTruthful /\ AllHonest'
<1>1. /\ rec'.pc = "finish" /\ rec'.key = rec.key
      /\ Credible(rec'.d.status) /\ rec'.d.status.synced = rec.d.status.synced
  BY BusyWorker, FinishFields
<1>2. WritesTruthful /\ \A h \in Holders : Outdated(h)
  BY ApiUnchangedTruthful
<1>3. WorkerHonest'
  BY <1>1, <1>2, StillSees, Finished DEF Holders
<1> QED
  BY <1>2, <1>3, WorkerStep DEF Holders

LEMMA TakeKeyHonest ==
  ASSUME StatusInv, NEW n \in KubeNames, Reconcile(n), UNCHANGED syn
  PROVE  WritesTruthful /\ AllHonest'
<1>1. UNCHANGED <<kube, cache>> /\ WritesTruthful
  BY UnchangedTruthful DEF Reconcile
<1>2. Outdated("cache") /\ Outdated("syncer")
  BY <1>1, Types DEF Reconcile, ReadFromCache, Outdated
<1>3. WorkerHonest'
  <2>1. CASE UNCHANGED <<rec, current>>
    BY <2>1 DEF Reconcile, WorkerHonest
  <2>2. CASE /\ Handles(n)
             /\ rec' = [IdleWorker EXCEPT !.pc = FirstRequest(cache[n]),
                                          !.key = n, !.d = cache[n]]
             /\ current' = [current EXCEPT ![n] = ReadFromCache(n, "reconciler")]
    <3>1. /\ rec'.pc = FirstRequest(cache[n]) /\ rec'.key = n /\ rec'.d = cache[n]
          /\ cache[n] # NoCR
      BY <2>2 DEF IdleWorker, Handles
    <3>2. Honest(cache[n].status)
      BY <3>1 DEF StatusInv, AllHonest, CacheHonest
    <3>3. /\ rec'.pc \in {"deleteDevice", "addFinalizer", "getDevice", "updateDevice", "finish"}
          /\ rec'.pc = "updateDevice" => cache[n].status.synced
      BY <3>1 DEF FirstRequest, AfterDelete
    <3>4. "reconciler" \in current'[n] => cache[n] = kube[n]
      BY <2>2, Types DEF ReadFromCache, StatusInv, AllHonest, CurrentCacheIsExact
    <3> QED
      BY <1>1, <3>1, <3>2, <3>3, <3>4 DEF WorkerHonest, Honest, Looping, Visiting, Exists
  <2> QED
    BY <2>1, <2>2 DEF Reconcile
<1> QED
  BY <1>1, <1>2, <1>3, WorkerStep

(* What a decoded answer leaves of an honest copy is honest.               *)
LEMMA DecodedHonest ==
  ASSUME NEW new, NEW old, Honest(new), Honest(old),
         new.synced \in BOOLEAN, old.synced \in BOOLEAN
  PROVE  LET t == DecodedStatus(new, old)
         IN  Honest(t) /\ (new.synced \/ old.synced => t.synced)
<1> DEFINE t == DecodedStatus(new, old)
<1>1. t.synced = Filled(new.synced, old.synced, FALSE)
  BY DEF DecodedStatus
<1>2. t.synced \in BOOLEAN /\ (t.synced <=> new.synced \/ old.synced)
  <2> HIDE DEF t
  <2> QED
    BY <1>1 DEF Filled
<1>3. PICK c \in {new, old} : /\ t.ready = c.ready /\ t.syncedCondition = c.syncedCondition
                              /\ t.managingCondition = c.managingCondition
  BY DEF DecodedStatus
<1>4. Honest(c) /\ (c.synced => t.synced)
  BY <1>2, <1>3
<1> HIDE DEF t
<1>5. Credible(t)
  BY <1>3, <1>4 DEF Honest, Credible
<1>6. Honest(t)
  BY <1>3, <1>4, <1>5 DEF Honest
<1> QED
  BY <1>2, <1>6 DEF t

(* A patch of the finalizers leaves the stored status; the worker's copy   *)
(* takes what the answer tells.                                            *)
LEMMA PatchedHonest ==
  ASSUME StatusInv, rec.pc \notin {"idle", "finish", "panicked"}, Exists(rec.key),
         UNCHANGED <<cache, syn>>,
         NEW b, Patched([kube[rec.key] EXCEPT !.finalizer = b])
  PROVE  WritesTruthful /\ AllHonest'
<1> DEFINE cr == [kube[rec.key] EXCEPT !.finalizer = b]
           d == Decoded(cr, rec.d, rec.key)
<1>1. /\ rec \in Worker /\ rec.key \in KubeNames /\ Honest(rec.d.status)
      /\ rec.d.status \in DeviceStatus /\ kube[rec.key] \in Device
  BY BusyWorker, Types DEF Exists
<1>2. cr.status = kube[rec.key].status
  BY <1>1, DeviceFields
<1>3. Truthful(rec.key, cr) /\ Honest(cr.status)
  BY <1>1, <1>2, SameTruthful DEF Truthful, Exists
<1>4. WritesTruthful /\ Outdated("cache") /\ Outdated("syncer") /\ kube'[rec.key] = cr
  BY <1>1, <1>3, PutTruthful DEF Patched
<1>5. cr.status \in DeviceStatus
  BY <1>1, <1>2, DeviceType
<1> HIDE DEF cr
<1>6. d.status = DecodedStatus(cr.status, rec.d.status)
  BY DEF Decoded
<1>7. Honest(d.status) /\ (cr.status.synced => d.status.synced)
  <2>1. cr.status.synced \in BOOLEAN /\ rec.d.status.synced \in BOOLEAN
    BY <1>1, <1>5 DEF DeviceStatus
  <2> DEFINE new == cr.status
             old == rec.d.status
             t == DecodedStatus(new, old)
  <2>2. Honest(new) /\ Honest(old) /\ new.synced \in BOOLEAN /\ old.synced \in BOOLEAN
    BY <1>1, <1>3, <2>1
  <2> HIDE DEF new, old
  <2>3. Honest(t) /\ (new.synced \/ old.synced => t.synced)
    BY <2>2, DecodedHonest
  <2> QED
    BY ONLY <1>6, <2>3 DEF new, old
<1> HIDE DEF d
<1> DEFINE pc == IF d.deleting THEN "finish" ELSE AfterDelete(d)
<1>8. rec' = [rec EXCEPT !.d = d, !.pc = pc]
  BY DEF Patched, cr, d
<1>9. /\ pc \in {"getDevice", "updateDevice", "finish"}
      /\ pc = "updateDevice" => d.status.synced
  BY DEF AfterDelete
<1> HIDE DEF pc
<1>10. rec'.pc = pc /\ rec'.key = rec.key /\ rec'.d = d
  BY ONLY <1>1, <1>8 DEF Worker
<1>11. WorkerHonest'
  BY <1>4, <1>7, <1>9, <1>10 DEF WorkerHonest, Honest, Looping, Visiting, Exists
<1> QED
  BY <1>4, <1>11, WorkerStep

LEMMA AddFinalizerHonest ==
  ASSUME StatusInv, AddFinalizer, UNCHANGED syn
  PROVE  WritesTruthful /\ AllHonest'
  BY PatchedHonest, FinishHonest DEF AddFinalizer

LEMMA DeleteDeviceHonest ==
  ASSUME StatusInv, DeleteDevice, UNCHANGED syn
  PROVE  WritesTruthful /\ AllHonest'
<1>1. rec.pc = "deleteDevice" /\ ApiUnchanged /\ UNCHANGED cache
  BY DEF DeleteDevice
<1>2. CASE Finish(TRUE)
  BY <1>1, <1>2, FinishHonest
<1>3. CASE rec' = [rec EXCEPT !.pc = "removeFinalizer"]
  <2>1. rec \in Worker /\ rec.key \in KubeNames
    BY <1>1, BusyWorker
  <2>2. rec'.pc = "removeFinalizer" /\ rec'.key = rec.key /\ rec'.d = rec.d
    BY <1>3, <2>1 DEF Worker
  <2>3. WritesTruthful /\ \A h \in Holders : Outdated(h)
    BY <1>1, ApiUnchangedTruthful
  <2>4. SeesSynced
    BY <1>1, <2>2, <2>3, StillSees DEF Holders
  <2>5. WorkerHonest'
    BY <1>1, <2>2, <2>4, BusyWorker DEF WorkerHonest, SeesSynced, Looping, Visiting, Exists
  <2> QED
    BY <1>1, <2>3, <2>5, WorkerStep DEF Holders
<1> QED
  BY <1>2, <1>3 DEF DeleteDevice

LEMMA RemoveFinalizerHonest ==
  ASSUME StatusInv, RemoveFinalizer, UNCHANGED syn
  PROVE  WritesTruthful /\ AllHonest'
<1>1. rec.pc = "removeFinalizer" /\ UNCHANGED cache
  BY DEF RemoveFinalizer
<1>2. CASE Store(rec.key, NoCR, {}) /\ Finish(FALSE)
  <2>1. rec.key \in KubeNames
    BY <1>1, BusyWorker
  <2>2. WritesTruthful /\ (\A h \in Holders : Outdated(h)) /\ kube'[rec.key] = NoCR
    BY <1>2, <2>1, StoreTruthful DEF Truthful
  <2>3. WorkerHonest'
    BY <1>1, <1>2, <2>2, BusyWorker, FinishFields, Finished DEF SeesSynced
  <2> QED
    BY <1>1, <2>2, <2>3, WorkerStep DEF Holders
<1>3. CASE ~(Store(rec.key, NoCR, {}) /\ Finish(FALSE))
  BY <1>1, <1>3, PatchedHonest, FinishHonest DEF RemoveFinalizer
<1> QED
  BY <1>2, <1>3

(* The worker goes on with a request of EdgeX. *)
LEMMA GoesOn ==
  ASSUME StatusInv, rec.pc \notin {"idle", "panicked"}, ApiUnchanged, UNCHANGED <<cache, syn>>,
         rec'.key = rec.key, Honest(rec'.d.status),
         rec.d.status.synced => rec'.d.status.synced,
         rec'.pc \in {"writeSynced", "updateDevice"} \cup Looping => rec'.d.status.synced,
         rec'.pc \in Looping => Honest(rec'.newStatus) /\ rec'.newStatus.synced
  PROVE  WritesTruthful /\ AllHonest'
<1>1. WritesTruthful /\ \A h \in Holders : Outdated(h)
  BY ApiUnchangedTruthful
<1>2. SeesSynced
  BY <1>1, StillSees DEF Holders
<1>3. WorkerHonest'
  BY <1>2 DEF WorkerHonest, SeesSynced, Honest, Exists
<1> QED
  BY <1>1, <1>3, WorkerStep DEF Holders

LEMMA FoundHonest ==
  ASSUME StatusInv, rec.pc \in {"getDevice", "createDevice"}, ApiUnchanged,
         UNCHANGED <<cache, syn>>, NEW b, Found(b)
  PROVE  WritesTruthful /\ AllHonest'
<1> DEFINE s == Synced(rec.d.status, b)
<1>1. rec \in Worker /\ rec.d \in Device /\ rec.d.status \in DeviceStatus /\ Honest(rec.d.status)
  BY BusyWorker
<1>2. Honest(s) /\ s.synced
  BY <1>1, SyncedHonest
<1> HIDE DEF s
<1>3. rec' = [rec EXCEPT !.pc = "writeSynced", !.d = [rec.d EXCEPT !.status = s]]
  BY <1>1 DEF Found, s
<1>4. /\ rec'.pc = "writeSynced" /\ rec'.key = rec.key
      /\ rec'.d = [rec.d EXCEPT !.status = s]
  BY <1>1, <1>3 DEF Worker
<1>5. rec'.d.status = s
  BY <1>1, <1>4, DeviceFields
<1> QED
  BY <1>2, <1>4, <1>5, GoesOn DEF Looping, Visiting

(* The worker gives up and notes in a condition why. *)
LEMMA FailHonest ==
  ASSUME StatusInv, rec.pc \notin {"idle", "panicked"}, ApiUnchanged, UNCHANGED <<cache, syn>>,
         NEW r,
         \/ \E c \in {"unreachable", "createFailed"} :
              FinishWith([rec.d.status EXCEPT !.syncedCondition = c], r)
         \/ FinishWith([rec.d.status EXCEPT !.managingCondition = "updateFailed"], r)
  PROVE  WritesTruthful /\ AllHonest'
<1>1. rec.d.status \in DeviceStatus /\ Credible(rec.d.status)
  BY BusyWorker
<1>2. ASSUME NEW c \in {"unreachable", "createFailed"},
             FinishWith([rec.d.status EXCEPT !.syncedCondition = c], r)
      PROVE  WritesTruthful /\ AllHonest'
  <2> DEFINE s == [rec.d.status EXCEPT !.syncedCondition = c]
  <2>1. Credible(s) /\ s.synced = rec.d.status.synced
    BY <1>1, FailedCredible
  <2> HIDE DEF s
  <2>2. FinishWith(s, r)
    BY <1>2 DEF s
  <2> QED
    BY <2>1, <2>2, FinishHonest
<1>3. ASSUME FinishWith([rec.d.status EXCEPT !.managingCondition = "updateFailed"], r)
      PROVE  WritesTruthful /\ AllHonest'
  <2> DEFINE s == [rec.d.status EXCEPT !.managingCondition = "updateFailed"]
  <2>1. Credible(s) /\ s.synced = rec.d.status.synced
    BY <1>1, FailedCredible
  <2> HIDE DEF s
  <2>2. FinishWith(s, r)
    BY <1>3 DEF s
  <2> QED
    BY <2>1, <2>2, FinishHonest
<1> QED
  BY <1>2, <1>3

LEMMA GetDeviceHonest ==
  ASSUME StatusInv, GetDevice, UNCHANGED syn
  PROVE  WritesTruthful /\ AllHonest'
<1>1. rec.pc = "getDevice" /\ ApiUnchanged /\ UNCHANGED cache
  BY DEF GetDevice
<1>2. CASE Found(TRUE) \/ Found(FALSE)
  BY <1>1, <1>2, FoundHonest
<1>3. CASE rec' = [rec EXCEPT !.pc = "createDevice"]
  <2>1. rec \in Worker /\ Honest(rec.d.status)
    BY <1>1, BusyWorker
  <2>2. rec'.pc = "createDevice" /\ rec'.key = rec.key /\ rec'.d = rec.d
    BY <1>3, <2>1 DEF Worker
  <2> QED
    BY <1>1, <2>1, <2>2, GoesOn DEF Looping, Visiting
<1>4. CASE FinishWith([rec.d.status EXCEPT !.syncedCondition = "unreachable"], FALSE)
  BY <1>1, <1>4, FailHonest
<1> QED
  BY <1>2, <1>3, <1>4 DEF GetDevice

LEMMA CreateDeviceHonest ==
  ASSUME StatusInv, CreateDevice, UNCHANGED syn
  PROVE  WritesTruthful /\ AllHonest'
<1>1. rec.pc = "createDevice" /\ ApiUnchanged /\ UNCHANGED cache
  BY DEF CreateDevice
<1>2. CASE Found(TRUE)
  BY <1>1, <1>2, FoundHonest
<1>3. CASE CreateFailed
  BY <1>1, <1>3, FailHonest DEF CreateFailed
<1> QED
  BY <1>2, <1>3 DEF CreateDevice

LEMMA UpdateDeviceHonest ==
  ASSUME StatusInv, UpdateDevice, UNCHANGED syn
  PROVE  WritesTruthful /\ AllHonest'
<1>1. rec.pc = "updateDevice" /\ ApiUnchanged /\ UNCHANGED cache
  BY DEF UpdateDevice
<1>2. /\ rec \in Worker /\ rec.d.status \in DeviceStatus
      /\ Honest(rec.d.status) /\ rec.d.status.synced
  BY <1>1, BusyWorker
<1>3. CASE UpdateFailed
  BY <1>1, <1>3, FailHonest DEF UpdateFailed
<1>4. CASE AfterPatch
  <2>1. Honest(PatchedStatus) /\ PatchedStatus.synced
    <3>1. SameMarks(rec.d.status, PatchedStatus)
      BY <1>2 DEF PatchedStatus, SameMarks, DeviceStatus
    <3> QED
      BY <1>2, <3>1, MarksHonest
  <2>2. /\ rec'.pc \in {"properties", "writeStatus"} /\ rec'.key = rec.key /\ rec'.d = rec.d
        /\ rec'.newStatus = PatchedStatus
    BY <1>2, <1>4 DEF AfterPatch, Worker
  <2> QED
    BY <1>1, <1>2, <2>1, <2>2, GoesOn DEF Looping, Visiting
<1> QED
  BY <1>3, <1>4 DEF UpdateDevice

(* The property loop changes only the properties of the new status. *)
LEMMA LoopHonest ==
  ASSUME StatusInv, rec.pc \in Looping, ApiUnchanged, UNCHANGED <<cache, syn>>,
         rec'.key = rec.key, rec'.d = rec.d, rec'.pc \in Looping,
         SameMarks(rec.newStatus, rec'.newStatus)
  PROVE  WritesTruthful /\ AllHonest'
<1>1. rec.pc \notin {"idle", "panicked", "finish"}
  BY DEF Looping, Visiting
<1>2. Honest(rec.newStatus) /\ rec.newStatus.synced /\ Honest(rec.d.status) /\ rec.d.status.synced
  BY <1>1, BusyWorker
<1> QED
  BY <1>1, <1>2, MarksHonest, GoesOn

LEMMA NextPropertyHonest ==
  ASSUME StatusInv, rec.pc \in Looping, ApiUnchanged, UNCHANGED <<cache, syn>>,
         NEW p, NEW s, SameMarks(rec.newStatus, s), NEW made, NEW failed,
         NextProperty(p, s, made, failed)
  PROVE  WritesTruthful /\ AllHonest'
<1>1. rec \in Worker
  BY BusyWorker DEF Looping, Visiting
<1>2. /\ rec'.key = rec.key /\ rec'.d = rec.d /\ rec'.newStatus = s
      /\ rec'.pc \in {"properties", "writeStatus"}
  BY <1>1 DEF NextProperty, Worker
<1> QED
  BY <1>2, LoopHonest DEF Looping, Visiting

LEMMA GotPropertyHonest ==
  ASSUME StatusInv, rec.pc \in Looping, ApiUnchanged, UNCHANGED <<cache, syn>>,
         NEW p, NEW entry, GotProperty(p, entry)
  PROVE  WritesTruthful /\ AllHonest'
<1> DEFINE s == IF rec.mapMade
                THEN [rec.newStatus EXCEPT !.deviceProperties[p] = entry]
                ELSE rec.newStatus
<1>1. rec \in Worker /\ rec.newStatus \in DeviceStatus
  BY BusyWorker DEF Looping, Visiting
<1>2. SameMarks(rec.newStatus, s)
  BY <1>1, MarksKept DEF SameMarks
<1>3. CASE NextProperty(p, s, TRUE, FALSE)
  <2> HIDE DEF s
  <2> QED
    BY <1>2, <1>3, NextPropertyHonest DEF Looping, Visiting
<1>4. CASE rec' = [rec EXCEPT !.pc = "writeProperty", !.property = p,
                              !.newStatus = s, !.mapMade = TRUE]
  <2> HIDE DEF s
  <2>1. /\ rec'.key = rec.key /\ rec'.d = rec.d /\ rec'.newStatus = s
        /\ rec'.pc = "writeProperty"
    BY <1>1, <1>4 DEF Worker
  <2> QED
    BY <1>2, <2>1, LoopHonest DEF Looping, Visiting
<1> QED
  BY <1>3, <1>4 DEF GotProperty

LEMMA GetPropertyStateHonest ==
  ASSUME StatusInv, NEW p \in Props, GetPropertyState(p), UNCHANGED syn
  PROVE  WritesTruthful /\ AllHonest'
<1>1. /\ rec.pc = "properties" /\ rec.pc \in Looping /\ rec.pc \notin {"idle", "panicked"}
      /\ ApiUnchanged /\ UNCHANGED cache
  BY DEF GetPropertyState, Looping, Visiting
<1>2. rec \in Worker /\ Honest(rec.d.status)
  BY <1>1, BusyWorker
<1>3. CASE ReadFailed(p)
  BY <1>1, <1>3, NextPropertyHonest DEF ReadFailed, SameMarks
<1>4. CASE \E entry : GotProperty(p, entry)
  BY <1>1, <1>4, GotPropertyHonest
<1>5. CASE Panic
  <2>1. rec'.pc = "finish" /\ rec'.key = rec.key /\ rec'.d = rec.d
    BY <1>2, <1>5 DEF Panic, Worker
  <2> QED
    BY <1>1, <1>2, <2>1, GoesOn DEF Looping, Visiting
<1>6. CASE rec' = [rec EXCEPT !.pc = "readProperty", !.property = p]
  <2>1. /\ rec'.pc = "readProperty" /\ rec'.key = rec.key /\ rec'.d = rec.d
        /\ rec'.newStatus = rec.newStatus
    BY ONLY <1>2, <1>6 DEF Worker
  <2> QED
    BY <1>1, <2>1, LoopHonest DEF Looping, Visiting, SameMarks
<1> QED
  BY <1>3, <1>4, <1>5, <1>6 DEF GetPropertyState

LEMMA ReadPropertyHonest ==
  ASSUME StatusInv, ReadProperty, UNCHANGED syn
  PROVE  WritesTruthful /\ AllHonest'
<1>1. rec.pc \in Looping /\ ApiUnchanged /\ UNCHANGED cache
  BY DEF ReadProperty, Looping, Visiting
<1>2. CASE ReadFailed(rec.property)
  BY <1>1, <1>2, NextPropertyHonest DEF ReadFailed, SameMarks
<1>3. CASE \E entry : GotProperty(rec.property, entry)
  BY <1>1, <1>3, GotPropertyHonest
<1> QED
  BY <1>2, <1>3 DEF ReadProperty

LEMMA getPropertyPutHonest ==
  ASSUME StatusInv, getPropertyPut, UNCHANGED syn
  PROVE  WritesTruthful /\ AllHonest'
<1>1. /\ rec.pc \in Looping /\ rec.pc \notin {"idle", "panicked"}
      /\ ApiUnchanged /\ UNCHANGED cache
  BY DEF getPropertyPut, Looping, Visiting
<1>2. CASE NotSet
  BY <1>1, <1>2, NextPropertyHonest DEF NotSet, SameMarks
<1>3. CASE rec' = [rec EXCEPT !.pc = "putProperty"]
  <2>1. rec \in Worker
    BY <1>1, BusyWorker
  <2>2. /\ rec'.pc = "putProperty" /\ rec'.key = rec.key /\ rec'.d = rec.d
        /\ rec'.newStatus = rec.newStatus
    BY ONLY <1>3, <2>1 DEF Worker
  <2> QED
    BY <1>1, <2>2, LoopHonest DEF Looping, Visiting, SameMarks
<1> QED
  BY <1>2, <1>3 DEF getPropertyPut

LEMMA UpdatePropertyStateHonest ==
  ASSUME StatusInv, UpdatePropertyState, UNCHANGED syn
  PROVE  WritesTruthful /\ AllHonest'
<1>1. rec.pc = "putProperty" /\ ApiUnchanged /\ UNCHANGED cache
  BY DEF UpdatePropertyState
<1>2. rec.newStatus \in DeviceStatus
  BY <1>1, BusyWorker
<1>3. \E s, b : SameMarks(rec.newStatus, s) /\ NextProperty(rec.property, s, TRUE, b)
  <2>1. CASE NotSet
    BY <2>1 DEF NotSet, SameMarks
  <2>2. CASE \E v : NextProperty(rec.property,
                      [rec.newStatus EXCEPT !.deviceProperties[rec.property] = v], TRUE, FALSE)
    BY <1>2, <2>2, MarksKept
  <2> QED
    BY <2>1, <2>2 DEF UpdatePropertyState
<1> QED
  BY <1>1, <1>3, NextPropertyHonest DEF Looping, Visiting

(* The two updates of the reconciler's own copy. *)
LEMMA WriteSyncedHonest ==
  ASSUME StatusInv, WriteSynced, UNCHANGED syn
  PROVE  WritesTruthful /\ AllHonest'
<1>1. rec.pc = "writeSynced" /\ UNCHANGED cache
  BY DEF WriteSynced
<1>2. rec.key \in KubeNames /\ Honest(rec.d.status) /\ rec.d.status.synced
  BY <1>1, BusyWorker
<1>3. CASE ApiUnchanged /\ Finish(TRUE)
  BY <1>1, <1>3, FinishHonest
<1>4. CASE /\ StatusReply(rec.key, "reconciler") = "ok" /\ Finish(FALSE)
           /\ Put(rec.key, WithStatus(rec.key, rec.d.status), "reconciler")
  <2>1. Truthful(rec.key, WithStatus(rec.key, rec.d.status))
    BY <1>2, <1>4, StatusTruthful DEF StatusReply
  <2>2. WritesTruthful /\ Outdated("cache") /\ Outdated("syncer")
    BY <1>2, <1>4, <2>1, PutTruthful
  <2>3. rec'.pc = "finish" /\ rec'.key = rec.key /\ rec'.d = rec.d
    BY <1>1, <1>4, FinishFields
  <2>4. WorkerHonest'
    BY <1>2, <2>3, Finished DEF Honest, SeesSynced
  <2> QED
    BY <1>1, <2>2, <2>4, WorkerStep
<1> QED
  BY <1>3, <1>4 DEF WriteSynced

LEMMA WriteStatusHonest ==
  ASSUME StatusInv, WriteStatus, UNCHANGED syn
  PROVE  WritesTruthful /\ AllHonest'
<1>1. rec.pc = "writeStatus" /\ rec.pc \in Looping /\ UNCHANGED cache
  BY DEF WriteStatus, Looping, Visiting
<1>2. /\ rec.key \in KubeNames /\ rec.d.status.synced
      /\ rec.newStatus \in DeviceStatus /\ Honest(rec.newStatus) /\ rec.newStatus.synced
  BY <1>1, BusyWorker
<1>3. \A c : LET s == [rec.newStatus EXCEPT !.managingCondition = c]
             IN  Credible(s) /\ s.synced = rec.d.status.synced
  <2> SUFFICES ASSUME NEW c
               PROVE  LET s == [rec.newStatus EXCEPT !.managingCondition = c]
                      IN  Credible(s) /\ s.synced = rec.d.status.synced
    OBVIOUS
  <2>1. [rec.newStatus EXCEPT !.managingCondition = c].synced = rec.newStatus.synced
    BY <1>2, StatusFields
  <2>2. rec.newStatus.synced \in BOOLEAN /\ rec.d.status.synced \in BOOLEAN
    BY <1>1, <1>2, BusyWorker DEF DeviceStatus
  <2> QED
    BY <1>2, <2>1, <2>2 DEF Credible
<1>4. CASE ApiUnchanged
  BY <1>1, <1>3, <1>4, FinishHonest DEF WriteStatus
<1>5. CASE /\ StatusReply(rec.key, "reconciler") = "ok"
           /\ Put(rec.key, WithStatus(rec.key, rec.newStatus), "reconciler")
           /\ \E c : FinishWith([rec.newStatus EXCEPT !.managingCondition = c], FALSE)
  <2>1. Truthful(rec.key, WithStatus(rec.key, rec.newStatus))
    BY <1>2, <1>5, StatusTruthful DEF StatusReply
  <2>2. WritesTruthful /\ Outdated("cache") /\ Outdated("syncer")
    BY <1>2, <1>5, <2>1, PutTruthful
  <2>3. PICK c : /\ rec'.pc = "finish" /\ rec'.key = rec.key
                 /\ rec'.d.status = [rec.newStatus EXCEPT !.managingCondition = c]
    BY <1>1, <1>5, FinishFields
  <2>4. WorkerHonest'
    BY <1>2, <1>3, <2>3, Finished DEF SeesSynced
  <2> QED
    BY <1>1, <2>2, <2>4, WorkerStep
<1> QED
  BY <1>4, <1>5 DEF WriteStatus

LEMMA ReturnHonest ==
  ASSUME StatusInv, Return, UNCHANGED syn
  PROVE  WritesTruthful /\ AllHonest'
<1>1. rec.pc = "finish" /\ UNCHANGED cache /\ rec'.pc \in {"idle", "panicked"}
  BY DEF Return, LeftWorker, IdleWorker
<1>2. /\ rec.key \in KubeNames
      /\ Honest(DeferredStatus) /\ DeferredStatus.synced = rec.d.status.synced
  BY <1>1, BusyWorker, DeferredHonest
<1>3. WritesTruthful /\ \A h \in Holders : Outdated(h)
  <2>1. CASE Forget(rec.key, "reconciler")
    BY <1>2, <2>1, ForgetTruthful
  <2>2. CASE /\ StatusReply(rec.key, "reconciler") = "ok"
             /\ PutLast(rec.key, WithStatus(rec.key, DeferredStatus), "reconciler")
    <3>1. Exists(rec.key) /\ "reconciler" \in current[rec.key]
      BY <2>2 DEF StatusReply
    <3>2. kube[rec.key].status.synced => DeferredStatus.synced
      BY <1>1, <1>2, <3>1, BusyWorker
    <3>3. Truthful(rec.key, WithStatus(rec.key, DeferredStatus))
      BY <1>2, <3>1, <3>2, StatusTruthful
    <3> QED
      BY <1>2, <2>2, <3>3, PutLastTruthful
  <2> QED
    BY <2>1, <2>2 DEF Return
<1>4. WorkerHonest'
  BY <1>1 DEF WorkerHonest
<1> QED
  BY <1>1, <1>3, <1>4, WorkerStep DEF Holders

LEMMA ReconcilerHonest ==
  ASSUME StatusInv, ReconcilerStep, UNCHANGED syn
  PROVE  WritesTruthful /\ AllHonest'
  BY AddFinalizerHonest, DeleteDeviceHonest, RemoveFinalizerHonest, GetDeviceHonest,
     CreateDeviceHonest, WriteSyncedHonest, UpdateDeviceHonest, UpdatePropertyStateHonest,
     WriteStatusHonest, GetPropertyStateHonest, ReadPropertyHonest, getPropertyPutHonest,
     ReturnHonest
  DEF ReconcilerStep

(***************************************************************************)
(* The syncer.                                                             *)
(***************************************************************************)
LEMMA ContinueFewer ==
  ASSUME NEW r, \A n \in KubeNames : r.copy[n] # NoCR => r.copy[n] = syn.copy[n], Continue(r)
  PROVE  FewerCopies
  BY DEF Continue, IdleRound, FewerCopies

LEMMA ListEdgeDevicesHonest ==
  ASSUME StatusInv, ListEdgeDevices, UNCHANGED rec
  PROVE  WritesTruthful /\ AllHonest'
<1>1. FewerCopies
  <2>1. \/ \E listed : syn' = [syn EXCEPT !.pc = "listed", !.edgeDevices = listed]
        \/ syn' = [syn EXCEPT !.pc = "listed"]
        \/ syn' = syn
    BY DEF ListEdgeDevices
  <2>2. syn'.copy = syn.copy
    BY <2>1, Types DEF Round
  <2> QED
    BY <2>2 DEF FewerCopies
<1> QED
  BY <1>1, ApiUnchangedTruthful, OthersHonest DEF ListEdgeDevices

LEMMA ListKubeDevicesHonest ==
  ASSUME StatusInv, ListKubeDevices, UNCHANGED rec
  PROVE  WritesTruthful /\ AllHonest'
<1>1. UNCHANGED <<kube, cache>> /\ WritesTruthful
  BY UnchangedTruthful DEF ListKubeDevices
<1>2. PICK both \in SUBSET KubeNames :
        /\ \A n \in KubeNames : syn'.copy[n] # NoCR =>
             n \in both /\ SameMarks(cache[n].status, syn'.copy[n].status)
        /\ current' = [n \in KubeNames |->
             IF n \in both THEN ReadFromCache(n, "syncer") ELSE current[n] \ {"syncer"}]
        /\ \A n \in both : cache[n] # NoCR
  BY Types, ListedCopies
<1>3. \A n \in KubeNames :
        /\ \A h \in {"cache", "reconciler"} : h \in current'[n] => h \in current[n]
        /\ n \in both /\ "syncer" \in current'[n] => "cache" \in current[n]
  BY <1>2, Types DEF ReadFromCache
<1>4. Outdated("cache") /\ Outdated("reconciler")
  BY <1>1, <1>3 DEF Outdated
<1>5. RoundHonest'
  <2> SUFFICES ASSUME NEW n \in KubeNames, syn'.copy[n] # NoCR
               PROVE  /\ Honest(syn'.copy[n].status)
                      /\ "syncer" \in current'[n] /\ kube[n].status.synced =>
                           syn'.copy[n].status.synced
    BY <1>1 DEF RoundHonest, Exists
  <2>1. n \in both /\ cache[n] # NoCR /\ SameMarks(cache[n].status, syn'.copy[n].status)
    BY <1>2
  <2>2. Honest(cache[n].status)
    BY <2>1 DEF StatusInv, AllHonest, CacheHonest
  <2>3. "syncer" \in current'[n] => cache[n] = kube[n]
    BY <1>3, <2>1 DEF StatusInv, AllHonest, CurrentCacheIsExact
  <2> QED
    BY <2>1, <2>2, <2>3, MarksHonest DEF SameMarks
<1> QED
  BY <1>1, <1>4, <1>5, StoredHonest, OtherWorker DEF AllHonest

(* Reading the properties changes no mark of a copy.                       *)
MarksOfCopiesKept ==
  \A m \in KubeNames :
    \/ syn'.copy[m] = syn.copy[m]
    \/ syn.copy[m] # NoCR /\ SameMarks(syn.copy[m].status, syn'.copy[m].status)

LEMMA CopiesKeepMarks ==
  ASSUME TypeInv,
         \/ \E n \in KubeNames : ListPropertiesState(n)
         \/ \E p \in Props : ReadListedProperty(p)
  PROVE  MarksOfCopiesKept
<1>1. syn \in Round
  BY DEF TypeInv, TypeOK
<1>2. ASSUME syn.pc = "apply", NEW n \in syn.toRead, NEW T, NEW m, NEW U, NEW entries,
             syn' = [syn EXCEPT !.toRead = T, !.reading = m, !.unread = U,
                                !.copy[n].status.deviceProperties = entries]
      PROVE  MarksOfCopiesKept
  <2>1. n \in KubeNames /\ syn.copy[n] \in Copy /\ syn.copy[n] # NoCR
    BY <1>1, <1>2 DEF TypeInv, RoundHasItsCopies, Round
  <2>2. \A k \in KubeNames :
          \/ syn'.copy[k] = syn.copy[k]
          \/ k = n /\ SameMarks(syn.copy[k].status, syn'.copy[k].status)
    BY <1>1, <1>2, <2>1, ReadingKeeps
  <2> QED
    BY ONLY <2>1, <2>2 DEF MarksOfCopiesKept
<1>3. ASSUME NEW n \in KubeNames, ListPropertiesState(n)
      PROVE  MarksOfCopiesKept
  <2>1. PICK props :
          syn' = [syn EXCEPT
                   !.toRead = IF props = {} THEN @ \ {n} ELSE @,
                   !.reading = IF props = {} THEN NoName ELSE n,
                   !.unread = props,
                   !.copy[n].status.deviceProperties =
                      [p \in Props |-> IF p \in props THEN "" ELSE "no entry"]]
    BY <1>3 DEF ListPropertiesState
  <2>2. syn.pc = "apply" /\ n \in syn.toRead
    BY <1>3 DEF ListPropertiesState
  <2> QED
    BY <1>2, <2>1, <2>2
<1>4. ASSUME NEW p \in Props, ReadListedProperty(p)
      PROVE  MarksOfCopiesKept
  <2> DEFINE n == syn.reading
  <2>1. PICK value :
          syn' = [syn EXCEPT
                   !.toRead = IF syn.unread = {p} THEN @ \ {n} ELSE @,
                   !.reading = IF syn.unread = {p} THEN NoName ELSE n,
                   !.unread = @ \ {p},
                   !.copy[n].status.deviceProperties[p] = value]
    BY <1>4 DEF ReadListedProperty
  <2> DEFINE entries == [syn.copy[n].status.deviceProperties EXCEPT ![p] = value]
  <2>2. syn' = [syn EXCEPT
                 !.toRead = IF syn.unread = {p} THEN @ \ {n} ELSE @,
                 !.reading = IF syn.unread = {p} THEN NoName ELSE n,
                 !.unread = @ \ {p},
                 !.copy[n].status.deviceProperties = entries]
    BY <2>1
  <2>3. syn.pc = "apply" /\ n \in syn.toRead
    BY <1>4 DEF ReadListedProperty, TypeInv, RoundHasItsCopies
  <2> HIDE DEF entries
  <2> QED
    BY <1>2, <2>2, <2>3
<1> QED
  BY <1>3, <1>4

LEMMA ListPropertiesStateHonest ==
  ASSUME StatusInv, UNCHANGED rec,
         \/ \E n \in KubeNames : ListPropertiesState(n)
         \/ \E p \in Props : ReadListedProperty(p)
  PROVE  WritesTruthful /\ AllHonest'
<1>1. WritesTruthful /\ (\A h \in Holders : Outdated(h)) /\ UNCHANGED <<cache, kube, current>>
  BY ApiUnchangedTruthful DEF ListPropertiesState, ReadListedProperty, ApiUnchanged
<1>2. MarksOfCopiesKept
  BY CopiesKeepMarks DEF StatusInv
<1>3. RoundHonest'
  <2> SUFFICES ASSUME NEW m \in KubeNames, syn'.copy[m] # NoCR
               PROVE  /\ Honest(syn'.copy[m].status)
                      /\ "syncer" \in current[m] /\ Exists(m) /\ kube[m].status.synced =>
                           syn'.copy[m].status.synced
    BY <1>1 DEF RoundHonest, Exists
  <2> QED
    BY <1>2, MarksHonest DEF MarksOfCopiesKept, StatusInv, AllHonest, RoundHonest
<1> QED
  BY <1>1, <1>3, StoredHonest, OtherWorker DEF AllHonest, Holders

LEMMA CreatingFewer ==
  ASSUME StatusInv, NEW e \in EdgeNames, NEW busy, SyncEdgeToKube(e, busy)
  PROVE  FewerCopies
<1>1. PICK R : Continue([syn EXCEPT !.redundantEdge = R])
  BY DEF SyncEdgeToKube
<1>2. [syn EXCEPT !.redundantEdge = R].copy = syn.copy
  BY Types DEF Round
<1> QED
  BY <1>1, <1>2, ContinueFewer

LEMMA SyncEdgeToKubeHonest ==
  ASSUME StatusInv, NEW e \in EdgeNames, NEW busy, SyncEdgeToKube(e, busy), UNCHANGED rec
  PROVE  WritesTruthful /\ AllHonest'
<1>1. FewerCopies
  BY CreatingFewer
<1>2. WritesTruthful /\ \A h \in Holders : Outdated(h)
  <2>1. SyncerName[e] \in KubeNames
    BY NamesAssumption
  <2> QED
    BY <2>1, ApiUnchangedTruthful, CreateTruthful DEF SyncEdgeToKube, CanCreate
<1> QED
  BY <1>1, <1>2, OthersHonest DEF SyncEdgeToKube

LEMMA DeletingFewer ==
  ASSUME StatusInv, NEW n \in KubeNames, DeleteRedundant(n)
  PROVE  FewerCopies
<1>1. PICK K : Continue([syn EXCEPT !.redundantKube = K])
  BY DEF DeleteRedundant
<1>2. [syn EXCEPT !.redundantKube = K].copy = syn.copy
  BY Types DEF Round
<1> QED
  BY <1>1, <1>2, ContinueFewer

LEMMA DeleteRedundantHonest ==
  ASSUME StatusInv, NEW n \in KubeNames, DeleteRedundant(n), UNCHANGED rec
  PROVE  WritesTruthful /\ AllHonest'
<1>1. FewerCopies
  BY DeletingFewer
<1>2. WritesTruthful /\ \A h \in Holders : Outdated(h)
  BY ApiUnchangedTruthful, DeleteTruthful DEF DeleteRedundant
<1> QED
  BY <1>1, <1>2, OthersHonest DEF DeleteRedundant

LEMMA UpdatingFewer ==
  ASSUME StatusInv, NEW n \in KubeNames, UpdateDeviceStatus(n)
  PROVE  FewerCopies
<1>1. PICK names : Updated(names)
  BY DEF UpdateDeviceStatus
<1> DEFINE copies == [m \in KubeNames |-> IF m \in names THEN NoCR ELSE syn.copy[m]]
           r == [syn EXCEPT !.synced = syn.synced \ names, !.copy = copies]
<1>2. Continue(r)
  BY <1>1 DEF Updated
<1>3. r.copy = copies
  <2> HIDE DEF copies
  <2> QED
    BY Types DEF Round
<1>4. \A m \in KubeNames : copies[m] # NoCR => copies[m] = syn.copy[m]
  OBVIOUS
<1> HIDE DEF r, copies
<1> QED
  BY <1>2, <1>3, <1>4, ContinueFewer

LEMMA UpdateDeviceStatusHonest ==
  ASSUME StatusInv, NEW n \in KubeNames, UpdateDeviceStatus(n), UNCHANGED rec
  PROVE  WritesTruthful /\ AllHonest'
<1>1. FewerCopies
  BY UpdatingFewer
<1>2. WritesTruthful /\ \A h \in Holders : Outdated(h)
  <2>1. CASE Forget(n, "syncer")
    BY <2>1, ForgetTruthful
  <2>2. CASE /\ UpdateReply(n) = "ok"
             /\ PutLast(n, WithStatus(n, syn.copy[n].status), "syncer")
    <3>1. Exists(n) /\ "syncer" \in current[n]
      BY <2>2 DEF UpdateReply, StatusReply
    <3>2. syn.copy[n] # NoCR
      BY Types DEF UpdateDeviceStatus, StatusInv, TypeInv, RoundHasItsCopies, Round
    <3>3. /\ Honest(syn.copy[n].status)
          /\ kube[n].status.synced => syn.copy[n].status.synced
      BY <3>1, <3>2 DEF StatusInv, AllHonest, RoundHonest
    <3>4. Truthful(n, WithStatus(n, syn.copy[n].status))
      BY <3>1, <3>3, StatusTruthful
    <3> QED
      BY <2>2, <3>4, PutLastTruthful
  <2> QED
    BY <2>1, <2>2 DEF UpdateDeviceStatus
<1> QED
  BY <1>1, <1>2, OthersHonest DEF UpdateDeviceStatus

LEMMA SyncerHonest ==
  ASSUME StatusInv, NEW busy, SyncerStep(busy), UNCHANGED rec
  PROVE  WritesTruthful /\ AllHonest'
  BY ListEdgeDevicesHonest, ListKubeDevicesHonest, ListPropertiesStateHonest,
     SyncEdgeToKubeHonest, DeleteRedundantHonest, UpdateDeviceStatusHonest
  DEF SyncerStep

(***************************************************************************)
(* The system.                                                             *)
(***************************************************************************)
LEMMA StepHonest ==
  ASSUME StatusInv, [Next]_vars
  PROVE  WritesTruthful /\ StatusInv'
<1>1. TypeInv'
  BY StepType DEF StatusInv
<1>2. CASE \E n \in KubeNames : UserCreate(n) \/ UserUpdate(n) \/ UserDelete(n)
  BY <1>1, <1>2, UserHonest DEF StatusInv
<1>3. CASE \/ \E e \in EdgeNames : AddEdgeDevice(e) \/ RemoveEdgeDevice(e) \/ ChangeEdgeDevice(e)
           \/ InformerResyncs \/ UNCHANGED vars
  BY <1>1, <1>3, SameHonest
     DEF StatusInv, AddEdgeDevice, RemoveEdgeDevice, ChangeEdgeDevice, EdgeStep,
         InformerResyncs, Resync, vars, clusterVars
<1>4. CASE \E n \in KubeNames : TakeKey(n)
  BY <1>1, <1>4, TakeKeyHonest DEF StatusInv, TakeKey
<1>5. CASE \E n \in KubeNames : WatchDelivers(n) \/ WatchBreaks(n)
  BY <1>1, <1>5, SeenHonest DEF StatusInv, WatchDelivers, WatchBreaks, Deliver, Relist
<1>6. CASE ReconcilerRuns
  BY <1>1, <1>6, ReconcilerHonest DEF StatusInv, ReconcilerRuns
<1>7. CASE SyncerRuns
  BY <1>1, <1>7, SyncerHonest DEF StatusInv, SyncerRuns
<1>8. CASE Restart
  BY <1>1, <1>8, RestartHonest DEF StatusInv
<1> QED
  BY <1>2, <1>3, <1>4, <1>5, <1>6, <1>7, <1>8 DEF Next, Environment

LEMMA InitHonest ==
  ASSUME Init
  PROVE  StatusInv
<1>1. TypeInv
  BY InitType
<1>2. AllHonest
  BY DEF Init, ClusterInit, IdleWorker, IdleRound, AllHonest, KubeHonest, CacheHonest,
         CurrentCacheIsExact, RoundHonest, WorkerHonest, Exists
<1> QED
  BY <1>1, <1>2 DEF StatusInv

LEMMA StatusInvariance == Spec => []StatusInv
<1>1. Init => StatusInv
  BY InitHonest
<1>2. StatusInv /\ [Next]_vars => StatusInv'
  BY StepHonest
<1> QED
  BY <1>1, <1>2, PTL DEF Spec

(* status.synced is never taken back, neither by the reconciler's two      *)
(* updates nor by the syncer's, whatever copies they write from and        *)
(* whether or not names are used again.                                    *)
THEOREM SyncedStable == Spec => SyncedIsStable
<1>1. StatusInv /\ [Next]_vars =>
        [\A n \in KubeNames :
           Exists(n) /\ kube[n].status.synced /\ kube'[n] # NoCR => kube'[n].status.synced]_kube
  BY StepHonest DEF WritesTruthful, Truthful
<1> QED
  BY <1>1, StatusInvariance, PTL DEF Spec, SyncedIsStable

(* A CR that is Ready is synced, is guarded, and has no condition that     *)
(* says otherwise.                                                         *)
THEOREM ReadyHonest == Spec => []ReadyIsHonest
<1>1. StatusInv /\ SyncedIsGuarded => ReadyIsHonest
  BY DEF StatusInv, AllHonest, KubeHonest, Honest, Credible, SyncedIsGuarded, ReadyIsHonest
<1> QED
  BY <1>1, StatusInvariance, SyncedGuarded, PTL

(***************************************************************************)
(* The life of a CR.                                                       *)
(***************************************************************************)
(* new may be stored after old under the name n: bare if it is a new CR,   *)
(* gone only if the finalizer does not forbid it, else with the marks of   *)
(* old and at most one more.  Under a reused name a CR may be marked as    *)
(* synced without the finalizer, and lose it before it is deleted.         *)
Moved(n, old, new) ==
  \/ old = NoCR /\ new # NoCR /\ ~new.finalizer /\ ~new.deleting /\ ~new.status.synced
  \/ old # NoCR /\ new = NoCR /\ (old.finalizer => old.deleting)
  \/ /\ old # NoCR /\ new # NoCR
     /\ \/ /\ new.finalizer = old.finalizer /\ new.deleting = old.deleting
           /\ \/ new.status.synced = old.status.synced
              \/ new.status.synced /\ (n \in Steady => old.finalizer)
        \/ /\ new.deleting = old.deleting /\ new.status.synced = old.status.synced
           /\ new.finalizer \/ (n \notin Steady /\ ~old.deleting)
        \/ /\ new.finalizer = old.finalizer /\ new.status.synced = old.status.synced
           /\ new.deleting /\ old.finalizer

(* A step of anybody is about one CR. *)
KubeMoves ==
  \/ UNCHANGED kube
  \/ \E n \in KubeNames :
       /\ Moved(n, kube[n], kube'[n])
       /\ \A m \in KubeNames \ {n} : kube'[m] = kube[m]

(* No name this process holds is used for a new CR, the reused ones apart. *)
NewIsFree ==
  \A n \in Steady : ~Exists(n) /\ kube'[n] # NoCR => cache[n] = NoCR /\ n # rec.key

LEMMA EachMoves ==
  ASSUME KubeMoves, NEW n \in KubeNames
  PROVE  \/ kube'[n] = kube[n]
         \/ Moved(n, kube[n], kube'[n])
  BY DEF KubeMoves

(* Once guarded, or marked for deletion, a CR stays so while it is there.  *)
LEMMA MarksStay ==
  ASSUME KubeMoves, NewIsFree, NEW n \in Steady, kube'[n] # NoCR,
         cache[n] # NoCR \/ n = rec.key
  PROVE  /\ Exists(n)
         /\ kube[n].finalizer => kube'[n].finalizer
         /\ kube[n].deleting => kube'[n].deleting
<1>1. Exists(n)
  BY DEF NewIsFree
<1> QED
  BY <1>1, EachMoves, SteadyNames DEF Moved, Exists

LEMMA KubeStaysGuarded ==
  ASSUME GuardInv, KubeMoves
  PROVE  SyncedIsGuarded' /\ DeletingIsGuarded'
<1>1. SyncedIsGuarded'
  <2> SUFFICES ASSUME NEW n \in Steady, kube'[n] # NoCR, kube'[n].status.synced
               PROVE  kube'[n].finalizer
    BY DEF SyncedIsGuarded, Exists
  <2>1. Exists(n) /\ kube[n].status.synced => kube[n].finalizer
    BY DEF GuardInv, SyncedIsGuarded
  <2> QED
    BY <2>1, EachMoves, SteadyNames DEF Moved, Exists
<1>2. DeletingIsGuarded'
  <2> SUFFICES ASSUME NEW n \in KubeNames, kube'[n] # NoCR, kube'[n].deleting
               PROVE  kube'[n].finalizer
    BY DEF DeletingIsGuarded, Exists
  <2>1. Exists(n) /\ kube[n].deleting => kube[n].finalizer
    BY DEF GuardInv, DeletingIsGuarded
  <2> QED
    BY <2>1, EachMoves DEF Moved, Exists
<1> QED
  BY <1>1, <1>2

LEMMA CacheStaysGuarded ==
  ASSUME GuardInv, KubeMoves, NewIsFree, UNCHANGED cache
  PROVE  CacheIsGuarded'
<1> SUFFICES ASSUME NEW n \in Steady, cache[n] # NoCR
             PROVE  /\ cache[n].status.synced => cache[n].finalizer
                    /\ kube'[n] # NoCR =>
                         /\ cache[n].finalizer => kube'[n].finalizer
                         /\ cache[n].deleting => kube'[n].deleting
  BY DEF CacheIsGuarded, Exists
<1>1. /\ cache[n].status.synced => cache[n].finalizer
      /\ Exists(n) => /\ cache[n].finalizer => kube[n].finalizer
                      /\ cache[n].deleting => kube[n].deleting
  BY DEF GuardInv, CacheIsGuarded
<1> QED
  BY <1>1, MarksStay

(* The worker rests, or goes on to a request that asks for no more.        *)
LEMMA WorkerStaysGuarded ==
  ASSUME GuardInv, KubeMoves, NewIsFree,
         \/ UNCHANGED rec
         \/ /\ rec.pc \in Working /\ rec'.key = rec.key
            /\ rec'.pc \in Working \cup {"finish", "panicked"}
         \/ /\ rec.pc \in {"deleteDevice", "removeFinalizer"} /\ rec'.key = rec.key
            /\ rec'.pc \in {"removeFinalizer", "finish"}
         \/ rec.pc = "addFinalizer" /\ rec'.key = rec.key /\ rec'.d = rec.d /\ rec'.pc = "finish"
  PROVE  WorkerIsGuarded'
<1>1. rec'.key = rec.key
  OBVIOUS
<1> SUFFICES ASSUME rec.key \in Steady
             PROVE  WorkerIsGuarded'
  BY <1>1 DEF WorkerIsGuarded
<1>2. /\ rec.pc = "addFinalizer" => ~rec.d.status.synced
      /\ Exists(rec.key) =>
           /\ rec.pc \in Working => kube[rec.key].finalizer
           /\ rec.pc \in {"deleteDevice", "removeFinalizer"} =>
                kube[rec.key].deleting /\ kube[rec.key].finalizer
           /\ rec.pc = "finish" /\ rec.d.status.synced => kube[rec.key].finalizer
  BY SteadyNames DEF GuardInv, WorkerIsGuarded, DeletingIsGuarded
<1>3. kube'[rec.key] # NoCR =>
        /\ Exists(rec.key)
        /\ kube[rec.key].finalizer => kube'[rec.key].finalizer
        /\ kube[rec.key].deleting => kube'[rec.key].deleting
  BY MarksStay
<1>4. rec'.pc = "addFinalizer" => rec' = rec
  BY DEF Working
<1>5. kube'[rec.key] # NoCR =>
        /\ rec'.pc \in Working => kube'[rec.key].finalizer
        /\ rec'.pc \in {"deleteDevice", "removeFinalizer"} => kube'[rec.key].deleting
        /\ rec'.pc = "finish" /\ rec'.d.status.synced => kube'[rec.key].finalizer
  BY <1>2, <1>3 DEF Working
<1> QED
  BY <1>1, <1>2, <1>4, <1>5 DEF WorkerIsGuarded, Exists

LEMMA CopiesStayGuarded ==
  ASSUME GuardInv, Outdated("syncer"),
         \A n \in KubeNames : syn'.copy[n] # NoCR =>
           syn.copy[n] # NoCR /\ syn'.copy[n].status.synced = syn.copy[n].status.synced
  PROVE  SyncerCopyIsGuarded'
  BY SteadyNames DEF Outdated, GuardInv, SyncerCopyIsGuarded, Exists

(***************************************************************************)
(* The life of a CR: the writes.                                           *)
(***************************************************************************)
(* What everybody who does not work on a CR may rely on, for each step.    *)
Lives == KubeMoves /\ NewIsFree /\ Outdated("syncer")

LEMMA SameLives ==
  ASSUME UNCHANGED kube
  PROVE  KubeMoves /\ NewIsFree
  BY SteadyNames DEF KubeMoves, NewIsFree, Exists

LEMMA ApiUnchangedLives ==
  ASSUME ApiUnchanged
  PROVE  Lives
  BY SameLives DEF ApiUnchanged, Lives, Outdated

LEMMA ForgetLives ==
  ASSUME LifeInv, NEW n \in KubeNames, NEW h, Forget(n, h)
  PROVE  Lives
  BY SameLives, Types DEF LifeInv, Forget, Lives, Outdated

LEMMA StoreLives ==
  ASSUME LifeInv, NEW n \in KubeNames, NEW cr, NEW hs, "syncer" \notin hs,
         Moved(n, kube[n], cr), n \in Steady /\ ~Exists(n) => cache[n] = NoCR /\ n # rec.key,
         Store(n, cr, hs)
  PROVE  Lives /\ kube'[n] = cr
<1>1. \A m \in KubeNames : /\ kube'[m] = IF m = n THEN cr ELSE kube[m]
                           /\ current'[m] = IF m = n THEN hs ELSE current[m]
  BY Types DEF LifeInv, Store
<1>2. KubeMoves
  BY <1>1 DEF KubeMoves
<1>3. NewIsFree /\ Outdated("syncer")
  BY <1>1, SteadyNames DEF NewIsFree, Outdated, Exists
<1> QED
  BY <1>1, <1>2, <1>3 DEF Lives

LEMMA PutLives ==
  ASSUME LifeInv, NEW n \in KubeNames, NEW cr, Exists(n), Moved(n, kube[n], cr),
         \/ Put(n, cr, "reconciler")
         \/ \E h : PutLast(n, cr, h)
  PROVE  Lives /\ kube'[n] = cr
<1>1. CASE Put(n, cr, "reconciler") /\ cr = kube[n]
  BY <1>1, SameLives, Types DEF LifeInv, Put, Lives, Outdated
<1>2. CASE Put(n, cr, "reconciler") /\ cr # kube[n]
  BY <1>2, StoreLives DEF Put
<1>3. CASE \E h : PutLast(n, cr, h)
  BY <1>3, StoreLives, ForgetLives DEF PutLast, Forget
<1> QED
  BY <1>1, <1>2, <1>3

LEMMA DeleteLives ==
  ASSUME LifeInv, NEW n \in KubeNames, Exists(n), Delete(n)
  PROVE  Lives
<1>1. kube[n] \in Device
  BY Types DEF LifeInv, Exists
<1>2. CASE kube[n].finalizer /\ Store(n, [kube[n] EXCEPT !.deleting = TRUE], {})
  <2> DEFINE cr == [kube[n] EXCEPT !.deleting = TRUE]
  <2>1. /\ cr.deleting /\ cr.finalizer = kube[n].finalizer /\ cr.status = kube[n].status
        /\ cr # NoCR
    BY <1>1, DeviceFields, DeviceType, AbsenceAssumption
  <2> HIDE DEF cr
  <2>2. Moved(n, kube[n], cr)
    BY <1>2, <2>1 DEF Moved, Exists
  <2> QED
    BY <1>2, <2>2, StoreLives DEF cr
<1>3. CASE ~kube[n].finalizer /\ Store(n, NoCR, {})
  <2>1. Moved(n, kube[n], NoCR)
    BY <1>3 DEF Moved, Exists
  <2> QED
    BY <1>3, <2>1, StoreLives
<1> QED
  BY <1>2, <1>3, ApiUnchangedLives DEF Delete

LEMMA CreateLives ==
  ASSUME LifeInv, NEW n \in KubeNames, NEW busy, NEW s \in DeviceSpec,
         rec.key \in busy, CanCreate(n, busy), Create(n, s)
  PROVE  Lives
<1>1. NewDevice(s) \in Device /\ NewDevice(s) # NoCR
  BY NewDeviceType, AbsenceAssumption
<1>2. Moved(n, kube[n], NewDevice(s))
  BY <1>1 DEF CanCreate, Exists, Moved, NewDevice, NewStatus
<1> QED
  BY <1>2, StoreLives DEF CanCreate, Create, Steady

(* A status is written that is synced only over a guarded CR.              *)
LEMMA StatusMoved ==
  ASSUME LifeInv, NEW n \in KubeNames, NEW s, Exists(n), WithStatus(n, s) \in Device,
         kube[n].status.synced => s.synced,
         n \in Steady /\ s.synced => kube[n].finalizer
  PROVE  Moved(n, kube[n], WithStatus(n, s))
<1>1. kube[n] \in Device /\ kube[n].status \in DeviceStatus
  BY Types, DeviceType DEF LifeInv, Exists
<1> DEFINE cr == WithStatus(n, s)
<1>2. /\ cr.deleting = kube[n].deleting /\ cr.finalizer = kube[n].finalizer /\ cr.status = s
      /\ cr # NoCR
  BY <1>1, DeviceFields, AbsenceAssumption DEF WithStatus
<1>3. s \in DeviceStatus
  BY <1>2, DeviceType
<1>4. s.synced \in BOOLEAN /\ kube[n].status.synced \in BOOLEAN
  BY <1>1, <1>3 DEF DeviceStatus
<1> HIDE DEF cr
<1>5. \/ cr.status.synced = kube[n].status.synced
      \/ cr.status.synced /\ (n \in Steady => kube[n].finalizer)
  BY <1>2, <1>4
<1> QED
  BY <1>2, <1>5 DEF Moved, Exists, cr

(***************************************************************************)
(* The life of a CR: users, the edge, the informer, restarts.              *)
(***************************************************************************)
LEMMA GuardedStep ==
  ASSUME LifeInv, Lives, UNCHANGED cache, WorkerIsGuarded',
         \A n \in KubeNames : syn'.copy[n] # NoCR =>
           syn.copy[n] # NoCR /\ syn'.copy[n].status.synced = syn.copy[n].status.synced
  PROVE  Lives /\ GuardInv'
<1>1. GuardInv
  BY DEF LifeInv
<1>2. SyncedIsGuarded' /\ DeletingIsGuarded'
  BY <1>1, KubeStaysGuarded DEF Lives
<1>3. CacheIsGuarded'
  BY <1>1, CacheStaysGuarded DEF Lives
<1>4. SyncerCopyIsGuarded'
  BY <1>1, CopiesStayGuarded DEF Lives
<1> QED
  BY <1>2, <1>3, <1>4 DEF GuardInv

LEMMA OthersGuarded ==
  ASSUME LifeInv, Lives, UNCHANGED <<cache, rec>>, FewerCopies
  PROVE  Lives /\ GuardInv'
<1>1. WorkerIsGuarded'
  BY WorkerStaysGuarded DEF LifeInv, Lives
<1> QED
  BY <1>1, GuardedStep DEF FewerCopies

LEMMA UserLives ==
  ASSUME LifeInv, NEW n \in KubeNames,
         UserCreate(n) \/ UserUpdate(n) \/ UserDelete(n)
  PROVE  Lives /\ GuardInv'
<1>1. Lives
  <2>1. CASE UserCreate(n)
    <3>1. UserSpecs[n] \subseteq DeviceSpec
      BY EnvironmentAssumption
    <3> QED
      BY <2>1, <3>1, CreateLives DEF UserCreate
  <2>2. CASE UserUpdate(n)
    <3>1. PICK s \in UserSpecs[n] : Store(n, [kube[n] EXCEPT !.spec = s], {})
      BY <2>2 DEF UserUpdate
    <3>2. kube[n] \in Device /\ s \in DeviceSpec
      BY <2>2, Types, EnvironmentAssumption DEF LifeInv, UserUpdate, Exists
    <3> DEFINE cr == [kube[n] EXCEPT !.spec = s]
    <3>3. cr \in Device
      BY <3>2, DeviceType
    <3>4. /\ cr.deleting = kube[n].deleting /\ cr.finalizer = kube[n].finalizer
          /\ cr.status = kube[n].status
      BY <3>2, DeviceFields
    <3> HIDE DEF cr
    <3>5. Moved(n, kube[n], cr)
      BY <2>2, <3>3, <3>4, AbsenceAssumption DEF UserUpdate, Moved, Exists
    <3> QED
      BY <2>2, <3>1, <3>5, StoreLives DEF cr, UserUpdate
  <2>3. CASE UserDelete(n)
    BY <2>3, DeleteLives DEF UserDelete
  <2> QED
    BY <2>1, <2>2, <2>3
<1>2. UNCHANGED <<cache, rec, syn>>
  BY DEF UserCreate, UserUpdate, UserDelete, UserStep
<1> QED
  BY <1>1, <1>2, OthersGuarded DEF FewerCopies

LEMMA SameGuarded ==
  ASSUME LifeInv, UNCHANGED <<kube, cache, current, rec, syn>>
  PROVE  Lives /\ GuardInv'
  BY SameLives, OthersGuarded DEF Lives, Outdated, FewerCopies

LEMMA SeenGuarded ==
  ASSUME LifeInv, UNCHANGED <<kube, rec, syn>>, NEW n \in KubeNames,
         cache' = [cache EXCEPT ![n] = kube[n]],
         current' = [current EXCEPT ![n] = @ \cup {"cache"}]
  PROVE  Lives /\ GuardInv'
<1>1. \A m \in KubeNames :
        /\ cache'[m] = IF m = n THEN kube[n] ELSE cache[m]
        /\ current'[m] = IF m = n THEN current[m] \cup {"cache"} ELSE current[m]
  BY Types DEF LifeInv
<1>2. GuardInv
  BY DEF LifeInv
<1>3. Lives
  BY <1>1, SameLives DEF Lives, Outdated
<1>4. SyncedIsGuarded' /\ DeletingIsGuarded' /\ WorkerIsGuarded' /\ SyncerCopyIsGuarded'
  BY <1>2, <1>3, KubeStaysGuarded, WorkerStaysGuarded, CopiesStayGuarded DEF Lives
<1>5. CacheIsGuarded'
  BY <1>1, <1>2, SteadyNames DEF GuardInv, CacheIsGuarded, SyncedIsGuarded, Exists
<1> QED
  BY <1>3, <1>4, <1>5 DEF GuardInv

LEMMA RestartGuarded ==
  ASSUME LifeInv, Restart
  PROVE  Lives /\ GuardInv'
<1>1. /\ rec' = IdleWorker /\ syn' = IdleRound /\ cache' = kube /\ kube' = kube
      /\ current' = [n \in KubeNames |-> {"cache"}]
  BY DEF Restart
<1>2. Lives
  <2>1. \A n \in KubeNames : current'[n] = {"cache"}
    BY <1>1
  <2>2. Outdated("syncer")
    BY <2>1 DEF Outdated
  <2> QED
    BY <1>1, <2>2, SameLives DEF Lives
<1>3. CacheIsGuarded'
  BY <1>1, SteadyNames DEF LifeInv, GuardInv, CacheIsGuarded, SyncedIsGuarded, Exists
<1>4. WorkerIsGuarded' /\ SyncerCopyIsGuarded'
  BY <1>1, SteadyNames DEF WorkerIsGuarded, SyncerCopyIsGuarded, IdleWorker, IdleRound, Working
<1> QED
  BY <1>2, <1>3, <1>4, KubeStaysGuarded DEF LifeInv, GuardInv, Lives

(***************************************************************************)
(* The life of a CR: the worker.                                           *)
(***************************************************************************)
LEMMA WorkerLives ==
  ASSUME LifeInv, Lives, UNCHANGED <<cache, syn>>, WorkerIsGuarded'
  PROVE  Lives /\ GuardInv'
  BY GuardedStep

LEMMA TakeKeyLives ==
  ASSUME LifeInv, NEW n \in KubeNames, Reconcile(n), UNCHANGED syn
  PROVE  Lives /\ GuardInv'
<1>1. UNCHANGED <<kube, cache>>
  BY DEF Reconcile
<1>2. Outdated("syncer")
  BY <1>1, Types DEF LifeInv, Reconcile, ReadFromCache, Outdated
<1>3. Lives
  BY <1>1, <1>2, SameLives DEF Lives
<1>4. WorkerIsGuarded'
  <2>1. CASE UNCHANGED rec
    BY <1>3, <2>1, WorkerStaysGuarded DEF LifeInv, Lives
  <2>2. CASE /\ Handles(n)
             /\ rec' = [IdleWorker EXCEPT !.pc = FirstRequest(cache[n]),
                                          !.key = n, !.d = cache[n]]
    <3> DEFINE c == cache[n]
    <3>1. rec'.pc = FirstRequest(c) /\ rec'.key = n /\ rec'.d = c /\ c # NoCR
      BY <2>2 DEF IdleWorker, Handles
    <3>2. n \in Steady =>
            /\ c.status.synced => c.finalizer
            /\ Exists(n) => /\ c.finalizer => kube[n].finalizer
                            /\ c.deleting => kube[n].deleting
      BY <3>1 DEF LifeInv, GuardInv, CacheIsGuarded
    <3> HIDE DEF c
    <3>3. CASE c.deleting
      BY <1>1, <3>1, <3>2, <3>3 DEF FirstRequest, WorkerIsGuarded, Working, Exists
    <3>4. CASE ~c.deleting /\ ~c.finalizer
      BY <3>1, <3>2, <3>4 DEF FirstRequest, WorkerIsGuarded, Working
    <3>5. CASE ~c.deleting /\ c.finalizer
      <4>1. rec'.pc \in {"getDevice", "updateDevice", "finish"}
        BY <3>1, <3>5 DEF FirstRequest, AfterDelete
      <4> QED
        BY <1>1, <3>1, <3>2, <3>5, <4>1 DEF WorkerIsGuarded, Working, Exists
    <3> QED
      BY <3>3, <3>4, <3>5
  <2> QED
    BY <2>1, <2>2 DEF Reconcile
<1> QED
  BY <1>1, <1>3, <1>4, WorkerLives

(* The worker is as far with its CR as it was, or further.                 *)
Advances ==
  rec'.key = rec.key /\ rec'.pc \in Working \cup {"finish", "panicked"}

LEMMA PcAndKey ==
  ASSUME rec \in Worker
  PROVE  /\ \A r : Finish(r) => rec'.pc = "finish" /\ rec'.key = rec.key /\ rec'.d = rec.d
         /\ \A s, r : FinishWith(s, r) => Advances
         /\ \A b : Found(b) => Advances
         /\ \A p, s, made, failed : NextProperty(p, s, made, failed) => Advances
         /\ \A p, entry : GotProperty(p, entry) => Advances
         /\ NotSet => Advances
         /\ AfterPatch => Advances
         /\ Panic => Advances
<1>1. \A r : Finish(r) => rec'.pc = "finish" /\ rec'.key = rec.key /\ rec'.d = rec.d
  BY DEF Finish, Worker
<1>2. \A s, r : FinishWith(s, r) => Advances
  BY DEF FinishWith, Worker, Advances
<1>3. \A b : Found(b) => Advances
  BY DEF Found, Worker, Advances, Working
<1>4. \A p, s, made, failed : NextProperty(p, s, made, failed) => Advances
  BY DEF NextProperty, Worker, Advances, Working
<1>5. \A p, entry : GotProperty(p, entry) => Advances
  BY <1>4 DEF GotProperty, Worker, Advances, Working
<1>6. AfterPatch => Advances
  BY DEF AfterPatch, Worker, Advances, Working
<1>7. Panic => Advances
  BY DEF Panic, Worker, Advances
<1>8. NotSet => Advances
  BY <1>4 DEF NotSet
<1> QED
  BY <1>1, <1>2, <1>3, <1>4, <1>5, <1>6, <1>7, <1>8

LEMMA WorkingGoesOn ==
  ASSUME LifeInv,
         \/ GetDevice \/ CreateDevice \/ WriteSynced \/ UpdateDevice
         \/ ReadProperty \/ getPropertyPut \/ UpdatePropertyState \/ WriteStatus
         \/ \E p \in Props : GetPropertyState(p)
  PROVE  rec.pc \in Working /\ Advances /\ UNCHANGED cache
<1>1. rec \in Worker
  BY DEF LifeInv, StatusInv, TypeInv, TypeOK
<1>2. \A r : Finish(r) => Advances
  BY <1>1, PcAndKey DEF Advances
<1>3. CASE GetDevice
  <2>1. rec' = [rec EXCEPT !.pc = "createDevice"] => Advances
    BY <1>1 DEF Worker, Advances, Working
  <2> QED
    BY <1>1, <1>3, <2>1, PcAndKey DEF GetDevice, Working
<1>4. CASE CreateDevice
  BY <1>1, <1>4, PcAndKey DEF CreateDevice, CreateFailed, Working
<1>5. CASE WriteSynced
  BY <1>1, <1>2, <1>5 DEF WriteSynced, Working
<1>6. CASE UpdateDevice
  BY <1>1, <1>6, PcAndKey DEF UpdateDevice, UpdateFailed, Working
<1>7. CASE UpdatePropertyState
  BY <1>1, <1>7, PcAndKey DEF UpdatePropertyState, Working
<1>8. CASE WriteStatus
  BY <1>1, <1>8, PcAndKey DEF WriteStatus, Working
<1>9. CASE \E p \in Props : GetPropertyState(p)
  <2>1. PICK p \in Props : GetPropertyState(p)
    BY <1>9
  <2>2. rec' = [rec EXCEPT !.pc = "readProperty", !.property = p] => Advances
    BY ONLY <1>1 DEF Worker, Advances, Working
  <2> QED
    BY <1>1, <2>1, <2>2, PcAndKey DEF GetPropertyState, ReadFailed, Working
<1>10. CASE ReadProperty
  BY <1>1, <1>10, PcAndKey DEF ReadProperty, ReadFailed, Working
<1>11. CASE getPropertyPut
  <2>1. rec' = [rec EXCEPT !.pc = "putProperty"] => Advances
    BY ONLY <1>1 DEF Worker, Advances, Working
  <2> QED
    BY <1>1, <1>11, <2>1, PcAndKey DEF getPropertyPut, Working
<1> QED
  BY <1>3, <1>4, <1>5, <1>6, <1>7, <1>8, <1>9, <1>10, <1>11

LEMMA WorkGuarded ==
  ASSUME LifeInv, Lives, rec.pc \in Working, Advances, UNCHANGED <<cache, syn>>
  PROVE  Lives /\ GuardInv'
<1>1. WorkerIsGuarded'
  BY WorkerStaysGuarded DEF LifeInv, Lives, Advances
<1> QED
  BY <1>1, WorkerLives

LEMMA EdgeRequestLives ==
  ASSUME LifeInv, UNCHANGED syn,
         \/ GetDevice \/ CreateDevice \/ UpdateDevice \/ UpdatePropertyState
         \/ ReadProperty \/ getPropertyPut \/ \E p \in Props : GetPropertyState(p)
  PROVE  Lives /\ GuardInv'
<1>1. ApiUnchanged
  BY DEF GetDevice, CreateDevice, UpdateDevice, UpdatePropertyState, GetPropertyState,
         ReadProperty, getPropertyPut
<1> QED
  BY <1>1, ApiUnchangedLives, WorkingGoesOn, WorkGuarded

(* The updates of the worker's copy: synced is written only when the CR is *)
(* there and, unless its name is reused, guarded.                          *)
LEMMA WorkingWrites ==
  ASSUME LifeInv, rec.pc \in Working, NEW s \in DeviceStatus, s.synced,
         StatusReply(rec.key, "reconciler") = "ok",
         Put(rec.key, WithStatus(rec.key, s), "reconciler")
  PROVE  Lives
<1>1. rec.key \in KubeNames /\ Exists(rec.key)
  BY BusyWorker DEF LifeInv, Working, StatusReply
<1>2. rec.key \in Steady => kube[rec.key].finalizer
  BY <1>1 DEF LifeInv, GuardInv, WorkerIsGuarded
<1>3. WithStatus(rec.key, s) \in Device
  BY <1>1, WithStatusType DEF LifeInv, StatusInv, TypeInv, TypeOK
<1>4. Moved(rec.key, kube[rec.key], WithStatus(rec.key, s))
  BY <1>1, <1>2, <1>3, StatusMoved
<1> QED
  BY <1>1, <1>4, PutLives

LEMMA WriteSyncedLives ==
  ASSUME LifeInv, WriteSynced, UNCHANGED syn
  PROVE  Lives /\ GuardInv'
<1>1. rec.pc = "writeSynced" /\ rec.pc \in Working
  BY DEF WriteSynced, Working
<1>2. rec.d.status \in DeviceStatus /\ rec.d.status.synced
  BY <1>1, BusyWorker DEF LifeInv
<1>3. Lives
  BY <1>1, <1>2, WorkingWrites, ApiUnchangedLives DEF WriteSynced
<1> QED
  BY <1>1, <1>3, WorkingGoesOn, WorkGuarded

LEMMA WriteStatusLives ==
  ASSUME LifeInv, WriteStatus, UNCHANGED syn
  PROVE  Lives /\ GuardInv'
<1>1. rec.pc = "writeStatus" /\ rec.pc \in Working
  BY DEF WriteStatus, Working
<1>2. rec.newStatus \in DeviceStatus /\ rec.newStatus.synced
  BY <1>1, BusyWorker DEF LifeInv, Looping, Visiting
<1>3. Lives
  BY <1>1, <1>2, WorkingWrites, ApiUnchangedLives DEF WriteStatus
<1> QED
  BY <1>1, <1>3, WorkingGoesOn, WorkGuarded

(* The patch that adds the finalizer: a CR made anew gets one too.         *)
LEMMA AddFinalizerLives ==
  ASSUME LifeInv, AddFinalizer, UNCHANGED syn
  PROVE  Lives /\ GuardInv'
<1>1. rec.pc = "addFinalizer" /\ UNCHANGED cache
  BY DEF AddFinalizer
<1>2. rec \in Worker /\ rec.key \in KubeNames
  BY <1>1, BusyWorker DEF LifeInv
<1>3. CASE ApiUnchanged /\ (Finish(FALSE) \/ Finish(TRUE))
  <2>1. rec'.pc = "finish" /\ rec'.key = rec.key /\ rec'.d = rec.d
    BY <1>2, <1>3, PcAndKey
  <2>2. Lives
    BY <1>3, ApiUnchangedLives
  <2>3. WorkerIsGuarded'
    BY <1>1, <2>1, <2>2, WorkerStaysGuarded DEF LifeInv, Lives
  <2> QED
    BY <1>1, <2>2, <2>3, WorkerLives
<1>4. CASE Exists(rec.key) /\ Patched([kube[rec.key] EXCEPT !.finalizer = TRUE])
  <2> DEFINE cr == [kube[rec.key] EXCEPT !.finalizer = TRUE]
  <2>1. kube[rec.key] \in Device
    BY <1>2, <1>4, Types DEF LifeInv, Exists
  <2>2. cr \in Device
    BY <2>1, DeviceType
  <2>3. cr.finalizer /\ cr.deleting = kube[rec.key].deleting /\ cr.status = kube[rec.key].status
    BY <2>1, DeviceFields
  <2> DEFINE d == Decoded(cr, rec.d, rec.key)
             pc == IF d.deleting THEN "finish" ELSE AfterDelete(d)
  <2>4. /\ Put(rec.key, cr, "reconciler")
        /\ rec' = [rec EXCEPT !.d = d, !.pc = pc]
    BY <1>4 DEF Patched
  <2> HIDE DEF cr, d
  <2>5. Moved(rec.key, kube[rec.key], cr)
    BY <1>4, <2>2, <2>3, AbsenceAssumption DEF Moved, Exists
  <2>6. Lives /\ kube'[rec.key] = cr
    BY <1>2, <1>4, <2>4, <2>5, PutLives
  <2>7. rec'.key = rec.key /\ rec'.pc \in {"finish", "getDevice", "updateDevice"}
    <3>1. pc \in {"finish", "getDevice", "updateDevice"}
      BY DEF AfterDelete
    <3> HIDE DEF pc
    <3> QED
      BY ONLY <1>2, <2>4, <3>1 DEF Worker
  <2>8. WorkerIsGuarded'
    BY <2>3, <2>6, <2>7 DEF WorkerIsGuarded, Working
  <2> QED
    BY <1>1, <2>6, <2>8, WorkerLives
<1> QED
  BY <1>3, <1>4 DEF AddFinalizer

LEMMA DeleteDeviceLives ==
  ASSUME LifeInv, DeleteDevice, UNCHANGED syn
  PROVE  Lives /\ GuardInv'
<1>1. rec.pc = "deleteDevice" /\ ApiUnchanged /\ UNCHANGED cache
  BY DEF DeleteDevice
<1>2. rec \in Worker
  BY <1>1, BusyWorker DEF LifeInv
<1>3. rec'.key = rec.key /\ rec'.pc \in {"removeFinalizer", "finish"}
  <2>1. rec' = [rec EXCEPT !.pc = "removeFinalizer"] =>
          rec'.key = rec.key /\ rec'.pc = "removeFinalizer"
    BY <1>2 DEF Worker
  <2> QED
    BY <1>2, <2>1, PcAndKey DEF DeleteDevice
<1>4. Lives
  BY <1>1, ApiUnchangedLives
<1>5. WorkerIsGuarded'
  BY <1>1, <1>3, <1>4, WorkerStaysGuarded DEF LifeInv, Lives
<1> QED
  BY <1>1, <1>4, <1>5, WorkerLives

(* The CR whose finalizer is taken was marked for deletion, unless it is a *)
(* new one under a reused name.                                            *)
LEMMA RemoveFinalizerLives ==
  ASSUME LifeInv, RemoveFinalizer, UNCHANGED syn
  PROVE  Lives /\ GuardInv'
<1>1. rec.pc = "removeFinalizer" /\ UNCHANGED cache
  BY DEF RemoveFinalizer
<1>2. rec \in Worker /\ rec.key \in KubeNames
  BY <1>1, BusyWorker DEF LifeInv
<1>3. rec.key \in Steady /\ Exists(rec.key) => kube[rec.key].deleting
  BY <1>1, <1>2 DEF LifeInv, GuardInv, WorkerIsGuarded
<1>4. CASE /\ Finish(FALSE) \/ Finish(TRUE)
           /\ \/ ApiUnchanged
              \/ Exists(rec.key) /\ kube[rec.key].deleting /\ Store(rec.key, NoCR, {})
  <2>1. rec'.pc = "finish" /\ rec'.key = rec.key
    BY <1>2, <1>4, PcAndKey
  <2>2. Lives
    <3>1. CASE Exists(rec.key) /\ kube[rec.key].deleting /\ Store(rec.key, NoCR, {})
      <4>1. Moved(rec.key, kube[rec.key], NoCR)
        BY <3>1 DEF Moved, Exists
      <4> QED
        BY <1>2, <3>1, <4>1, StoreLives
    <3> QED
      BY <1>4, <3>1, ApiUnchangedLives
  <2>3. WorkerIsGuarded'
    BY <1>1, <2>1, <2>2, WorkerStaysGuarded DEF LifeInv, Lives
  <2> QED
    BY <1>1, <2>2, <2>3, WorkerLives
<1>5. CASE /\ Exists(rec.key) /\ ~kube[rec.key].deleting
           /\ Patched([kube[rec.key] EXCEPT !.finalizer = FALSE])
  <2> DEFINE cr == [kube[rec.key] EXCEPT !.finalizer = FALSE]
  <2>1. rec.key \notin Steady /\ kube[rec.key] \in Device
    BY <1>2, <1>3, <1>5, Types DEF LifeInv, Exists
  <2>2. FALSE \in BOOLEAN
    OBVIOUS
  <2>3. cr \in Device /\ cr.deleting = kube[rec.key].deleting /\ cr.status = kube[rec.key].status
    BY <2>1, <2>2, DeviceType, DeviceFields
  <2>4. Put(rec.key, cr, "reconciler") /\ rec'.key = rec.key
    BY <1>2, <1>5 DEF Patched, Worker
  <2> HIDE DEF cr
  <2>5. Moved(rec.key, kube[rec.key], cr)
    BY <1>5, <2>1, <2>3, AbsenceAssumption DEF Moved, Exists
  <2>6. Lives
    BY <1>2, <1>5, <2>4, <2>5, PutLives
  <2>7. WorkerIsGuarded'
    BY <2>1, <2>4 DEF WorkerIsGuarded
  <2> QED
    BY <1>1, <2>6, <2>7, WorkerLives
<1> QED
  BY <1>4, <1>5 DEF RemoveFinalizer

(* The deferred update shows the CR as synced only if the worker knew it   *)
(* to be.                                                                  *)
LEMMA ReturnLives ==
  ASSUME LifeInv, Return, UNCHANGED syn
  PROVE  Lives /\ GuardInv'
<1>1. rec.pc = "finish" /\ UNCHANGED cache /\ rec'.pc \in {"idle", "panicked"}
  BY DEF Return, LeftWorker, IdleWorker
<1>2. /\ rec.key \in KubeNames /\ rec.d \in Device /\ rec.d.status \in DeviceStatus
      /\ DeferredStatus.synced = rec.d.status.synced
  BY <1>1, BusyWorker, DeferredHonest DEF LifeInv
<1>3. Lives
  <2>1. CASE Forget(rec.key, "reconciler")
    BY <1>2, <2>1, ForgetLives
  <2>2. CASE /\ StatusReply(rec.key, "reconciler") = "ok"
             /\ PutLast(rec.key, WithStatus(rec.key, DeferredStatus), "reconciler")
    <3>1. Exists(rec.key) /\ "reconciler" \in current[rec.key]
      BY <2>2 DEF StatusReply
    <3>2. kube[rec.key].status.synced => DeferredStatus.synced
      BY <1>1, <1>2, <3>1, BusyWorker DEF LifeInv
    <3>3. rec.key \in Steady /\ DeferredStatus.synced => kube[rec.key].finalizer
      BY <1>1, <1>2, <3>1 DEF LifeInv, GuardInv, WorkerIsGuarded
    <3>4. WithStatus(rec.key, DeferredStatus) \in Device
      BY <1>2, <2>2, DeferredSynced, WithStatusType DEF LifeInv, StatusInv, TypeInv, TypeOK
    <3>5. Moved(rec.key, kube[rec.key], WithStatus(rec.key, DeferredStatus))
      BY <1>2, <3>1, <3>2, <3>3, <3>4, StatusMoved
    <3> QED
      BY <1>2, <2>2, <3>1, <3>5, PutLives
  <2> QED
    BY <2>1, <2>2 DEF Return
<1>4. WorkerIsGuarded'
  BY <1>1 DEF WorkerIsGuarded, Working
<1> QED
  BY <1>1, <1>3, <1>4, WorkerLives

LEMMA ReconcilerLives ==
  ASSUME LifeInv, ReconcilerStep, UNCHANGED syn
  PROVE  Lives /\ GuardInv'
  BY AddFinalizerLives, DeleteDeviceLives, RemoveFinalizerLives, EdgeRequestLives,
     WriteSyncedLives, WriteStatusLives, ReturnLives
  DEF ReconcilerStep

(***************************************************************************)
(* The life of a CR: the syncer.                                           *)
(***************************************************************************)
LEMMA ListEdgeDevicesLives ==
  ASSUME LifeInv, ListEdgeDevices, UNCHANGED rec
  PROVE  Lives /\ GuardInv'
<1>1. FewerCopies
  <2>1. \/ \E listed : syn' = [syn EXCEPT !.pc = "listed", !.edgeDevices = listed]
        \/ syn' = [syn EXCEPT !.pc = "listed"]
        \/ syn' = syn
    BY DEF ListEdgeDevices
  <2>2. syn'.copy = syn.copy
    BY <2>1, Types DEF Round, LifeInv
  <2> QED
    BY <2>2 DEF FewerCopies
<1> QED
  BY <1>1, ApiUnchangedLives, OthersGuarded DEF ListEdgeDevices

(* A copy that is current was taken from a cache entry that is.            *)
LEMMA ListKubeDevicesLives ==
  ASSUME LifeInv, ListKubeDevices, UNCHANGED rec
  PROVE  KubeMoves /\ NewIsFree /\ GuardInv'
<1>1. UNCHANGED <<kube, cache>> /\ KubeMoves /\ NewIsFree
  BY SameLives DEF ListKubeDevices
<1>2. PICK both \in SUBSET KubeNames :
        /\ \A n \in KubeNames : syn'.copy[n] # NoCR =>
             n \in both /\ SameMarks(cache[n].status, syn'.copy[n].status)
        /\ current' = [n \in KubeNames |->
             IF n \in both THEN ReadFromCache(n, "syncer") ELSE current[n] \ {"syncer"}]
        /\ \A n \in both : cache[n] # NoCR
  BY Types, ListedCopies DEF LifeInv
<1>3. SyncerCopyIsGuarded'
  <2> SUFFICES ASSUME NEW n \in Steady, syn'.copy[n] # NoCR,
                      syn'.copy[n].status.synced, "syncer" \in current'[n], Exists(n)
               PROVE  kube[n].finalizer
    BY <1>1 DEF SyncerCopyIsGuarded, Exists
  <2>1. n \in both /\ cache[n].status.synced
    BY <1>2, SteadyNames DEF SameMarks
  <2>2. "cache" \in current[n]
    BY <1>2, <2>1, Types DEF ReadFromCache, LifeInv
  <2>3. cache[n] = kube[n]
    BY <2>2, SteadyNames DEF LifeInv, StatusInv, AllHonest, CurrentCacheIsExact
  <2> QED
    BY <2>1, <2>3 DEF LifeInv, GuardInv, SyncedIsGuarded
<1>4. SyncedIsGuarded' /\ DeletingIsGuarded' /\ CacheIsGuarded' /\ WorkerIsGuarded'
  BY <1>1, KubeStaysGuarded, CacheStaysGuarded, WorkerStaysGuarded DEF LifeInv
<1> QED
  BY <1>1, <1>3, <1>4 DEF GuardInv

LEMMA ListPropertiesStateLives ==
  ASSUME LifeInv, UNCHANGED rec,
         \/ \E n \in KubeNames : ListPropertiesState(n)
         \/ \E p \in Props : ReadListedProperty(p)
  PROVE  Lives /\ GuardInv'
<1>1. MarksOfCopiesKept
  BY CopiesKeepMarks DEF LifeInv, StatusInv
<1>2. \A m \in KubeNames : syn'.copy[m] # NoCR =>
        syn.copy[m] # NoCR /\ syn'.copy[m].status.synced = syn.copy[m].status.synced
  BY <1>1 DEF MarksOfCopiesKept, SameMarks
<1>3. Lives /\ UNCHANGED cache
  BY ApiUnchangedLives DEF ListPropertiesState, ReadListedProperty
<1>4. WorkerIsGuarded'
  BY <1>3, WorkerStaysGuarded DEF LifeInv, Lives
<1> QED
  BY <1>2, <1>3, <1>4, GuardedStep

LEMMA SyncEdgeToKubeLives ==
  ASSUME LifeInv, NEW e \in EdgeNames, SyncEdgeToKube(e, {rec.key}), UNCHANGED rec
  PROVE  Lives /\ GuardInv'
<1>1. FewerCopies
  BY CreatingFewer DEF LifeInv
<1>2. Lives
  <2>1. CASE ApiUnchanged
    BY <2>1, ApiUnchangedLives
  <2>2. CASE /\ CanCreate(SyncerName[e], {rec.key})
             /\ Create(SyncerName[e], completeCreateContent(e))
    <3>1. syn.edgeDevices[e] \in Listed
      BY Types DEF SyncEdgeToKube, LifeInv, StatusInv, TypeInv, RoundHasItsCopies, Round
    <3>2. completeCreateContent(e) \in DeviceSpec /\ SyncerName[e] \in KubeNames
      BY <3>1, NamesAssumption DEF completeCreateContent, DeviceSpec, Listed
    <3> QED
      BY <2>2, <3>2, CreateLives
  <2> QED
    BY <2>1, <2>2 DEF SyncEdgeToKube
<1> QED
  BY <1>1, <1>2, OthersGuarded DEF SyncEdgeToKube

LEMMA DeleteRedundantLives ==
  ASSUME LifeInv, NEW n \in KubeNames, DeleteRedundant(n), UNCHANGED rec
  PROVE  Lives /\ GuardInv'
<1>1. FewerCopies
  BY DeletingFewer DEF LifeInv
<1>2. Lives
  BY ApiUnchangedLives, DeleteLives DEF DeleteRedundant
<1> QED
  BY <1>1, <1>2, OthersGuarded DEF DeleteRedundant

(* An update of the syncer writes the synced mark of its copy, which only  *)
(* a current copy carries over, and of a guarded CR.                       *)
LEMMA UpdateDeviceStatusLives ==
  ASSUME LifeInv, NEW n \in KubeNames, UpdateDeviceStatus(n), UNCHANGED rec
  PROVE  Lives /\ GuardInv'
<1>1. FewerCopies
  BY UpdatingFewer DEF LifeInv
<1>2. Lives
  <2>1. CASE Forget(n, "syncer")
    BY <2>1, ForgetLives
  <2>2. CASE /\ UpdateReply(n) = "ok"
             /\ PutLast(n, WithStatus(n, syn.copy[n].status), "syncer")
    <3>1. Exists(n) /\ "syncer" \in current[n] /\ StatusReply(n, "syncer") = "ok"
      BY <2>2 DEF UpdateReply, StatusReply
    <3>2. syn.copy[n] # NoCR /\ syn.copy[n].status \in DeviceStatus
      BY Types DEF UpdateDeviceStatus, LifeInv, StatusInv, TypeInv, RoundHasItsCopies, Round, Copy
    <3>3. kube[n].status.synced => syn.copy[n].status.synced
      BY <3>1, <3>2 DEF LifeInv, StatusInv, AllHonest, RoundHonest
    <3>4. n \in Steady /\ syn.copy[n].status.synced => kube[n].finalizer
      BY <3>1, <3>2 DEF LifeInv, GuardInv, SyncerCopyIsGuarded
    <3>5. WithStatus(n, syn.copy[n].status) \in Device
      BY <3>1, <3>2, WithStatusType DEF LifeInv, StatusInv, TypeInv, TypeOK
    <3>6. Moved(n, kube[n], WithStatus(n, syn.copy[n].status))
      BY <3>1, <3>3, <3>4, <3>5, StatusMoved
    <3> QED
      BY <2>2, <3>1, <3>6, PutLives
  <2> QED
    BY <2>1, <2>2 DEF UpdateDeviceStatus
<1> QED
  BY <1>1, <1>2, OthersGuarded DEF UpdateDeviceStatus

LEMMA SyncerLives ==
  ASSUME LifeInv, SyncerStep({rec.key}), UNCHANGED rec
  PROVE  KubeMoves /\ NewIsFree /\ GuardInv'
  BY ListEdgeDevicesLives, ListKubeDevicesLives, ListPropertiesStateLives,
     SyncEdgeToKubeLives, DeleteRedundantLives, UpdateDeviceStatusLives
  DEF SyncerStep, Lives

(***************************************************************************)
(* The life of a CR: the system.                                           *)
(***************************************************************************)
LEMMA StepLives ==
  ASSUME LifeInv, [Next]_vars
  PROVE  WritesTruthful /\ KubeMoves /\ NewIsFree /\ LifeInv'
<1>1. WritesTruthful /\ StatusInv'
  BY StepHonest DEF LifeInv
<1>2. CASE \E n \in KubeNames : UserCreate(n) \/ UserUpdate(n) \/ UserDelete(n)
  BY <1>1, <1>2, UserLives DEF LifeInv, Lives
<1>3. CASE \/ \E e \in EdgeNames : AddEdgeDevice(e) \/ RemoveEdgeDevice(e) \/ ChangeEdgeDevice(e)
           \/ InformerResyncs \/ UNCHANGED vars
  <2>1. UNCHANGED <<kube, cache, current, rec, syn>>
    BY <1>3 DEF AddEdgeDevice, RemoveEdgeDevice, ChangeEdgeDevice, EdgeStep,
                InformerResyncs, Resync, vars, clusterVars
  <2> QED
    BY <1>1, <2>1, SameGuarded DEF LifeInv, Lives
<1>4. CASE \E n \in KubeNames : TakeKey(n)
  BY <1>1, <1>4, TakeKeyLives DEF LifeInv, Lives, TakeKey
<1>5. CASE \E n \in KubeNames : WatchDelivers(n) \/ WatchBreaks(n)
  <2>1. PICK n \in KubeNames : WatchDelivers(n) \/ WatchBreaks(n)
    BY <1>5
  <2>2. /\ UNCHANGED <<kube, rec, syn>>
        /\ cache' = [cache EXCEPT ![n] = kube[n]]
        /\ current' = [current EXCEPT ![n] = @ \cup {"cache"}]
    BY <2>1 DEF WatchDelivers, WatchBreaks, Deliver, Relist
  <2> QED
    BY <1>1, <2>2, SeenGuarded DEF LifeInv, Lives
<1>6. CASE ReconcilerRuns
  BY <1>1, <1>6, ReconcilerLives DEF LifeInv, Lives, ReconcilerRuns
<1>7. CASE SyncerRuns
  BY <1>1, <1>7, SyncerLives DEF LifeInv, SyncerRuns
<1>8. CASE Restart
  BY <1>1, <1>8, RestartGuarded DEF LifeInv, Lives
<1> QED
  BY <1>2, <1>3, <1>4, <1>5, <1>6, <1>7, <1>8 DEF Next, Environment

LEMMA InitLife ==
  ASSUME Init
  PROVE  LifeInv
<1>1. GuardInv
  BY SteadyNames, NamesAssumption
     DEF Init, ClusterInit, IdleWorker, IdleRound, GuardInv, SyncedIsGuarded,
         DeletingIsGuarded, CacheIsGuarded, WorkerIsGuarded, SyncerCopyIsGuarded, Working, Exists
<1> QED
  BY <1>1, InitHonest DEF LifeInv

(***************************************************************************)
(* The specification of the life of a CR is implemented.                   *)
(***************************************************************************)
StoredCRs == {n \in KubeNames : Exists(n)}
GuardedCRs == {n \in KubeNames : Exists(n) /\ kube[n].finalizer}
SyncedCRs == {n \in KubeNames : Exists(n) /\ kube[n].status.synced}
DeletingCRs == {n \in KubeNames : Exists(n) /\ kube[n].deleting}

LEMMA SetsMove ==
  ASSUME NEW n \in KubeNames, \A m \in KubeNames \ {n} : kube'[m] = kube[m]
  PROVE  /\ StoredCRs' = IF kube'[n] # NoCR THEN StoredCRs \cup {n} ELSE StoredCRs \ {n}
         /\ GuardedCRs' = IF kube'[n] # NoCR /\ kube'[n].finalizer
                          THEN GuardedCRs \cup {n} ELSE GuardedCRs \ {n}
         /\ SyncedCRs' = IF kube'[n] # NoCR /\ kube'[n].status.synced
                         THEN SyncedCRs \cup {n} ELSE SyncedCRs \ {n}
         /\ DeletingCRs' = IF kube'[n] # NoCR /\ kube'[n].deleting
                           THEN DeletingCRs \cup {n} ELSE DeletingCRs \ {n}
<1>1. StoredCRs' = IF kube'[n] # NoCR THEN StoredCRs \cup {n} ELSE StoredCRs \ {n}
  BY DEF StoredCRs, Exists
<1>2. GuardedCRs' = IF kube'[n] # NoCR /\ kube'[n].finalizer
                    THEN GuardedCRs \cup {n} ELSE GuardedCRs \ {n}
  BY DEF GuardedCRs, Exists
<1>3. SyncedCRs' = IF kube'[n] # NoCR /\ kube'[n].status.synced
                   THEN SyncedCRs \cup {n} ELSE SyncedCRs \ {n}
  BY DEF SyncedCRs, Exists
<1>4. DeletingCRs' = IF kube'[n] # NoCR /\ kube'[n].deleting
                     THEN DeletingCRs \cup {n} ELSE DeletingCRs \ {n}
  BY DEF DeletingCRs, Exists
<1> QED
  BY <1>1, <1>2, <1>3, <1>4

(* Every way a CR may move is one action of its life, or none.             *)
LEMMA LifeStep ==
  ASSUME KubeMoves, kube \in [KubeNames -> Device \cup {NoCR}],
         kube' \in [KubeNames -> Device \cup {NoCR}]
  PROVE  [Life!Next]_(Life!lifeVars)
<1> USE DEF Life!lifeVars
<1>1. CASE UNCHANGED kube
  BY <1>1 DEF Exists
<1>2. ASSUME NEW n \in KubeNames, Moved(n, kube[n], kube'[n]),
             \A m \in KubeNames \ {n} : kube'[m] = kube[m]
      PROVE  [Life!Next]_(Life!lifeVars)
  <2> DEFINE old == kube[n]
             new == kube'[n]
  <2>1. /\ old # NoCR => /\ old.finalizer \in BOOLEAN /\ old.deleting \in BOOLEAN
                         /\ old.status.synced \in BOOLEAN
        /\ new # NoCR => /\ new.finalizer \in BOOLEAN /\ new.deleting \in BOOLEAN
                         /\ new.status.synced \in BOOLEAN
    BY DeviceType DEF DeviceStatus
  <2>2. /\ n \in StoredCRs <=> old # NoCR
        /\ n \in GuardedCRs <=> old # NoCR /\ old.finalizer
        /\ n \in SyncedCRs <=> old # NoCR /\ old.status.synced
        /\ n \in DeletingCRs <=> old # NoCR /\ old.deleting
    BY DEF StoredCRs, GuardedCRs, SyncedCRs, DeletingCRs, Exists
  <2>3. /\ StoredCRs' = IF new # NoCR THEN StoredCRs \cup {n} ELSE StoredCRs \ {n}
        /\ GuardedCRs' = IF new # NoCR /\ new.finalizer
                         THEN GuardedCRs \cup {n} ELSE GuardedCRs \ {n}
        /\ SyncedCRs' = IF new # NoCR /\ new.status.synced
                        THEN SyncedCRs \cup {n} ELSE SyncedCRs \ {n}
        /\ DeletingCRs' = IF new # NoCR /\ new.deleting
                          THEN DeletingCRs \cup {n} ELSE DeletingCRs \ {n}
    BY <1>2, SetsMove
  <2>4. Moved(n, old, new)
    BY <1>2
  <2> HIDE DEF old, new
  <2>5. CASE old = NoCR
    <3>1. Life!Create(n)
      BY <2>1, <2>2, <2>3, <2>4, <2>5
      DEF Moved, Life!Create, StoredCRs, GuardedCRs, SyncedCRs, DeletingCRs
    <3> QED
      BY <3>1 DEF Life!Next
  <2>6. CASE old # NoCR /\ new = NoCR
    <3>1. Life!Vanish(n)
      BY <2>2, <2>3, <2>4, <2>6
      DEF Moved, Life!Vanish, StoredCRs, GuardedCRs, SyncedCRs, DeletingCRs
    <3> QED
      BY <3>1 DEF Life!Next
  <2>7. CASE old # NoCR /\ new # NoCR
    <3>1. \/ /\ StoredCRs' = StoredCRs /\ GuardedCRs' = GuardedCRs
             /\ SyncedCRs' = SyncedCRs /\ DeletingCRs' = DeletingCRs
          \/ /\ StoredCRs' = StoredCRs /\ GuardedCRs' = GuardedCRs /\ DeletingCRs' = DeletingCRs
             /\ n \in StoredCRs \ SyncedCRs /\ n \in GuardedCRs \cup PromptReuse
             /\ SyncedCRs' = SyncedCRs \cup {n}
          \/ /\ StoredCRs' = StoredCRs /\ SyncedCRs' = SyncedCRs /\ DeletingCRs' = DeletingCRs
             /\ n \in StoredCRs \ GuardedCRs /\ GuardedCRs' = GuardedCRs \cup {n}
          \/ /\ StoredCRs' = StoredCRs /\ SyncedCRs' = SyncedCRs /\ DeletingCRs' = DeletingCRs
             /\ n \in (GuardedCRs \cap PromptReuse) \ DeletingCRs
             /\ GuardedCRs' = GuardedCRs \ {n}
          \/ /\ StoredCRs' = StoredCRs /\ GuardedCRs' = GuardedCRs /\ SyncedCRs' = SyncedCRs
             /\ n \in GuardedCRs \ DeletingCRs /\ DeletingCRs' = DeletingCRs \cup {n}
      BY <2>1, <2>2, <2>3, <2>4, <2>7 DEF Moved, Steady
    <3> QED
      BY <3>1 DEF StoredCRs, GuardedCRs, SyncedCRs, DeletingCRs,
                  Life!Next, Life!Sync, Life!Strip, Life!Guard, Life!MarkDeleted
  <2> QED
    BY <2>5, <2>6, <2>7
<1> QED
  BY <1>1, <1>2 DEF KubeMoves

LEMMA LifeInit ==
  ASSUME Init
  PROVE  Life!Init
  BY DEF Init, ClusterInit, Life!Init, Exists

(* What a process may rely on although others write the CRs it works on:   *)
(* as long as a CR is there it keeps the synced mark that this process has *)
(* seen, and, unless its name is reused, the finalizer and the deletion    *)
(* mark too.                                                               *)
THEOREM LifeInvariance == Spec => []LifeInv
<1>1. Init => LifeInv
  BY InitLife
<1>2. LifeInv /\ [Next]_vars => LifeInv'
  BY StepLives
<1> QED
  BY <1>1, <1>2, PTL DEF Spec

(* The life of every CR is the one stated in Lifecycle, for any number of  *)
(* CRs, devices, failures and user operations.                             *)
THEOREM LifecycleImplemented == Spec => ImplementsLifecycle
<1>1. LifeInv /\ LifeInv' /\ [Next]_vars => [Life!Next]_(Life!lifeVars)
  BY StepLives, LifeStep, Types DEF LifeInv, StatusInv, TypeInv, TypeOK, ClusterTypeOK
<1>2. Init => Life!Init
  BY LifeInit
<1> QED
  BY <1>1, <1>2, LifeInvariance, PTL DEF Spec, ImplementsLifecycle, Life!Spec

(***************************************************************************)
(* Two processes.                                                          *)
(***************************************************************************)
(* A step of somebody else, of which the process sees what its watch tells.*)
Seen ==
  /\ UNCHANGED <<cache, queue, rec, syn>>
  /\ current' = [n \in KubeNames |-> IF kube'[n] # kube[n] THEN {} ELSE current[n]]
  /\ pending' \subseteq KubeNames

SharedTypeOK ==
  /\ kube \in [KubeNames -> Device \cup {NoCR}]
  /\ edge \in [EdgeNames -> EdgeDevice \cup {NoDevice}]
  /\ faults \in 0..MaxFaults
  /\ userOps \in 0..MaxUserOps /\ edgeOps \in 0..MaxEdgeOps /\ rounds \in 0..MaxRounds

LEMMA TypesShared ==
  /\ LifeInv => TypeOK /\ SharedTypeOK /\ pending \subseteq KubeNames
  /\ LifeInv' => SharedTypeOK'
<1>1. LifeInv => TypeOK /\ SharedTypeOK /\ pending \subseteq KubeNames
  BY DEF LifeInv, StatusInv, TypeInv, TypeOK, ClusterTypeOK, SharedTypeOK
<1>2. LifeInv' => SharedTypeOK'
  BY DEF LifeInv, StatusInv, TypeInv, TypeOK, ClusterTypeOK, SharedTypeOK
<1> QED
  BY <1>1, <1>2

LEMMA SeenLives ==
  ASSUME LifeInv, Seen, SharedTypeOK', WritesTruthful, KubeMoves, NewIsFree
  PROVE  LifeInv'
<1>1. \A n \in KubeNames : current'[n] = IF kube'[n] # kube[n] THEN {} ELSE current[n]
  BY DEF Seen
<1>2. \A h \in Holders : Outdated(h)
  BY <1>1 DEF Outdated
<1>3. TypeInv'
  <2>1. current' \in [KubeNames -> SUBSET Holders]
    BY Types DEF Seen, LifeInv
  <2>2. ClusterTypeOK'
    BY <2>1 DEF LifeInv, StatusInv, TypeInv, TypeOK, ClusterTypeOK, Seen, SharedTypeOK
  <2>3. TypeOK'
    BY <2>2 DEF LifeInv, StatusInv, TypeInv, TypeOK, Seen, SharedTypeOK
  <2> QED
    BY <2>3 DEF LifeInv, StatusInv, TypeInv, Seen, WorkerHasItsCR, Visiting, RoundHasItsCopies,
                desiredProperties
<1>4. AllHonest'
  BY <1>2, OthersHonest DEF LifeInv, Seen, FewerCopies
<1>5. GuardInv'
  BY <1>2, OthersGuarded DEF Seen, FewerCopies, Lives, Holders
<1> QED
  BY <1>3, <1>4, <1>5 DEF LifeInv, StatusInv

(* A new leader fills its workqueue.                                       *)
LEMMA QueueLives ==
  ASSUME LifeInv, queue' \subseteq KubeNames,
         UNCHANGED <<kube, cache, current, pending, edge, faults, rec, syn, others>>
  PROVE  LifeInv'
<1>1. TypeInv'
  BY DEF LifeInv, StatusInv, TypeInv, TypeOK, ClusterTypeOK, others,
         WorkerHasItsCR, RoundHasItsCopies, desiredProperties
<1>2. AllHonest' /\ GuardInv'
  BY SameHonest, SameGuarded DEF LifeInv
<1> QED
  BY <1>1, <1>2 DEF LifeInv, StatusInv

(* Nor does a new CR take a name that the round goes on to delete.         *)
NewIsNoTarget ==
  \A n \in Steady : ~Exists(n) /\ kube'[n] # NoCR => n \notin syn.redundantKube

LEMMA SeenKeepsPools ==
  ASSUME PoolInv, PoolsStay, Seen, NewIsFree, NewIsNoTarget
  PROVE  PoolInv'
<1>1. \A n \in KubeNames : current'[n] = IF kube'[n] # kube[n] THEN {} ELSE current[n]
  BY DEF Seen
<1>2. SyncerOutdated
  BY <1>1 DEF SyncerOutdated
<1>3. \A n \in KubeNames : PoolKept(n)
  BY DEF PoolsStay, NewIsFree, NewIsNoTarget, PoolKept
<1>4. LessToDo /\ UNCHANGED <<cache, rec>>
  BY DEF Seen, LessToDo
<1> QED
  BY <1>2, <1>3, <1>4, PoolStep

LEMMA SamePools ==
  ASSUME PoolInv, UNCHANGED <<kube, cache, current, rec, syn>>
  PROVE  PoolInv'
  BY DEF PoolInv, CachePools, WorkerPools, RoundPools, InPool, Exists
=============================================================================
