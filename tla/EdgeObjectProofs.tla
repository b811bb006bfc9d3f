-------------------------- MODULE EdgeObjectProofs --------------------------
(***************************************************************************)
(* Type correctness of EdgeObjectSystem, and what the writers of a status  *)
(* (two updates of a reconciler and one of a syncer, each from a copy of   *)
(* its own) preserve: synced is never taken back, and Ready is honest.     *)
(***************************************************************************)
EXTENDS EdgeObjectSystem, TLAPS

(***************************************************************************)
(* CRs and statuses.                                                       *)
(***************************************************************************)
LEMMA ObjectType ==
  ASSUME NEW d \in Object
  PROVE  /\ d.spec \in ObjectSpec /\ d.status \in ObjectStatus
         /\ d.deleting \in BOOLEAN /\ d.finalizer \in BOOLEAN
         /\ \A s \in ObjectStatus : /\ [d EXCEPT !.status = s] \in Object
                                    /\ [d EXCEPT !.status = s].status = s
                                    /\ [d EXCEPT !.status = s].spec = d.spec
         /\ \A s \in ObjectSpec : /\ [d EXCEPT !.spec = s] \in Object
                                  /\ [d EXCEPT !.spec = s].status = d.status
         /\ \A b \in BOOLEAN : /\ [d EXCEPT !.finalizer = b] \in Object
                               /\ [d EXCEPT !.finalizer = b].status = d.status
                               /\ [d EXCEPT !.finalizer = b].spec = d.spec
         /\ [d EXCEPT !.deleting = TRUE] \in Object
         /\ [d EXCEPT !.deleting = TRUE].status = d.status
         /\ [d EXCEPT !.deleting = TRUE].spec = d.spec
  BY DEF Object

LEMMA SpecType ==
  ASSUME NEW s \in ObjectSpec
  PROVE  /\ s.edgeName \in EdgeNames /\ s.definition \in Definition
         /\ s.adminState \in AdminStates \cup {""}
  BY DEF ObjectSpec

(* The fields of a status after each change made to one. *)
States == AdminStates \cup {""}

LEMMA StatusSet ==
  ObjectStatus =
    [synced: BOOLEAN, edgeId: BOOLEAN, adminState: States,
     syncedCondition: {"none", "True", "createFailed"},
     managingCondition: {"none", "True", "notManaged", "updateFailed", "statusFailed"},
     ready: {"none", "True", "False"}]
  BY DEF ObjectStatus, States

LEMMA ManagingFields ==
  ASSUME NEW s \in ObjectStatus, NEW c \in {"True", "notManaged", "updateFailed", "statusFailed"},
         NEW t, t = [s EXCEPT !.managingCondition = c]
  PROVE  /\ t \in ObjectStatus /\ t.managingCondition = c
         /\ t.synced = s.synced /\ t.ready = s.ready
         /\ t.syncedCondition = s.syncedCondition
  BY StatusSet

LEMMA SyncedConditionFields ==
  ASSUME NEW s \in ObjectStatus, NEW c \in {"True", "createFailed"},
         NEW t, t = [s EXCEPT !.syncedCondition = c]
  PROVE  /\ t \in ObjectStatus /\ t.syncedCondition = c
         /\ t.synced = s.synced /\ t.ready = s.ready
         /\ t.managingCondition = s.managingCondition
  BY StatusSet

LEMMA ReadyFields ==
  ASSUME NEW s \in ObjectStatus, NEW c \in {"none", "True", "False"},
         NEW t, t = [s EXCEPT !.ready = c]
  PROVE  /\ t \in ObjectStatus /\ t.ready = c
         /\ t.synced = s.synced /\ t.syncedCondition = s.syncedCondition
         /\ t.managingCondition = s.managingCondition
  BY StatusSet

LEMMA SyncedFields ==
  ASSUME NEW s \in ObjectStatus, NEW b \in BOOLEAN,
         NEW t, t = [s EXCEPT !.synced = TRUE, !.edgeId = b]
  PROVE  /\ t \in ObjectStatus /\ t.synced = TRUE
         /\ t.ready = s.ready /\ t.syncedCondition = s.syncedCondition
         /\ t.managingCondition = s.managingCondition
  BY StatusSet

LEMMA AdminFields ==
  ASSUME NEW s \in ObjectStatus, NEW a \in States,
         NEW t, t = [s EXCEPT !.adminState = a]
  PROVE  /\ t \in ObjectStatus /\ t.synced = s.synced
         /\ t.ready = s.ready /\ t.syncedCondition = s.syncedCondition
         /\ t.managingCondition = s.managingCondition
  BY StatusSet

LEMMA AdminStatus ==
  ASSUME NEW s \in ObjectStatus
  PROVE  s.adminState \in States
  BY StatusSet

LEMMA NewObjectType ==
  ASSUME NEW s \in ObjectSpec
  PROVE  /\ NewObject(s) \in Object
         /\ NewObject(s).status \in ObjectStatus
         /\ NewObject(s).status.ready = "none"
         /\ NewObject(s).status.syncedCondition = "none"
         /\ NewObject(s).status.managingCondition = "none"
<1> DEFINE st == [synced |-> FALSE, edgeId |-> FALSE, adminState |-> "",
               syncedCondition |-> "none", managingCondition |-> "none",
               ready |-> "none"]
<1>1. st \in ObjectStatus
  BY DEF ObjectStatus
<1> QED
  BY <1>1 DEF NewObject, Object

(* The answer to a patch, decoded into a copy, is a CR. *)
LEMMA DecodedStatusType ==
  ASSUME NEW new \in ObjectStatus, NEW old \in ObjectStatus
  PROVE  DecodedObjectStatus(new, old) \in ObjectStatus
<1> DEFINE conditions == IF Unconditioned(new) THEN old ELSE new
           t == [synced |-> Filled(new.synced, old.synced, FALSE),
                 edgeId |-> Filled(new.edgeId, old.edgeId, FALSE),
                 adminState |-> Filled(new.adminState, old.adminState, ""),
                 syncedCondition |-> conditions.syncedCondition,
                 managingCondition |-> conditions.managingCondition,
                 ready |-> conditions.ready]
<1>1. conditions \in ObjectStatus
  OBVIOUS
<1>2. DecodedObjectStatus(new, old) = t
  BY DEF DecodedObjectStatus
<1> HIDE DEF conditions
<1>3. /\ Filled(new.synced, old.synced, FALSE) \in BOOLEAN
      /\ Filled(new.edgeId, old.edgeId, FALSE) \in BOOLEAN
  BY StatusSet DEF Filled
<1>4. Filled(new.adminState, old.adminState, "") \in States
  BY StatusSet DEF Filled
<1>5. t \in ObjectStatus
  BY <1>1, <1>3, <1>4, StatusSet
<1> QED
  BY <1>2, <1>5

LEMMA DecodedType ==
  ASSUME NEW new \in Object, NEW old \in Object, NEW n \in EdgeNames \cup KubeNames
  PROVE  /\ DecodedObject(new, old, n) \in Object
         /\ DecodedObject(new, old, n).status = DecodedObjectStatus(new.status, old.status)
<1>1. DecodedObjectSpec(new.spec, old.spec, n) \in ObjectSpec
  <2>1. new.spec \in ObjectSpec /\ old.spec \in ObjectSpec
    BY ObjectType
  <2>2. /\ Filled(new.spec.edgeName, old.spec.edgeName, n) \in EdgeNames
        /\ Filled(new.spec.managed, old.spec.managed, FALSE) \in BOOLEAN
        /\ Filled(new.spec.adminState, old.spec.adminState, "") \in AdminStates \cup {""}
    BY <2>1 DEF ObjectSpec, Filled
  <2> QED
    BY <2>1, <2>2 DEF ObjectSpec, DecodedObjectSpec
<1>2. DecodedObjectStatus(new.status, old.status) \in ObjectStatus
  BY ObjectType, DecodedStatusType
<1>3. Filled(new.deleting, old.deleting, FALSE) \in BOOLEAN /\ new.finalizer \in BOOLEAN
  BY ObjectType DEF Filled
<1> QED
  BY <1>1, <1>2, <1>3 DEF DecodedObject, Object

(***************************************************************************)
(* The invariant.                                                          *)
(***************************************************************************)
(* A status that shows success is of a synced CR; in one that is stored,   *)
(* Ready is at most as good as the conditions.                             *)
Credible(s) ==
  "True" \in {s.ready, s.syncedCondition, s.managingCondition} => s.synced

Honest(s) ==
  /\ Credible(s)
  /\ s.ready = "True" => {s.syncedCondition, s.managingCondition} \subseteq {"none", "True"}

HonestCR(cr) == cr # NoCR => Honest(cr.status)

(* What the worker may hold at pc: the condition of a failure goes with a  *)
(* new summary only, and only a synced service is managed.                 *)
Trusted(pc, s) ==
  /\ Credible(s)
  /\ pc # "finish" => Honest(s)
  /\ pc \in {"updateObject", "writeStatus"} => s.synced

ApiTypeOK ==
  /\ kube \in [KubeNames -> Object \cup {NoCR}]
  /\ current \in [KubeNames -> SUBSET Holders]
  /\ pending \subseteq KubeNames

WorkerOK ==
  /\ rec \in ObjectWorker
  /\ IF rec.pc = "idle" THEN rec.key = NoName
     ELSE /\ rec.key \in KubeNames /\ rec.edgeName \in EdgeNames /\ rec.d \in Object
          /\ Trusted(rec.pc, rec.d.status)

RoundOK ==
  /\ syn \in ObjectRound
  /\ \A e \in syn.redundantEdge : syn.listed[e] # NoObject
  /\ syn.pc = "idle" => syn.redundantEdge = {}
  /\ \A n \in KubeNames : syn.synced[n] # NoCR => Honest(syn.synced[n])

KubeHonest == \A n \in KubeNames : HonestCR(kube[n])
CacheHonest == \A n \in KubeNames : HonestCR(cache[n])

(* A current copy is of a CR that exists, and does not lag behind its mark.*)
CurrentCache == \A n \in KubeNames : "cache" \in current[n] => cache[n] = kube[n]

CurrentWorker ==
  \A n \in KubeNames : "reconciler" \in current[n] =>
    /\ n = rec.key /\ Exists(n)
    /\ kube[n].status.synced => rec.d.status.synced

CurrentRound ==
  \A n \in KubeNames : "syncer" \in current[n] /\ syn.synced[n] # NoCR =>
    Exists(n) /\ (kube[n].status.synced => syn.synced[n].synced)

IInv ==
  /\ ObjectTypeOK
  /\ WorkerOK /\ RoundOK
  /\ KubeHonest /\ CacheHonest
  /\ CurrentCache /\ CurrentWorker /\ CurrentRound

(***************************************************************************)
(* The writes.                                                             *)
(***************************************************************************)
(* cr may be stored after kube[n].                                         *)
Truthful(n, cr) ==
  cr # NoCR => /\ cr \in Object /\ Honest(cr.status)
               /\ Exists(n) /\ kube[n].status.synced => cr.status.synced

(* No copy of h becomes current, and none stays so if the CR changes.      *)
Outdated(h) ==
  \A n \in KubeNames : h \in current'[n] => h \in current[n] /\ kube'[n] = kube[n]

Written == ApiTypeOK' /\ \A n \in KubeNames : Truthful(n, kube'[n])

LEMMA Types ==
  ASSUME IInv
  PROVE  /\ ApiTypeOK
         /\ cache \in [KubeNames -> Object \cup {NoCR}]
         /\ queue \subseteq KubeNames
         /\ edge \in [EdgeNames -> EdgeObject \cup {NoObject}]
         /\ faults \in 0..MaxFaults
         /\ kind \in Kinds /\ userOps \in 0..MaxUserOps
         /\ \A n \in KubeNames : Exists(n) => kube[n] \in Object
         /\ \A n \in KubeNames : cache[n] # NoCR => cache[n] \in Object
  BY DEF IInv, ObjectTypeOK, ApiTypeOK, Exists

LEMMA SameTruthful ==
  ASSUME IInv, NEW n \in KubeNames
  PROVE  Truthful(n, kube[n])
  BY Types DEF IInv, KubeHonest, HonestCR, Truthful, Exists

LEMMA UnchangedWritten ==
  ASSUME IInv, UNCHANGED <<kube, pending>>, current' \in [KubeNames -> SUBSET Holders]
  PROVE  Written
  BY SameTruthful, Types DEF Written, ApiTypeOK

LEMMA ApiUnchangedWritten ==
  ASSUME IInv, ApiUnchanged
  PROVE  Written /\ \A h \in Holders : Outdated(h)
  BY UnchangedWritten, Types DEF ApiUnchanged, Outdated, ApiTypeOK

LEMMA StoreWritten ==
  ASSUME IInv, NEW n \in KubeNames, NEW cr, Truthful(n, cr),
         NEW hs \in SUBSET Holders, Store(n, cr, hs)
  PROVE  /\ Written /\ \A h \in Holders \ hs : Outdated(h)
         /\ \A m \in KubeNames : /\ kube'[m] = IF m = n THEN cr ELSE kube[m]
                                 /\ current'[m] = IF m = n THEN hs ELSE current[m]
<1>1. cr \in Object \cup {NoCR}
  BY DEF Truthful
<1>2. ApiTypeOK'
  BY <1>1, Types DEF Store, ApiTypeOK
<1>3. \A m \in KubeNames : /\ kube'[m] = IF m = n THEN cr ELSE kube[m]
                           /\ current'[m] = IF m = n THEN hs ELSE current[m]
  BY Types DEF Store, ApiTypeOK
<1>4. \A m \in KubeNames : Truthful(m, kube'[m])
  BY <1>3, SameTruthful DEF Truthful
<1> QED
  BY <1>2, <1>3, <1>4 DEF Written, Outdated

LEMMA ForgetWritten ==
  ASSUME IInv, NEW n \in KubeNames, NEW g \in Holders, Forget(n, g)
  PROVE  /\ Written /\ \A h \in Holders : Outdated(h)
         /\ g \notin current'[n]
  BY UnchangedWritten, Types DEF Forget, Outdated, ApiTypeOK

LEMMA PutWritten ==
  ASSUME IInv, NEW n \in KubeNames, NEW cr, cr # NoCR, Truthful(n, cr),
         NEW g \in Holders, Put(n, cr, g)
  PROVE  /\ Written /\ \A h \in Holders \ {g} : Outdated(h)
         /\ kube'[n] = cr
         /\ \A m \in KubeNames \ {n} : current'[m] = current[m] /\ kube'[m] = kube[m]
<1>1. CASE cr = kube[n]
  BY <1>1, UnchangedWritten, Types DEF Put, Outdated, ApiTypeOK
<1>2. CASE cr # kube[n]
  BY <1>2, StoreWritten DEF Put
<1> QED
  BY <1>1, <1>2

LEMMA PutLastWritten ==
  ASSUME IInv, NEW n \in KubeNames, NEW cr, cr # NoCR, Truthful(n, cr),
         NEW g \in Holders, PutLast(n, cr, g)
  PROVE  /\ Written /\ \A h \in Holders : Outdated(h)
         /\ g \notin current'[n]
<1>1. CASE cr = kube[n]
  BY <1>1, ForgetWritten DEF PutLast
<1>2. CASE cr # kube[n]
  BY <1>2, StoreWritten DEF PutLast
<1> QED
  BY <1>1, <1>2

LEMMA DeleteWritten ==
  ASSUME IInv, NEW n \in KubeNames, Exists(n), Delete(n)
  PROVE  Written /\ \A h \in Holders : Outdated(h)
<1> DEFINE marked == [kube[n] EXCEPT !.deleting = TRUE]
<1>1. Truthful(n, marked) /\ marked # NoCR
  BY Types, SameTruthful, ObjectType, ObjectAbsenceAssumption DEF Truthful, Exists
<1>2. ApiUnchanged \/ Store(n, marked, {}) \/ Store(n, NoCR, {})
  BY DEF Delete
<1> HIDE DEF marked
<1>3. CASE ApiUnchanged
  BY <1>3, ApiUnchangedWritten
<1>4. CASE Store(n, marked, {})
  BY <1>1, <1>4, StoreWritten
<1>5. CASE Store(n, NoCR, {})
  <2>1. Truthful(n, NoCR)
    BY DEF Truthful
  <2> QED
    BY <1>5, <2>1, StoreWritten
<1> QED
  BY <1>2, <1>3, <1>4, <1>5

LEMMA CreateWritten ==
  ASSUME IInv, NEW n \in KubeNames, NEW s \in ObjectSpec, ~Exists(n), Store(n, NewObject(s), {})
  PROVE  Written /\ \A h \in Holders : Outdated(h)
<1>1. Truthful(n, NewObject(s)) /\ NewObject(s) # NoCR
  BY NewObjectType, ObjectAbsenceAssumption DEF Truthful, Honest, Credible
<1> QED
  BY <1>1, StoreWritten

LEMMA StatusTruthful ==
  ASSUME IInv, NEW n \in KubeNames, NEW s \in ObjectStatus, Exists(n), Honest(s),
         kube[n].status.synced => s.synced
  PROVE  Truthful(n, WithStatus(n, s)) /\ WithStatus(n, s).status = s /\ WithStatus(n, s) # NoCR
<1>1. /\ WithStatus(n, s) \in Object /\ WithStatus(n, s).status = s
  <2>1. kube[n] \in Object
    BY Types
  <2> QED
    BY <2>1, ObjectType DEF WithStatus
<1>2. WithStatus(n, s) # NoCR
  BY <1>1, ObjectAbsenceAssumption
<1>3. Honest(WithStatus(n, s).status)
  BY <1>1
<1>4. kube[n].status.synced => WithStatus(n, s).status.synced
  BY <1>1
<1> QED
  BY <1>1, <1>2, <1>3, <1>4 DEF Truthful

(***************************************************************************)
(* What a step leaves to those who do not take it.                         *)
(***************************************************************************)
RestTypeOK ==
  /\ cache \in [KubeNames -> Object \cup {NoCR}]
  /\ queue \subseteq KubeNames
  /\ edge \in [EdgeNames -> EdgeObject \cup {NoObject}]
  /\ faults \in 0..MaxFaults
  /\ kind \in Kinds /\ userOps \in 0..MaxUserOps

LEMMA Assembled ==
  ASSUME ApiTypeOK', RestTypeOK', WorkerOK', RoundOK', KubeHonest', CacheHonest',
         CurrentCache', CurrentWorker', CurrentRound'
  PROVE  IInv'
  BY DEF IInv, ObjectTypeOK, ApiTypeOK, RestTypeOK, WorkerOK, RoundOK

LEMMA StoredHonest ==
  ASSUME IInv, Written, Outdated("cache"), UNCHANGED cache
  PROVE  ApiTypeOK' /\ KubeHonest' /\ CacheHonest' /\ CurrentCache'
<1>1. KubeHonest'
  BY DEF Written, Truthful, KubeHonest, HonestCR
<1>2. CacheHonest'
  BY DEF IInv, CacheHonest
<1>3. CurrentCache'
  BY DEF IInv, CurrentCache, Outdated
<1> QED
  BY <1>1, <1>2, <1>3 DEF Written

LEMMA OtherWorker ==
  ASSUME IInv, Outdated("reconciler"), UNCHANGED rec
  PROVE  WorkerOK' /\ CurrentWorker'
<1>1. WorkerOK'
  BY DEF IInv, WorkerOK
<1>2. CurrentWorker'
  BY DEF IInv, CurrentWorker, Outdated, Exists
<1> QED
  BY <1>1, <1>2

LEMMA OtherRound ==
  ASSUME IInv, Outdated("syncer"), UNCHANGED syn
  PROVE  RoundOK' /\ CurrentRound'
<1>1. RoundOK'
  BY DEF IInv, RoundOK
<1>2. CurrentRound'
  BY DEF IInv, CurrentRound, Outdated, Exists
<1> QED
  BY <1>1, <1>2

LEMMA FaultsType ==
  ASSUME IInv, NEW kinds, Fails(kinds) \/ Succeeds
  PROVE  faults' \in 0..MaxFaults
  BY Types, BoundsAssumption DEF Fails, Succeeds

(* A step of users or operators. *)
LEMMA OutsideStep ==
  ASSUME IInv, Written, \A h \in Holders : Outdated(h), UNCHANGED <<cache, rec, syn>>,
         RestTypeOK'
  PROVE  IInv'
<1>1. Outdated("cache") /\ Outdated("reconciler") /\ Outdated("syncer")
  BY DEF Holders
<1> QED
  BY <1>1, StoredHonest, OtherWorker, OtherRound, Assembled

LEMMA UserOK ==
  ASSUME IInv, NEW n \in KubeNames, UserCreates(n) \/ UserUpdates(n) \/ UserDeletes(n)
  PROVE  IInv' /\ Written
<1>1. UserStep
  BY DEF UserCreates, UserUpdates, UserDeletes
<1>2. Written /\ \A h \in Holders : Outdated(h)
  <2>1. CASE UserCreates(n)
    <3>1. PICK s \in UserSpecs[n] : Store(n, NewObject(s), {})
      BY <2>1 DEF UserCreates
    <3>2. s \in ObjectSpec /\ ~Exists(n)
      BY <2>1, ObjectEnvironmentAssumption DEF UserCreates, CanCreate
    <3> QED
      BY <3>1, <3>2, CreateWritten
  <2>2. CASE UserUpdates(n)
    <3>1. PICK s \in UserSpecs[n] : Store(n, [kube[n] EXCEPT !.spec = s], {})
      BY <2>2 DEF UserUpdates
    <3> DEFINE edited == [kube[n] EXCEPT !.spec = s]
    <3>2. s \in ObjectSpec /\ Exists(n) /\ kube[n] \in Object
      BY <2>2, ObjectEnvironmentAssumption, Types DEF UserUpdates
    <3>3. edited \in Object /\ edited.status = kube[n].status
      BY <3>2, ObjectType
    <3>4. Store(n, edited, {})
      BY <3>1
    <3> HIDE DEF edited
    <3>5. Truthful(n, edited)
      BY <3>2, <3>3, SameTruthful DEF Truthful, Exists
    <3> QED
      BY <3>4, <3>5, StoreWritten
  <2>3. CASE UserDeletes(n)
    BY <2>3, DeleteWritten DEF UserDeletes
  <2> QED
    BY <2>1, <2>2, <2>3
<1>3. RestTypeOK'
  <2>1. userOps \in 0..MaxUserOps /\ MaxUserOps \in Nat
    BY Types, ObjectEnvironmentAssumption
  <2>2. userOps' \in 0..MaxUserOps
    BY <1>1, <2>1 DEF UserStep
  <2> QED
    BY <1>1, <2>2, Types DEF UserStep, Succeeds, RestTypeOK
<1> QED
  BY <1>1, <1>2, <1>3, OutsideStep DEF UserStep

LEMMA OperatorOK ==
  ASSUME IInv, NEW e \in EdgeNames, OperatorAdds(e) \/ OperatorRemoves(e) \/ OperatorChanges(e)
  PROVE  IInv' /\ Written
<1>1. EdgeStep
  BY DEF OperatorAdds, OperatorRemoves, OperatorChanges
<1>2. edge' \in [EdgeNames -> EdgeObject \cup {NoObject}]
  <2>1. CASE OperatorAdds(e)
    <3>1. PICK s \in EdgeStates[e] :
            edge' = [edge EXCEPT ![e] = [adminState |-> s, definition |-> Whole, owner |-> NoName]]
      BY <2>1 DEF OperatorAdds
    <3>2. s \in AdminStates \cup {""}
      BY ObjectEnvironmentAssumption
    <3>3. Whole \in Definition
      BY DEF Whole, Definition
    <3>4. [adminState |-> s, definition |-> Whole, owner |-> NoName] \in EdgeObject
      BY <3>2, <3>3 DEF EdgeObject
    <3> QED
      BY <3>1, <3>4, Types
  <2>2. CASE OperatorRemoves(e)
    BY <2>2, Types DEF OperatorRemoves
  <2>3. CASE OperatorChanges(e)
    <3>1. PICK s \in AdminStates : edge' = [edge EXCEPT ![e].adminState = s]
      BY <2>3 DEF OperatorChanges
    <3>2. edge[e] \in EdgeObject
      BY <2>3, Types DEF OperatorChanges
    <3>3. [edge[e] EXCEPT !.adminState = s] \in EdgeObject
      BY <3>2 DEF EdgeObject
    <3> QED
      BY <3>1, <3>3, Types
  <2> QED
    BY <2>1, <2>2, <2>3 DEF OperatorAdds, OperatorRemoves, OperatorChanges
<1>3. RestTypeOK'
  BY <1>1, <1>2, Types, BoundsAssumption DEF EdgeStep, RestTypeOK
<1> QED
  BY <1>1, <1>3, OutsideStep, ApiUnchangedWritten DEF EdgeStep

(***************************************************************************)
(* The informer, and restarts.                                             *)
(***************************************************************************)
LEMMA SeenOK ==
  ASSUME IInv, UNCHANGED <<kube, edge, rec, syn, kind, userOps>>, NEW n \in KubeNames,
         cache' = [cache EXCEPT ![n] = kube[n]],
         current' = [current EXCEPT ![n] = @ \cup {"cache"}],
         pending' \subseteq KubeNames, queue' \subseteq KubeNames, faults' \in 0..MaxFaults
  PROVE  IInv' /\ Written
<1>1. \A m \in KubeNames :
        /\ cache'[m] = IF m = n THEN kube[n] ELSE cache[m]
        /\ current'[m] = IF m = n THEN current[m] \cup {"cache"} ELSE current[m]
  BY Types DEF ApiTypeOK
<1>2. current' \in [KubeNames -> SUBSET Holders] /\ ApiTypeOK' /\ RestTypeOK'
  BY Types DEF ApiTypeOK, RestTypeOK, Holders
<1>3. KubeHonest' /\ CacheHonest' /\ CurrentCache'
  BY <1>1 DEF IInv, KubeHonest, CacheHonest, HonestCR, CurrentCache
<1>4. Outdated("reconciler") /\ Outdated("syncer")
  BY <1>1 DEF Outdated
<1>5. Written
  BY <1>2, SameTruthful DEF Written
<1> QED
  BY <1>2, <1>3, <1>4, <1>5, OtherWorker, OtherRound, Assembled

LEMMA WatchOK ==
  ASSUME IInv, NEW n \in KubeNames, ObjectWatchDelivers(n) \/ ObjectWatchBreaks(n)
  PROVE  IInv' /\ Written
<1>1. faults' \in 0..MaxFaults
  BY FaultsType DEF ObjectWatchDelivers, ObjectWatchBreaks, Deliver, Relist
<1>2. pending' \subseteq KubeNames /\ queue' \subseteq KubeNames
  BY Types DEF ApiTypeOK, ObjectWatchDelivers, ObjectWatchBreaks, Deliver, Relist
<1> QED
  BY <1>1, <1>2, SeenOK
     DEF ObjectWatchDelivers, ObjectWatchBreaks, Deliver, Relist, Others

LEMMA SameOK ==
  ASSUME IInv, UNCHANGED <<kube, cache, current, pending, edge, faults, rec, syn, kind, userOps>>,
         queue' \subseteq KubeNames
  PROVE  IInv' /\ Written
<1>1. ApiUnchanged
  BY DEF ApiUnchanged
<1>2. RestTypeOK'
  BY Types DEF RestTypeOK
<1> QED
  BY <1>1, <1>2, ApiUnchangedWritten, OutsideStep

LEMMA IdleOK ==
  /\ IdleObjectWorker \in ObjectWorker
  /\ IdleObjectWorker.pc = "idle" /\ IdleObjectWorker.key = NoName
  /\ IdleObjectRound \in ObjectRound
  /\ IdleObjectRound.pc = "idle" /\ IdleObjectRound.redundantEdge = {}
  /\ IdleObjectRound.redundantKube = {}
  /\ \A n \in KubeNames : IdleObjectRound.synced[n] = NoCR
  /\ \A e \in EdgeNames : IdleObjectRound.listed[e] = NoObject
  BY DEF IdleObjectWorker, ObjectWorker, IdleObjectRound, ObjectRound

LEMMA RestartOK ==
  ASSUME IInv, Restarts
  PROVE  IInv' /\ Written
<1>1. /\ rec' = IdleObjectWorker /\ syn' = IdleObjectRound /\ cache' = kube /\ kube' = kube
      /\ current' = [n \in KubeNames |-> {"cache"}] /\ pending' = {}
      /\ queue' \subseteq KubeNames
  BY DEF Restarts
<1>2. ApiTypeOK' /\ RestTypeOK'
  <2>1. faults' \in 0..MaxFaults
    BY FaultsType DEF Restarts
  <2>2. {"cache"} \in SUBSET Holders
    BY DEF Holders
  <2> QED
    BY <1>1, <2>1, <2>2, Types DEF Restarts, Others, ApiTypeOK, RestTypeOK
<1>3. KubeHonest' /\ CacheHonest' /\ CurrentCache'
  BY <1>1 DEF IInv, KubeHonest, CacheHonest, HonestCR, CurrentCache
<1>4. WorkerOK' /\ RoundOK'
  BY <1>1, IdleOK DEF WorkerOK, RoundOK
<1>5. CurrentWorker' /\ CurrentRound'
  BY <1>1, IdleOK DEF CurrentWorker, CurrentRound
<1>6. Written
  BY <1>1, <1>2, SameTruthful DEF Written
<1> QED
  BY <1>2, <1>3, <1>4, <1>5, <1>6, Assembled

(***************************************************************************)
(* The worker.                                                             *)
(***************************************************************************)
Steps ==
  {"addFinalizer", "removeFinalizer", "deleteObject", "getObject",
   "createObject", "writeSynced", "updateObject", "writeStatus", "finish"}

(* The worker goes on to pc, with the status s in its copy. *)
Advanced(pc, s) ==
  /\ rec' \in ObjectWorker
  /\ rec'.pc = pc /\ rec'.key = rec.key /\ rec'.edgeName = rec.edgeName
  /\ rec'.d \in Object /\ rec'.d.status = s

LEMMA Busy ==
  ASSUME IInv, rec.pc # "idle"
  PROVE  /\ rec \in ObjectWorker /\ rec.pc \in Steps
         /\ rec.key \in KubeNames /\ rec.edgeName \in EdgeNames
         /\ rec.d \in Object /\ rec.d.status \in ObjectStatus /\ rec.d.spec \in ObjectSpec
         /\ Trusted(rec.pc, rec.d.status) /\ Credible(rec.d.status)
         /\ rec.pc # "finish" => Honest(rec.d.status)
  BY ObjectType DEF IInv, WorkerOK, ObjectWorker, Steps, Trusted

LEMMA GoesOn ==
  ASSUME IInv, rec.pc # "idle", NEW pc \in Steps, rec' = [rec EXCEPT !.pc = pc]
  PROVE  Advanced(pc, rec.d.status)
  BY Busy DEF Advanced, ObjectWorker, Steps

LEMMA GoesOnWith ==
  ASSUME IInv, rec.pc # "idle", NEW pc \in Steps, NEW s \in ObjectStatus,
         rec' = [rec EXCEPT !.pc = pc, !.d.status = s]
  PROVE  Advanced(pc, s)
<1>1. [rec.d EXCEPT !.status = s] \in Object /\ [rec.d EXCEPT !.status = s].status = s
  BY Busy, ObjectType
<1> DEFINE d == [rec.d EXCEPT !.status = s]
<1>2. rec' = [rec EXCEPT !.pc = pc, !.d = d]
  BY Busy DEF ObjectWorker
<1> HIDE DEF d
<1>3. d \in Object /\ d.status = s
  BY <1>1 DEF d
<1> QED
  BY <1>2, <1>3, Busy DEF Advanced, ObjectWorker, Steps

LEMMA Finishes ==
  ASSUME IInv, rec.pc # "idle", NEW r \in BOOLEAN, Finish(r)
  PROVE  Advanced("finish", rec.d.status)
  BY Busy DEF Finish, Advanced, ObjectWorker

LEMMA FinishesWith ==
  ASSUME IInv, rec.pc # "idle", NEW r \in BOOLEAN, NEW s \in ObjectStatus, FinishWith(s, r)
  PROVE  Advanced("finish", s)
<1>1. [rec.d EXCEPT !.status = s] \in Object /\ [rec.d EXCEPT !.status = s].status = s
  BY Busy, ObjectType
<1> DEFINE d == [rec.d EXCEPT !.status = s]
<1>2. rec' = [rec EXCEPT !.pc = "finish", !.requeue = r, !.d = d]
  BY Busy DEF ObjectWorker, FinishWith
<1> HIDE DEF d
<1>3. d \in Object /\ d.status = s
  BY <1>1 DEF d
<1> QED
  BY <1>2, <1>3, Busy DEF Advanced, ObjectWorker

LEMMA AdvancedOK ==
  ASSUME IInv, rec.pc # "idle", NEW pc \in Steps, NEW s, Advanced(pc, s), Trusted(pc, s)
  PROVE  WorkerOK'
<1>1. rec'.pc # "idle"
  BY DEF Advanced, Steps
<1>2. Trusted(rec'.pc, rec'.d.status)
  BY DEF Advanced
<1> QED
  BY <1>1, <1>2, Busy DEF Advanced, WorkerOK

(* A step of the worker without a write to the cluster. *)
LEMMA QuietStep ==
  ASSUME IInv, rec.pc # "idle", NEW pc \in Steps, NEW s, Advanced(pc, s), Trusted(pc, s),
         rec.d.status.synced => s.synced,
         ApiUnchanged, UNCHANGED <<cache, queue, syn, kind, userOps>>,
         edge' \in [EdgeNames -> EdgeObject \cup {NoObject}], faults' \in 0..MaxFaults
  PROVE  IInv' /\ Written
<1>1. Written /\ Outdated("cache") /\ Outdated("reconciler") /\ Outdated("syncer")
  BY ApiUnchangedWritten DEF Holders
<1>2. WorkerOK'
  BY AdvancedOK
<1>3. CurrentWorker'
  <2>1. rec'.key = rec.key /\ rec'.d.status = s
    BY DEF Advanced
  <2> QED
    BY <2>1 DEF IInv, CurrentWorker, ApiUnchanged, Exists
<1>4. RestTypeOK'
  BY Types DEF RestTypeOK
<1> QED
  BY <1>1, <1>2, <1>3, <1>4, StoredHonest, OtherRound, Assembled

LEMMA SyncedTrusted ==
  ASSUME IInv, rec.pc \in {"getObject", "createObject"}, NEW b \in BOOLEAN
  PROVE  /\ Synced(b) \in ObjectStatus /\ Synced(b).synced
         /\ Trusted("writeSynced", Synced(b))
<1>1. rec.d.status \in ObjectStatus /\ Honest(rec.d.status)
  BY Busy
<1>2. /\ Synced(b) \in ObjectStatus /\ Synced(b).synced = TRUE
      /\ Synced(b).ready = rec.d.status.ready
      /\ Synced(b).syncedCondition = rec.d.status.syncedCondition
      /\ Synced(b).managingCondition = rec.d.status.managingCondition
  BY <1>1, SyncedFields DEF Synced
<1>3. Synced(b).synced
  BY <1>2
<1>4. Credible(Synced(b))
  BY <1>3 DEF Credible
<1>5. Honest(Synced(b))
  BY <1>1, <1>2, <1>4 DEF Honest
<1> QED
  BY <1>2, <1>3, <1>4, <1>5 DEF Trusted

LEMMA GetOK ==
  ASSUME IInv, NEW e, GetsObject(e), UNCHANGED <<syn, kind, userOps>>
  PROVE  IInv' /\ Written
<1>1. rec.pc # "idle" /\ rec.pc # "finish" /\ rec.pc \in {"getObject", "createObject"}
  BY DEF GetsObject
<1>2. faults' \in 0..MaxFaults
  BY FaultsType DEF GetsObject
<1>3. edge' \in [EdgeNames -> EdgeObject \cup {NoObject}]
  BY Types DEF GetsObject
<1>4. CASE \E b \in BOOLEAN : WritesNext(Synced(b))
  <2>1. PICK b \in BOOLEAN : WritesNext(Synced(b))
    BY <1>4
  <2>2. Advanced("writeSynced", Synced(b))
    BY <1>1, <2>1, SyncedTrusted, GoesOnWith DEF WritesNext, Steps
  <2> QED
    BY <1>1, <1>2, <1>3, <2>2, SyncedTrusted, QuietStep DEF GetsObject, Steps
<1>5. CASE rec' = [rec EXCEPT !.pc = "createObject"]
  <2>1. Advanced("createObject", rec.d.status)
    BY <1>1, <1>5, GoesOn DEF Steps
  <2>2. Trusted("createObject", rec.d.status)
    BY <1>1, Busy DEF Trusted
  <2> QED
    BY <1>1, <1>2, <1>3, <2>1, <2>2, QuietStep DEF GetsObject, Steps
<1>6. CASE Finish(FALSE)
  <2>1. Advanced("finish", rec.d.status)
    BY <1>1, <1>6, Finishes
  <2>2. Trusted("finish", rec.d.status)
    BY <1>1, Busy DEF Trusted
  <2> QED
    BY <1>1, <1>2, <1>3, <2>1, <2>2, QuietStep DEF GetsObject, Steps
<1> QED
  BY <1>4, <1>5, <1>6 DEF GetsObject

LEMMA CreatesOK ==
  ASSUME IInv, NEW definition \in Definition,
         NEW made \in ObjectStatus, NEW failed \in ObjectStatus,
         CreatesObject(definition, made, failed), UNCHANGED <<syn, kind, userOps>>,
         Trusted("writeSynced", made), Trusted("finish", failed),
         made.synced, rec.d.status.synced => failed.synced
  PROVE  IInv' /\ Written
<1>1. rec.pc # "idle"
  BY DEF CreatesObject
<1>2. faults' \in 0..MaxFaults
  BY FaultsType DEF CreatesObject
<1> DEFINE obj == [adminState |-> rec.d.spec.adminState, definition |-> definition,
                   owner |-> rec.key]
           e == GetEdgeName(rec.d)
<1>3. obj \in EdgeObject
  BY <1>1, Busy, SpecType DEF EdgeObject
<1>4. edge' = edge \/ edge' = [edge EXCEPT ![e] = obj]
  BY DEF CreatesObject
<1>5. edge' \in [EdgeNames -> EdgeObject \cup {NoObject}]
  BY <1>3, <1>4, Types
<1>6. ApiUnchanged /\ UNCHANGED <<cache, queue>>
  BY DEF CreatesObject
<1>7. WritesNext(made) \/ FinishWith(failed, TRUE)
  BY DEF CreatesObject
<1>8. CASE WritesNext(made)
  <2>1. Advanced("writeSynced", made)
    BY <1>1, <1>8, GoesOnWith DEF WritesNext, Steps
  <2> QED
    BY <1>1, <1>2, <1>5, <1>6, <2>1, QuietStep DEF Steps
<1>9. CASE FinishWith(failed, TRUE)
  <2>1. Advanced("finish", failed)
    BY <1>1, <1>9, FinishesWith
  <2> QED
    BY <1>1, <1>2, <1>5, <1>6, <2>1, QuietStep DEF Steps
<1> QED
  BY <1>7, <1>8, <1>9

LEMMA DeletesOK ==
  ASSUME IInv, DeletesObject, UNCHANGED <<syn, kind, userOps>>
  PROVE  IInv' /\ Written
<1>1. rec.pc # "idle"
  BY DEF DeletesObject
<1>2. faults' \in 0..MaxFaults
  BY FaultsType DEF DeletesObject
<1>3. edge' \in [EdgeNames -> EdgeObject \cup {NoObject}]
  BY Types DEF DeletesObject
<1>4. ApiUnchanged /\ UNCHANGED <<cache, queue>>
  BY DEF DeletesObject
<1>5. Finish(FALSE) \/ Finish(TRUE)
  BY DEF DeletesObject
<1>6. Advanced("finish", rec.d.status)
  BY <1>1, <1>5, Finishes
<1>7. Trusted("finish", rec.d.status)
  BY <1>1, Busy DEF Trusted
<1> QED
  BY <1>1, <1>2, <1>3, <1>4, <1>6, <1>7, QuietStep DEF Steps

(* What a decoded answer leaves of an honest copy is honest. *)
LEMMA DecodedHonest ==
  ASSUME NEW new, NEW old, Honest(new), Honest(old),
         new.synced \in BOOLEAN, old.synced \in BOOLEAN
  PROVE  LET t == DecodedObjectStatus(new, old)
         IN  Honest(t) /\ (new.synced \/ old.synced => t.synced)
<1> DEFINE t == DecodedObjectStatus(new, old)
<1>1. t.synced = Filled(new.synced, old.synced, FALSE)
  BY DEF DecodedObjectStatus
<1>2. t.synced \in BOOLEAN /\ (t.synced <=> new.synced \/ old.synced)
  <2> HIDE DEF t
  <2> QED
    BY <1>1 DEF Filled
<1>3. PICK c \in {new, old} : /\ t.ready = c.ready /\ t.syncedCondition = c.syncedCondition
                              /\ t.managingCondition = c.managingCondition
  BY DEF DecodedObjectStatus
<1>4. Honest(c) /\ (c.synced => t.synced)
  BY <1>2, <1>3
<1> HIDE DEF t
<1>5. Credible(t)
  BY <1>3, <1>4 DEF Honest, Credible
<1>6. Honest(t)
  BY <1>3, <1>4, <1>5 DEF Honest
<1> QED
  BY <1>2, <1>6 DEF t

LEMMA AnsweredHonest ==
  ASSUME IInv, rec.pc \notin {"idle", "finish"}, Exists(rec.key), NEW b \in BOOLEAN
  PROVE  /\ WithFinalizer(b) \in Object /\ WithFinalizer(b) # NoCR
         /\ WithFinalizer(b).status = kube[rec.key].status
         /\ WithFinalizer(b).spec = kube[rec.key].spec
         /\ Truthful(rec.key, WithFinalizer(b))
         /\ Answered(b) \in Object /\ Honest(Answered(b).status)
         /\ kube[rec.key].status.synced => Answered(b).status.synced
<1>1. /\ rec.key \in KubeNames /\ kube[rec.key] \in Object /\ rec.d \in Object
      /\ rec.d.status \in ObjectStatus /\ Honest(rec.d.status)
  BY Busy, Types
<1>2. Honest(kube[rec.key].status)
  BY <1>1 DEF IInv, KubeHonest, HonestCR, Exists
<1> DEFINE cr == WithFinalizer(b)
<1>3. /\ cr \in Object /\ cr.status = kube[rec.key].status /\ cr.spec = kube[rec.key].spec
      /\ cr # NoCR
  <2> DEFINE stored == kube[rec.key]
  <2>1. cr = [stored EXCEPT !.finalizer = b] /\ stored \in Object
    BY <1>1 DEF WithFinalizer
  <2> HIDE DEF cr, stored
  <2>2. cr \in Object /\ cr.status = stored.status /\ cr.spec = stored.spec
    BY <2>1, ObjectType
  <2>3. cr # NoCR
    BY <2>2, ObjectAbsenceAssumption
  <2> QED
    BY <2>2, <2>3 DEF stored
<1> HIDE DEF cr
<1>4. Truthful(rec.key, cr)
  BY <1>2, <1>3 DEF Truthful
<1>5. /\ DecodedObject(cr, rec.d, rec.key) \in Object
      /\ DecodedObject(cr, rec.d, rec.key).status =
           DecodedObjectStatus(cr.status, rec.d.status)
  BY <1>1, <1>3, DecodedType
<1> DEFINE new == cr.status
           old == rec.d.status
           t == DecodedObjectStatus(new, old)
<1>6. Honest(new) /\ Honest(old) /\ new.synced \in BOOLEAN /\ old.synced \in BOOLEAN
  BY <1>1, <1>2, <1>3, ObjectType, StatusSet
<1>7. Honest(t) /\ (new.synced \/ old.synced => t.synced)
  <2> HIDE DEF new, old
  <2> QED
    BY <1>6, DecodedHonest
<1>8. Answered(b) = DecodedObject(cr, rec.d, rec.key)
  BY DEF Answered, cr
<1>9. Answered(b).status = t
  BY <1>5, <1>8
<1> HIDE DEF t
<1>10. kube[rec.key].status.synced => Answered(b).status.synced
  BY <1>3, <1>7, <1>9
<1> QED
  BY <1>3, <1>4, <1>5, <1>7, <1>8, <1>9, <1>10 DEF cr

(* The two patches of the finalizer. *)
LEMMA PatchedOK ==
  ASSUME IInv, rec.pc \notin {"idle", "finish"}, Exists(rec.key), NEW b \in BOOLEAN,
         NEW pc \in Steps \ {"writeStatus"}, NEW cr, cr = WithFinalizer(b),
         NEW d, d = Answered(b),
         Put(rec.key, cr, "reconciler") \/ Store(rec.key, NoCR, {}),
         rec' = [rec EXCEPT !.d = d, !.pc = pc],
         pc = "updateObject" => d.status.synced,
         UNCHANGED <<cache, queue, edge, syn, kind, userOps>>, faults' \in 0..MaxFaults
  PROVE  IInv' /\ Written
<1>1. rec.key \in KubeNames /\ kube[rec.key] \in Object
  BY Busy, Types
<1>2. /\ cr \in Object /\ cr.status = kube[rec.key].status /\ cr # NoCR
      /\ d \in Object /\ Honest(d.status)
      /\ kube[rec.key].status.synced => d.status.synced
  BY AnsweredHonest
<1>4. Advanced(pc, d.status)
  BY <1>2, Busy DEF Advanced, ObjectWorker, Steps
<1>5. Trusted(pc, d.status)
  BY <1>2 DEF Trusted, Honest
<1>6. WorkerOK'
  BY <1>4, <1>5, AdvancedOK
<1>7. Truthful(rec.key, cr) /\ Truthful(rec.key, NoCR)
  BY AnsweredHonest DEF Truthful
<1>8. RestTypeOK'
  BY Types DEF RestTypeOK
<1>9. rec'.key = rec.key /\ rec'.d.status = d.status
  BY <1>4 DEF Advanced
<1>10. CASE Put(rec.key, cr, "reconciler")
  <2>1. /\ Written /\ Outdated("cache") /\ Outdated("syncer") /\ kube'[rec.key] = cr
        /\ \A m \in KubeNames \ {rec.key} : current'[m] = current[m] /\ kube'[m] = kube[m]
    BY <1>1, <1>2, <1>7, <1>10, PutWritten DEF Holders
  <2>2. CurrentWorker'
    <3> SUFFICES ASSUME NEW n \in KubeNames, "reconciler" \in current'[n]
                 PROVE  /\ n = rec'.key /\ kube'[n] # NoCR
                        /\ kube'[n].status.synced => rec'.d.status.synced
      BY DEF CurrentWorker, Exists
    <3>1. n = rec.key
      BY <2>1 DEF IInv, CurrentWorker
    <3> QED
      BY <3>1, <2>1, <1>2, <1>9
  <2> QED
    BY <1>6, <1>8, <2>1, <2>2, StoredHonest, OtherRound, Assembled
<1>11. CASE Store(rec.key, NoCR, {})
  <2>1. /\ Written /\ \A h \in Holders : Outdated(h)
        /\ \A m \in KubeNames : current'[m] = IF m = rec.key THEN {} ELSE current[m]
    BY <1>1, <1>7, <1>11, StoreWritten
  <2>2. Outdated("cache") /\ Outdated("syncer")
    BY <2>1 DEF Holders
  <2>3. CurrentWorker'
    BY <2>1 DEF IInv, CurrentWorker
  <2> QED
    BY <1>6, <1>8, <2>1, <2>2, <2>3, StoredHonest, OtherRound, Assembled
<1> QED
  BY <1>10, <1>11

(* An attempt at a patch that ends the reconciliation. *)
LEMMA GivesUp ==
  ASSUME IInv, rec.pc # "idle", NEW r \in BOOLEAN, Finish(r), ApiUnchanged,
         UNCHANGED <<cache, queue, edge, syn, kind, userOps>>, faults' \in 0..MaxFaults
  PROVE  IInv' /\ Written
<1>1. Advanced("finish", rec.d.status)
  BY Finishes
<1>2. Trusted("finish", rec.d.status)
  BY Busy DEF Trusted
<1> QED
  BY <1>1, <1>2, Types, QuietStep DEF Steps

LEMMA AddsFinalizerOK ==
  ASSUME IInv, NEW next \in {"getObject", "updateObject", "finish"}, AddsFinalizer(next),
         UNCHANGED <<syn, kind, userOps>>,
         next = "updateObject" => Answered(TRUE).status.synced
  PROVE  IInv' /\ Written
<1>1. rec.pc # "idle" /\ rec.pc \notin {"idle", "finish"}
  BY DEF AddsFinalizer
<1>2. faults' \in 0..MaxFaults /\ UNCHANGED <<cache, queue, edge>>
  BY FaultsType DEF AddsFinalizer
<1> DEFINE cr == WithFinalizer(TRUE)
           d == Answered(TRUE)
<1>3. \/ /\ Exists(rec.key) /\ Put(rec.key, cr, "reconciler")
         /\ \E pc \in {next, "finish"} : rec' = [rec EXCEPT !.d = d, !.pc = pc]
      \/ Finish(FALSE) /\ ApiUnchanged
      \/ Finish(TRUE) /\ ApiUnchanged
  BY DEF AddsFinalizer
<1>4. cr = WithFinalizer(TRUE) /\ d = Answered(TRUE)
  OBVIOUS
<1> HIDE DEF cr, d
<1>5. CASE /\ Exists(rec.key) /\ Put(rec.key, cr, "reconciler")
           /\ \E pc \in {next, "finish"} : rec' = [rec EXCEPT !.d = d, !.pc = pc]
  BY <1>1, <1>2, <1>4, <1>5, PatchedOK DEF Steps
<1> QED
  BY <1>1, <1>2, <1>3, <1>5, GivesUp

LEMMA RemovesFinalizerOK ==
  ASSUME IInv, RemovesFinalizer, UNCHANGED <<syn, kind, userOps>>
  PROVE  IInv' /\ Written
<1>1. rec.pc # "idle" /\ rec.pc \notin {"idle", "finish"}
  BY DEF RemovesFinalizer
<1>2. faults' \in 0..MaxFaults /\ UNCHANGED <<cache, queue, edge>>
  BY FaultsType DEF RemovesFinalizer
<1> DEFINE cr == WithFinalizer(FALSE)
           d == Answered(FALSE)
<1>3. \/ /\ Exists(rec.key) /\ (Put(rec.key, cr, "reconciler") \/ Store(rec.key, NoCR, {}))
         /\ rec' = [rec EXCEPT !.d = d, !.pc = "deleteObject"]
      \/ Finish(FALSE) /\ ApiUnchanged
      \/ Finish(TRUE) /\ ApiUnchanged
  BY DEF RemovesFinalizer
<1>4. cr = WithFinalizer(FALSE) /\ d = Answered(FALSE)
  OBVIOUS
<1> HIDE DEF cr, d
<1>5. CASE /\ Exists(rec.key) /\ (Put(rec.key, cr, "reconciler") \/ Store(rec.key, NoCR, {}))
           /\ rec' = [rec EXCEPT !.d = d, !.pc = "deleteObject"]
  <2>1. "deleteObject" \in Steps \ {"writeStatus"} /\ "deleteObject" # "updateObject"
    BY DEF Steps
  <2> QED
    BY <1>1, <1>2, <1>4, <1>5, <2>1, PatchedOK
<1> QED
  BY <1>1, <1>2, <1>3, <1>5, GivesUp

LEMMA WritesStatusOK ==
  ASSUME IInv, NEW pc \in {"writeSynced", "writeStatus"},
         NEW failed \in ObjectStatus, NEW written \in ObjectStatus,
         WritesStatus(pc, failed, written), UNCHANGED <<syn, kind, userOps>>,
         Trusted("finish", failed), rec.d.status.synced => failed.synced,
         Trusted("finish", written), rec.d.status.synced => written.synced
  PROVE  IInv' /\ Written
<1>1. rec.pc # "idle" /\ rec.pc # "finish"
  BY DEF WritesStatus
<1>2. faults' \in 0..MaxFaults /\ UNCHANGED <<cache, queue, edge>>
  BY FaultsType DEF WritesStatus
<1>3. \/ /\ StatusReply(rec.key, "reconciler") = "ok"
         /\ Put(rec.key, WithStatus(rec.key, rec.d.status), "reconciler")
         /\ FinishWith(written, FALSE)
      \/ ApiUnchanged /\ FinishWith(failed, TRUE)
  BY DEF WritesStatus
<1>4. CASE /\ StatusReply(rec.key, "reconciler") = "ok"
           /\ Put(rec.key, WithStatus(rec.key, rec.d.status), "reconciler")
           /\ FinishWith(written, FALSE)
  <2>1. Exists(rec.key) /\ "reconciler" \in current[rec.key]
    BY <1>4 DEF StatusReply
  <2>2. rec.key \in KubeNames /\ rec.d.status \in ObjectStatus /\ Honest(rec.d.status)
    BY <1>1, Busy
  <2>3. kube[rec.key].status.synced => rec.d.status.synced
    BY <2>1, <2>2 DEF IInv, CurrentWorker
  <2> DEFINE cr == WithStatus(rec.key, rec.d.status)
  <2>4. Truthful(rec.key, cr) /\ cr.status = rec.d.status /\ cr # NoCR
    BY <2>1, <2>2, <2>3, StatusTruthful
  <2>5. Put(rec.key, cr, "reconciler")
    BY <1>4
  <2> HIDE DEF cr
  <2>6. /\ Written /\ Outdated("cache") /\ Outdated("syncer") /\ kube'[rec.key] = cr
        /\ \A m \in KubeNames \ {rec.key} : current'[m] = current[m] /\ kube'[m] = kube[m]
    BY <2>2, <2>4, <2>5, PutWritten DEF Holders
  <2>7. Advanced("finish", written)
    BY <1>1, <1>4, FinishesWith
  <2>8. WorkerOK'
    BY <1>1, <2>7, AdvancedOK DEF Steps
  <2>9. rec'.key = rec.key /\ rec'.d.status = written
    BY <2>7 DEF Advanced
  <2>10. CurrentWorker'
    <3> SUFFICES ASSUME NEW n \in KubeNames, "reconciler" \in current'[n]
                 PROVE  /\ n = rec'.key /\ kube'[n] # NoCR
                        /\ kube'[n].status.synced => rec'.d.status.synced
      BY DEF CurrentWorker, Exists
    <3>1. n = rec.key
      BY <2>6 DEF IInv, CurrentWorker
    <3> QED
      BY <3>1, <2>4, <2>6, <2>9
  <2>11. RestTypeOK'
    BY <1>2, Types DEF RestTypeOK
  <2> QED
    BY <1>2, <2>6, <2>8, <2>10, <2>11, StoredHonest, OtherRound, Assembled
<1>5. CASE ApiUnchanged /\ FinishWith(failed, TRUE)
  <2>1. Advanced("finish", failed)
    BY <1>1, <1>5, FinishesWith
  <2> QED
    BY <1>1, <1>2, <1>5, <2>1, Types, QuietStep DEF Steps
<1> QED
  BY <1>3, <1>4, <1>5

LEMMA EndsOK ==
  ASSUME IInv, Ends, UNCHANGED <<syn, kind, userOps>>, faults' \in 0..MaxFaults,
         \/ Forget(rec.key, "reconciler")
         \/ \E s \in ObjectStatus :
              /\ Exists(rec.key) /\ "reconciler" \in current[rec.key]
              /\ Honest(s) /\ (rec.d.status.synced => s.synced)
              /\ PutLast(rec.key, WithStatus(rec.key, s), "reconciler")
  PROVE  IInv' /\ Written
<1>1. rec.pc # "idle" /\ rec' = IdleObjectWorker /\ UNCHANGED <<cache, edge>>
      /\ (queue' = queue \/ queue' = queue \cup {rec.key})
  BY DEF Ends
<1>2. rec.key \in KubeNames /\ "reconciler" \in Holders
  BY <1>1, Busy DEF Holders
<1>3. /\ Written /\ \A h \in Holders : Outdated(h)
      /\ "reconciler" \notin current'[rec.key]
  <2>1. CASE Forget(rec.key, "reconciler")
    BY <1>2, <2>1, ForgetWritten
  <2>2. CASE ~Forget(rec.key, "reconciler")
    <3>1. PICK s \in ObjectStatus :
              /\ Exists(rec.key) /\ "reconciler" \in current[rec.key]
              /\ Honest(s) /\ (rec.d.status.synced => s.synced)
              /\ PutLast(rec.key, WithStatus(rec.key, s), "reconciler")
      BY <2>2
    <3>2. kube[rec.key].status.synced => s.synced
      BY <1>2, <3>1 DEF IInv, CurrentWorker
    <3> DEFINE cr == WithStatus(rec.key, s)
    <3>3. Truthful(rec.key, cr) /\ cr # NoCR
      BY <1>2, <3>1, <3>2, StatusTruthful
    <3>4. PutLast(rec.key, cr, "reconciler")
      BY <3>1
    <3> HIDE DEF cr
    <3> QED
      BY <1>2, <3>3, <3>4, PutLastWritten
  <2> QED
    BY <2>1, <2>2
<1>4. Outdated("cache") /\ Outdated("reconciler") /\ Outdated("syncer")
  BY <1>3 DEF Holders
<1>5. CurrentWorker'
  BY <1>3, <1>4 DEF Outdated, IInv, CurrentWorker
<1>6. WorkerOK'
  BY <1>1, IdleOK DEF WorkerOK
<1>7. RestTypeOK'
  BY <1>1, <1>2, Types DEF RestTypeOK
<1> QED
  BY <1>1, <1>3, <1>4, <1>5, <1>6, <1>7, StoredHonest, OtherRound, Assembled

LEMMA TakesOK ==
  ASSUME IInv, NEW n \in KubeNames, NEW next \in {"getObject", "updateObject", "finish"},
         TakesKey(n, next), UNCHANGED <<syn, kind, userOps>>,
         Handles(n) /\ next = "updateObject" => cache[n].status.synced
  PROVE  IInv' /\ Written
<1>1. /\ rec.pc = "idle" /\ queue' = queue \ {n}
      /\ UNCHANGED <<kube, cache, pending, edge, faults>>
  BY DEF TakesKey
<1>2. RestTypeOK'
  BY <1>1, Types DEF RestTypeOK
<1>3. CASE UNCHANGED <<rec, current>>
  <2>1. ApiUnchanged
    BY <1>1, <1>3 DEF ApiUnchanged
  <2> QED
    BY <1>1, <1>2, <1>3, <2>1, ApiUnchangedWritten, OutsideStep
<1>4. CASE Handles(n) /\ ~UNCHANGED <<rec, current>>
  <2>1. /\ rec' = [IdleObjectWorker EXCEPT
                     !.pc = FirstRequest(cache[n], next), !.key = n,
                     !.edgeName = GetEdgeName(cache[n]), !.d = cache[n]]
        /\ current' = [current EXCEPT ![n] = ReadFromCache(n, "reconciler")]
    BY <1>4 DEF TakesKey
  <2>2. cache[n] \in Object /\ GetEdgeName(cache[n]) \in EdgeNames
    BY <1>4, Types, ObjectType, SpecType DEF Handles, GetEdgeName
  <2>3. Honest(cache[n].status)
    BY <1>4 DEF Handles, IInv, CacheHonest, HonestCR
  <2> DEFINE pc == FirstRequest(cache[n], next)
  <2>4. pc \in {"removeFinalizer", "addFinalizer", next}
    BY DEF FirstRequest
  <2>5. Trusted(pc, cache[n].status)
    BY <1>4, <2>3, <2>4 DEF Trusted, Honest
  <2> HIDE DEF pc
  <2>6. /\ rec' \in ObjectWorker /\ rec'.pc = pc /\ rec'.pc # "idle" /\ rec'.key = n
        /\ rec'.edgeName = GetEdgeName(cache[n]) /\ rec'.d = cache[n]
    <3>1. rec' = [pc |-> pc, key |-> n, edgeName |-> GetEdgeName(cache[n]), d |-> cache[n],
                  requeue |-> FALSE]
      BY <2>1 DEF IdleObjectWorker, pc
    <3>2. pc \in {"addFinalizer", "removeFinalizer", "getObject", "updateObject", "finish"}
      BY <2>4
    <3> QED
      BY <3>1, <3>2, <2>2 DEF ObjectWorker
  <2>7. WorkerOK'
    BY <2>2, <2>5, <2>6 DEF WorkerOK
  <2>8. \A m \in KubeNames :
          current'[m] = IF m = n THEN ReadFromCache(n, "reconciler") ELSE current[m]
    BY <2>1, Types DEF ApiTypeOK
  <2>9. current' \in [KubeNames -> SUBSET Holders]
    BY <2>1, Types DEF ApiTypeOK, ReadFromCache, Holders
  <2>10. Outdated("cache") /\ Outdated("syncer")
    BY <1>1, <2>8 DEF Outdated, ReadFromCache
  <2>11. CurrentWorker'
    <3> SUFFICES ASSUME NEW m \in KubeNames, "reconciler" \in current'[m]
                 PROVE  /\ m = rec'.key /\ kube'[m] # NoCR
                        /\ kube'[m].status.synced => rec'.d.status.synced
      BY DEF CurrentWorker, Exists
    <3>1. m = n
      BY <1>1, <2>8, ObjectNamesAssumption DEF IInv, CurrentWorker, WorkerOK
    <3>2. "cache" \in current[n]
      BY <3>1, <2>8 DEF ReadFromCache
    <3>3. cache[n] = kube[n] /\ cache[n] # NoCR
      BY <1>4, <3>2 DEF IInv, CurrentCache, Handles
    <3> QED
      BY <1>1, <2>6, <3>1, <3>3
  <2>12. Written
    BY <1>1, <2>9, UnchangedWritten
  <2> QED
    BY <1>1, <1>2, <2>7, <2>10, <2>11, <2>12, StoredHonest, OtherRound, Assembled
<1> QED
  BY <1>3, <1>4 DEF TakesKey

(***************************************************************************)
(* The worker of a DeviceService.                                          *)
(***************************************************************************)
LEMMA ServiceAfterDeleteType ==
  ASSUME NEW d
  PROVE  /\ ServiceAfterDelete(d) \in {"getObject", "updateObject", "finish"}
         /\ ServiceAfterDelete(d) = "updateObject" => d.status.synced
  BY DEF ServiceAfterDelete

LEMMA ManagingTrusted ==
  ASSUME IInv, rec.pc # "idle", NEW c \in {"True", "notManaged", "updateFailed", "statusFailed"},
         c = "True" => rec.d.status.synced
  PROVE  /\ Managing(c) \in ObjectStatus /\ Managing(c).synced = rec.d.status.synced
         /\ Managing(c).managingCondition = c
         /\ Managing(c).syncedCondition = rec.d.status.syncedCondition
         /\ Managing(c).ready = rec.d.status.ready
         /\ Trusted("finish", Managing(c))
<1>1. rec.d.status \in ObjectStatus /\ Credible(rec.d.status)
  BY Busy
<1>2. /\ Managing(c) \in ObjectStatus /\ Managing(c).synced = rec.d.status.synced
      /\ Managing(c).managingCondition = c
      /\ Managing(c).syncedCondition = rec.d.status.syncedCondition
      /\ Managing(c).ready = rec.d.status.ready
  BY <1>1, ManagingFields DEF Managing
<1>3. Credible(Managing(c))
  BY <1>1, <1>2 DEF Credible
<1> QED
  BY <1>2, <1>3 DEF Trusted

LEMMA CreateServiceOK ==
  ASSUME IInv, CreateService, UNCHANGED <<syn, kind, userOps>>
  PROVE  IInv' /\ Written
<1>1. rec.pc = "createObject" /\ rec.pc # "idle"
  BY DEF CreateService, CreatesObject
<1> DEFINE made == [Synced(TRUE) EXCEPT !.syncedCondition = "True"]
           failed == [rec.d.status EXCEPT !.syncedCondition = "createFailed"]
           s == Synced(TRUE)
           definition == toEdgexDeviceService(rec.d.spec.definition)
<1>2. s \in ObjectStatus /\ s.synced /\ Honest(s)
  BY <1>1, SyncedTrusted DEF Trusted
<1>3. rec.d.status \in ObjectStatus /\ Credible(rec.d.status) /\ rec.d.spec \in ObjectSpec
  BY <1>1, Busy
<1>4. CreatesObject(definition, made, failed)
  BY DEF CreateService
<1>5. definition \in Definition
  BY <1>3, SpecType DEF toEdgexDeviceService, Definition
<1>6. /\ made \in ObjectStatus /\ made.synced = s.synced /\ made.ready = s.ready
      /\ made.syncedCondition = "True" /\ made.managingCondition = s.managingCondition
  <2>1. made = [s EXCEPT !.syncedCondition = "True"]
    OBVIOUS
  <2> HIDE DEF s, made, failed, definition
  <2> QED
    BY <1>2, <2>1, SyncedConditionFields
<1>7. /\ failed \in ObjectStatus /\ failed.synced = rec.d.status.synced
      /\ failed.ready = rec.d.status.ready
      /\ failed.syncedCondition = "createFailed"
      /\ failed.managingCondition = rec.d.status.managingCondition
  <2>1. failed = [rec.d.status EXCEPT !.syncedCondition = "createFailed"]
    OBVIOUS
  <2> HIDE DEF s, made, failed, definition
  <2> QED
    BY <1>3, <2>1, SyncedConditionFields
<1> HIDE DEF made, failed, s, definition
<1>8. made.synced
  BY <1>2, <1>6
<1>9. Honest(made)
  BY <1>2, <1>6, <1>8 DEF Honest, Credible
<1>10. Trusted("writeSynced", made)
  BY <1>8, <1>9 DEF Trusted, Honest
<1>11. Trusted("finish", failed)
  BY <1>3, <1>7 DEF Trusted, Credible
<1>12. rec.d.status.synced => failed.synced
  BY <1>7
<1> QED
  BY <1>4, <1>5, <1>6, <1>7, <1>8, <1>10, <1>11, <1>12, CreatesOK

LEMMA PatchServiceType ==
  ASSUME IInv, rec.pc # "idle", NEW a \in AdminStates \cup {""}, PatchService(a)
  PROVE  edge' \in [EdgeNames -> EdgeObject \cup {NoObject}]
<1> DEFINE e == GetEdgeName(rec.d)
<1>1. CASE edge' = edge
  BY <1>1, Types
<1>2. e \in EdgeNames
  BY Busy, SpecType DEF GetEdgeName
<1>3. CASE edge[e] # NoObject
  <2>1. edge[e] \in EdgeObject
    BY <1>2, <1>3, Types
  <2>2. [edge[e] EXCEPT !.adminState = a] \in EdgeObject
    BY <2>1 DEF EdgeObject
  <2>3. edge' = edge \/ edge' = [edge EXCEPT ![e] = [edge[e] EXCEPT !.adminState = a]]
    BY <1>3, Types DEF PatchService
  <2> QED
    BY <1>1, <1>2, <2>2, <2>3, Types
<1>4. CASE edge[e] = NoObject
  BY <1>1, <1>4 DEF PatchService
<1> QED
  BY <1>3, <1>4

LEMMA WantedType ==
  ASSUME IInv, rec.pc # "idle"
  PROVE  Wanted \in AdminStates \cup {""}
  BY Busy, SpecType DEF Wanted

LEMMA PatchedServiceOK ==
  ASSUME IInv, rec.pc = "updateObject", Patched, ApiUnchanged,
         UNCHANGED <<cache, queue, syn, kind, userOps>>,
         edge' \in [EdgeNames -> EdgeObject \cup {NoObject}], faults' \in 0..MaxFaults
  PROVE  IInv' /\ Written
<1>1. rec.pc # "idle" /\ rec.pc # "finish"
  OBVIOUS
<1>2. rec.d.status \in ObjectStatus /\ Honest(rec.d.status) /\ rec.d.status.synced
  BY <1>1, Busy DEF Trusted
<1> DEFINE a == IF Wanted = "" THEN rec.d.status.adminState ELSE Wanted
           s == [rec.d.status EXCEPT !.adminState = a]
<1>3. a \in States
  <2>1. rec.d.status.adminState \in States
    BY <1>2, AdminStatus
  <2> QED
    BY <1>1, <2>1, WantedType DEF States
<1>4. rec' = [rec EXCEPT !.pc = "writeStatus", !.d.status = s]
  BY <1>1, Busy DEF Patched, ObjectWorker, Object, ObjectStatus
<1> HIDE DEF a
<1>5. s = [rec.d.status EXCEPT !.adminState = a]
  OBVIOUS
<1> HIDE DEF s
<1>6. /\ s \in ObjectStatus /\ s.synced = rec.d.status.synced /\ s.ready = rec.d.status.ready
      /\ s.syncedCondition = rec.d.status.syncedCondition
      /\ s.managingCondition = rec.d.status.managingCondition
  <2> DEFINE old == rec.d.status
  <2>1. old \in ObjectStatus /\ s = [old EXCEPT !.adminState = a]
    BY <1>2, <1>5
  <2>2. old = rec.d.status
    OBVIOUS
  <2> HIDE DEF old
  <2>3. /\ s \in ObjectStatus /\ s.synced = old.synced /\ s.ready = old.ready
        /\ s.syncedCondition = old.syncedCondition
        /\ s.managingCondition = old.managingCondition
    BY <1>3, <2>1, AdminFields
  <2> QED
    BY <2>2, <2>3
<1>7. Advanced("writeStatus", s)
  BY <1>1, <1>4, <1>6, GoesOnWith DEF Steps
<1>8. s.synced
  BY <1>2, <1>6
<1>9. Trusted("writeStatus", s)
  BY <1>2, <1>6, <1>8 DEF Trusted, Honest, Credible
<1> QED
  BY <1>1, <1>7, <1>8, <1>9, QuietStep DEF Steps

LEMMA UpdateServiceOK ==
  ASSUME IInv, UpdateService, UNCHANGED <<syn, kind, userOps>>
  PROVE  IInv' /\ Written
<1>1. /\ rec.pc = "updateObject" /\ rec.pc # "idle"
      /\ ApiUnchanged /\ UNCHANGED <<cache, queue>>
  BY DEF UpdateService
<1>2. faults' \in 0..MaxFaults
  BY FaultsType DEF UpdateService
<1>3. edge' \in [EdgeNames -> EdgeObject \cup {NoObject}]
  BY <1>1, PatchServiceType, WantedType, Types DEF UpdateService
<1>4. Patched \/ UpdateFailed
  BY DEF UpdateService
<1>5. CASE Patched
  BY <1>1, <1>2, <1>3, <1>5, PatchedServiceOK
<1>6. CASE UpdateFailed
  <2>1. /\ Managing("updateFailed") \in ObjectStatus
        /\ Managing("updateFailed").synced = rec.d.status.synced
        /\ Trusted("finish", Managing("updateFailed"))
    BY <1>1, ManagingTrusted
  <2>2. Advanced("finish", Managing("updateFailed"))
    BY <1>1, <1>6, <2>1, FinishesWith DEF UpdateFailed
  <2>3. rec.d.status.synced => Managing("updateFailed").synced
    BY <2>1
  <2> QED
    BY <1>1, <1>2, <1>3, <2>1, <2>2, <2>3, QuietStep DEF Steps
<1> QED
  BY <1>4, <1>5, <1>6

LEMMA SummaryHonest ==
  ASSUME NEW s \in ObjectStatus, Credible(s)
  PROVE  /\ [s EXCEPT !.ready = ServiceSummary(s)] \in ObjectStatus
         /\ [s EXCEPT !.ready = ServiceSummary(s)].synced = s.synced
         /\ Honest([s EXCEPT !.ready = ServiceSummary(s)])
<1> DEFINE t == [s EXCEPT !.ready = ServiceSummary(s)]
           conds == {s.syncedCondition, s.managingCondition} \ {"none"}
<1>1. s.ready \in {"none", "True", "False"}
  BY StatusSet
<1>2. ServiceSummary(s) =
        IF conds = {} THEN s.ready ELSE IF conds = {"True"} THEN "True" ELSE "False"
  BY DEF ServiceSummary
<1>3. ServiceSummary(s) \in {"none", "True", "False"}
  BY <1>1, <1>2
<1>4. t = [s EXCEPT !.ready = ServiceSummary(s)]
  OBVIOUS
<1> HIDE DEF t
<1>5. /\ t \in ObjectStatus /\ t.ready = ServiceSummary(s) /\ t.synced = s.synced
      /\ t.syncedCondition = s.syncedCondition /\ t.managingCondition = s.managingCondition
  BY <1>3, <1>4, ReadyFields
<1>6. ServiceSummary(s) = "True" =>
        /\ {s.syncedCondition, s.managingCondition} \subseteq {"none", "True"}
        /\ s.synced
  <2>1. CASE conds = {}
    BY <1>2, <2>1 DEF Credible
  <2>2. CASE conds = {"True"}
    BY <2>2 DEF Credible
  <2>3. CASE conds # {} /\ conds # {"True"}
    BY <1>2, <2>3
  <2> QED
    BY <2>1, <2>2, <2>3
<1>7. Honest(t)
  BY <1>5, <1>6 DEF Honest, Credible
<1> QED
  BY <1>5, <1>7 DEF t

LEMMA EndServiceOK ==
  ASSUME IInv, EndServiceReconcile, UNCHANGED <<syn, kind, userOps>>
  PROVE  IInv' /\ Written
<1>1. Ends /\ rec.pc # "idle"
  BY DEF EndServiceReconcile, Ends
<1>2. faults' \in 0..MaxFaults
  BY FaultsType DEF EndServiceReconcile
<1>3. CASE Forget(rec.key, "reconciler")
  BY <1>1, <1>2, <1>3, EndsOK
<1>4. CASE ~Forget(rec.key, "reconciler")
  <2>1. /\ StatusReply(rec.key, "reconciler") = "ok"
        /\ PutLast(rec.key, WithStatus(rec.key, DeferredServiceStatus), "reconciler")
    BY <1>4 DEF EndServiceReconcile
  <2> DEFINE s == IF rec.d.spec.managed THEN rec.d.status ELSE Managing("notManaged")
  <2>2. s \in ObjectStatus /\ Credible(s) /\ s.synced = rec.d.status.synced
    BY <1>1, Busy, ManagingTrusted DEF Trusted
  <2>3. DeferredServiceStatus = [s EXCEPT !.ready = ServiceSummary(s)]
    BY DEF DeferredServiceStatus
  <2> HIDE DEF s
  <2>4. /\ DeferredServiceStatus \in ObjectStatus
        /\ DeferredServiceStatus.synced = rec.d.status.synced
        /\ Honest(DeferredServiceStatus)
    BY <2>2, <2>3, SummaryHonest
  <2>5. Exists(rec.key) /\ "reconciler" \in current[rec.key]
    BY <2>1 DEF StatusReply
  <2>6. rec.d.status.synced => DeferredServiceStatus.synced
    BY <2>4
  <2> QED
    BY <1>1, <1>2, <2>1, <2>4, <2>5, <2>6, EndsOK
<1> QED
  BY <1>3, <1>4

LEMMA WriteServiceSyncedOK ==
  ASSUME IInv, WriteServiceSynced, UNCHANGED <<syn, kind, userOps>>
  PROVE  IInv' /\ Written
<1>1. rec.pc # "idle" /\ WritesStatus("writeSynced", rec.d.status, rec.d.status)
  BY DEF WriteServiceSynced, WritesStatus
<1>2. rec.d.status \in ObjectStatus /\ Trusted("finish", rec.d.status)
  BY <1>1, Busy DEF Trusted
<1> QED
  BY <1>1, <1>2, WritesStatusOK

LEMMA WriteServiceStatusOK ==
  ASSUME IInv, WriteServiceStatus, UNCHANGED <<syn, kind, userOps>>
  PROVE  IInv' /\ Written
<1>1. /\ rec.pc # "idle" /\ rec.pc = "writeStatus"
      /\ WritesStatus("writeStatus", Managing("statusFailed"), Managing("True"))
  BY DEF WriteServiceStatus, WritesStatus
<1>2. rec.d.status.synced
  BY <1>1, Busy DEF Trusted
<1>3. /\ Managing("statusFailed") \in ObjectStatus /\ Managing("True") \in ObjectStatus
      /\ Trusted("finish", Managing("statusFailed")) /\ Trusted("finish", Managing("True"))
      /\ Managing("statusFailed").synced = rec.d.status.synced
      /\ Managing("True").synced = rec.d.status.synced
  BY <1>1, <1>2, ManagingTrusted
<1>4. Managing("statusFailed").synced /\ Managing("True").synced
  BY <1>2, <1>3
<1> QED
  BY <1>1, <1>3, <1>4, WritesStatusOK

LEMMA ServiceReconcilerOK ==
  ASSUME IInv, ServiceReconcilerStep, UNCHANGED <<syn, kind, userOps>>
  PROVE  IInv' /\ Written
<1>1. CASE AddServiceFinalizer
  BY <1>1, AddsFinalizerOK, ServiceAfterDeleteType DEF AddServiceFinalizer
<1>2. CASE RemoveServiceFinalizer
  BY <1>2, RemovesFinalizerOK DEF RemoveServiceFinalizer
<1>3. CASE DeleteService
  BY <1>3, DeletesOK DEF DeleteService
<1>4. CASE GetService
  BY <1>4, GetOK DEF GetService
<1> QED
  BY <1>1, <1>2, <1>3, <1>4, CreateServiceOK, WriteServiceSyncedOK, UpdateServiceOK,
     WriteServiceStatusOK, EndServiceOK DEF ServiceReconcilerStep

(***************************************************************************)
(* The worker of a DeviceProfile.                                          *)
(***************************************************************************)
LEMMA ProfileAfterDeleteType ==
  ASSUME NEW d
  PROVE  ProfileAfterDelete(d) \in {"getObject", "finish"}
  BY DEF ProfileAfterDelete

LEMMA ProfileDefinitionType ==
  ASSUME NEW d \in Definition
  PROVE  toEdgeXDeviceProfile(d) \in Definition /\ toKubeDeviceProfile(d) \in Definition
  BY DEF Definition, toEdgeXDeviceProfile, toEdgeXDeviceResource, toEdgeXDeviceCommand,
         toEdgeXProfileProperty, toEdgeXResourceOperations, toKubeDeviceProfile,
         toKubeDeviceResource, toKubeDeviceCommand, toKubeProfileProperty,
         toKubeResourceOperations

LEMMA CreateProfileOK ==
  ASSUME IInv, CreateProfile, UNCHANGED <<syn, kind, userOps>>
  PROVE  IInv' /\ Written
<1>1. rec.pc = "createObject" /\ rec.pc # "idle"
  BY DEF CreateProfile, CreatesObject
<1>2. rec.d.status \in ObjectStatus /\ rec.d.spec \in ObjectSpec /\ Trusted("finish", rec.d.status)
  BY <1>1, Busy DEF Trusted
<1>3. toEdgeXDeviceProfile(rec.d.spec.definition) \in Definition
  BY <1>2, SpecType, ProfileDefinitionType
<1>4. Synced(TRUE) \in ObjectStatus /\ Synced(TRUE).synced /\ Trusted("writeSynced", Synced(TRUE))
  BY <1>1, SyncedTrusted
<1> QED
  BY <1>2, <1>3, <1>4, CreatesOK DEF CreateProfile

LEMMA WriteProfileSyncedOK ==
  ASSUME IInv, WriteProfileSynced, UNCHANGED <<syn, kind, userOps>>
  PROVE  IInv' /\ Written
<1>1. rec.pc # "idle" /\ WritesStatus("writeSynced", rec.d.status, rec.d.status)
  BY DEF WriteProfileSynced, WritesStatus
<1>2. rec.d.status \in ObjectStatus /\ Trusted("finish", rec.d.status)
  BY <1>1, Busy DEF Trusted
<1> QED
  BY <1>1, <1>2, WritesStatusOK

LEMMA ProfileReconcilerOK ==
  ASSUME IInv, ProfileReconcilerStep, UNCHANGED <<syn, kind, userOps>>
  PROVE  IInv' /\ Written
<1>1. CASE AddProfileFinalizer
  BY <1>1, AddsFinalizerOK, ProfileAfterDeleteType DEF AddProfileFinalizer
<1>2. CASE RemoveProfileFinalizer
  BY <1>2, RemovesFinalizerOK DEF RemoveProfileFinalizer
<1>3. CASE DeleteProfile
  BY <1>3, DeletesOK DEF DeleteProfile
<1>4. CASE GetProfile
  BY <1>4, GetOK DEF GetProfile
<1>5. CASE EndProfileReconcile
  BY <1>5, EndsOK, FaultsType DEF EndProfileReconcile
<1> QED
  BY <1>1, <1>2, <1>3, <1>4, <1>5, CreateProfileOK, WriteProfileSyncedOK
     DEF ProfileReconcilerStep

LEMMA TakeObjectKeyOK ==
  ASSUME IInv, NEW n \in KubeNames, TakeObjectKey(n)
  PROVE  IInv' /\ Written
  BY TakesOK, ServiceAfterDeleteType, ProfileAfterDeleteType
  DEF TakeObjectKey, ServiceReconcile, ProfileReconcile, Others

(***************************************************************************)
(* The round.                                                              *)
(***************************************************************************)
LEMMA ContinueRound ==
  ASSUME NEW round \in ObjectRound, Continue(round), round.pc # "idle",
         \A e \in round.redundantEdge : round.listed[e] # NoObject
  PROVE  /\ syn' \in ObjectRound
         /\ \A e \in syn'.redundantEdge : syn'.listed[e] # NoObject
         /\ syn'.pc = "idle" => syn'.redundantEdge = {}
         /\ \A n \in KubeNames : syn'.synced[n] # NoCR => syn'.synced[n] = round.synced[n]
         /\ \A e \in EdgeNames : syn'.listed[e] # NoObject => syn'.listed[e] = round.listed[e]
         /\ syn'.redundantKube \subseteq round.redundantKube
<1>1. CASE syn' = IdleObjectRound
  BY <1>1, IdleOK
<1>2. CASE syn' = round
  BY <1>2
<1> QED
  BY <1>1, <1>2 DEF Continue

(* The rest of a round: what it still has to do it had before. *)
LEMMA RoundStep ==
  ASSUME IInv, Written, \A h \in Holders : Outdated(h),
         UNCHANGED <<cache, queue, edge, rec, kind, userOps>>, faults' \in 0..MaxFaults,
         syn' \in ObjectRound,
         \A e \in syn'.redundantEdge : syn'.listed[e] # NoObject,
         syn'.pc = "idle" => syn'.redundantEdge = {},
         \A n \in KubeNames : syn'.synced[n] # NoCR => syn'.synced[n] = syn.synced[n]
  PROVE  IInv'
<1>1. Outdated("cache") /\ Outdated("reconciler") /\ Outdated("syncer")
  BY DEF Holders
<1>2. RoundOK'
  BY DEF IInv, RoundOK
<1>3. CurrentRound'
  BY <1>1 DEF IInv, CurrentRound, Outdated, Exists
<1>4. RestTypeOK'
  BY Types DEF RestTypeOK
<1> QED
  BY <1>1, <1>2, <1>3, <1>4, StoredHonest, OtherWorker, Assembled

LEMMA Round ==
  ASSUME IInv
  PROVE  /\ syn \in ObjectRound
         /\ \A e \in syn.redundantEdge : syn.listed[e] # NoObject
         /\ syn.pc = "idle" => syn.redundantEdge = {}
         /\ syn.redundantEdge \subseteq EdgeNames /\ syn.redundantKube \subseteq KubeNames
         /\ syn.listed \in [EdgeNames -> ListedObject \cup {NoObject}]
         /\ syn.synced \in [KubeNames -> ObjectStatus \cup {NoCR}]
  BY DEF IInv, RoundOK, ObjectRound

LEMMA ListsEdgeOK ==
  ASSUME IInv, NEW definition, ListsEdge(definition), UNCHANGED <<rec, kind, userOps>>,
         \A e \in EdgeNames : edge[e] # NoObject => definition[e] \in Definition
  PROVE  IInv' /\ Written
<1>1. /\ syn.pc = "idle" /\ ApiUnchanged /\ UNCHANGED <<cache, queue, edge>>
      /\ faults' \in 0..MaxFaults
  BY FaultsType DEF ListsEdge
<1> DEFINE list == [e \in EdgeNames |->
                     IF edge[e] = NoObject THEN NoObject
                     ELSE [adminState |-> edge[e].adminState, definition |-> definition[e]]]
<1>2. list \in [EdgeNames -> ListedObject \cup {NoObject}]
  <2>1. ASSUME NEW e \in EdgeNames, edge[e] # NoObject
        PROVE  [adminState |-> edge[e].adminState, definition |-> definition[e]] \in ListedObject
    <3>1. edge[e].adminState \in AdminStates \cup {""}
      BY <2>1, Types DEF EdgeObject
    <3> QED
      BY <2>1, <3>1 DEF ListedObject
  <2> QED
    BY <2>1
<1>3. \/ syn' = [syn EXCEPT !.pc = "listed", !.listed = list]
      \/ syn' = [syn EXCEPT !.pc = "listed"]
      \/ syn' = syn
  BY DEF ListsEdge
<1> HIDE DEF list
<1>4. /\ syn' \in ObjectRound /\ syn'.redundantEdge = {}
      /\ syn'.synced = syn.synced
  BY <1>1, <1>2, <1>3, Round DEF ObjectRound
<1> QED
  BY <1>1, <1>4, ApiUnchangedWritten, RoundStep

LEMMA ListsKubeOK ==
  ASSUME IInv, NEW refreshed, ListsKube(refreshed), UNCHANGED <<rec, kind, userOps>>,
         \A n \in OwnCRs : OnEdge(n) /\ refreshed[n] # NoCR =>
           /\ refreshed[n] \in ObjectStatus /\ Honest(refreshed[n])
           /\ cache[n].status.synced => refreshed[n].synced
  PROVE  IInv' /\ Written
<1>1. /\ syn.pc = "listed" /\ faults' = faults
      /\ UNCHANGED <<kube, cache, pending, queue, edge>>
  BY DEF ListsKube, Succeeds
<1>2. PICK S \in Representatives :
        LET missing == {e \in EdgeNames : /\ syn.listed[e] # NoObject
                                          /\ \A n \in S : GetEdgeName(cache[n]) # e}
            updates == [n \in KubeNames |->
                          IF n \in S /\ OnEdge(n) THEN refreshed[n] ELSE NoCR]
        IN  /\ Continue([pc |-> "apply", redundantEdge |-> missing,
                         listed |-> [e \in EdgeNames |->
                                       IF e \in missing THEN syn.listed[e] ELSE NoObject],
                         redundantKube |-> {n \in S : cache[n].status.synced /\ ~OnEdge(n)},
                         synced |-> updates])
            /\ current' = [n \in KubeNames |->
                  IF updates[n] # NoCR THEN ReadFromCache(n, "syncer")
                                       ELSE current[n] \ {"syncer"}]
  BY DEF ListsKube
<1> DEFINE missing == {e \in EdgeNames : /\ syn.listed[e] # NoObject
                                         /\ \A n \in S : GetEdgeName(cache[n]) # e}
           updates == [n \in KubeNames |->
                         IF n \in S /\ OnEdge(n) THEN refreshed[n] ELSE NoCR]
           listed == [e \in EdgeNames |-> IF e \in missing THEN syn.listed[e] ELSE NoObject]
           gone == {n \in S : cache[n].status.synced /\ ~OnEdge(n)}
           round == [pc |-> "apply", redundantEdge |-> missing, listed |-> listed,
                     redundantKube |-> gone, synced |-> updates]
<1>3. /\ Continue(round)
      /\ current' = [n \in KubeNames |->
            IF updates[n] # NoCR THEN ReadFromCache(n, "syncer") ELSE current[n] \ {"syncer"}]
  BY <1>2
<1>4. S \subseteq OwnCRs
  BY DEF Representatives
<1>5. /\ missing \subseteq EdgeNames /\ gone \subseteq KubeNames
      /\ listed \in [EdgeNames -> ListedObject \cup {NoObject}]
      /\ \A e \in missing : listed[e] # NoObject
  BY <1>4, Round DEF OwnCRs
<1>6. \A n \in KubeNames : updates[n] # NoCR =>
        /\ cache[n] # NoCR
        /\ updates[n] \in ObjectStatus /\ Honest(updates[n])
        /\ cache[n].status.synced => updates[n].synced
  BY <1>4 DEF OwnCRs
<1>7. updates \in [KubeNames -> ObjectStatus \cup {NoCR}]
  BY <1>6
<1> HIDE DEF missing, updates, listed, gone
<1>8. round \in ObjectRound
  BY <1>5, <1>7 DEF ObjectRound
<1>9. /\ round.pc # "idle" /\ round.redundantEdge = missing /\ round.listed = listed
      /\ round.synced = updates
  OBVIOUS
<1> HIDE DEF round
<1>10. /\ syn' \in ObjectRound
       /\ \A e \in syn'.redundantEdge : syn'.listed[e] # NoObject
       /\ syn'.pc = "idle" => syn'.redundantEdge = {}
       /\ \A n \in KubeNames : syn'.synced[n] # NoCR => syn'.synced[n] = updates[n]
  BY <1>3, <1>5, <1>8, <1>9, ContinueRound
<1>11. RoundOK'
  BY <1>6, <1>10 DEF RoundOK
<1>12. current' \in [KubeNames -> SUBSET Holders]
  BY <1>3, Types DEF ApiTypeOK, ReadFromCache, Holders
<1>13. Written
  BY <1>1, <1>12, UnchangedWritten
<1>14. Outdated("cache") /\ Outdated("reconciler")
  BY <1>1, <1>3 DEF Outdated, ReadFromCache
<1>15. CurrentRound'
  <2> SUFFICES ASSUME NEW n \in KubeNames, "syncer" \in current'[n], syn'.synced[n] # NoCR
               PROVE  /\ kube'[n] # NoCR
                      /\ kube'[n].status.synced => syn'.synced[n].synced
    BY DEF CurrentRound, Exists
  <2>1. syn'.synced[n] = updates[n] /\ updates[n] # NoCR
    BY <1>10
  <2>2. "cache" \in current[n]
    BY <1>3, <2>1 DEF ReadFromCache
  <2>3. cache[n] = kube[n] /\ cache[n] # NoCR
    BY <1>6, <2>1, <2>2 DEF IInv, CurrentCache
  <2>4. cache[n].status.synced => updates[n].synced
    BY <1>6, <2>1
  <2> QED
    BY <1>1, <2>1, <2>3, <2>4
<1>16. RestTypeOK'
  BY <1>1, Types DEF RestTypeOK
<1> QED
  BY <1>1, <1>11, <1>13, <1>14, <1>15, <1>16, StoredHonest, OtherWorker, Assembled

(* What a stage takes off the lists of the round. *)
Shorter(round) ==
  /\ round \in ObjectRound /\ round.pc # "idle"
  /\ \A e \in round.redundantEdge : round.listed[e] # NoObject
  /\ \A n \in KubeNames : round.synced[n] # NoCR => round.synced[n] = syn.synced[n]
  /\ \A e \in EdgeNames : round.listed[e] # NoObject => round.listed[e] = syn.listed[e]
  /\ round.redundantKube \subseteq syn.redundantKube

LEMMA LessToDo ==
  ASSUME IInv, syn.pc = "apply",
         \/ \E e \in EdgeNames :
              Continue([syn EXCEPT !.redundantEdge = @ \ {e}, !.listed[e] = NoObject])
         \/ Continue([syn EXCEPT !.redundantEdge = {},
                                 !.listed = [f \in EdgeNames |-> NoObject]])
         \/ \E n \in KubeNames : Continue([syn EXCEPT !.redundantKube = @ \ {n}])
         \/ Continue([syn EXCEPT !.redundantKube = {}])
         \/ \E names \in SUBSET KubeNames : Updated(names)
  PROVE  /\ syn' \in ObjectRound
         /\ \A e \in syn'.redundantEdge : syn'.listed[e] # NoObject
         /\ syn'.pc = "idle" => syn'.redundantEdge = {}
         /\ \A n \in KubeNames : syn'.synced[n] # NoCR => syn'.synced[n] = syn.synced[n]
         /\ \A e \in EdgeNames : syn'.listed[e] # NoObject => syn'.listed[e] = syn.listed[e]
         /\ syn'.redundantKube \subseteq syn.redundantKube
<1>1. PICK round : Continue(round) /\ Shorter(round)
  <2>1. ASSUME NEW e \in EdgeNames,
               Continue([syn EXCEPT !.redundantEdge = @ \ {e}, !.listed[e] = NoObject])
        PROVE  \E round : Continue(round) /\ Shorter(round)
    <3> DEFINE r == [syn EXCEPT !.redundantEdge = syn.redundantEdge \ {e},
                                !.listed = [syn.listed EXCEPT ![e] = NoObject]]
    <3>1. [syn EXCEPT !.redundantEdge = @ \ {e}, !.listed[e] = NoObject] = r
      BY Round DEF ObjectRound
    <3>2. /\ r \in ObjectRound /\ r.pc = "apply" /\ r.redundantEdge = syn.redundantEdge \ {e}
          /\ r.listed = [syn.listed EXCEPT ![e] = NoObject] /\ r.synced = syn.synced
          /\ r.redundantKube = syn.redundantKube
      BY Round DEF ObjectRound
    <3>3. Continue(r)
      BY <2>1, <3>1
    <3> HIDE DEF r
    <3>4. \A f \in EdgeNames : r.listed[f] = IF f = e THEN NoObject ELSE syn.listed[f]
      BY <3>2, Round
    <3>5. \A f \in r.redundantEdge : r.listed[f] # NoObject
      BY <3>2, <3>4, Round
    <3>6. Shorter(r)
      BY <3>2, <3>4, <3>5 DEF Shorter
    <3> QED
      BY <3>3, <3>6
  <2>2. ASSUME Continue([syn EXCEPT !.redundantEdge = {},
                                    !.listed = [f \in EdgeNames |-> NoObject]])
        PROVE  \E round : Continue(round) /\ Shorter(round)
    <3> DEFINE r == [syn EXCEPT !.redundantEdge = {},
                                !.listed = [f \in EdgeNames |-> NoObject]]
    <3>1. /\ r \in ObjectRound /\ r.pc = "apply" /\ r.redundantEdge = {} /\ r.synced = syn.synced
          /\ r.redundantKube = syn.redundantKube
          /\ \A f \in EdgeNames : r.listed[f] = NoObject
      BY Round DEF ObjectRound
    <3>2. Continue(r)
      BY <2>2
    <3> HIDE DEF r
    <3> QED
      BY <3>1, <3>2 DEF Shorter
  <2>3. ASSUME NEW gone \in SUBSET syn.redundantKube, Continue([syn EXCEPT !.redundantKube = gone])
        PROVE  \E round : Continue(round) /\ Shorter(round)
    <3> DEFINE r == [syn EXCEPT !.redundantKube = gone]
    <3>1. /\ r \in ObjectRound /\ r.pc = "apply" /\ r.redundantEdge = syn.redundantEdge
          /\ r.listed = syn.listed /\ r.synced = syn.synced /\ r.redundantKube = gone
      BY Round DEF ObjectRound
    <3>2. Continue(r)
      BY <2>3
    <3> HIDE DEF r
    <3> QED
      BY <3>1, <3>2, Round DEF Shorter
  <2>4. ASSUME NEW names \in SUBSET KubeNames, Updated(names)
        PROVE  \E round : Continue(round) /\ Shorter(round)
    <3> DEFINE left == [n \in KubeNames |-> IF n \in names THEN NoCR ELSE syn.synced[n]]
               r == [syn EXCEPT !.synced = left]
    <3>1. left \in [KubeNames -> ObjectStatus \cup {NoCR}]
      BY Round
    <3>2. \A n \in KubeNames : left[n] # NoCR => left[n] = syn.synced[n]
      OBVIOUS
    <3>3. Continue(r)
      BY <2>4, Round DEF Updated, ObjectRound
    <3> HIDE DEF left
    <3>4. /\ r \in ObjectRound /\ r.pc = "apply" /\ r.redundantEdge = syn.redundantEdge
          /\ r.listed = syn.listed /\ r.synced = left /\ r.redundantKube = syn.redundantKube
      BY <3>1, Round DEF ObjectRound
    <3> HIDE DEF r
    <3> QED
      BY <3>2, <3>3, <3>4, Round DEF Shorter
  <2>5. ASSUME NEW n \in KubeNames, Continue([syn EXCEPT !.redundantKube = @ \ {n}])
        PROVE  \E gone \in SUBSET syn.redundantKube : Continue([syn EXCEPT !.redundantKube = gone])
    <3>1. [syn EXCEPT !.redundantKube = @ \ {n}]
            = [syn EXCEPT !.redundantKube = syn.redundantKube \ {n}]
      BY Round DEF ObjectRound
    <3>2. Continue([syn EXCEPT !.redundantKube = syn.redundantKube \ {n}])
      BY <2>5, <3>1
    <3>3. syn.redundantKube \ {n} \in SUBSET syn.redundantKube
      BY Round
    <3> QED
      BY <3>2, <3>3
  <2>6. {} \in SUBSET syn.redundantKube
    OBVIOUS
  <2> QED
    BY <2>1, <2>2, <2>3, <2>4, <2>5, <2>6
<1>2. /\ syn' \in ObjectRound
      /\ \A e \in syn'.redundantEdge : syn'.listed[e] # NoObject
      /\ syn'.pc = "idle" => syn'.redundantEdge = {}
      /\ \A n \in KubeNames : syn'.synced[n] # NoCR => syn'.synced[n] = round.synced[n]
      /\ \A e \in EdgeNames : syn'.listed[e] # NoObject => syn'.listed[e] = round.listed[e]
      /\ syn'.redundantKube \subseteq round.redundantKube
  BY <1>1, ContinueRound DEF Shorter
<1> QED
  BY <1>1, <1>2 DEF Shorter

LEMMA CreatesCROK ==
  ASSUME IInv, NEW e \in EdgeNames, NEW spec, CreatesCR(e, spec),
         UNCHANGED <<rec, kind, userOps>>, spec \in ObjectSpec
  PROVE  IInv' /\ Written
<1>1. /\ syn.pc = "apply" /\ UNCHANGED <<cache, queue, edge>> /\ faults' \in 0..MaxFaults
  BY FaultsType DEF CreatesCR
<1>2. \/ Continue([syn EXCEPT !.redundantEdge = @ \ {e}, !.listed[e] = NoObject])
      \/ Continue([syn EXCEPT !.redundantEdge = {}, !.listed = [f \in EdgeNames |-> NoObject]])
  BY DEF CreatesCR
<1>3. SyncerName[e] \in KubeNames
  BY ObjectNamesAssumption
<1>4. \/ ApiUnchanged
      \/ ~Exists(SyncerName[e]) /\ Store(SyncerName[e], NewObject(spec), {})
  BY DEF CreatesCR, CanCreate
<1>5. Written /\ \A h \in Holders : Outdated(h)
  BY <1>3, <1>4, ApiUnchangedWritten, CreateWritten
<1> QED
  BY <1>1, <1>2, <1>5, LessToDo, RoundStep

LEMMA DeletesCROK ==
  ASSUME IInv, NEW n \in KubeNames, DeletesCR(n), UNCHANGED <<rec, kind, userOps>>
  PROVE  IInv' /\ Written
<1>1. /\ syn.pc = "apply" /\ UNCHANGED <<cache, queue, edge>> /\ faults' \in 0..MaxFaults
  BY FaultsType DEF DeletesCR
<1>2. \/ Continue([syn EXCEPT !.redundantKube = @ \ {n}])
      \/ Continue([syn EXCEPT !.redundantKube = {}])
  BY DEF DeletesCR
<1>3. Written /\ \A h \in Holders : Outdated(h)
  BY ApiUnchangedWritten, DeleteWritten DEF DeletesCR
<1> QED
  BY <1>1, <1>2, <1>3, LessToDo, RoundStep

LEMMA UpdateServiceCROK ==
  ASSUME IInv, NEW n \in KubeNames, UpdateServiceCR(n), UNCHANGED <<rec, kind, userOps>>
  PROVE  IInv' /\ Written
<1>1. /\ syn.pc = "apply" /\ UNCHANGED <<cache, queue, edge>> /\ faults' \in 0..MaxFaults
      /\ n \in ToUpdate(syn)
  BY FaultsType DEF UpdateServiceCR
<1>2. \E names \in SUBSET KubeNames : Updated(names)
  BY DEF UpdateServiceCR, ToUpdate
<1>3. \/ Forget(n, "syncer")
      \/ /\ StatusReply(n, "syncer") = "ok"
         /\ PutLast(n, WithStatus(n, syn.synced[n]), "syncer")
  BY DEF UpdateServiceCR, ServiceUpdateReply
<1>4. "syncer" \in Holders
  BY DEF Holders
<1>5. Written /\ \A h \in Holders : Outdated(h)
  <2>1. CASE Forget(n, "syncer")
    BY <1>4, <2>1, ForgetWritten
  <2>2. CASE /\ StatusReply(n, "syncer") = "ok"
             /\ PutLast(n, WithStatus(n, syn.synced[n]), "syncer")
    <3>1. Exists(n) /\ "syncer" \in current[n] /\ syn.synced[n] # NoCR
      BY <1>1, <2>2 DEF StatusReply, ToUpdate
    <3>2. syn.synced[n] \in ObjectStatus /\ Honest(syn.synced[n])
      BY <3>1, Round DEF IInv, RoundOK
    <3>3. kube[n].status.synced => syn.synced[n].synced
      BY <3>1 DEF IInv, CurrentRound
    <3> DEFINE cr == WithStatus(n, syn.synced[n])
    <3>4. Truthful(n, cr) /\ cr # NoCR
      BY <3>1, <3>2, <3>3, StatusTruthful
    <3>5. PutLast(n, cr, "syncer")
      BY <2>2
    <3> HIDE DEF cr
    <3> QED
      BY <1>4, <3>4, <3>5, PutLastWritten
  <2> QED
    BY <1>3, <2>1, <2>2
<1> QED
  BY <1>1, <1>2, <1>5, LessToDo, RoundStep

LEMMA ListEdgeServicesOK ==
  ASSUME IInv, ListEdgeServices, UNCHANGED <<rec, kind, userOps>>
  PROVE  IInv' /\ Written
<1> DEFINE definition == [e \in ServicesOnEdge |-> toKubeDeviceService(edge[e].definition)]
<1>1. ASSUME NEW e \in EdgeNames, edge[e] # NoObject
      PROVE  definition[e] \in Definition
  <2>1. e \in ServicesOnEdge /\ edge[e].definition \in Definition
    BY <1>1, Types DEF ServicesOnEdge, EdgeObject
  <2> QED
    BY <2>1 DEF toKubeDeviceService, Definition
<1>2. ListsEdge(definition)
  BY DEF ListEdgeServices
<1> HIDE DEF definition
<1> QED
  BY <1>1, <1>2, ListsEdgeOK

LEMMA ListEdgeProfilesOK ==
  ASSUME IInv, ListEdgeProfiles, UNCHANGED <<rec, kind, userOps>>
  PROVE  IInv' /\ Written
<1> DEFINE definition == [e \in ProfilesOnEdge |-> toKubeDeviceProfile(edge[e].definition)]
<1>1. ASSUME NEW e \in EdgeNames, edge[e] # NoObject
      PROVE  definition[e] \in Definition
  <2>1. e \in ProfilesOnEdge /\ edge[e].definition \in Definition
    BY <1>1, Types DEF ProfilesOnEdge, EdgeObject
  <2> QED
    BY <2>1, ProfileDefinitionType
<1>2. ListsEdge(definition)
  BY DEF ListEdgeProfiles
<1> HIDE DEF definition
<1> QED
  BY <1>1, <1>2, ListsEdgeOK

LEMMA ListKubeServicesOK ==
  ASSUME IInv, ListKubeServices, UNCHANGED <<rec, kind, userOps>>
  PROVE  IInv' /\ Written
<1> DEFINE refreshed ==
             [n \in {m \in OwnCRs : OnEdge(m)} |->
                completeUpdateService(n, syn.listed[GetEdgeName(cache[n])].adminState)]
<1>1. ASSUME NEW n \in OwnCRs, OnEdge(n)
      PROVE  /\ refreshed[n] \in ObjectStatus /\ Honest(refreshed[n])
             /\ cache[n].status.synced => refreshed[n].synced
  <2>1. /\ n \in KubeNames /\ cache[n] # NoCR /\ cache[n] \in Object
        /\ refreshed[n] = completeUpdateService(n, syn.listed[GetEdgeName(cache[n])].adminState)
    BY <1>1, Types DEF OwnCRs
  <2> DEFINE old == cache[n].status
             a == syn.listed[GetEdgeName(cache[n])].adminState
             new == refreshed[n]
  <2>2. old \in ObjectStatus /\ GetEdgeName(cache[n]) \in EdgeNames
    BY <2>1, ObjectType, SpecType DEF GetEdgeName
  <2>3. Honest(old)
    BY <2>1 DEF IInv, CacheHonest, HonestCR
  <2>4. a \in States
    <3>1. syn.listed[GetEdgeName(cache[n])] \in ListedObject
      BY <1>1, <2>2, Round DEF OnEdge
    <3> QED
      BY <3>1 DEF ListedObject, States
  <2>5. new = [old EXCEPT !.adminState = a] /\ old = cache[n].status /\ new = refreshed[n]
    BY <2>1 DEF completeUpdateService
  <2> HIDE DEF old, a, new, refreshed
  <2>6. /\ new \in ObjectStatus /\ new.synced = old.synced /\ new.ready = old.ready
        /\ new.syncedCondition = old.syncedCondition
        /\ new.managingCondition = old.managingCondition
    BY <2>2, <2>4, <2>5, AdminFields
  <2>7. Honest(new)
    BY <2>3, <2>6 DEF Honest, Credible
  <2> QED
    BY <2>5, <2>6, <2>7
<1>2. ListsKube(refreshed)
  BY DEF ListKubeServices
<1> HIDE DEF refreshed
<1> QED
  BY <1>1, <1>2, ListsKubeOK

LEMMA ListKubeProfilesOK ==
  ASSUME IInv, ListKubeProfiles, UNCHANGED <<rec, kind, userOps>>
  PROVE  IInv' /\ Written
<1> DEFINE refreshed == [n \in OwnCRs |-> completeUpdateProfile(n)]
<1>1. \A n \in OwnCRs : refreshed[n] = NoCR
  BY DEF completeUpdateProfile
<1>2. ListsKube(refreshed)
  BY DEF ListKubeProfiles
<1> HIDE DEF refreshed
<1> QED
  BY <1>1, <1>2, ListsKubeOK

LEMMA CreateCROK ==
  ASSUME IInv, NEW e \in EdgeNames, CreateServiceCR(e) \/ CreateProfileCR(e),
         UNCHANGED <<rec, kind, userOps>>
  PROVE  IInv' /\ Written
<1>1. syn.listed[e] \in ListedObject
  BY Round DEF CreateServiceCR, CreateProfileCR, CreatesCR
<1>2. completeCreateService(e) \in ObjectSpec
  <2>1. syn.listed[e].adminState \in States /\ syn.listed[e].definition \in Definition
    BY <1>1 DEF ListedObject, States
  <2> QED
    BY <2>1 DEF completeCreateService, ObjectSpec, States
<1>3. completeCreateProfile(e) \in ObjectSpec
  <2>1. "" \in States /\ syn.listed[e].definition \in Definition
    BY <1>1 DEF ListedObject, States
  <2> QED
    BY <2>1 DEF completeCreateProfile, ObjectSpec, States
<1> QED
  BY <1>2, <1>3, CreatesCROK DEF CreateServiceCR, CreateProfileCR

LEMMA SyncerOK ==
  ASSUME IInv, ServiceSyncerStep \/ ProfileSyncerStep, UNCHANGED <<rec, kind, userOps>>
  PROVE  IInv' /\ Written
  BY ListEdgeServicesOK, ListEdgeProfilesOK, ListKubeServicesOK, ListKubeProfilesOK, CreateCROK,
     DeletesCROK, UpdateServiceCROK
  DEF ServiceSyncerStep, ProfileSyncerStep, DeleteServiceCR, DeleteProfileCR

(***************************************************************************)
(* The system.                                                             *)
(***************************************************************************)
LEMMA InitOK ==
  ASSUME ObjectInit
  PROVE  IInv
<1>1. ApiTypeOK /\ RestTypeOK
  <2>1. {"cache"} \in SUBSET Holders
    BY DEF Holders
  <2>2. 0 \in 0..MaxFaults /\ 0 \in 0..MaxUserOps
    <3>1. MaxFaults \in Nat /\ MaxUserOps \in Nat
      BY BoundsAssumption, ObjectEnvironmentAssumption
    <3> QED
      BY <3>1
  <2> QED
    BY <2>1, <2>2 DEF ObjectInit, ApiTypeOK, RestTypeOK
<1>2. WorkerOK /\ RoundOK
  BY IdleOK DEF ObjectInit, WorkerOK, RoundOK
<1>3. KubeHonest /\ CacheHonest /\ CurrentCache
  BY DEF ObjectInit, KubeHonest, CacheHonest, HonestCR, CurrentCache
<1>4. CurrentWorker /\ CurrentRound
  BY DEF ObjectInit, CurrentWorker, CurrentRound
<1> QED
  BY <1>1, <1>2, <1>3, <1>4
     DEF IInv, ObjectTypeOK, ApiTypeOK, RestTypeOK, WorkerOK, RoundOK

LEMMA StepOK ==
  ASSUME IInv, [ObjectNext]_objectVars
  PROVE  IInv' /\ Written
<1>1. ASSUME NEW n \in Names, UserCreates(n) \/ UserUpdates(n) \/ UserDeletes(n) \/ TakeObjectKey(n)
                              \/ ObjectWatchDelivers(n) \/ ObjectWatchBreaks(n)
      PROVE  IInv' /\ Written
  <2>1. n \in KubeNames
    BY ObjectEnvironmentAssumption DEF Names
  <2> QED
    BY <1>1, <2>1, UserOK, TakeObjectKeyOK, WatchOK
<1>2. ASSUME NEW e \in Objects, OperatorAdds(e) \/ OperatorRemoves(e) \/ OperatorChanges(e)
      PROVE  IInv' /\ Written
  BY <1>2, OperatorOK DEF Objects
<1>3. CASE ObjectReconcilerRuns
  BY <1>3, ServiceReconcilerOK, ProfileReconcilerOK DEF ObjectReconcilerRuns, Others
<1>4. CASE ObjectSyncerRuns
  BY <1>4, SyncerOK DEF ObjectSyncerRuns, Others
<1>5. CASE ObjectsResync \/ UNCHANGED objectVars
  BY <1>5, SameOK, Types DEF ObjectsResync, Resync, Others, objectVars, clusterVars
<1>6. CASE Restarts
  BY <1>6, RestartOK
<1> QED
  BY <1>1, <1>2, <1>3, <1>4, <1>5, <1>6 DEF ObjectNext

LEMMA Invariance == ObjectSpecification => []IInv
<1>1. ObjectInit => IInv
  BY InitOK
<1>2. IInv /\ [ObjectNext]_objectVars => IInv'
  BY StepOK
<1> QED
  BY <1>1, <1>2, PTL DEF ObjectSpecification

(* Every variable keeps its type, in each step of both kinds.              *)
THEOREM ObjectTypeCorrect == ObjectSpecification => []ObjectTypeOK
<1>1. IInv => ObjectTypeOK
  BY DEF IInv
<1> QED
  BY <1>1, Invariance, PTL

(* What the summary of the conditions says is true of the status that is   *)
(* stored, although the syncer writes statuses of an older cached copy and *)
(* the reconciler stores some with no new summary.                         *)
THEOREM ReadyServiceHonest == ObjectSpecification => []ReadyServiceIsSynced
<1>1. IInv => ReadyServiceIsSynced
  BY DEF IInv, KubeHonest, HonestCR, Honest, Credible, ReadyServiceIsSynced, Exists
<1> QED
  BY <1>1, Invariance, PTL

(* No status update takes synced back: one from a copy that is older than  *)
(* the mark meets a conflict.                                              *)
THEOREM SyncedNeverTakenBack == ObjectSpecification => SyncedStays
<1>1. IInv /\ [ObjectNext]_objectVars =>
        [\A n \in KubeNames :
           Exists(n) /\ kube[n].status.synced /\ kube'[n] # NoCR => kube'[n].status.synced]_kube
  BY StepOK DEF Written, Truthful
<1> QED
  BY <1>1, Invariance, PTL DEF ObjectSpecification, SyncedStays
=============================================================================
