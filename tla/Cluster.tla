------------------------------- MODULE Cluster -------------------------------
(***************************************************************************)
(* What every controller and syncer of the process works with: the CRs of  *)
(* the cluster, the informer cache and workqueue of the process, the       *)
(* objects of the EdgeX instance, and how the API server answers a write.  *)
(* Nothing here depends on the kind of the CRs; DeviceCluster and          *)
(* EdgeObjects say what a CR is.                                           *)
(***************************************************************************)
EXTENDS Naturals

CONSTANTS
  KubeNames,     \* names of CRs (one namespace)
  EdgeNames,     \* names of objects on EdgeX
  NoName,        \* not a name
  SyncerName,    \* edge name -> name of the CR the syncer creates for it
  NodePool,      \* the pool this controller serves
  OtherPools,    \* pools served by another controller
  NoCR,
  Unfiltered,    \* names of CRs whose controller has no event filter
  FaultKinds,    \* the failures this instance may meet
  MaxFaults,     \* bound on the number of failures
  PromptReuse    \* the names that may be used again while the process still
                 \* holds a copy of the CR that had them

AllFaults == {"unreachable", "lost", "server", "item", "api", "crash", "relist"}

ASSUME BoundsAssumption ==
  /\ FaultKinds \subseteq AllFaults
  /\ MaxFaults \in Nat
  /\ PromptReuse \subseteq KubeNames

VARIABLES
  kube,     \* the CRs stored by the API server
  cache,    \* the informer cache of the process
  current,  \* per name, the holders whose copy has the stored resourceVersion
  pending,  \* names with an undelivered watch event that passes the filter
  queue,    \* the controller's workqueue
  edge,     \* the objects of EdgeX
  faults    \* number of failures so far

clusterVars == <<kube, cache, current, pending, queue, edge, faults>>

Holders == {"cache", "reconciler", "syncer"}

Exists(n) == kube[n] # NoCR

(* The outcome of a call is a failure of one of these kinds, or none. *)
Fails(kinds) ==
  /\ faults < MaxFaults
  /\ kinds \cap FaultKinds # {}
  /\ faults' = faults + 1

Succeeds == UNCHANGED faults

----------------------------------------------------------------------------
(* Watch events and their filter. *)

(* genFirstUpdateFilter: creations and deletions pass, and every update    *)
(* except the one that turns status.synced on.                             *)
PassesFilter(n, old, new) ==
  \/ n \in Unfiltered
  \/ old = NoCR \/ new = NoCR
  \/ old.status.synced
  \/ ~new.status.synced

(* The informer applies the events of n: one cache entry, one queue key.   *)
Deliver(n) ==
  /\ "cache" \notin current[n]
  /\ cache' = [cache EXCEPT ![n] = kube[n]]
  /\ current' = [current EXCEPT ![n] = @ \cup {"cache"}]
  /\ queue' = IF n \in pending THEN queue \cup {n} ELSE queue
  /\ pending' = pending \ {n}
  /\ Succeeds
  /\ UNCHANGED <<kube, edge>>

(* The watch broke and the informer lists again: the versions in between   *)
(* are never seen, so the filter compares the cached and the listed CR.    *)
Relist(n) ==
  /\ "cache" \notin current[n]
  /\ cache' = [cache EXCEPT ![n] = kube[n]]
  /\ current' = [current EXCEPT ![n] = @ \cup {"cache"}]
  /\ queue' = IF PassesFilter(n, cache[n], kube[n]) THEN queue \cup {n} ELSE queue
  /\ pending' = pending \ {n}
  /\ Fails({"relist"})
  /\ UNCHANGED <<kube, edge>>

(* The periodic resync of the informer: an update event for every CR. *)
Resync ==
  /\ queue' = queue \cup {n \in KubeNames : cache[n] # NoCR}
  /\ UNCHANGED <<kube, cache, current, pending, edge, faults>>

----------------------------------------------------------------------------
(* The API server.  Each operator is the effect of one accepted request.   *)

(* Store a new version of n; only the copies in holders are then current.  *)
Store(n, cr, holders) ==
  /\ kube' = [kube EXCEPT ![n] = cr]
  /\ current' = [current EXCEPT ![n] = holders]
  /\ pending' = IF PassesFilter(n, kube[n], cr) THEN pending \cup {n} ELSE pending

(* A patch or update by h, which gets the stored version back.  A write    *)
(* that changes nothing makes no new version and no event.                 *)
Put(n, cr, h) ==
  IF cr = kube[n]
  THEN /\ current' = [current EXCEPT ![n] = @ \cup {h}]
       /\ UNCHANGED <<kube, pending>>
  ELSE Store(n, cr, {h})

(* The client decodes the answer to a patch into the copy of its caller: a *)
(* field that is empty is left out of the answer and stays what it was.    *)
Filled(new, old, empty) == IF new = empty THEN old ELSE new

ApiUnchanged == UNCHANGED <<kube, current, pending>>

(* h drops its copy of n, after a last write or without one. *)
Forget(n, h) ==
  /\ current' = [current EXCEPT ![n] = @ \ {h}]
  /\ UNCHANGED <<kube, pending>>

PutLast(n, cr, h) == IF cr = kube[n] THEN Forget(n, h) ELSE Store(n, cr, {})

UnversionedReply(n, h) ==  \* faulty form of StatusReply
  IF Exists(n) THEN "ok" ELSE "notFound"

(* Status().Update carries the resourceVersion of the copy of h. *)
StatusReply(n, h) ==
  IF ~Exists(n) THEN "notFound"
  ELSE IF h \notin current[n] THEN "conflict" ELSE "ok"

WithStatus(n, status) == [kube[n] EXCEPT !.status = status]

(* Create.  Unless n is in PromptReuse, it comes back only when no copy of *)
(* the CR that had it is left in the process; busy are the names in use.   *)
CanCreate(n, busy) ==
  /\ ~Exists(n)
  /\ n \in PromptReuse \/ (cache[n] = NoCR /\ n \notin busy)

(* Delete: immediate without a finalizer, else a deletion timestamp. *)
Delete(n) ==
  IF kube[n].finalizer
  THEN IF kube[n].deleting THEN ApiUnchanged
       ELSE Store(n, [kube[n] EXCEPT !.deleting = TRUE], {})
  ELSE Store(n, NoCR, {})

(* A copy of n as read from the cache by h is as current as the cache. *)
ReadFromCache(n, h) ==
  IF "cache" \in current[n] THEN current[n] \cup {h} ELSE current[n] \ {h}
=============================================================================
