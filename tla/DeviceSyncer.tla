---------------------------- MODULE DeviceSyncer ----------------------------
(***************************************************************************)
(* DeviceSyncer of pkg/controllers/device_syncer.go.  Once per sync period *)
(* it lists the devices of EdgeX, then the CRs of its pool in the cache,   *)
(* and makes the cluster follow the first list: it creates the missing     *)
(* CRs, deletes the synced CRs whose device is not listed and refreshes    *)
(* the status of the others.  The two lists and every later request are    *)
(* steps of their own; the round works on what it listed.                  *)
(***************************************************************************)
EXTENDS DeviceCluster

VARIABLE syn

(* What a round keeps of a listed device: what toKubeDevice makes of it.   *)
Listed == [adminState: AdminStates, operatingState: OperatingStates]

(* What a round keeps of a CR it will update: the new status, and the name *)
(* under which it reads the properties.                                    *)
Copy == [edgeName: EdgeNames, status: DeviceStatus]

ASSUME CopyAssumption == NoCR \notin Copy /\ NoDevice \notin Listed

Round ==
  [pc: {"idle", "listed", "apply"},
   edgeDevices: [EdgeNames -> Listed \cup {NoDevice}],
   redundantEdge: SUBSET EdgeNames,   \* devices to create a CR for
   redundantKube: SUBSET KubeNames,   \* CRs to delete
   toRead: SUBSET KubeNames,          \* CRs to update whose properties are not read yet
   unread: SUBSET Props,              \* those left of the CR being read
   reading: KubeNames \cup {NoName},  \* that CR
   synced: SUBSET KubeNames,          \* CRs to update
   copy: [KubeNames -> Copy \cup {NoCR}]]   \* what the updates will send

IdleRound ==
  [pc |-> "idle", edgeDevices |-> [e \in EdgeNames |-> NoDevice],
   redundantEdge |-> {}, redundantKube |-> {}, toRead |-> {}, unread |-> {},
   reading |-> NoName, synced |-> {},
   copy |-> [n \in KubeNames |-> NoCR]]

(* A round with nothing left to do is over. *)
Continue(round) ==
  syn' = IF round.redundantEdge \cup round.redundantKube \cup round.synced = {}
         THEN IdleRound ELSE round

----------------------------------------------------------------------------
(* getAllDevices *)

toListed(ed) ==
  IF ed = NoDevice THEN NoDevice
  ELSE [adminState |-> ed.adminState, operatingState |-> ed.operatingState]

(* EdgexDeviceClient.List does not look at the HTTP status: a 5xx with a   *)
(* JSON body is an empty list.  An unreachable EdgeX ends the round.       *)
ListEdgeDevices ==
  /\ syn.pc = "idle"
  /\ \/ /\ Succeeds
        /\ syn' = [syn EXCEPT !.pc = "listed",
                              !.edgeDevices = [e \in EdgeNames |-> toListed(edge[e])]]
     \/ Fails({"server"}) /\ syn' = [syn EXCEPT !.pc = "listed"]
     \/ Fails({"unreachable", "lost"}) /\ UNCHANGED syn
  /\ ApiUnchanged
  /\ UNCHANGED <<cache, queue, edge>>

(* The CRs of this pool in the cache; of several that stand for the same   *)
(* edge device the map kubeDevice keeps one.                               *)
OwnCRs == {n \in KubeNames : cache[n] # NoCR /\ cache[n].spec.nodePool = NodePool}

Representatives ==
  {S \in SUBSET OwnCRs :
     /\ \A n \in OwnCRs : \E m \in S : GetEdgeDeviceName(cache[m]) = GetEdgeDeviceName(cache[n])
     /\ \A m1, m2 \in S :
          GetEdgeDeviceName(cache[m1]) = GetEdgeDeviceName(cache[m2]) => m1 = m2}

OnEdge(n) == syn.edgeDevices[GetEdgeDeviceName(cache[n])] # NoDevice

(* completeUpdateContent, without the properties: the listed device is     *)
(* older than the CR it is copied over.                                    *)
completeUpdateContent(n) ==
  LET ed == syn.edgeDevices[GetEdgeDeviceName(cache[n])]
  IN  [edgeName |-> GetEdgeDeviceName(cache[n]),
       status |-> [cache[n].status EXCEPT !.adminState = ed.adminState,
                                          !.operatingState = ed.operatingState]]

(* The cached list and findDiffDevice; what the round has no more use for  *)
(* is dropped (without properties there is nothing to read either).        *)
ListKubeDevices ==
  /\ syn.pc = "listed"
  /\ \E S \in Representatives :
       LET both == {n \in S : OnEdge(n)}
           missing == {e \in EdgeNames : /\ syn.edgeDevices[e] # NoDevice
                                         /\ \A n \in S : GetEdgeDeviceName(cache[n]) # e}
       IN  /\ Continue([syn EXCEPT
                 !.pc = "apply",
                 !.redundantEdge = missing,
                 !.edgeDevices = [e \in EdgeNames |-> IF e \in missing THEN @[e] ELSE NoDevice],
                 !.redundantKube = {n \in S : cache[n].status.synced /\ ~OnEdge(n)},
                 !.toRead = IF Props = {} THEN {} ELSE both, !.synced = both,
                 !.copy = [n \in KubeNames |->
                             IF n \in both THEN completeUpdateContent(n) ELSE NoCR]])
           /\ current' = [n \in KubeNames |->
                 IF n \in both THEN ReadFromCache(n, "syncer") ELSE current[n] \ {"syncer"}]
  /\ Succeeds
  /\ UNCHANGED <<kube, cache, pending, queue, edge>>

(* ListPropertiesState over one device, whose error is dropped: a failed   *)
(* look-up of the commands (also a 5xx, which decodes to none) is an empty *)
(* map, and otherwise there is an entry for every readable property.       *)
ListPropertiesState(n) ==
  LET listed(props) ==
        syn' = [syn EXCEPT
                 !.toRead = IF props = {} THEN @ \ {n} ELSE @,
                 !.reading = IF props = {} THEN NoName ELSE n,
                 !.unread = props,
                 !.copy[n].status.deviceProperties =
                    [p \in Props |-> IF p \in props THEN "" ELSE "no entry"]]
  IN  /\ syn.pc = "apply" /\ n \in syn.toRead /\ syn.reading = NoName
      /\ \/ Succeeds /\ edge[syn.copy[n].edgeName] # NoDevice /\ listed(Readable)
         \/ Succeeds /\ edge[syn.copy[n].edgeName] = NoDevice /\ listed({})
         \/ Fails({"unreachable", "lost", "server"}) /\ listed({})
      /\ ApiUnchanged
      /\ UNCHANGED <<cache, queue, edge>>

(* The GET of one property; an entry without a value stays if it fails.    *)
ReadListedProperty(p) ==
  LET n == syn.reading
      e == syn.copy[n].edgeName
      answers == /\ edge[e] # NoDevice
                 /\ edge[e].adminState = "UNLOCKED" /\ edge[e].operatingState # "DOWN"
      got(value) ==
        syn' = [syn EXCEPT
                 !.toRead = IF syn.unread = {p} THEN @ \ {n} ELSE @,
                 !.reading = IF syn.unread = {p} THEN NoName ELSE n,
                 !.unread = @ \ {p},
                 !.copy[n].status.deviceProperties[p] = value]
  IN  /\ n # NoName /\ p \in syn.unread
      /\ \/ Succeeds /\ answers /\ got(edge[e].values[p])
         \/ Succeeds /\ ~answers /\ got("")
         \/ Fails({"unreachable", "lost", "server"}) /\ got("")
      /\ ApiUnchanged
      /\ UNCHANGED <<cache, queue, edge>>

----------------------------------------------------------------------------
createdWithoutPool(e) ==  \* faulty form of completeCreateContent
  [edgeName |-> e, nodePool |-> "", managed |-> FALSE,
   adminState |-> syn.edgeDevices[e].adminState,
   operatingState |-> syn.edgeDevices[e].operatingState,
   desired |-> [p \in Props |-> ""]]

(* completeCreateContent: an unmanaged CR of this pool; the status of the  *)
(* listed device is not part of what a creation stores.                    *)
completeCreateContent(e) ==
  [edgeName |-> e, nodePool |-> NodePool, managed |-> FALSE,
   adminState |-> syn.edgeDevices[e].adminState,
   operatingState |-> syn.edgeDevices[e].operatingState,
   desired |-> [p \in Props |-> ""]]

(* syncEdgeToKube: a name in use is skipped, an error ends the stage.      *)
SyncEdgeToKube(e, busy) ==
  LET n == SyncerName[e]
  IN  /\ syn.pc = "apply" /\ syn.toRead = {} /\ e \in syn.redundantEdge
      /\ \/ /\ Succeeds /\ CanCreate(n, busy)
            /\ Create(n, completeCreateContent(e))
            /\ Continue([syn EXCEPT !.redundantEdge = @ \ {e}])
         \/ /\ Succeeds /\ Exists(n) /\ ApiUnchanged
            /\ Continue([syn EXCEPT !.redundantEdge = @ \ {e}])
         \/ /\ Fails({"api"}) /\ ApiUnchanged
            /\ Continue([syn EXCEPT !.redundantEdge = {}])
      /\ UNCHANGED <<cache, queue, edge>>

(* deleteDevices: by name only; an error, as for a CR that is already      *)
(* gone, ends the stage.                                                   *)
DeleteRedundant(n) ==
  /\ syn.pc = "apply" /\ syn.toRead = {} /\ syn.redundantEdge = {}
  /\ n \in syn.redundantKube
  /\ \/ /\ Succeeds /\ Exists(n) /\ Delete(n)
        /\ Continue([syn EXCEPT !.redundantKube = @ \ {n}])
     \/ /\ Succeeds /\ ~Exists(n) /\ ApiUnchanged
        /\ Continue([syn EXCEPT !.redundantKube = {}])
     \/ Fails({"api"}) /\ ApiUnchanged /\ Continue([syn EXCEPT !.redundantKube = {}])
  /\ UNCHANGED <<cache, queue, edge>>

Updated(names) ==
  Continue([syn EXCEPT !.synced = @ \ names,
                       !.copy = [n \in KubeNames |-> IF n \in names THEN NoCR ELSE @[n]]])

BlindReply(n) == IF Exists(n) THEN "ok" ELSE "notFound"  \* faulty form of UpdateReply

UpdateReply(n) == StatusReply(n, "syncer")

(* updateDevices: a conflict is skipped, any other error ends the stage.   *)
UpdateDeviceStatus(n) ==
  LET reply == UpdateReply(n)
  IN  /\ syn.pc = "apply"
      /\ syn.toRead = {} /\ syn.redundantEdge = {} /\ syn.redundantKube = {}
      /\ n \in syn.synced
      /\ \/ /\ Succeeds /\ reply = "ok"
            /\ PutLast(n, WithStatus(n, syn.copy[n].status), "syncer")
            /\ Updated({n})
         \/ Succeeds /\ reply = "conflict" /\ Forget(n, "syncer") /\ Updated({n})
         \/ Succeeds /\ reply = "notFound" /\ Forget(n, "syncer") /\ Updated(syn.synced)
         \/ Fails({"api"}) /\ Forget(n, "syncer") /\ Updated(syn.synced)
      /\ UNCHANGED <<cache, queue, edge>>

SyncerStep(busy) ==
  \/ ListEdgeDevices \/ ListKubeDevices
  \/ (\E e \in EdgeNames : SyncEdgeToKube(e, busy))
  \/ (\E n \in KubeNames :
        ListPropertiesState(n) \/ DeleteRedundant(n) \/ UpdateDeviceStatus(n))
  \/ (\E p \in Props : ReadListedProperty(p))
=============================================================================
