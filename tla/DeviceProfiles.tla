--------------------------- MODULE DeviceProfiles ---------------------------
(***************************************************************************)
(* DeviceProfileReconciler and DeviceProfileSyncer: a profile is created,  *)
(* imported and deleted but never changed, there are no conditions, and    *)
(* the event filter is in use.                                             *)
(***************************************************************************)
EXTENDS EdgeObjects

(* After reconcileDeleteDeviceProfile returned nil. *)
ProfileAfterDelete(d) == IF ~d.status.synced THEN "getObject" ELSE "finish"

ProfileReconcile(n) == TakesKey(n, ProfileAfterDelete(cache[n]))
AddProfileFinalizer == AddsFinalizer(ProfileAfterDelete(Answered(TRUE)))
RemoveProfileFinalizer == RemovesFinalizer
DeleteProfile == DeletesObject

(* reconcileCreateDeviceProfile *)
GetProfile == GetsObject(rec.edgeName)
CreateProfile ==
  CreatesObject(toEdgeXDeviceProfile(rec.d.spec.definition), Synced(TRUE), rec.d.status)
WriteProfileSynced == WritesStatus("writeSynced", rec.d.status, rec.d.status)

EndProfileReconcile == Ends /\ Succeeds /\ Forget(rec.key, "reconciler")

ProfileReconcilerStep ==
  \/ AddProfileFinalizer \/ RemoveProfileFinalizer \/ DeleteProfile
  \/ GetProfile \/ CreateProfile \/ WriteProfileSynced \/ EndProfileReconcile

----------------------------------------------------------------------------
(* DeviceProfileSyncer *)

ProfilesOnEdge == {e \in EdgeNames : edge[e] # NoObject}

ListEdgeProfiles ==
  ListsEdge([e \in ProfilesOnEdge |-> toKubeDeviceProfile(edge[e].definition)])

completeUpdateProfile(n) == NoCR   \* updates are a TODO of the code

ListKubeProfiles == ListsKube([n \in OwnCRs |-> completeUpdateProfile(n)])

unpooledProfile(e) ==   \* faulty form of completeCreateProfile
  [edgeName |-> e, nodePool |-> "", managed |-> FALSE, adminState |-> "",
   definition |-> syn.listed[e].definition]

(* completeCreateContent: a CR of this pool. *)
completeCreateProfile(e) ==
  [edgeName |-> e, nodePool |-> NodePool, managed |-> FALSE, adminState |-> "",
   definition |-> syn.listed[e].definition]

CreateProfileCR(e) == CreatesCR(e, completeCreateProfile(e))

DeleteProfileCR(n) == DeletesCR(n)

ProfileSyncerStep ==
  \/ ListEdgeProfiles \/ ListKubeProfiles
  \/ (\E e \in EdgeNames : CreateProfileCR(e))
  \/ (\E n \in KubeNames : DeleteProfileCR(n))
=============================================================================
