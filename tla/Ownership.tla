------------------------------ MODULE Ownership ------------------------------
(***************************************************************************)
(* What the finalizer protocol between the CRs of a cluster and the        *)
(* devices of an edge platform promises: a device made for a CR is made    *)
(* only while the CR is guarded (has the finalizer), and the guard is      *)
(* given up only when no device made for that CR is left.                  *)
(***************************************************************************)
CONSTANTS Names, Devices, Nobody

VARIABLES
  guarded,   \* the CRs that have the finalizer
  owner      \* for which CR a device was made; Nobody if for none

ownVars == <<guarded, owner>>

Init ==
  /\ guarded = {}
  /\ owner = [e \in Devices |-> Nobody]

Guard(n) ==
  /\ n \notin guarded
  /\ guarded' = guarded \cup {n}
  /\ UNCHANGED owner

Make(e, n) ==
  /\ n \in guarded
  /\ owner[e] = Nobody
  /\ owner' = [owner EXCEPT ![e] = n]
  /\ UNCHANGED guarded

Remove(e) ==
  /\ owner[e] # Nobody
  /\ owner' = [owner EXCEPT ![e] = Nobody]
  /\ UNCHANGED guarded

Release(n) ==
  /\ n \in guarded
  /\ \A e \in Devices : owner[e] # n
  /\ guarded' = guarded \ {n}
  /\ UNCHANGED owner

Next ==
  \/ \E n \in Names : Guard(n) \/ Release(n)
  \/ \E e \in Devices : Remove(e) \/ \E n \in Names : Make(e, n)

Spec == Init /\ [][Next]_ownVars
=============================================================================
