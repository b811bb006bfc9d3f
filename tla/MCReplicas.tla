----------------------------- MODULE MCReplicas -----------------------------
(***************************************************************************)
(* Two processes, with and without leader election, one of which may die   *)
(* or lose its watch.  An operator adds the device "a", which either       *)
(* process imports as "pool-a" and reconciles, and removes the device; a   *)
(* user deletes that CR or has the device managed through it, or makes a   *)
(* CR of that name that stands for the same device, a managed one or one   *)
(* of another pool: each at any time.                                      *)
(***************************************************************************)
EXTENDS Replicas

MCSyncerName == [e \in {"a"} |-> "pool-a"]

MCUserSpecs ==
  [n \in {"pool-a"} |->
     {[edgeName |-> "a", nodePool |-> spec.pool, managed |-> spec.managed,
       adminState |-> "", operatingState |-> "", desired |-> [p \in {} |-> ""]] :
        spec \in {[pool |-> "pool", managed |-> TRUE], [pool |-> "other", managed |-> FALSE]}}]

MCEdgeStates == {[adminState |-> "UNLOCKED", operatingState |-> "UP"]}

(* Bound of the search while a managed CR is stored, whose reconciliation  *)
(* has many more steps: changes of the edge, rounds and failures together  *)
(* are two at most, and none where both processes work at once.            *)
MaxWithManaged == IF leader = "all" THEN 0 ELSE 2

FewWithManaged ==
  (\E n \in KubeNames : Exists(n) /\ kube[n].spec.managed) =>
    edgeOps + rounds + faults <= MaxWithManaged
=============================================================================
