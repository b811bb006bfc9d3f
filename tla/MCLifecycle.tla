----------------------------- MODULE MCLifecycle -----------------------------
(***************************************************************************)
(* Instances about creation, import and deletion: one edge device "a", the *)
(* CR "a" a user may make for it, and the CR "pool-a" of the syncer.       *)
(***************************************************************************)
EXTENDS DeviceSystem

MCSyncerName == [e \in {"a"} |-> "pool-a"]

MCSpec(e, pool) ==
  [edgeName |-> e, nodePool |-> pool, managed |-> FALSE,
   adminState |-> "", operatingState |-> "", desired |-> [p \in {} |-> ""]]

MCUserSpecs ==
  [n \in {"a", "pool-a"} |->
     IF n = "a" THEN {MCSpec("a", "pool")} ELSE {}]

(* One CR, of the name the syncer gives: the user makes it or the syncer. *)
MCSyncerSpecs == [n \in {"pool-a"} |-> {MCSpec("a", "pool")}]

MCEdgeStates == {[adminState |-> "UNLOCKED", operatingState |-> "UP"]}
=============================================================================
