---------------------------- MODULE MCManagement ----------------------------
(***************************************************************************)
(* Instances about the management of a device: a CR "a" of one device that *)
(* OpenYurt manages, with a property "p" that can be read and written and  *)
(* a property "q" that cannot be read.                                     *)
(***************************************************************************)
EXTENDS DeviceSystem

MCSyncerName == [e \in {"a"} |-> "pool-a"]

MCSpec(managed, admin, desired) ==
  [edgeName |-> "a", nodePool |-> "pool", managed |-> managed,
   adminState |-> admin, operatingState |-> "UP", desired |-> desired]

(* The property p is to have the value v, and q none; or the reverse. *)
DesireP == [p \in Props |-> IF p = "p" THEN "v" ELSE ""]
DesireQ == [p \in Props |-> IF p = "q" THEN "v" ELSE ""]

(* One managed CR; a user may turn its management off. *)
MCUserSpecs ==
  [n \in {"a", "pool-a"} |->
     IF n = "a" THEN {MCSpec(TRUE, "UNLOCKED", DesireP), MCSpec(FALSE, "UNLOCKED", DesireP)}
     ELSE {}]

(* The same without that choice. *)
MCManagedSpecs ==
  [n \in {"a", "pool-a"} |-> IF n = "a" THEN {MCSpec(TRUE, "UNLOCKED", DesireP)} ELSE {}]

(* The same, and a desired value for the property that cannot be read. *)
MCUserSpecsQ ==
  [n \in {"a", "pool-a"} |->
     IF n = "a"
     THEN {MCSpec(TRUE, "UNLOCKED", DesireP), MCSpec(TRUE, "", DesireQ),
           MCSpec(FALSE, "UNLOCKED", DesireP)}
     ELSE {}]

(* Operators and devices lock a device. *)
MCEdgeStates == {[adminState |-> "LOCKED", operatingState |-> "UP"]}
=============================================================================
