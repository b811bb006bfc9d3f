---------------------------- MODULE MCEdgeObjects ----------------------------
(***************************************************************************)
(* One service "s" and one profile "p" on the edge; the syncer makes their *)
(* CRs "pool-s" and "pool-p".  Users submit a CR "pool-s" as well, and for *)
(* the profile one of another name, "p".                                   *)
(***************************************************************************)
EXTENDS EdgeObjectSystem

MCSyncerName == [e \in {"s", "p"} |-> IF e = "s" THEN "pool-s" ELSE "pool-p"]

MCSpec(e, pool, managed, state) ==
  [edgeName |-> e, nodePool |-> pool, managed |-> managed, adminState |-> state,
   definition |-> IF e = "s" THEN ServiceParts ELSE ProfileParts]

(* An imported service may be taken into management, and a profile may be  *)
(* of another pool.                                                        *)
MCUserSpecs ==
  [n \in {"pool-s", "p", "pool-p"} |->
     IF n = "pool-s" THEN {MCSpec("s", "pool", TRUE, "LOCKED")}
     ELSE IF n = "p" THEN {MCSpec("p", pool, FALSE, "") : pool \in {"pool", "other"}} ELSE {}]

MCEdgeStates == [e \in {"s", "p"} |-> IF e = "s" THEN {"UNLOCKED"} ELSE {""}]
=============================================================================
