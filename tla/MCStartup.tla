------------------------------ MODULE MCStartup ------------------------------
(***************************************************************************)
(* Two processes with leader election, one of them with the pool as a      *)
(* flag; one without leader election and with an address left empty; and   *)
(* one with an address that has no port.                                   *)
(***************************************************************************)
EXTENDS Startup

MCNodeOf == [r \in {"byLabel", "byFlag", "alone", "invalid"} |->
               IF r = "alone" THEN "n2" ELSE "n1"]

MCArgs(elects, pool, addrs) ==
  [EnableLeaderElection |-> elects, Nodepool |-> pool, Namespace |-> "default",
   addrs |-> addrs]

MCReplicaArgs ==
  [r \in {"byLabel", "byFlag", "alone", "invalid"} |->
     CASE r = "byLabel" -> MCArgs(TRUE, "", {"host:port"})
       [] r = "byFlag"  -> MCArgs(TRUE, "hangzhou", {"host:port"})
       [] r = "alone"   -> MCArgs(FALSE, "", {"", "host:port"})
       [] r = "invalid" -> MCArgs(FALSE, "", {"no port"})]
=============================================================================
