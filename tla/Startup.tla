------------------------------- MODULE Startup -------------------------------
(***************************************************************************)
(* The life of the yurt-device-controller processes of a cluster, from the *)
(* command line to mgr.Start (cmd/yurt-device-controller/app/core.go): a   *)
(* process makes its checks in order and exits at the first that fails,    *)
(* the kubelet starts it again, and the nodes, the namespaces and the CRDs *)
(* change meanwhile.                                                       *)
(***************************************************************************)
EXTENDS Naturals

CONSTANTS
  Replicas,     \* the processes, one in each pod
  Nodes, NodeOf,
  Pools,
  NoPool,       \* the node has no nodepool label
  Namespaces, CRDs,
  Args,         \* process -> what its command line and the defaults say
  NoReplica, Former,
  MaxChanges    \* bound on failures and on changes of the environment, together

(* A pool as the options have it, and as the label of a node has it.       *)
PoolNames == Pools \cup {""}
LabelValues == PoolNames \cup {NoPool}

(* YurtDeviceControllerOptions.  Of the addresses only the form counts.    *)
Options ==
  [EnableLeaderElection: BOOLEAN, Nodepool: PoolNames, Namespace: Namespaces,
   addrs: SUBSET {"", "host:port", "no port"}]

ASSUME ReplicasAssumption ==
  /\ NodeOf \in [Replicas -> Nodes]
  /\ Args \in [Replicas -> Options]
  /\ NoPool \notin PoolNames
  /\ NoReplica \notin Replicas /\ Former \notin Replicas /\ NoReplica # Former

ASSUME ChangesAssumption == MaxChanges \in Nat

VARIABLES
  label,         \* node -> its label apps.openyurt.io/nodepool, which may be ""
  namespaces,    \* the namespaces that exist
  crdsInstalled, \* of the CRDs of the three kinds
  changes,
  stage,         \* process -> how far it is
  opts,          \* process -> its options; Nodepool is filled in on the way
  lease          \* the leader, NoReplica, or Former: nobody renews it any more

environmentVars == <<label, namespaces, crdsInstalled>>
startupVars == <<environmentVars, changes, stage, opts, lease>>

Stages == {"down", "launched", "checked", "indexed", "pooled", "setUp", "running",
           "overdue"}   \* running, but the lease could not be renewed in time

StartupTypeOK ==
  /\ label \in [Nodes -> LabelValues]
  /\ namespaces \subseteq Namespaces
  /\ crdsInstalled \subseteq CRDs
  /\ changes \in 0..MaxChanges
  /\ stage \in [Replicas -> Stages]
  /\ opts \in [Replicas -> Options]
  /\ lease \in Replicas \cup {NoReplica, Former}

StartupInit ==
  /\ label \in [Nodes -> LabelValues]
  /\ namespaces \in SUBSET Namespaces
  /\ crdsInstalled \in SUBSET CRDs
  /\ changes = 0
  /\ stage = [r \in Replicas |-> "down"]
  /\ opts = Args
  /\ lease = NoReplica

----------------------------------------------------------------------------
(* One process *)

Fails == changes < MaxChanges /\ changes' = changes + 1

(* A check of the start-up; without an answer of the API server it fails.  *)
Check(r, from, to, holds) ==
  /\ stage[r] = from
  /\ \/ holds /\ stage' = [stage EXCEPT ![r] = to] /\ UNCHANGED changes
     \/ ~holds /\ stage' = [stage EXCEPT ![r] = "down"] /\ UNCHANGED changes
     \/ holds /\ stage' = [stage EXCEPT ![r] = "down"] /\ Fails
  /\ UNCHANGED <<environmentVars, lease>>

NoEmptyAddress(o) == "no port" \notin o.addrs /\ "" \notin o.addrs   \* faulty form

(* ValidateEdgePlatformAddress: net.SplitHostPort of what is not empty.    *)
ValidateOptions(o) == \A addr \in o.addrs : addr # "" => addr = "host:port"

(* The kubelet starts the process; with invalid options it ends at once.   *)
Launch(r) ==
  /\ stage[r] = "down" /\ ValidateOptions(Args[r])
  /\ stage' = [stage EXCEPT ![r] = "launched"]
  /\ opts' = [opts EXCEPT ![r] = Args[r]]
  /\ UNCHANGED <<environmentVars, changes, lease>>

preflightCheck(r) ==
  Check(r, "launched", "checked", opts[r].Namespace \in namespaces) /\ UNCHANGED opts

(* IndexField asks for the informer of each kind, which needs its CRD.     *)
RegisterFieldIndexers(r) ==
  Check(r, "checked", "indexed", crdsInstalled = CRDs) /\ UNCHANGED opts

labelUnchecked(r) ==   \* faulty form of GetNodePool: no label is no error
  LET found == IF opts[r].Nodepool # "" THEN opts[r].Nodepool ELSE label[NodeOf[r]]
  IN  /\ Check(r, "indexed", "pooled", TRUE)
      /\ opts' = [opts EXCEPT ![r].Nodepool = found]

labelFirst(r) ==   \* faulty form of GetNodePool: the flag does not spare the label
  LET found == label[NodeOf[r]]
  IN  /\ Check(r, "indexed", "pooled", found # NoPool)
      /\ opts' = IF found # NoPool THEN [opts EXCEPT ![r].Nodepool = found] ELSE opts

(* Of the flag, or of the label of the node, once and for all.  The label  *)
(* is read even if it is empty.                                            *)
GetNodePool(r) ==
  LET found == IF opts[r].Nodepool # "" THEN opts[r].Nodepool ELSE label[NodeOf[r]]
  IN  /\ Check(r, "indexed", "pooled", found # NoPool)
      /\ opts' = IF found # NoPool THEN [opts EXCEPT ![r].Nodepool = found] ELSE opts

(* The reconcilers and the syncers of the three kinds, the health checks.  *)
SetUp(r) == Check(r, "pooled", "setUp", TRUE) /\ UNCHANGED opts

unelected(r) ==   \* faulty form of Start: the flag is not passed on
  /\ stage[r] = "setUp"
  /\ stage' = [stage EXCEPT ![r] = "running"]
  /\ UNCHANGED <<environmentVars, changes, opts, lease>>

(* mgr.Start runs the controllers and the syncers, with leader election    *)
(* when the process has got the lease.  There is one lease for all pools.  *)
Start(r) ==
  /\ stage[r] = "setUp"
  /\ IF opts[r].EnableLeaderElection
     THEN lease = NoReplica /\ lease' = r
     ELSE UNCHANGED lease
  /\ stage' = [stage EXCEPT ![r] = "running"]
  /\ UNCHANGED <<environmentVars, changes, opts>>

(* The leader could not renew its lease in time.  Its controllers run on   *)
(* until mgr.Start has returned an error and the process exits.            *)
LosesLease(r) ==
  /\ stage[r] = "running" /\ lease = r /\ Fails
  /\ stage' = [stage EXCEPT ![r] = "overdue"]
  /\ lease' = Former
  /\ UNCHANGED <<environmentVars, opts>>

staysUp(r) ==   \* faulty form of Exits: the error is logged only
  /\ stage[r] = "overdue"
  /\ stage' = [stage EXCEPT ![r] = "running"]
  /\ UNCHANGED <<environmentVars, changes, opts, lease>>

Exits(r) ==
  /\ stage[r] = "overdue"
  /\ stage' = [stage EXCEPT ![r] = "down"]
  /\ UNCHANGED <<environmentVars, changes, opts, lease>>

(* A process dies. *)
Ends(r) ==
  /\ stage[r] # "down" /\ Fails
  /\ stage' = [stage EXCEPT ![r] = "down"]
  /\ lease' = IF lease = r THEN Former ELSE lease
  /\ UNCHANGED <<environmentVars, opts>>

(* The lease lasts longer after its last renewal than a leader tries to    *)
(* renew it and takes to exit: the one assumption here about time.         *)
LeaseExpires ==
  /\ lease = Former /\ lease' = NoReplica
  /\ \A r \in Replicas : stage[r] # "overdue"
  /\ UNCHANGED <<environmentVars, changes, stage, opts>>

----------------------------------------------------------------------------
(* The environment *)

Environment ==
  /\ Fails
  /\ \/ /\ \E node \in Nodes : \E l \in LabelValues :
             label' = [label EXCEPT ![node] = l]
        /\ UNCHANGED <<namespaces, crdsInstalled>>
     \/ /\ namespaces' \in SUBSET Namespaces
        /\ UNCHANGED <<label, crdsInstalled>>
     \/ /\ crdsInstalled' \in SUBSET CRDs
        /\ UNCHANGED <<label, namespaces>>
  /\ UNCHANGED <<stage, opts, lease>>

Progress(r) ==
  \/ Launch(r) \/ preflightCheck(r) \/ RegisterFieldIndexers(r)
  \/ GetNodePool(r) \/ SetUp(r) \/ Start(r) \/ Exits(r)

StartupNext ==
  \/ \E r \in Replicas : Progress(r) \/ LosesLease(r) \/ Ends(r)
  \/ LeaseExpires \/ Environment

StartupSpec == StartupInit /\ [][StartupNext]_startupVars

(* The kubelet always starts a process again, a process goes on or exits,  *)
(* and a lease that is not renewed runs out.                               *)
FairStartupSpec ==
  /\ StartupSpec
  /\ \A r \in Replicas : WF_startupVars(Progress(r))
  /\ WF_startupVars(LeaseExpires)

----------------------------------------------------------------------------
(* Safety *)

Active ==
  {r \in Replicas : stage[r] \in {"running", "overdue"} /\ opts[r].EnableLeaderElection}

(* The processes with leader election, of whatever pools, are an election, *)
(* however they die, exit and start again (core.go:84).                    *)
Elections == INSTANCE Election WITH active <- Active
ImplementsElection == Elections!ElectionSpec

(* What makes it so: the controllers of such a process run only while the  *)
(* lease names it, or names nobody else because the process is about to    *)
(* exit; and the lease names only a process whose controllers run.         *)
LeaseIsHonest ==
  /\ \A r \in Active :
       IF stage[r] = "overdue" THEN lease = Former /\ Active = {r} ELSE lease = r
  /\ lease \in Replicas => lease \in Active

----------------------------------------------------------------------------
(* Liveness *)

(* What a process needs in order to start: addresses with a port or empty, *)
(* its namespace, the CRDs, and a pool from the flag or the label.         *)
Fit(r) ==
  /\ "no port" \notin Args[r].addrs
  /\ Args[r].Namespace \in namespaces /\ crdsInstalled = CRDs
  /\ Args[r].Nodepool # "" \/ label[NodeOf[r]] # NoPool

(* A process without leader election for which everything is in place in   *)
(* the end runs in the end, however often it had to start.                 *)
Serves ==
  \A r \in Replicas :
    ~Args[r].EnableLeaderElection => (<>[]Fit(r) => <>[](stage[r] = "running"))

(* If there is such a process with leader election, one of them runs in    *)
(* the end; not one of every pool.                                         *)
SomeoneServes ==
  \A r \in Replicas :
    Args[r].EnableLeaderElection => (<>[]Fit(r) => <>[](Active # {}))
=============================================================================
