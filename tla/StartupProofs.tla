---------------------------- MODULE StartupProofs ----------------------------
(***************************************************************************)
(* Proofs about Startup, for any number of processes, nodes and pools, any *)
(* command lines and any number of changes: every variable has its type,   *)
(* the lease names the one process it should, and so the processes with    *)
(* leader election are an Election.                                        *)
(***************************************************************************)
EXTENDS Startup, TLAPS

(* GetNodePool fills in a pool, or what the label of the node says.        *)
LEMMA PoolIsFound ==
  ASSUME NEW r \in Replicas, StartupTypeOK, GetNodePool(r)
  PROVE  /\ opts' \in [Replicas -> Options]
         /\ \A s \in Replicas : opts'[s].EnableLeaderElection = opts[s].EnableLeaderElection
  <1> DEFINE found == IF opts[r].Nodepool # "" THEN opts[r].Nodepool ELSE label[NodeOf[r]]
  <1>1. found \in LabelValues
    BY ReplicasAssumption DEF StartupTypeOK, Options, LabelValues
  <1>2. CASE found = NoPool
    BY <1>2 DEF GetNodePool, StartupTypeOK
  <1>3. CASE found # NoPool
    <2>1. found \in PoolNames
      BY <1>1, <1>3 DEF LabelValues
    <2>2. opts' = [opts EXCEPT ![r].Nodepool = found]
      BY <1>3 DEF GetNodePool
    <2> HIDE DEF found
    <2> QED
      BY <2>1, <2>2 DEF StartupTypeOK, Options
  <1> QED
    BY <1>2, <1>3

(* The checks of the start-up.                                             *)
StartupChecks(r) ==
  preflightCheck(r) \/ RegisterFieldIndexers(r) \/ GetNodePool(r) \/ SetUp(r)

(* A check moves one process along or down and leaves the lease alone; no  *)
(* such process runs its controllers, before or after.                     *)
LEMMA CheckMoves ==
  ASSUME NEW r \in Replicas, StartupTypeOK, StartupChecks(r)
  PROVE  /\ stage[r] \notin {"running", "overdue"}
         /\ \E to \in Stages \ {"running", "overdue"} : stage' = [stage EXCEPT ![r] = to]
         /\ changes' \in 0..MaxChanges
         /\ opts' \in [Replicas -> Options]
         /\ \A s \in Replicas : opts'[s].EnableLeaderElection = opts[s].EnableLeaderElection
         /\ UNCHANGED <<label, namespaces, crdsInstalled, lease>>
  <1> USE ChangesAssumption DEF Fails, StartupTypeOK, Stages, environmentVars
  <1>1. CASE preflightCheck(r)
    BY <1>1 DEF preflightCheck, Check
  <1>2. CASE RegisterFieldIndexers(r)
    BY <1>2 DEF RegisterFieldIndexers, Check
  <1>3. CASE GetNodePool(r)
    <2> DEFINE found == IF opts[r].Nodepool # "" THEN opts[r].Nodepool ELSE label[NodeOf[r]]
    <2>1. Check(r, "indexed", "pooled", found # NoPool)
      BY <1>3 DEF GetNodePool
    <2> HIDE DEF found
    <2>2. /\ stage[r] \notin {"running", "overdue"}
          /\ \E to \in Stages \ {"running", "overdue"} : stage' = [stage EXCEPT ![r] = to]
          /\ changes' \in 0..MaxChanges
          /\ UNCHANGED <<label, namespaces, crdsInstalled, lease>>
      BY <2>1 DEF Check
    <2> QED
      BY <1>3, <2>2, PoolIsFound
  <1>4. CASE SetUp(r)
    BY <1>4 DEF SetUp, Check
  <1> QED
    BY <1>1, <1>2, <1>3, <1>4 DEF StartupChecks

LEMMA TypesAtFirst == StartupInit => StartupTypeOK
  BY ReplicasAssumption, ChangesAssumption DEF StartupInit, StartupTypeOK, Stages

LEMMA TypesStay == StartupTypeOK /\ [StartupNext]_startupVars => StartupTypeOK'
  <1> SUFFICES ASSUME StartupTypeOK, [StartupNext]_startupVars
               PROVE  StartupTypeOK'
    OBVIOUS
  <1> USE ReplicasAssumption, ChangesAssumption
  <1>1. ASSUME NEW r \in Replicas, Launch(r) PROVE StartupTypeOK'
    BY <1>1 DEF Launch, StartupTypeOK, Stages, environmentVars
  <1>2. ASSUME NEW r \in Replicas, StartupChecks(r) PROVE StartupTypeOK'
    BY <1>2, CheckMoves DEF StartupTypeOK, Stages
  <1>3. ASSUME NEW r \in Replicas, Start(r) PROVE StartupTypeOK'
    BY <1>3 DEF Start, StartupTypeOK, Stages, environmentVars
  <1>4. ASSUME NEW r \in Replicas, LosesLease(r) \/ Exits(r) \/ Ends(r) PROVE StartupTypeOK'
    BY <1>4 DEF LosesLease, Exits, Ends, Fails, StartupTypeOK, Stages, environmentVars
  <1>5. CASE LeaseExpires
    BY <1>5 DEF LeaseExpires, StartupTypeOK, environmentVars
  <1>6. CASE Environment
    BY <1>6 DEF Environment, Fails, StartupTypeOK
  <1>7. CASE UNCHANGED startupVars
    BY <1>7 DEF StartupTypeOK, startupVars, environmentVars
  <1> QED
    BY <1>1, <1>2, <1>3, <1>4, <1>5, <1>6, <1>7
       DEF StartupNext, Progress, StartupChecks

(* Every variable has its type, whatever order the processes start in and  *)
(* however often they die.                                                 *)
THEOREM StartupTypeCorrect == StartupSpec => []StartupTypeOK
  BY TypesAtFirst, TypesStay, PTL DEF StartupSpec

----------------------------------------------------------------------------
(* What a step does to the set of active processes, given that the lease   *)
(* is honest.                                                              *)

LeaseInv == StartupTypeOK /\ LeaseIsHonest

(* What LeaseIsHonest reads is as before. *)
LeaseAsBefore ==
  /\ Active' = Active /\ lease' = lease
  /\ \A r \in Active : stage'[r] = stage[r]

LEMMA LeaseAtFirst == StartupInit => LeaseInv
  BY TypesAtFirst, ReplicasAssumption DEF StartupInit, LeaseInv, LeaseIsHonest, Active

LEMMA LeaseStaysHonest == LeaseAsBefore /\ LeaseIsHonest => LeaseIsHonest'
  BY DEF LeaseIsHonest, LeaseAsBefore

(* No check of the start-up makes a process active or takes it back.       *)
LEMMA ChecksKeepActive ==
  ASSUME NEW r \in Replicas, StartupTypeOK, StartupChecks(r)
  PROVE  LeaseAsBefore
  <1>1. PICK to \in Stages \ {"running", "overdue"} : stage' = [stage EXCEPT ![r] = to]
    BY CheckMoves
  <1>2. \A s \in Replicas : s # r => stage'[s] = stage[s]
    BY <1>1 DEF StartupTypeOK
  <1>3. stage[r] \notin {"running", "overdue"} /\ stage'[r] \notin {"running", "overdue"}
    BY <1>1, CheckMoves DEF StartupTypeOK
  <1> QED
    BY <1>2, <1>3, CheckMoves DEF Active, LeaseAsBefore

(* Launch gives a process that is down its options, so it is not active.   *)
LEMMA LaunchKeepsActive ==
  ASSUME NEW r \in Replicas, StartupTypeOK, Launch(r)
  PROVE  LeaseAsBefore
  <1>1. \A s \in Replicas : s # r => stage'[s] = stage[s] /\ opts'[s] = opts[s]
    BY DEF Launch, StartupTypeOK
  <1>2. stage[r] = "down" /\ stage'[r] = "launched" /\ lease' = lease
    BY DEF Launch, StartupTypeOK
  <1> QED
    BY <1>1, <1>2 DEF Active, LeaseAsBefore

(* No two processes are active, and one that is has or had the lease.      *)
LEMMA OneActive ==
  ASSUME LeaseInv, NEW r \in Active
  PROVE  Active = {r} /\ lease \in {r, Former}
  <1>1. ASSUME NEW s \in Active PROVE s = r
    BY ReplicasAssumption DEF LeaseInv, LeaseIsHonest, Active
  <1> QED
    BY <1>1 DEF LeaseInv, LeaseIsHonest

(* Start makes the process active that takes the free lease.               *)
LEMMA StartElects ==
  ASSUME NEW r \in Replicas, LeaseInv, Start(r)
  PROVE  \/ LeaseAsBefore
         \/ Active = {} /\ Active' = {r} /\ lease' = r /\ stage'[r] = "running"
  <1>1. stage' = [stage EXCEPT ![r] = "running"] /\ opts' = opts /\ stage[r] = "setUp"
    BY DEF Start
  <1>2. \A s \in Replicas : s # r => stage'[s] = stage[s]
    BY <1>1 DEF LeaseInv, StartupTypeOK
  <1>3. stage'[r] = "running"
    BY <1>1 DEF LeaseInv, StartupTypeOK
  <1>4. CASE opts[r].EnableLeaderElection
    <2>1. lease = NoReplica /\ lease' = r
      BY <1>4 DEF Start
    <2>2. Active = {}
      BY <2>1, OneActive, ReplicasAssumption DEF Active
    <2>3. Active' = {r}
      BY <1>1, <1>2, <1>3, <1>4, <2>2 DEF Active
    <2> QED
      BY <1>3, <2>1, <2>2, <2>3
  <1>5. CASE ~opts[r].EnableLeaderElection
    BY <1>1, <1>2, <1>5 DEF Start, Active, LeaseAsBefore
  <1> QED
    BY <1>4, <1>5

(* The leader that cannot renew the lease stays the only active process.   *)
LEMMA LosesKeepsActive ==
  ASSUME NEW r \in Replicas, LeaseInv, LosesLease(r)
  PROVE  /\ Active = {r} /\ Active' = {r}
         /\ stage'[r] = "overdue" /\ lease' = Former
  <1>1. stage' = [stage EXCEPT ![r] = "overdue"] /\ opts' = opts /\ lease = r
    BY DEF LosesLease
  <1>2. r \in Active
    BY <1>1 DEF LeaseInv, LeaseIsHonest
  <1>3. Active = {r}
    BY <1>2, OneActive
  <1>4. /\ stage'[r] = "overdue"
        /\ \A s \in Replicas : s # r => stage'[s] = stage[s]
    BY <1>1 DEF LeaseInv, StartupTypeOK
  <1> QED
    BY <1>1, <1>2, <1>3, <1>4 DEF Active, LosesLease

(* A process that exits or dies is active no more, and the lease names     *)
(* nobody then.                                                            *)
LEMMA EndsResigns ==
  ASSUME NEW r \in Replicas, LeaseInv, Exits(r) \/ Ends(r)
  PROVE  \/ LeaseAsBefore
         \/ Active = {r} /\ Active' = {} /\ lease' = Former
  <1>1. stage' = [stage EXCEPT ![r] = "down"] /\ opts' = opts
    BY DEF Exits, Ends
  <1>2. \A s \in Replicas : s # r => stage'[s] = stage[s]
    BY <1>1 DEF LeaseInv, StartupTypeOK
  <1>3. stage'[r] = "down"
    BY <1>1 DEF LeaseInv, StartupTypeOK
  <1>4. Active' = Active \ {r}
    BY <1>1, <1>2, <1>3 DEF Active
  <1>5. CASE r \in Active
    <2>1. Active = {r}
      BY <1>5, OneActive
    <2>2. lease' = Former
      <3>1. CASE Ends(r)
        BY <1>5, <3>1, OneActive DEF Ends
      <3>2. CASE Exits(r)
        BY <1>5, <3>2 DEF Exits, LeaseInv, LeaseIsHonest
      <3> QED
        BY <3>1, <3>2
    <2> QED
      BY <1>4, <2>1, <2>2
  <1>6. CASE r \notin Active
    <2>1. lease # r
      BY <1>6 DEF LeaseInv, LeaseIsHonest
    <2>2. lease' = lease
      BY <2>1 DEF Exits, Ends
    <2> QED
      BY <1>2, <1>4, <1>6, <2>2 DEF LeaseAsBefore, Active
  <1> QED
    BY <1>5, <1>6

(* A lease that expires was of nobody whose controllers still run.         *)
LEMMA ExpiresWhenIdle ==
  ASSUME LeaseInv, LeaseExpires
  PROVE  Active = {} /\ Active' = {}
  <1>1. ASSUME NEW r \in Active PROVE FALSE
    BY ReplicasAssumption DEF LeaseExpires, LeaseInv, LeaseIsHonest, Active
  <1> QED
    BY <1>1 DEF LeaseExpires, Active

LEMMA RestKeepsActive ==
  ASSUME Environment \/ UNCHANGED startupVars
  PROVE  LeaseAsBefore
  BY DEF Environment, Active, LeaseAsBefore, startupVars

LEMMA LeaseStays == LeaseInv /\ [StartupNext]_startupVars => LeaseInv'
  <1> SUFFICES ASSUME LeaseInv, [StartupNext]_startupVars
               PROVE  LeaseIsHonest'
    BY TypesStay DEF LeaseInv
  <1>h. LeaseIsHonest /\ StartupTypeOK
    BY DEF LeaseInv
  <1>1. ASSUME NEW r \in Replicas,
               Launch(r) \/ StartupChecks(r)
        PROVE  LeaseIsHonest'
    BY <1>1, <1>h, LaunchKeepsActive, ChecksKeepActive, LeaseStaysHonest
  <1>2. ASSUME NEW r \in Replicas, Start(r) PROVE LeaseIsHonest'
    BY <1>2, <1>h, StartElects, LeaseStaysHonest DEF LeaseIsHonest
  <1>3. ASSUME NEW r \in Replicas, LosesLease(r) PROVE LeaseIsHonest'
    BY <1>3, LosesKeepsActive, ReplicasAssumption DEF LeaseIsHonest
  <1>4. ASSUME NEW r \in Replicas, Exits(r) \/ Ends(r) PROVE LeaseIsHonest'
    BY <1>4, <1>h, EndsResigns, LeaseStaysHonest, ReplicasAssumption DEF LeaseIsHonest
  <1>5. CASE LeaseExpires
    <2>1. Active' = {} /\ lease' = NoReplica
      BY <1>5, ExpiresWhenIdle DEF LeaseExpires
    <2> QED
      BY <2>1, ReplicasAssumption DEF LeaseIsHonest
  <1>6. CASE Environment \/ UNCHANGED startupVars
    BY <1>6, <1>h, RestKeepsActive, LeaseStaysHonest
  <1> QED
    BY <1>1, <1>2, <1>3, <1>4, <1>5, <1>6 DEF StartupNext, Progress, StartupChecks

(* The lease names a process only while that process takes part in the     *)
(* election and its controllers run, and they run no longer than until the *)
(* process exits for want of the lease, however the processes die.         *)
THEOREM LeaseHonest == StartupSpec => []LeaseIsHonest
  <1>1. LeaseInv => LeaseIsHonest
    BY DEF LeaseInv
  <1> QED
    BY <1>1, LeaseAtFirst, LeaseStays, PTL DEF StartupSpec

----------------------------------------------------------------------------
(* The election *)

LEMMA StartsAsElection == StartupInit => Elections!ElectionInit
  BY DEF StartupInit, Elections!ElectionInit, Active

LEMMA StepsAsElection ==
  LeaseInv /\ [StartupNext]_startupVars => [Elections!ElectionNext]_Active
  <1> SUFFICES ASSUME LeaseInv, [StartupNext]_startupVars
               PROVE  Active' = Active \/ Elections!ElectionNext
    OBVIOUS
  <1>1. ASSUME NEW r \in Replicas,
               Launch(r) \/ StartupChecks(r)
        PROVE  Active' = Active
    BY <1>1, LaunchKeepsActive, ChecksKeepActive DEF LeaseInv, LeaseAsBefore
  <1>2. ASSUME NEW r \in Replicas, Start(r)
        PROVE  Active' = Active \/ Elections!ElectionNext
    BY <1>2, StartElects DEF LeaseAsBefore, Elections!ElectionNext, Elections!Elect
  <1>3. ASSUME NEW r \in Replicas, LosesLease(r)
        PROVE  Active' = Active
    BY <1>3, LosesKeepsActive
  <1>4. ASSUME NEW r \in Replicas, Exits(r) \/ Ends(r)
        PROVE  Active' = Active \/ Elections!ElectionNext
    BY <1>4, EndsResigns DEF LeaseAsBefore, Elections!ElectionNext, Elections!Resign
  <1>5. CASE LeaseExpires
    BY <1>5, ExpiresWhenIdle
  <1>6. CASE Environment \/ UNCHANGED startupVars
    BY <1>6, RestKeepsActive DEF LeaseAsBefore
  <1> QED
    BY <1>1, <1>2, <1>3, <1>4, <1>5, <1>6 DEF StartupNext, Progress, StartupChecks

(* The processes started with --leader-elect, whatever their pools, behave *)
(* as the abstract election: nobody becomes active beside another.         *)
THEOREM StartupImplementsElection == StartupSpec => ImplementsElection
  <1>1. StartupInit /\ [][StartupNext]_startupVars => []LeaseInv
    BY LeaseAtFirst, LeaseStays, PTL
  <1> QED
    BY <1>1, StartsAsElection, StepsAsElection, PTL
       DEF StartupSpec, ImplementsElection, Elections!ElectionSpec
=============================================================================
