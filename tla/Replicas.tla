------------------------------ MODULE Replicas ------------------------------
(***************************************************************************)
(* Two yurt-device-controller processes in one node pool: a second replica,*)
(* or the old and the new pod of a rolling update.  They share the API     *)
(* server and EdgeX; each has its own cache, workqueue, worker and syncer. *)
(* DeviceSystem is the first process, Second the other.                    *)
(***************************************************************************)
EXTENDS DeviceSystem

CONSTANT EnableLeaderElection   \* the values the flag may have

ASSUME ElectionAssumption == EnableLeaderElection \subseteq BOOLEAN

VARIABLES
  cache2, current2, pending2, queue2, rec2, syn2,   \* of the second process
  leader    \* the process that holds the lease, "free", or "all" without election

Second == INSTANCE DeviceSystem WITH
  cache <- cache2, current <- current2, pending <- pending2,
  queue <- queue2, rec <- rec2, syn <- syn2

own1 == <<cache, queue, rec, syn>>
own2 == <<cache2, queue2, rec2, syn2>>
replicaVars == <<vars, own2, current2, pending2, leader>>

ReplicasTypeOK == TypeOK /\ Second!TypeOK /\ leader \in {"first", "second", "free", "all"}

ReplicasInit ==
  /\ Init /\ Second!Init
  /\ \E elects \in EnableLeaderElection : leader = IF elects THEN "first" ELSE "all"

----------------------------------------------------------------------------
(* What the watch of a process has to tell of a step of somebody else: a   *)
(* CR that was changed outdates every copy of it in that process.          *)

Changed == {n \in KubeNames : kube'[n] # kube[n]}

NewEvents == {n \in Changed : PassesFilter(n, kube[n], kube'[n])}

FirstSees ==
  /\ current' = [n \in KubeNames |-> IF n \in Changed THEN {} ELSE current[n]]
  /\ pending' = pending \cup NewEvents
  /\ UNCHANGED own1

SecondSees ==
  /\ current2' = [n \in KubeNames |-> IF n \in Changed THEN {} ELSE current2[n]]
  /\ pending2' = pending2 \cup NewEvents
  /\ UNCHANGED own2

(* A new CR gets no name the other process still holds, as in CanCreate.   *)
NewNames == {n \in Changed \ PromptReuse : ~Exists(n)}

FreeInFirst ==
  \A n \in NewNames : cache[n] = NoCR /\ n # rec.key /\ n \notin syn.redundantKube

FreeInSecond ==
  \A n \in NewNames : cache2[n] = NoCR /\ n # rec2.key /\ n \notin syn2.redundantKube

----------------------------------------------------------------------------
(* mgr.Start: with leader election only the holder of the lease runs the   *)
(* controllers and the syncers; the caches are kept in any case.           *)

Runs(i) == leader \in {i, "all"}

FirstStep ==
  /\ \/ /\ Runs("first")
        /\ (\E n \in KubeNames : TakeKey(n)) \/ ReconcilerRuns \/ SyncerRuns \/ InformerResyncs
     \/ \E n \in KubeNames : WatchDelivers(n) \/ WatchBreaks(n)
  /\ SecondSees /\ FreeInSecond
  /\ UNCHANGED leader

SecondStep ==
  /\ \/ /\ Runs("second")
        /\ \/ \E n \in KubeNames : Second!TakeKey(n)
           \/ Second!ReconcilerRuns \/ Second!SyncerRuns \/ Second!InformerResyncs
     \/ \E n \in KubeNames : Second!WatchDelivers(n) \/ Second!WatchBreaks(n)
  /\ FirstSees /\ FreeInFirst
  /\ UNCHANGED leader

OthersAct ==
  /\ Environment
  /\ SecondSees /\ FreeInSecond
  /\ UNCHANGED leader

(* A process that dies is restarted; the lease it held becomes free.       *)
Released(i) == leader' = IF leader = i THEN "free" ELSE leader

FirstRestarts == Restart /\ SecondSees /\ Released("first")
SecondRestarts == Second!Restart /\ FirstSees /\ Released("second")

(* The new leader starts its controllers, which first see all of its cache.*)
Acquire(i) ==
  /\ leader = "free" /\ leader' = i
  /\ IF i = "first"
     THEN queue' = {n \in KubeNames : cache[n] # NoCR} /\ UNCHANGED queue2
     ELSE queue2' = {n \in KubeNames : cache2[n] # NoCR} /\ UNCHANGED queue
  /\ UNCHANGED <<kube, edge, faults, others, cache, current, pending, rec, syn>>
  /\ UNCHANGED <<cache2, current2, pending2, rec2, syn2>>

ReplicasNext ==
  \/ FirstStep \/ SecondStep \/ OthersAct
  \/ FirstRestarts \/ SecondRestarts
  \/ Acquire("first") \/ Acquire("second")

ReplicasSpec == ReplicasInit /\ [][ReplicasNext]_replicaVars

(* What each of the two processes may rely on while the other works.       *)
ReplicasInv ==
  /\ LifeInv /\ Second!LifeInv
  /\ leader \in {"first", "second", "free", "all"}
=============================================================================
