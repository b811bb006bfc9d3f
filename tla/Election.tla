------------------------------ MODULE Election ------------------------------
(***************************************************************************)
(* What --leader-elect promises (options.go:63): of all the processes that *)
(* take part there is at most one active controller manager at any time.   *)
(***************************************************************************)
CONSTANT Replicas

VARIABLE active   \* the processes whose controllers and syncers run

ElectionInit == active = {}

Elect(r) == active = {} /\ active' = {r}

Resign == active' = {}

ElectionNext == (\E r \in Replicas : Elect(r)) \/ Resign

ElectionSpec == ElectionInit /\ [][ElectionNext]_active
=============================================================================
