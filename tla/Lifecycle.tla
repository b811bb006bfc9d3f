----------------------------- MODULE Lifecycle ------------------------------
(***************************************************************************)
(* The life of a CR, as users and whoever watches the CRs may rely on it:  *)
(* it is created bare, guarded with the finalizer, synced with its object  *)
(* on the edge only while guarded, and once guarded it goes only after it  *)
(* was marked for deletion.  No mark is ever taken back, and a step is     *)
(* about one CR.  However many processes work on the CRs, and in whatever  *)
(* order, nothing else happens to them, except under a reused name.        *)
(***************************************************************************)
CONSTANTS
  Names,
  Reused    \* the names that are given to a new CR while somebody still acts
            \* for the one before, and may take the finalizer of the new one

VARIABLES
  stored,     \* the CRs there are
  guarded,    \* those with the finalizer
  synced,     \* those that say they are synced
  deleting    \* those marked for deletion

lifeVars == <<stored, guarded, synced, deleting>>

Init == stored = {} /\ guarded = {} /\ synced = {} /\ deleting = {}

Create(n) ==
  /\ n \notin stored
  /\ stored' = stored \cup {n}
  /\ UNCHANGED <<guarded, synced, deleting>>

Guard(n) ==
  /\ n \in stored \ guarded
  /\ guarded' = guarded \cup {n}
  /\ UNCHANGED <<stored, synced, deleting>>

Sync(n) ==
  /\ n \in stored \ synced
  /\ n \in guarded \cup Reused
  /\ synced' = synced \cup {n}
  /\ UNCHANGED <<stored, guarded, deleting>>

Strip(n) ==
  /\ n \in (guarded \cap Reused) \ deleting
  /\ guarded' = guarded \ {n}
  /\ UNCHANGED <<stored, synced, deleting>>

MarkDeleted(n) ==
  /\ n \in guarded \ deleting
  /\ deleting' = deleting \cup {n}
  /\ UNCHANGED <<stored, guarded, synced>>

Vanish(n) ==
  /\ n \in stored
  /\ n \in guarded => n \in deleting
  /\ stored' = stored \ {n}
  /\ guarded' = guarded \ {n}
  /\ synced' = synced \ {n}
  /\ deleting' = deleting \ {n}

Next ==
  \E n \in Names :
    Create(n) \/ Guard(n) \/ Sync(n) \/ Strip(n) \/ MarkDeleted(n) \/ Vanish(n)

Spec == Init /\ [][Next]_lifeVars
=============================================================================
