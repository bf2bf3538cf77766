----------------------------- MODULE Reconciler -----------------------------
(***************************************************************************)
(* What a server that follows the store promises of the jobs it has on     *)
(* record: each was made from one version of its configuration, of those   *)
(* that have been stored, and is replaced only by one of a newer version.  *)
(* It may be suspended, when its replacement is in the making, and is not  *)
(* resumed.                                                                *)
(***************************************************************************)
EXTENDS Naturals

CONSTANT Names

VARIABLES
    clock,    \* the version stored last
    running,  \* running[n]: the version of the job of n, or 0
    active    \* the names whose jobs are not suspended

Store == clock' = clock + 1 /\ UNCHANGED <<running, active>>

Install(n) ==
    /\ \E v \in running[n] + 1..clock : running' = [running EXCEPT ![n] = v]
    /\ active' = active \cup {n}
    /\ UNCHANGED clock

Suspend(n) ==
    /\ active' = active \ {n}
    /\ UNCHANGED <<clock, running>>

Remove(removed) ==
    /\ running' = [n \in Names |-> IF n \in removed THEN 0 ELSE running[n]]
    /\ active' = active \ removed
    /\ UNCHANGED clock

Init ==
    /\ clock = 0
    /\ running = [n \in Names |-> 0]
    /\ active = {}

Next ==
    \/ Store
    \/ \E n \in Names : Install(n) \/ Suspend(n)
    \/ \E removed \in SUBSET Names : Remove(removed)

Spec == Init /\ [][Next]_<<clock, running, active>>
=============================================================================
