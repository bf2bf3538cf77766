----------------------------- MODULE ConfigStore -----------------------------
(***************************************************************************)
(* What store.Store promises of the configurations it keeps, one for each  *)
(* name, to commands that run side by side: a put or delete takes effect   *)
(* as a whole and at once, at some time between its call and its return.   *)
(* One that returns an error may have had its effect, or none.             *)
(***************************************************************************)
CONSTANTS Names, Sessions, None

VARIABLES
    stored,    \* stored[n]: the configuration with the name n, or None
    request    \* request[s]: the put (a name and a configuration) or delete
               \* (a name and None) that s has called, or None

Call(s) ==
    /\ request[s] = None
    /\ request'[s] # None
    /\ request'[s].name \in Names
    /\ request'[s].cfg # None => request'[s].cfg.name = request'[s].name
    /\ request' = [request EXCEPT ![s] = request'[s]]
    /\ UNCHANGED stored

Return(s) ==
    /\ request[s] # None
    /\ request' = [request EXCEPT ![s] = None]

Put(s) ==
    /\ Return(s)
    /\ request[s].cfg # None
    /\ stored' = [stored EXCEPT ![request[s].name] = request[s].cfg]

Delete(s) ==
    /\ Return(s)
    /\ request[s].cfg = None
    /\ stored' = [stored EXCEPT ![request[s].name] = None]

NoEffect(s) ==
    /\ Return(s)
    /\ UNCHANGED stored

Init ==
    /\ stored = [n \in Names |-> None]
    /\ request = [s \in Sessions |-> None]

Next == \E s \in Sessions : Call(s) \/ Put(s) \/ Delete(s) \/ NoEffect(s)

Spec == Init /\ [][Next]_<<stored, request>>
=============================================================================
