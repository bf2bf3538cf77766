-------------------------- MODULE ClusterCollection --------------------------
(***************************************************************************)
(* Which visus process runs a cluster-scoped collection                    *)
(* (internal/collector/server.go, start and maybeRefresh).  Every process  *)
(* competes for one row of _visus.lease.  The callback that runs while the *)
(* lease is held sets leaseHolder, refreshes, waits for the loss of the    *)
(* lease, clears leaseHolder and refreshes again.  Refreshes also run from *)
(* the scheduler and on SIGHUP; all of them take the process's mutex, the  *)
(* callback's with TryLock only.                                           *)
(*                                                                         *)
(* The lease library is external, and modelled from how start uses it: at  *)
(* most one row, which expires when it is not renewed; the callback's      *)
(* context is done once the lease is lost or the process is stopping; the  *)
(* lease is released when the callback returns; the library competes again *)
(* unless the callback returns ErrCancelSingleton.                         *)
(*                                                                         *)
(* There is one cluster-scoped collection, enabled and never edited:       *)
(* CollectorServer is about edits.                                         *)
(***************************************************************************)
EXTENDS Naturals, FiniteSets

CONSTANTS
    Nodes,          \* the visus processes
    NoNode,         \* nobody holds the lease
    Dead            \* the lease is held for a process that has exited

ASSUME NoNodeAssumption == NoNode \notin Nodes /\ Dead \notin Nodes /\ NoNode # Dead

VARIABLES
    lease,      \* holder on record in _visus.lease
    cb,         \* where the lease goroutine of a process stands
    holders,    \* processes whose s.mu.leaseHolder is set
    mu,         \* the refresh that holds s.mu of a process, or "free"
    running,    \* processes that have the collection scheduled
    stopping,   \* processes that have been told to stop
    erred       \* history: processes that failed to list the collections

vars == <<lease, cb, holders, mu, running, stopping, erred>>

\* Without the lease, and with it: before setLeaseHolder(true), before and in the
\* first refresh, in the select; then, the lease lost, before setLeaseHolder(false),
\* before and in the second refresh.
Callback == {"waiting", "acquired", "first", "firstRun", "holding",
             "lost", "second", "secondRun", "cancelled", "down"}

\* A refresh reads the names, confirms the collection or not, and cleans up.
Mutex == {"free", "names", "keep", "drop"}

Up(n) == cb[n] # "down"

\* Faulty variant: the lease is kept when the callback returns.
ReleasedNever(n) == lease

\* The callback of n returns: the library releases the lease.
Released(n) == IF lease = n THEN NoNode ELSE lease

-----------------------------------------------------------------------------
(* The lease library and the callback.                                     *)

Acquire(n) ==
    /\ cb[n] = "waiting"
    /\ n \notin stopping
    /\ lease = NoNode
    /\ lease' = n
    /\ cb' = [cb EXCEPT ![n] = "acquired"]
    /\ UNCHANGED <<holders, mu, running, stopping, erred>>

\* The lease is not renewed in time, or the row of a dead process times out.
Expire ==
    /\ lease # NoNode
    /\ lease' = NoNode
    /\ UNCHANGED <<cb, holders, mu, running, stopping, erred>>

\* The library stops competing when the process stops.
Cancel(n) ==
    /\ cb[n] = "waiting"
    /\ n \in stopping
    /\ cb' = [cb EXCEPT ![n] = "cancelled"]
    /\ UNCHANGED <<lease, holders, mu, running, stopping, erred>>

\* setLeaseHolder(true) waits for the mutex.
SetLeaseHolder(n) ==
    /\ cb[n] = "acquired"
    /\ mu[n] = "free"
    /\ holders' = holders \cup {n}
    /\ cb' = [cb EXCEPT ![n] = "first"]
    /\ UNCHANGED <<lease, mu, running, stopping, erred>>

\* maybeRefresh gets the mutex.
CallbackRefresh(n) ==
    /\ mu[n] = "free"
    /\ \/ cb[n] = "first" /\ cb' = [cb EXCEPT ![n] = "firstRun"]
       \/ cb[n] = "second" /\ cb' = [cb EXCEPT ![n] = "secondRun"]
    /\ mu' = [mu EXCEPT ![n] = "names"]
    /\ UNCHANGED <<lease, holders, running, stopping, erred>>

\* maybeRefresh finds the mutex taken, and reports success.
CallbackSkips(n) ==
    /\ mu[n] # "free"
    /\ \/ /\ cb[n] = "first"
          /\ cb' = [cb EXCEPT ![n] = "holding"]
          /\ UNCHANGED lease
       \/ /\ cb[n] = "second"
          /\ cb' = [cb EXCEPT ![n] = "waiting"]
          /\ lease' = Released(n)
    /\ UNCHANGED <<holders, mu, running, stopping, erred>>

\* Faulty variant: setLeaseHolder(false) is skipped.
LeaseLostUnnoticed(n) ==
    /\ cb[n] = "holding"
    /\ lease # n \/ n \in stopping
    /\ cb' = [cb EXCEPT ![n] = "second"]
    /\ UNCHANGED <<lease, holders, mu, running, stopping, erred>>

\* The callback's context is done.
LeaseLost(n) ==
    /\ cb[n] = "holding"
    /\ lease # n \/ n \in stopping
    /\ cb' = [cb EXCEPT ![n] = "lost"]
    /\ UNCHANGED <<lease, holders, mu, running, stopping, erred>>

\* Faulty variant: setLeaseHolder(false) does not take the mutex.
ClearLeaseHolderUnlocked(n) ==
    /\ cb[n] = "lost"
    /\ holders' = holders \ {n}
    /\ \/ /\ n \in stopping
          /\ cb' = [cb EXCEPT ![n] = "cancelled"]
          /\ lease' = Released(n)
       \/ /\ n \notin stopping
          /\ cb' = [cb EXCEPT ![n] = "second"]
          /\ UNCHANGED lease
    /\ UNCHANGED <<mu, running, stopping, erred>>

\* setLeaseHolder(false) waits for the mutex; a process that is stopping does
\* not refresh any more.
ClearLeaseHolder(n) ==
    /\ cb[n] = "lost"
    /\ mu[n] = "free"
    /\ holders' = holders \ {n}
    /\ \/ /\ n \in stopping
          /\ cb' = [cb EXCEPT ![n] = "cancelled"]
          /\ lease' = Released(n)
       \/ /\ n \notin stopping
          /\ cb' = [cb EXCEPT ![n] = "second"]
          /\ UNCHANGED lease
    /\ UNCHANGED <<mu, running, stopping, erred>>

-----------------------------------------------------------------------------
(* A refresh, as far as it concerns the collection.                        *)

\* From the scheduler or on SIGHUP.
Refresh(n) ==
    /\ Up(n)
    /\ mu[n] = "free"
    /\ mu' = [mu EXCEPT ![n] = "names"]
    /\ UNCHANGED <<lease, cb, holders, running, stopping, erred>>

\* Faulty variant: the scope of the collection is ignored.
VisitAnyScope(n) ==
    /\ mu[n] = "names"
    /\ mu' = [mu EXCEPT ![n] = "keep"]
    /\ running' = running \cup {n}
    /\ UNCHANGED <<lease, cb, holders, stopping, erred>>

\* The collection is scheduled, kept, or skipped.
Visit(n) ==
    /\ mu[n] = "names"
    /\ \/ /\ n \in holders
          /\ mu' = [mu EXCEPT ![n] = "keep"]
          /\ running' = running \cup {n}
       \/ /\ n \notin holders
          /\ mu' = [mu EXCEPT ![n] = "drop"]
          /\ UNCHANGED running
    /\ UNCHANGED <<lease, cb, holders, stopping, erred>>

\* The collection cannot be read: the error is logged, the refresh goes on.
VisitFails(n) ==
    /\ mu[n] = "names"
    /\ mu' = [mu EXCEPT ![n] = "drop"]
    /\ UNCHANGED <<lease, cb, holders, running, stopping, erred>>

Cleanup(n) ==
    /\ mu[n] \in {"keep", "drop"}
    /\ running' = IF mu[n] = "drop" THEN running \ {n} ELSE running
    /\ mu' = [mu EXCEPT ![n] = "free"]
    /\ \/ /\ cb[n] = "firstRun"
          /\ cb' = [cb EXCEPT ![n] = "holding"]
          /\ UNCHANGED lease
       \/ /\ cb[n] = "secondRun"
          /\ cb' = [cb EXCEPT ![n] = "waiting"]
          /\ lease' = Released(n)
       \/ /\ cb[n] \notin {"firstRun", "secondRun"}
          /\ UNCHANGED <<cb, lease>>
    /\ UNCHANGED <<holders, stopping, erred>>

\* The names cannot be read: the refresh returns the error, and so does a
\* callback, from its first refresh as well as from its second.
RefreshFails(n) ==
    /\ mu[n] = "names"
    /\ mu' = [mu EXCEPT ![n] = "free"]
    /\ \/ /\ cb[n] \in {"firstRun", "secondRun"}
          /\ cb' = [cb EXCEPT ![n] = "waiting"]
          /\ lease' = Released(n)
       \/ /\ cb[n] \notin {"firstRun", "secondRun"}
          /\ UNCHANGED <<cb, lease>>
    /\ erred' = erred \cup {n}
    /\ UNCHANGED <<holders, running, stopping>>

-----------------------------------------------------------------------------
(* Processes.                                                              *)

Stop(n) ==
    /\ Up(n)
    /\ n \notin stopping
    /\ stopping' = stopping \cup {n}
    /\ UNCHANGED <<lease, cb, holders, mu, running, erred>>

\* The process ends, after the grace period of a stop or in a crash.
Exit(n) ==
    /\ Up(n)
    /\ cb' = [cb EXCEPT ![n] = "down"]
    /\ lease' = IF lease = n THEN Dead ELSE lease
    /\ mu' = [mu EXCEPT ![n] = "free"]
    /\ holders' = holders \ {n}
    /\ running' = running \ {n}
    /\ stopping' = stopping \ {n}
    /\ erred' = erred \ {n}

Start(n) ==
    /\ cb[n] = "down"
    /\ cb' = [cb EXCEPT ![n] = "waiting"]
    /\ UNCHANGED <<lease, holders, mu, running, stopping, erred>>

Init ==
    /\ lease = NoNode
    /\ cb = [n \in Nodes |-> "waiting"]
    /\ holders = {}
    /\ mu = [n \in Nodes |-> "free"]
    /\ running = {}
    /\ stopping = {}
    /\ erred = {}

\* The steps a process takes by itself.
Step(n) ==
    \/ Cancel(n)
    \/ SetLeaseHolder(n)
    \/ CallbackRefresh(n)
    \/ CallbackSkips(n)
    \/ LeaseLost(n)
    \/ ClearLeaseHolder(n)
    \/ Visit(n)
    \/ Cleanup(n)

Next ==
    \/ Expire
    \/ \E n \in Nodes :
         \/ Step(n)
         \/ Acquire(n)
         \/ Refresh(n)
         \/ VisitFails(n)
         \/ RefreshFails(n)
         \/ Stop(n)
         \/ Exit(n)
         \/ Start(n)

Spec == Init /\ [][Next]_vars

(***************************************************************************)
(* The goroutines of a process run; the mutex does not starve its waiters; *)
(* the scheduler refreshes again and again; a free lease is acquired; the  *)
(* row of a dead process expires; a stopping process exits within the      *)
(* grace period.                                                           *)
(***************************************************************************)
Fairness ==
    /\ \A n \in Nodes :
         /\ WF_vars(Cancel(n))
         /\ SF_vars(SetLeaseHolder(n))
         /\ WF_vars(CallbackRefresh(n) \/ CallbackSkips(n))
         /\ WF_vars(LeaseLost(n))
         /\ SF_vars(ClearLeaseHolder(n))
         /\ WF_vars(Refresh(n))
         /\ WF_vars(Visit(n))
         /\ WF_vars(Cleanup(n))
         /\ WF_vars(n \in stopping /\ Exit(n))
    /\ WF_vars(\E n \in Nodes : Acquire(n))
    /\ WF_vars(lease = Dead /\ Expire)

FairSpec == Spec /\ Fairness

-----------------------------------------------------------------------------
(* Properties.                                                             *)

TypeOK ==
    /\ lease \in Nodes \cup {NoNode, Dead}
    /\ cb \in [Nodes -> Callback]
    /\ holders \subseteq Nodes
    /\ mu \in [Nodes -> Mutex]
    /\ running \subseteq Nodes
    /\ stopping \subseteq Nodes
    /\ erred \subseteq Nodes

\* The lease goroutine of n is not in the middle of a handover.
Settled(n) == cb[n] = "waiting" \/ (cb[n] = "holding" /\ lease = n)

(***************************************************************************)
(* Of the processes that are not in the middle of a handover, and whose    *)
(* refreshes so far could list the collections, at most one takes itself   *)
(* for the lease holder.                                                   *)
(***************************************************************************)
OneHolder == \A n, k \in holders \ erred : Settled(n) /\ Settled(k) => n = k

(***************************************************************************)
(* Of the same processes, when they are not in a refresh, at most one has  *)
(* the cluster-scoped collection scheduled: the handover does not lose the *)
(* refresh that unschedules it, not even when the callback skips its own   *)
(* refresh because another one holds the mutex.                            *)
(***************************************************************************)
OneRunner ==
    \A n, k \in running \ erred :
        (Settled(n) /\ mu[n] = "free" /\ Settled(k) /\ mu[k] = "free") => n = k

(***************************************************************************)
(* The process on record as the lease holder acts as one, or is about to   *)
(* return the lease: it never keeps the lease without serving it, whatever *)
(* fails, which would leave the collection without a process to run it.    *)
(***************************************************************************)
HolderServes ==
    \A n \in Nodes :
        lease = n =>
            \/ cb[n] \in {"acquired", "first", "firstRun", "lost"}
            \/ (cb[n] = "holding" /\ n \in holders)

\* No lease is lost by the process that serves it, no process comes or goes,
\* and refreshes succeed.
NoDisturbance ==
    /\ ~(lease \in Nodes /\ Expire)
    /\ \A n \in Nodes :
         /\ ~Stop(n) /\ ~Start(n) /\ ~(n \notin stopping /\ Exit(n))
         /\ ~RefreshFails(n) /\ ~(n \in holders /\ VisitFails(n))

(***************************************************************************)
(* Once nothing disturbs the processes any more, one of them, the lease    *)
(* holder, runs the collection, and the others do not.                     *)
(***************************************************************************)
OneSidecarRuns ==
    <>[][NoDisturbance]_vars =>
        <>[](IF \E n \in Nodes : Up(n) THEN \E n \in Nodes : lease = n /\ running = {n}
                                       ELSE running = {})

(***************************************************************************)
(* So it is when no process ever failed to list the collections.           *)
(***************************************************************************)
OneSidecarRunsUnlessErred == [](erred = {}) => OneSidecarRuns
=============================================================================
