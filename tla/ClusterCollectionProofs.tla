----------------------- MODULE ClusterCollectionProofs -----------------------
(***************************************************************************)
(* Proofs about ClusterCollection for any set of processes.                *)
(***************************************************************************)
EXTENDS ClusterCollection, TLAPS

-----------------------------------------------------------------------------
(* Type correctness.                                                       *)

\* Every step keeps the types.
LEMMA NextType == TypeOK /\ [Next]_vars => TypeOK'
<1> SUFFICES ASSUME TypeOK, [Next]_vars
             PROVE  TypeOK'
  OBVIOUS
<1> USE DEF TypeOK, Callback, Mutex, Released
<1>1. CASE Expire
  BY <1>1 DEF Expire
<1>2. ASSUME NEW n \in Nodes, Cancel(n) \/ SetLeaseHolder(n) \/ LeaseLost(n) \/ ClearLeaseHolder(n)
      PROVE  TypeOK'
  BY <1>2 DEF Cancel, SetLeaseHolder, LeaseLost, ClearLeaseHolder
<1>3. ASSUME NEW n \in Nodes, CallbackRefresh(n) \/ CallbackSkips(n)
      PROVE  TypeOK'
  BY <1>3 DEF CallbackRefresh, CallbackSkips
<1>4. ASSUME NEW n \in Nodes, Refresh(n) \/ Visit(n) \/ VisitFails(n)
      PROVE  TypeOK'
  BY <1>4 DEF Refresh, Visit, VisitFails
<1>5. ASSUME NEW n \in Nodes, Cleanup(n)
      PROVE  TypeOK'
  BY <1>5 DEF Cleanup
<1>6. ASSUME NEW n \in Nodes, RefreshFails(n)
      PROVE  TypeOK'
  BY <1>6 DEF RefreshFails
<1>7. ASSUME NEW n \in Nodes, Acquire(n) \/ Stop(n) \/ Exit(n) \/ Start(n)
      PROVE  TypeOK'
  BY <1>7 DEF Acquire, Stop, Exit, Start
<1>8. CASE UNCHANGED vars
  BY <1>8 DEF vars
<1> QED
  BY <1>1, <1>2, <1>3, <1>4, <1>5, <1>6, <1>7, <1>8 DEF Next, Step

(***************************************************************************)
(* The variables keep their types.                                         *)
(***************************************************************************)
THEOREM TypeCorrect == Spec => []TypeOK
<1>1. Init => TypeOK
  BY DEF Init, TypeOK, Callback, Mutex
<1> QED
  BY <1>1, NextType, PTL DEF Spec

-----------------------------------------------------------------------------
(* The holder on record serves the lease.                                  *)

(***************************************************************************)
(* HolderServes needs to know that leaseHolder is set from the first       *)
(* refresh of the callback until the lease is lost, and that a lease given *)
(* up although it is still on record was given up by a process that is     *)
(* stopping (which then releases it).                                      *)
(***************************************************************************)
ServesFor(n) ==
    /\ cb[n] \in {"first", "firstRun", "holding", "lost"} => n \in holders
    /\ lease = n => cb[n] \in {"acquired", "first", "firstRun", "holding", "lost"}
    /\ lease = n /\ cb[n] = "lost" => n \in stopping

ServesInv == \A n \in Nodes : ServesFor(n)

\* Every step, the failures included, keeps ServesInv.
LEMMA NextServes ==
    ASSUME TypeOK, ServesInv, [Next]_vars
    PROVE  ServesInv'
<1> SUFFICES ASSUME NEW k \in Nodes
             PROVE  ServesFor(k)'
  BY DEF ServesInv
<1>0. ServesFor(k)
  BY DEF ServesInv
<1> USE NoNodeAssumption DEF TypeOK, ServesFor, Released
<1>1. CASE Expire
  BY <1>0, <1>1 DEF Expire
<1>2. ASSUME NEW n \in Nodes, Cancel(n) \/ SetLeaseHolder(n) \/ LeaseLost(n)
      PROVE  ServesFor(k)'
  BY <1>0, <1>2 DEF Cancel, SetLeaseHolder, LeaseLost
<1>3. ASSUME NEW n \in Nodes, ClearLeaseHolder(n)
      PROVE  ServesFor(k)'
  BY <1>0, <1>3 DEF ClearLeaseHolder
<1>4. ASSUME NEW n \in Nodes, CallbackRefresh(n) \/ CallbackSkips(n)
      PROVE  ServesFor(k)'
  BY <1>0, <1>4 DEF CallbackRefresh, CallbackSkips
<1>5. ASSUME NEW n \in Nodes, Refresh(n) \/ Visit(n) \/ VisitFails(n)
      PROVE  ServesFor(k)'
  BY <1>0, <1>5 DEF Refresh, Visit, VisitFails
<1>6. ASSUME NEW n \in Nodes, Cleanup(n)
      PROVE  ServesFor(k)'
  BY <1>0, <1>6 DEF Cleanup
<1>7. ASSUME NEW n \in Nodes, RefreshFails(n)
      PROVE  ServesFor(k)'
  BY <1>0, <1>7 DEF RefreshFails
<1>8. ASSUME NEW n \in Nodes, Acquire(n) \/ Stop(n) \/ Exit(n) \/ Start(n)
      PROVE  ServesFor(k)'
  BY <1>0, <1>8 DEF Acquire, Stop, Exit, Start, Up
<1>9. CASE UNCHANGED vars
  BY <1>0, <1>9 DEF vars
<1> QED
  BY <1>1, <1>2, <1>3, <1>4, <1>5, <1>6, <1>7, <1>8, <1>9 DEF Next, Step

(***************************************************************************)
(* Whatever fails, the process on record as the lease holder serves the    *)
(* lease or is about to return it.                                         *)
(***************************************************************************)
THEOREM HolderCorrect == Spec => []HolderServes
<1>1. Init => ServesInv
  BY NoNodeAssumption DEF Init, ServesInv, ServesFor
<1>2. TypeOK /\ ServesInv /\ [Next]_vars => ServesInv'
  BY NextServes
<1>3. ServesInv => HolderServes
  BY DEF ServesInv, ServesFor, HolderServes
<1> QED
  BY <1>1, <1>2, <1>3, TypeCorrect, PTL DEF Spec

-----------------------------------------------------------------------------
(* One holder, one runner.                                                 *)

(***************************************************************************)
(* What a process whose refreshes did not fail remembers of the lease:     *)
(* leaseHolder is set exactly between the two calls of setLeaseHolder; a   *)
(* refresh that confirmed the collection still holds the mutex, and so     *)
(* leaseHolder cannot have been cleared since; and a process that has the  *)
(* collection scheduled without leaseHolder is about to refresh, or in a   *)
(* refresh that will unschedule it.                                        *)
(***************************************************************************)
HandoverFor(n) ==
    /\ n \in holders <=> cb[n] \in {"first", "firstRun", "holding", "lost"}
    /\ mu[n] = "keep" => n \in holders
    /\ cb[n] \in {"firstRun", "secondRun"} => mu[n] # "free"
    /\ n \in running \ holders => \/ cb[n] \in {"second", "cancelled"}
                                  \/ mu[n] \in {"names", "drop"}

HandoverInv == \A n \in Nodes \ erred : HandoverFor(n)

\* A step of another process does not disturb n.
LEMMA HandoverFrame ==
    ASSUME NEW n \in Nodes, HandoverFor(n),
           cb'[n] = cb[n], mu'[n] = mu[n],
           n \in holders' <=> n \in holders, n \in running' <=> n \in running
    PROVE  HandoverFor(n)'
  BY DEF HandoverFor

\* Every step of a process, and of the lease library, keeps HandoverInv.
LEMMA NextHandover ==
    ASSUME TypeOK, HandoverInv, [Next]_vars
    PROVE  HandoverInv'
<1> SUFFICES ASSUME NEW k \in Nodes, k \notin erred'
             PROVE  HandoverFor(k)'
  BY DEF HandoverInv
<1>0. k \notin erred => HandoverFor(k)
  BY DEF HandoverInv
<1> USE DEF TypeOK, Mutex
<1>1. CASE Expire
  BY <1>0, <1>1, HandoverFrame DEF Expire
<1>2. ASSUME NEW n \in Nodes, n # k,
             \/ Step(n) \/ Acquire(n) \/ Refresh(n) \/ VisitFails(n) \/ RefreshFails(n)
             \/ Stop(n) \/ Exit(n) \/ Start(n)
      PROVE  HandoverFor(k)'
  <2> USE DEF Step, Cancel, SetLeaseHolder, CallbackRefresh, CallbackSkips, LeaseLost,
              ClearLeaseHolder, Visit, VisitFails, Cleanup, Acquire, Refresh, RefreshFails,
              Stop, Exit, Start
  <2>1. cb'[k] = cb[k] /\ mu'[k] = mu[k]
    BY <1>2
  <2>2. (k \in holders' <=> k \in holders) /\ (k \in running' <=> k \in running)
    BY <1>2
  <2>3. k \notin erred
    BY <1>2
  <2> QED
    BY <1>0, <2>1, <2>2, <2>3, HandoverFrame
<1>3. CASE Cancel(k) \/ SetLeaseHolder(k) \/ LeaseLost(k)
  BY <1>0, <1>3 DEF Cancel, SetLeaseHolder, LeaseLost, HandoverFor
<1>4. CASE ClearLeaseHolder(k)
  BY <1>0, <1>4 DEF ClearLeaseHolder, HandoverFor
<1>5. CASE CallbackRefresh(k)
  BY <1>0, <1>5 DEF CallbackRefresh, HandoverFor
<1>6. CASE CallbackSkips(k)
  BY <1>0, <1>6 DEF CallbackSkips, HandoverFor
<1>7. CASE Refresh(k) \/ Visit(k) \/ VisitFails(k)
  BY <1>0, <1>7 DEF Refresh, Visit, VisitFails, Up, HandoverFor
<1>8. CASE Cleanup(k)
  BY <1>0, <1>8 DEF Cleanup, HandoverFor
<1>9. CASE Acquire(k) \/ Stop(k) \/ Start(k)
  BY <1>0, <1>9 DEF Acquire, Stop, Start, HandoverFor
<1>10. CASE Exit(k)
  BY <1>10 DEF Exit, HandoverFor
<1>11. CASE RefreshFails(k)
  BY <1>11 DEF RefreshFails
<1>12. CASE UNCHANGED vars
  BY <1>0, <1>12, HandoverFrame DEF vars
<1> QED
  BY <1>1, <1>2, <1>3, <1>4, <1>5, <1>6, <1>7, <1>8, <1>9, <1>10, <1>11, <1>12 DEF Next, Step

\* HandoverInv holds throughout.
LEMMA HandoverCorrect == Spec => []HandoverInv
<1>1. Init => HandoverInv
  BY DEF Init, HandoverInv, HandoverFor
<1>2. TypeOK /\ HandoverInv /\ [Next]_vars => HandoverInv'
  BY NextHandover
<1> QED
  BY <1>1, <1>2, TypeCorrect, PTL DEF Spec

(***************************************************************************)
(* Among the processes whose refreshes did not fail, at most one that is   *)
(* not handing over takes itself for the lease holder.                     *)
(***************************************************************************)
THEOREM OneHolderCorrect == Spec => []OneHolder
<1>1. TypeOK /\ HandoverInv => OneHolder
  BY DEF TypeOK, HandoverInv, HandoverFor, OneHolder, Settled
<1> QED
  BY <1>1, TypeCorrect, HandoverCorrect, PTL

(***************************************************************************)
(* Among the processes whose refreshes did not fail, at most one that is   *)
(* neither handing over nor refreshing has the cluster-scoped collection   *)
(* scheduled.                                                              *)
(***************************************************************************)
THEOREM OneRunnerCorrect == Spec => []OneRunner
<1>1. TypeOK /\ HandoverInv => OneRunner
  BY DEF TypeOK, HandoverInv, HandoverFor, OneRunner, Settled
<1> QED
  BY <1>1, TypeCorrect, HandoverCorrect, PTL
=============================================================================
