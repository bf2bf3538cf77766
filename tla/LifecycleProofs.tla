--------------------------- MODULE LifecycleProofs ---------------------------
(***************************************************************************)
(* Proofs about Lifecycle for any number of processes, users, signals and  *)
(* outages: the process implements the registry's specification, whose     *)
(* theorems it thereby inherits, and a refresh neither closes a pgxpool    *)
(* that is in use nor leaks one.                                           *)
(***************************************************************************)
EXTENDS Lifecycle, TLAPS

-----------------------------------------------------------------------------
(* The registry, for any number of processes and any window and time to    *)
(* live: its types.                                                        *)

\* Every step keeps the types.
LEMMA NextType == TypeOK /\ [Next]_vars => TypeOK'
<1> SUFFICES ASSUME TypeOK, [Next]_vars
             PROVE  TypeOK'
  OBVIOUS
<1> USE WindowAssumption, BoundAssumption DEF TypeOK, Phase
<1>1. ASSUME NEW i \in Ids, RegisterNode(i) \/ RegisterNodeFails(i)
      PROVE  TypeOK'
  BY <1>1 DEF RegisterNode, RegisterNodeFails
<1>2. ASSUME NEW i \in Ids, Heartbeat(i) \/ HeartbeatFails(i)
      PROVE  TypeOK'
  BY <1>2 DEF Heartbeat, HeartbeatFails
<1>3. ASSUME NEW i \in Ids, Stop(i) \/ DeleteNode(i) \/ DeleteNodeFails(i) \/ Exit(i)
      PROVE  TypeOK'
  BY <1>3 DEF Stop, DeleteNode, DeleteNodeFails, Exit
<1>4. CASE Tick
  <2>1. \A i \in Ids : age[i] # NoRow => Min2(age[i] + 1, TTL) \in 0..TTL
    BY DEF Min2
  <2>2. \A i \in Ids : Min2(gone[i] + 1, Window) \in 0..Window
    BY DEF Min2
  <2> QED
    BY <1>4, <2>1, <2>2 DEF Tick
<1>5. CASE TTLJob
  BY <1>5 DEF TTLJob
<1>6. CASE UNCHANGED vars
  BY <1>6 DEF vars
<1> QED
  BY <1>1, <1>2, <1>3, <1>4, <1>5, <1>6 DEF Next

(***************************************************************************)
(* The variables keep their types.                                         *)
(***************************************************************************)
THEOREM TypeCorrect == Spec => []TypeOK
<1>1. Init => TypeOK
  BY WindowAssumption, BoundAssumption DEF Init, TypeOK, Phase
<1> QED
  BY <1>1, NextType, PTL DEF Spec

-----------------------------------------------------------------------------
(* The registry: live processes are listed.                                *)

(***************************************************************************)
(* The row of a process that is up is there, and is no older than the      *)
(* heartbeats that failed account for.                                     *)
(***************************************************************************)
AgeInv ==
    \A i \in Ids :
        /\ phase[i] = "new" => misses[i] = 0
        /\ phase[i] = "up" => /\ age[i] # NoRow
                              /\ age[i] <= misses[i] + 1
                              /\ i \in beaten => age[i] <= misses[i]

\* Every step keeps AgeInv, unless an outage outlasts the time to live.
LEMMA NextAge ==
    ASSUME MaxMisses + 1 < TTL, TypeOK, AgeInv, [Next]_vars
    PROVE  AgeInv'
<1> USE WindowAssumption, BoundAssumption, NoRowAssumption DEF TypeOK, AgeInv
<1>1. ASSUME NEW i \in Ids, RegisterNode(i) \/ RegisterNodeFails(i)
      PROVE  AgeInv'
  BY <1>1 DEF RegisterNode, RegisterNodeFails
<1>2. ASSUME NEW i \in Ids, Heartbeat(i) \/ HeartbeatFails(i)
      PROVE  AgeInv'
  BY <1>2 DEF Heartbeat, HeartbeatFails, Running
<1>3. ASSUME NEW i \in Ids, Stop(i) \/ DeleteNode(i) \/ DeleteNodeFails(i) \/ Exit(i)
      PROVE  AgeInv'
  BY <1>3 DEF Stop, DeleteNode, DeleteNodeFails, Exit, Running
<1>4. CASE Tick
  BY <1>4 DEF Tick, Min2
<1>5. CASE TTLJob
  BY <1>5 DEF TTLJob, Expired
<1>6. CASE UNCHANGED vars
  BY <1>6 DEF vars
<1> QED
  BY <1>1, <1>2, <1>3, <1>4, <1>5, <1>6 DEF Next

(***************************************************************************)
(* As long as no outage outlasts the time to live, a process that is up    *)
(* and has not missed all the heartbeats of a window is listed.            *)
(***************************************************************************)
THEOREM LiveListedCorrect ==
    ASSUME MaxMisses + 1 < TTL
    PROVE  Spec => []LiveListed
<1>1. Init => AgeInv
  BY Zenon DEF Init, AgeInv
<1>2. TypeOK /\ AgeInv /\ [Next]_vars => AgeInv'
  BY NextAge
<1>3. TypeOK /\ AgeInv => LiveListed
  BY WindowAssumption, BoundAssumption, NoRowAssumption DEF TypeOK, AgeInv, LiveListed, Listed
<1> QED
  BY <1>1, <1>2, <1>3, TypeCorrect, PTL DEF Spec

-----------------------------------------------------------------------------
(* The registry: processes that ended are not.                             *)

(***************************************************************************)
(* The row of a process that ended, if any, is at least as old as its end. *)
(***************************************************************************)
GoneInv ==
    \A i \in Ids :
        /\ phase[i] # "exited" => gone[i] = 0
        /\ phase[i] = "exited" /\ age[i] # NoRow => gone[i] <= age[i]

\* Every step keeps GoneInv, whatever fails.
LEMMA NextGone == TypeOK /\ GoneInv /\ [Next]_vars => GoneInv'
<1> SUFFICES ASSUME TypeOK, GoneInv, [Next]_vars
             PROVE  GoneInv'
  OBVIOUS
<1> USE WindowAssumption, NoRowAssumption DEF TypeOK, GoneInv
<1>1. ASSUME NEW i \in Ids, RegisterNode(i) \/ RegisterNodeFails(i)
      PROVE  GoneInv'
  BY <1>1 DEF RegisterNode, RegisterNodeFails
<1>2. ASSUME NEW i \in Ids, Heartbeat(i) \/ HeartbeatFails(i)
      PROVE  GoneInv'
  BY <1>2 DEF Heartbeat, HeartbeatFails, Running
<1>3. ASSUME NEW i \in Ids, Stop(i) \/ DeleteNode(i) \/ DeleteNodeFails(i) \/ Exit(i)
      PROVE  GoneInv'
  BY <1>3 DEF Stop, DeleteNode, DeleteNodeFails, Exit, Running
<1>4. CASE Tick
  BY <1>4 DEF Tick, Min2
<1>5. CASE TTLJob
  BY <1>5 DEF TTLJob
<1>6. CASE UNCHANGED vars
  BY <1>6 DEF vars
<1> QED
  BY <1>1, <1>2, <1>3, <1>4, <1>5, <1>6 DEF Next

(***************************************************************************)
(* Whatever fails, a process that ended Window minutes ago is not listed.  *)
(***************************************************************************)
THEOREM ExitedUnlistedCorrect == Spec => []ExitedUnlisted
<1>1. Init => GoneInv
  BY Zenon DEF Init, GoneInv
<1>2. TypeOK /\ GoneInv => ExitedUnlisted
  BY WindowAssumption, NoRowAssumption DEF TypeOK, GoneInv, ExitedUnlisted, Listed
<1> QED
  BY <1>1, <1>2, NextGone, TypeCorrect, PTL DEF Spec

(***************************************************************************)
(* Whatever order heartbeats, deregistration and the job come in, a row    *)
(* that is gone stays gone.                                                *)
(***************************************************************************)
THEOREM StaysDeletedCorrect == Spec => StaysDeleted
<1>1. ASSUME TypeOK, Next, NEW i \in Ids, phase[i] # "new", age[i] = NoRow
      PROVE  age'[i] = NoRow
  <2>1. ASSUME NEW j \in Ids, RegisterNode(j) \/ RegisterNodeFails(j)
        PROVE  age'[i] = NoRow
    BY <1>1, <2>1 DEF RegisterNode, RegisterNodeFails, TypeOK
  <2>2. ASSUME NEW j \in Ids, Heartbeat(j) \/ HeartbeatFails(j)
        PROVE  age'[i] = NoRow
    BY <1>1, <2>2 DEF Heartbeat, HeartbeatFails, TypeOK
  <2>3. ASSUME NEW j \in Ids, Stop(j) \/ DeleteNode(j) \/ DeleteNodeFails(j) \/ Exit(j)
        PROVE  age'[i] = NoRow
    BY <1>1, <2>3 DEF Stop, DeleteNode, DeleteNodeFails, Exit, TypeOK
  <2>4. CASE Tick \/ TTLJob
    BY <1>1, <2>4 DEF Tick, TTLJob
  <2> QED
    BY <1>1, <2>1, <2>2, <2>3, <2>4 DEF Next
<1>2. TypeOK /\ [Next]_vars =>
        [\A i \in Ids : phase[i] # "new" /\ age[i] = NoRow => age'[i] = NoRow]_vars
  BY <1>1
<1> QED
  BY <1>2, TypeCorrect, PTL DEF Spec, StaysDeleted

-----------------------------------------------------------------------------
(* The process is a run of the registry, whose theorems hold of it.        *)

\* Each step of the process is a step of the registry or leaves its rows alone.
LEMMA RegistrySteps == LifecycleSpec => Spec
<1>1. LifecycleInit => Init
  BY DEF LifecycleInit
<1>2. LifecycleNext => [Next]_vars
  <2> SUFFICES ASSUME LifecycleNext
               PROVE  [Next]_vars
    OBVIOUS
  <2> USE SelfAssumption DEF Next, nodeVars
  <2>1. CASE Command
    BY <2>1 DEF Command, Connect, Connected, ConnectFails, Register, RegisterFails, StartServer
  <2>2. CASE StopCommand \/ Ends
    BY <2>2 DEF StopCommand, Ends, Deregister, ExitProcess
  <2>3. CASE SignalKills \/ Signal
    BY <2>3 DEF SignalKills, Signal
  <2>4. CASE Loop
    BY <2>4 DEF Loop, TakeSignal, LoopReturns, RefreshServer, RefreshPool, RefreshFatal,
                RefreshCancelled, RefreshSwap, RefreshClose, RefreshReturns
  <2>5. CASE BuildPool
    BY <2>5 DEF BuildPool
  <2>6. ASSUME NEW h \in Handles, NEW u \in Users, UseHandle(h, u)
        PROVE  [Next]_vars
    BY <2>6 DEF UseHandle
  <2>7. CASE BeatGet \/ BeatAcquire \/ BeatClosed \/ BeatDone
    BY <2>7 DEF BeatGet, BeatAcquire, BeatClosed, BeatDone
  <2>8. CASE Minute \/ ExpireRows \/ LoseOrFindDatabase
    BY <2>8 DEF Minute, ExpireRows, LoseOrFindDatabase
  <2> QED
    BY <2>1, <2>2, <2>3, <2>4, <2>5, <2>6, <2>7, <2>8 DEF LifecycleNext
<1>3. UNCHANGED allVars => UNCHANGED vars
  BY DEF allVars, vars
<1> QED
  BY <1>1, <1>2, <1>3, PTL DEF LifecycleSpec, Spec

(***************************************************************************)
(* While this process is up, reloads included, `visus node list` shows it  *)
(* unless an outage outlasts the window.                                   *)
(***************************************************************************)
THEOREM ReloadKeepsListed ==
    ASSUME MaxMisses + 1 < TTL
    PROVE  LifecycleSpec => []LiveListed
BY RegistrySteps, LiveListedCorrect, PTL

(***************************************************************************)
(* A late heartbeat of this process does not bring its row back, and once  *)
(* it ended the list drops it, whatever failed on the way.                 *)
(***************************************************************************)
THEOREM ProcessLeavesCorrect == LifecycleSpec => StaysDeleted /\ []ExitedUnlisted
BY RegistrySteps, StaysDeletedCorrect, ExitedUnlistedCorrect, PTL

-----------------------------------------------------------------------------
(* The handles.                                                            *)

PoolTypeOK ==
    /\ pool \in [Handles -> Nat]
    /\ open \in [Handles -> SUBSET Nat]
    /\ fetched \in [Handles -> [Users -> Nat]]
    /\ inUse \in [Handles -> [Users -> Nat]]
    /\ stage \in Stage
    /\ target \in Handles

(***************************************************************************)
(* What each stage of a refresh has done so far: the pgxpool it connects   *)
(* is open and nobody has seen it, and the one it is about to close is the *)
(* only other one in use.                                                  *)
(***************************************************************************)
PoolInv ==
    /\ \A h \in Handles : 0 \notin open[h]
    /\ \A h \in Handles, u \in Users : fetched[h][u] <= pool[h]
    /\ stage \in {"ping", "swap"} => Fresh \in open[target]
    /\ stage \in {"close", "drain"} => pool[target] > 1
    /\ \A h \in Handles, u \in Users :
         inUse[h][u] \notin {0, pool[h]} => inUse[h][u] = pool[h] - 1
    /\ HandleOpen
    /\ NoPoolLeaked
    /\ OldDrained

\* What the process does to its handles.
PoolStep ==
    \/ \E h \in Handles : ParseConfig(h)
    \/ NewWithConfig \/ Ping \/ PingFails \/ Wake \/ Cancel
    \/ Swap \/ Close \/ Drained
    \/ \E h \in Handles, u \in Users :
         Get(h, u) \/ Acquire(h, u) \/ AcquireFails(h, u) \/ Release(h, u)
    \/ Vanish
    \/ UNCHANGED <<pool, open, conf, userVars, buildVars>>

\* Every step of the process does one thing to its handles, or nothing.
LEMMA StepsOfPool == [LifecycleNext]_allVars => PoolStep
<1> SUFFICES ASSUME [LifecycleNext]_allVars
             PROVE  PoolStep
  OBVIOUS
<1> USE SelfAssumption DEF PoolStep, poolVars, userVars, buildVars
<1>1. CASE Command
  BY <1>1 DEF Command, Connect, Connected, ConnectFails, Register, RegisterFails, StartServer
<1>2. CASE StopCommand \/ Ends
  BY <1>2 DEF StopCommand, Ends, Deregister, ExitProcess
<1>3. CASE SignalKills \/ Signal
  BY <1>3 DEF SignalKills, Signal
<1>4. CASE Loop
  BY <1>4 DEF Loop, TakeSignal, LoopReturns, RefreshServer, RefreshPool, RefreshFatal,
              RefreshCancelled, RefreshSwap, RefreshClose, RefreshReturns
<1>5. CASE BuildPool
  BY <1>5 DEF BuildPool
<1>6. ASSUME NEW h \in Handles, NEW u \in Users, UseHandle(h, u)
      PROVE  PoolStep
  BY <1>6 DEF UseHandle
<1>7. CASE BeatGet \/ BeatAcquire \/ BeatClosed \/ BeatDone
  <2> "admin" \in Handles
    BY DEF Handles
  <2> QED
    BY <1>7 DEF BeatGet, BeatAcquire, BeatClosed, BeatDone
<1>8. CASE Minute \/ ExpireRows \/ LoseOrFindDatabase
  BY <1>8, Zenon DEF Minute, ExpireRows, LoseOrFindDatabase, Outage
<1>9. CASE UNCHANGED allVars
  BY <1>9 DEF allVars, userVars, buildVars
<1> QED
  BY <1>1, <1>2, <1>3, <1>4, <1>5, <1>6, <1>7, <1>8, <1>9, Zenon DEF LifecycleNext

\* Every step on the handles keeps their types.
LEMMA PoolStepType == PoolTypeOK /\ PoolStep => PoolTypeOK'
<1> SUFFICES ASSUME PoolTypeOK, PoolStep
             PROVE  PoolTypeOK'
  OBVIOUS
<1> USE DEF PoolTypeOK, Stage, userVars, buildVars, Fresh
<1>1. ASSUME NEW h \in Handles, ParseConfig(h)
      PROVE  PoolTypeOK'
  BY <1>1 DEF ParseConfig
<1>2. CASE NewWithConfig \/ Ping \/ PingFails \/ Wake \/ Cancel
  BY <1>2, SMTT(30) DEF NewWithConfig, Ping, PingFails, Wake, Cancel
<1>3. CASE Swap \/ Close \/ Drained
  <2>1. CASE Swap
    BY <2>1 DEF Swap
  <2>2. CASE Close \/ Drained
    BY <2>2 DEF Close, Drained
  <2> QED
    BY <1>3, <2>1, <2>2
<1>4. ASSUME NEW h \in Handles, NEW u \in Users,
             Get(h, u) \/ Acquire(h, u) \/ AcquireFails(h, u) \/ Release(h, u)
      PROVE  PoolTypeOK'
  <2>1. CASE Get(h, u)
    BY <2>1 DEF Get
  <2>2. CASE Acquire(h, u)
    BY <2>2 DEF Acquire
  <2>3. CASE AcquireFails(h, u)
    BY <2>3 DEF AcquireFails
  <2>4. CASE Release(h, u)
    BY <2>4 DEF Release
  <2> QED
    BY <1>4, <2>1, <2>2, <2>3, <2>4
<1>5. CASE Vanish
  BY <1>5 DEF Vanish, Handles
<1>6. CASE UNCHANGED <<pool, open, conf, userVars, buildVars>>
  BY <1>6
<1> QED
  BY <1>1, <1>2, <1>3, <1>4, <1>5, <1>6 DEF PoolStep

\* Every step on the handles keeps what the stages have established.
LEMMA PoolStepInv == PoolTypeOK /\ PoolInv /\ PoolStep => PoolInv'
<1> SUFFICES ASSUME PoolTypeOK, PoolInv, PoolStep
             PROVE  PoolInv'
  OBVIOUS
<1> USE DEF PoolTypeOK, PoolInv, HandleOpen, NoPoolLeaked, OldDrained, userVars, buildVars, Fresh, Old
<1>1. ASSUME NEW h \in Handles, ParseConfig(h)
      PROVE  PoolInv'
  BY <1>1 DEF ParseConfig
<1>2. CASE NewWithConfig
  BY <1>2 DEF NewWithConfig
<1>3. CASE Ping
  BY <1>3 DEF Ping
<1>4. CASE PingFails
  BY <1>4 DEF PingFails
<1>5. CASE Wake \/ Cancel
  BY <1>5 DEF Wake, Cancel
<1>6. CASE Swap
  <2> USE <1>6 DEF Swap
  <2>1. pool'[target] = Fresh /\ \A h \in Handles \ {target} : pool'[h] = pool[h]
    OBVIOUS
  <2>2. HandleOpen' /\ \A h \in Handles : 0 \notin open'[h]
    BY <2>1
  <2>3. NoPoolLeaked'
    BY <2>1
  <2>4. \A h \in Handles, u \in Users :
          /\ fetched'[h][u] <= pool'[h]
          /\ inUse'[h][u] \notin {0, pool'[h]} => inUse'[h][u] = pool'[h] - 1
    BY <2>1
  <2>5. OldDrained'
    BY <2>1
  <2>6. /\ stage' \in {"ping", "swap"} => Fresh' \in open'[target']
        /\ stage' \in {"close", "drain"} => pool'[target'] > 1
    BY <2>1
  <2> HIDE <1>6 DEF PoolTypeOK, HandleOpen, NoPoolLeaked, OldDrained, Swap, Fresh, Old
  <2> QED
    BY <2>2, <2>3, <2>4, <2>5, <2>6, Zenon
<1>7. CASE Close
  BY <1>7 DEF Close
<1>8. CASE Drained
  BY <1>8 DEF Drained, Using
<1>9. ASSUME NEW h \in Handles, NEW u \in Users, Get(h, u)
      PROVE  PoolInv'
  BY <1>9 DEF Get
<1>10. ASSUME NEW h \in Handles, NEW u \in Users, Acquire(h, u)
       PROVE  PoolInv'
  BY <1>10 DEF Acquire
<1>11. ASSUME NEW h \in Handles, NEW u \in Users, AcquireFails(h, u) \/ Release(h, u)
       PROVE  PoolInv'
  <2>1. CASE AcquireFails(h, u)
    BY <2>1 DEF AcquireFails
  <2>2. CASE Release(h, u)
    BY <2>2 DEF Release
  <2> QED
    BY <1>11, <2>1, <2>2
<1>12. CASE Vanish
  BY <1>12 DEF Vanish
<1>13. CASE UNCHANGED <<pool, open, conf, userVars, buildVars>>
  BY <1>13
<1> QED
  BY <1>1, <1>2, <1>3, <1>4, <1>5, <1>6, <1>7, <1>8, <1>9, <1>10, <1>11, <1>12, <1>13, Zenon DEF PoolStep

\* The invariant of the handles holds throughout.
LEMMA PoolsCorrect == LifecycleSpec => [](PoolTypeOK /\ PoolInv)
<1>1. LifecycleInit => PoolTypeOK /\ PoolInv
  BY DEF LifecycleInit, PoolInit, PoolTypeOK, PoolInv, Handles, Stage, HandleOpen, NoPoolLeaked,
         OldDrained
<1>2. PoolTypeOK /\ PoolInv /\ [LifecycleNext]_allVars => (PoolTypeOK /\ PoolInv)'
  BY StepsOfPool, PoolStepType, PoolStepInv
<1> QED
  BY <1>1, <1>2, PTL DEF LifecycleSpec

(***************************************************************************)
(* A handle in use never points at a closed pgxpool.                       *)
(***************************************************************************)
THEOREM HandleOpenCorrect == LifecycleSpec => []HandleOpen
<1>1. PoolInv => HandleOpen
  BY DEF PoolInv
<1> QED
  BY <1>1, PoolsCorrect, PTL

(***************************************************************************)
(* No pgxpool stays open unreferenced, however often connecting fails.     *)
(***************************************************************************)
THEOREM NoLeakCorrect == LifecycleSpec => []NoPoolLeaked
<1>1. PoolInv => NoPoolLeaked
  BY DEF PoolInv
<1> QED
  BY <1>1, PoolsCorrect, PTL

(***************************************************************************)
(* After a refresh nobody holds a connection of the replaced pgxpool.      *)
(***************************************************************************)
THEOREM DrainedCorrect == LifecycleSpec => []OldDrained
<1>1. PoolInv => OldDrained
  BY DEF PoolInv
<1> QED
  BY <1>1, PoolsCorrect, PTL

-----------------------------------------------------------------------------
(* The heartbeats that a reload costs.                                     *)

(***************************************************************************)
(* A heartbeat that has fetched a pgxpool started with no more misses than *)
(* the refreshes before that pgxpool account for.                          *)
(***************************************************************************)
BeatInv ==
    /\ phase[self] = "new" => misses[self] = 0
    /\ Alive /\ pool["admin"] = 0 => misses[self] = 0
    /\ fetched["admin"][beat] # 0 =>
         misses[self] <= MaxOutage + (fetched["admin"][beat] - 1)
    /\ ReloadCostsOneBeat

\* The heartbeats are missed only by the heartbeat's own steps.
LEMMA MissesKept ==
    ASSUME [LifecycleNext]_allVars, ~BeatClosed, ~BeatDone
    PROVE  misses' = misses
<1> USE DEF nodeVars, vars
<1>1. CASE Command
  BY <1>1 DEF Command, Connect, Connected, ConnectFails, Register, RegisterFails, StartServer,
              RegisterNode, RegisterNodeFails
<1>2. CASE StopCommand \/ Ends
  BY <1>2 DEF StopCommand, Ends, Deregister, ExitProcess, Stop, DeleteNode, DeleteNodeFails, Exit
<1>3. CASE SignalKills \/ Signal
  BY <1>3 DEF SignalKills, Signal, RegisterNodeFails, Exit
<1>4. CASE Loop
  BY <1>4 DEF Loop, TakeSignal, LoopReturns, RefreshServer, RefreshPool, RefreshFatal,
              RefreshCancelled, RefreshSwap, RefreshClose, RefreshReturns, Stop
<1>5. CASE BuildPool
  BY <1>5 DEF BuildPool
<1>6. ASSUME NEW h \in Handles, NEW u \in Users, UseHandle(h, u)
      PROVE  misses' = misses
  BY <1>6 DEF UseHandle
<1>7. CASE BeatGet \/ BeatAcquire
  BY <1>7 DEF BeatGet, BeatAcquire
<1>8. CASE Minute \/ ExpireRows \/ LoseOrFindDatabase
  BY <1>8 DEF Minute, ExpireRows, LoseOrFindDatabase, Tick, TTLJob
<1>9. CASE UNCHANGED allVars
  BY <1>9 DEF allVars
<1> QED
  BY <1>1, <1>2, <1>3, <1>4, <1>5, <1>6, <1>7, <1>8, <1>9 DEF LifecycleNext

\* A process that is over stays over, and one that has started has not just begun.
LEMMA PhaseSteps ==
    ASSUME TypeOK, [LifecycleNext]_allVars
    PROVE  /\ phase'[self] = "new" => phase[self] = "new"
           /\ phase[self] = "exited" => phase'[self] = "exited"
<1> USE SelfAssumption DEF nodeVars, vars, TypeOK
<1>1. CASE Command
  BY <1>1 DEF Command, Connect, Connected, ConnectFails, Register, RegisterFails, StartServer,
              RegisterNode, RegisterNodeFails
<1>2. CASE StopCommand \/ Ends
  BY <1>2 DEF StopCommand, Ends, Deregister, ExitProcess, Stop, DeleteNode, DeleteNodeFails, Exit,
              Running
<1>3. CASE SignalKills \/ Signal
  BY <1>3 DEF SignalKills, Signal, RegisterNodeFails, Exit, Running
<1>4. CASE Loop
  BY <1>4 DEF Loop, TakeSignal, LoopReturns, RefreshServer, RefreshPool, RefreshFatal,
              RefreshCancelled, RefreshSwap, RefreshClose, RefreshReturns, Stop
<1>5. CASE BuildPool
  BY <1>5 DEF BuildPool
<1>6. ASSUME NEW h \in Handles, NEW u \in Users, UseHandle(h, u)
      PROVE  phase' = phase
  BY <1>6 DEF UseHandle
<1>7. CASE BeatGet \/ BeatAcquire \/ BeatClosed \/ BeatDone
  BY <1>7 DEF BeatGet, BeatAcquire, BeatClosed, BeatDone, Heartbeat, HeartbeatFails
<1>8. CASE Minute \/ ExpireRows \/ LoseOrFindDatabase
  BY <1>8 DEF Minute, ExpireRows, LoseOrFindDatabase, Tick, TTLJob
<1>9. CASE UNCHANGED allVars
  BY <1>9 DEF allVars
<1> QED
  BY <1>1, <1>2, <1>3, <1>4, <1>5, <1>6, <1>7, <1>8, <1>9 DEF LifecycleNext

\* Unless the process ends, the admin handle keeps its pgxpool or takes the
\* next, and the heartbeat has at most fetched the one it points at.
LEMMA AdminMoves ==
    ASSUME TypeOK, PoolTypeOK, PoolInv, [LifecycleNext]_allVars
    PROVE  \/ phase'[self] = "exited" /\ Vanish
           \/ /\ pool'["admin"] = pool["admin"] \/ (pool'["admin"] = pool["admin"] + 1 /\ Alive)
              /\ fetched'["admin"][beat] \in {0, fetched["admin"][beat], pool["admin"]}
<1> DEFINE Moves ==
             /\ pool'["admin"] = pool["admin"] \/ (pool'["admin"] = pool["admin"] + 1 /\ Alive)
             /\ fetched'["admin"][beat] \in {0, fetched["admin"][beat], pool["admin"]}
<1> USE SelfAssumption DEF PoolTypeOK
<1>a. "admin" \in Handles
  BY DEF Handles
<1>b. UNCHANGED <<pool, fetched>> => Moves
  BY <1>a
<1>c. ASSUME NEW h \in Handles, NEW u \in Users,
             Get(h, u) \/ Acquire(h, u) \/ AcquireFails(h, u) \/ Release(h, u)
      PROVE  Moves
  BY <1>a, <1>c DEF Get, Acquire, AcquireFails, Release
<1>d. ASSUME Swap, Alive
      PROVE  Moves
  BY <1>a, <1>d DEF Swap, Fresh, userVars
<1> HIDE DEF Moves
<1>1. CASE Command
  <2>1. CASE ConnectFails \/ RegisterFails
    BY <2>1 DEF ConnectFails, RegisterFails, RegisterNodeFails, TypeOK
  <2>2. CASE Connected
    BY <2>2, <1>d, Zenon DEF Connected, Alive, Moves
  <2>3. CASE (\E h \in Handles : Connect(h)) \/ Register \/ StartServer
    BY <2>3, <1>b DEF Connect, Register, StartServer, ParseConfig, poolVars, userVars, Moves
  <2> QED
    BY <1>1, <2>1, <2>2, <2>3 DEF Command
<1>2. CASE StopCommand \/ Ends
  BY <1>2, <1>b DEF StopCommand, Ends, Deregister, ExitProcess, Exit, TypeOK, poolVars, Moves
<1>3. CASE SignalKills \/ Signal
  BY <1>3, <1>b DEF SignalKills, Signal, RegisterNodeFails, Exit, TypeOK, userVars, Moves
<1>4. CASE Loop
  <2>1. CASE RefreshSwap
    BY <2>1, <1>d DEF RefreshSwap, Moves
  <2>2. CASE Loop /\ ~RefreshSwap
    BY <2>2, <1>b, Zenon DEF Loop, TakeSignal, LoopReturns, RefreshServer, RefreshPool, RefreshFatal,
                RefreshCancelled, RefreshClose, RefreshReturns, ParseConfig, Cancel, Close, Drained,
                poolVars, userVars, Moves
  <2> QED
    BY <1>4, <2>1, <2>2, Zenon
<1>5. CASE BuildPool
  BY <1>5, <1>b, Zenon DEF BuildPool, NewWithConfig, Ping, PingFails, Wake, userVars, Moves
<1>6. ASSUME NEW h \in Handles, NEW u \in Users, UseHandle(h, u)
      PROVE  Moves
  BY <1>6, <1>c DEF UseHandle
<1>7. CASE BeatGet \/ BeatAcquire \/ BeatClosed \/ BeatDone
  BY <1>7, <1>a, <1>c, Zenon DEF BeatGet, BeatAcquire, BeatClosed, BeatDone, Moves
<1>8. CASE Minute \/ ExpireRows \/ LoseOrFindDatabase
  BY <1>8, <1>b, Zenon DEF Minute, ExpireRows, LoseOrFindDatabase, Outage, poolVars, userVars, Moves
<1>9. CASE UNCHANGED allVars
  BY <1>9, <1>b DEF allVars, poolVars, Moves
<1> QED
  BY <1>1, <1>2, <1>3, <1>4, <1>5, <1>6, <1>7, <1>8, <1>9, Zenon DEF LifecycleNext, Moves

\* Every step keeps BeatInv.
LEMMA NextBeat ==
    TypeOK /\ PoolTypeOK /\ PoolInv /\ BeatInv /\ [LifecycleNext]_allVars => BeatInv'
<1> SUFFICES ASSUME TypeOK, PoolTypeOK, PoolInv, BeatInv, [LifecycleNext]_allVars
             PROVE  BeatInv'
  OBVIOUS
<1> USE SelfAssumption, SignalAssumption DEF BeatInv, ReloadCostsOneBeat, Alive
<1>1. /\ "admin" \in Handles
      /\ pool["admin"] \in Nat
      /\ fetched["admin"][beat] \in Nat
      /\ fetched["admin"][beat] <= pool["admin"]
      /\ misses[self] \in Nat
  BY BoundAssumption DEF Handles, PoolTypeOK, PoolInv, TypeOK
<1>2. CASE BeatClosed
  <2>1. /\ fetched["admin"][beat] # 0
        /\ fetched["admin"][beat] # pool["admin"]
        /\ fetched'["admin"][beat] = 0
        /\ pool' = pool
    BY <1>1, <1>2, Zenon DEF BeatClosed, AcquireFails, PoolInv, HandleOpen, PoolTypeOK
  <2>2. misses'[self] = misses[self] + 1 /\ phase' = phase /\ phase[self] # "new"
    BY <1>2, Zenon DEF BeatClosed, HeartbeatFails, Running, TypeOK
  <2> QED
    BY <1>1, <2>1, <2>2
<1>3. CASE BeatDone
  <2>1. UNCHANGED <<pool, fetched>>
    BY <1>3 DEF BeatDone, Release
  <2>2. /\ phase' = phase /\ phase[self] # "new"
        /\ misses'[self] = 0 \/ (misses[self] < MaxOutage /\ misses'[self] = misses[self] + 1)
    BY <1>3, Zenon DEF BeatDone, Heartbeat, HeartbeatFails, Running, TypeOK
  <2>3. pool["admin"] # 0
    BY <1>1, <1>3 DEF BeatDone, Release, PoolInv, PoolTypeOK
  <2> QED
    BY <1>1, <2>1, <2>2, <2>3
<1>4. CASE ~BeatClosed /\ ~BeatDone
  <2>1. misses' = misses
    BY <1>4, MissesKept, Zenon
  <2>2. CASE phase'[self] = "exited" /\ Vanish
    BY <1>1, <2>2, Zenon DEF Vanish
  <2>3. CASE /\ pool'["admin"] = pool["admin"] \/ (pool'["admin"] = pool["admin"] + 1 /\ Alive)
             /\ fetched'["admin"][beat] \in {0, fetched["admin"][beat], pool["admin"]}
    <3>1. /\ phase'[self] = "new" => phase[self] = "new"
          /\ phase[self] = "exited" => phase'[self] = "exited"
      BY PhaseSteps, Zenon
    <3> QED
      BY <1>1, <2>1, <2>3, <3>1
  <2> QED
    BY <2>2, <2>3, AdminMoves, Zenon
<1> QED
  BY <1>2, <1>3, <1>4, Zenon

(***************************************************************************)
(* A reload costs the process at most one heartbeat.                       *)
(***************************************************************************)
THEOREM ReloadCostCorrect == LifecycleSpec => []ReloadCostsOneBeat
<1>1. LifecycleInit => BeatInv
  BY SelfAssumption, SignalAssumption
     DEF LifecycleInit, Init, PoolInit, BeatInv, ReloadCostsOneBeat, Handles
<1>2. BeatInv => ReloadCostsOneBeat
  BY DEF BeatInv
<1>3. LifecycleSpec => []TypeOK
  BY RegistrySteps, TypeCorrect, PTL
<1> QED
  BY <1>1, <1>2, <1>3, NextBeat, PoolsCorrect, PTL DEF LifecycleSpec
=============================================================================
