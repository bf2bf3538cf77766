------------------------------ MODULE Lifecycle ------------------------------
(***************************************************************************)
(* A run of `visus start` (internal/cmd/server/server.go, main.go): the    *)
(* order in which the command connects, registers and starts its servers,  *)
(* the SIGHUP loop that reloads them, and the ways the process ends.  It   *)
(* composes the database handles (Pool) with the node registry             *)
(* (NodeRegistry), of which this process is one of the runs: heartbeats    *)
(* go through the admin handle and fail when the database is away or when  *)
(* the handle's pgxpool is closed under them.                              *)
(*                                                                         *)
(* Whoever sends SIGHUP has replaced the certificate files before.         *)
(***************************************************************************)
EXTENDS NodeRegistry, Pool

CONSTANTS
    self,        \* this run of the process
    beat,        \* the scheduler's heartbeat, among the users of "admin"
    MaxSignals,  \* bound on the SIGHUPs sent
    MaxOutage    \* bound on the heartbeats that fail for want of a database

ASSUME SelfAssumption   == self \in Ids /\ beat \in Users
ASSUME SignalAssumption == /\ MaxSignals \in Nat /\ MaxOutage \in Nat
                           /\ MaxOutage + MaxSignals <= MaxMisses

VARIABLES
    at,      \* where the command stands
    sigHup,  \* the signal channel, of capacity 1, holds a signal
    round    \* where the SIGHUP loop stands

nodeVars  == vars
startVars == <<at, sigHup, round>>
allVars   == <<vars, poolVars, startVars>>

At == {"admin", "ro", "register", "http", "collector", "scanner", "serving"}

Round == {"off", "select", "collector", "scanner", "http", "ro", "admin", "done", "fatal"}

\* What the command does next, and what the loop refreshes next.
AfterStart == [admin |-> "ro", ro |-> "register", register |-> "http", http |-> "collector",
               collector |-> "scanner", scanner |-> "serving"]

AfterRefresh == [collector |-> "scanner", scanner |-> "http", http |-> "ro", ro |-> "admin",
                 admin |-> "select"]

Alive == phase[self] # "exited"

Ending == phase[self] \in {"stopping", "deregistered"}

\* The process is gone, and its goroutines with it.
EndStart == at' = "admin" /\ sigHup' = FALSE /\ round' = "off"

Starting == phase[self] = "new" \/ (phase[self] = "up" /\ at # "serving")

-----------------------------------------------------------------------------
(* The command.                                                            *)

\* database.New and database.ReadOnly.
Connect(h) ==
    /\ phase[self] = "new" /\ at = h
    /\ ParseConfig(h)
    /\ UNCHANGED <<nodeVars, startVars>>

Connected ==
    /\ phase[self] = "new"
    /\ Swap
    /\ at' = AfterStart[at]
    /\ UNCHANGED <<nodeVars, sigHup, round>>

\* log.Fatal in pgxPool, or an error that the command returns.
ConnectFails ==
    /\ at \in Handles
    /\ stage \in {"idle", "sleep"}
    /\ RegisterNodeFails(self) /\ age' = age
    /\ Vanish
    /\ EndStart

Register ==
    /\ at = "register"
    /\ up
    /\ RegisterNode(self)
    /\ at' = AfterStart[at]
    /\ UNCHANGED <<poolVars, sigHup, round>>

RegisterFails ==
    /\ at = "register"
    /\ RegisterNodeFails(self)
    /\ Vanish
    /\ EndStart

\* New and Start of the http server, the collector and the scanner; with the
\* last one the command traps SIGHUP.
StartServer ==
    /\ phase[self] = "up"
    /\ at \in {"http", "collector", "scanner"}
    /\ at' = AfterStart[at]
    /\ round' = IF at = "scanner" THEN "select" ELSE round
    /\ UNCHANGED <<nodeVars, poolVars, sigHup>>

\* SIGTERM or SIGINT, or the error of a server that does not start.
StopCommand ==
    /\ Stop(self)
    /\ UNCHANGED <<poolVars, startVars>>

Deregister ==
    /\ \/ up /\ DeleteNode(self)
       \/ DeleteNodeFails(self)
    /\ UNCHANGED <<poolVars, startVars>>

\* The process ends: Wait returns, the grace period is over, or it crashes.
ExitProcess ==
    /\ Exit(self)
    /\ Vanish
    /\ EndStart

-----------------------------------------------------------------------------
(* The SIGHUP loop.                                                        *)

\* Faulty variant: an unbuffered channel, on which Notify drops the signals
\* that come during a refresh.
TrapUnbuffered == sigHup' = (sigHup \/ round = "select")

\* signal.Notify drops a signal when the channel is full.
Trap == sigHup' = TRUE

\* While the command is starting, and after signal.Stop, SIGHUP has its
\* default effect: the process dies.
SignalKills ==
    /\ Starting \/ round = "done"
    /\ \/ RegisterNodeFails(self) /\ age' = age
       \/ Exit(self)
    /\ Vanish
    /\ EndStart

Signal ==
    /\ files < MaxSignals
    /\ round \notin {"off", "done"}
    /\ Alive
    /\ files' = files + 1
    /\ Trap
    /\ UNCHANGED <<nodeVars, pool, open, conf, userVars, buildVars, up, at, round>>

TakeSignal ==
    /\ Alive /\ round = "select" /\ sigHup
    /\ sigHup' = FALSE
    /\ round' = "collector"
    /\ UNCHANGED <<nodeVars, poolVars, at>>

LoopReturns ==
    /\ Alive /\ round = "select" /\ Ending
    /\ round' = "done"
    /\ UNCHANGED <<nodeVars, poolVars, at, sigHup>>

\* A server refreshes, or logs why it could not.
RefreshServer ==
    /\ Alive /\ round \in {"collector", "scanner", "http"}
    /\ round' = AfterRefresh[round]
    /\ UNCHANGED <<nodeVars, poolVars, at, sigHup>>

RefreshPool(h) ==
    /\ Alive /\ round = h
    /\ ParseConfig(h)
    /\ UNCHANGED <<nodeVars, startVars>>

\* log.Fatal in pgxPool: the exit handler stops the process and waits for it.
RefreshFatal ==
    /\ Alive /\ round \in Handles
    /\ stage = "idle"
    /\ round' = "fatal"
    /\ Stop(self) \/ (Ending /\ UNCHANGED nodeVars)
    /\ UNCHANGED <<poolVars, at, sigHup>>

RefreshCancelled ==
    /\ Alive /\ round \in Handles /\ Ending
    /\ Cancel
    /\ round' = AfterRefresh[round]
    /\ UNCHANGED <<nodeVars, at, sigHup>>

RefreshSwap ==
    /\ Alive /\ round \in Handles
    /\ Swap
    /\ UNCHANGED <<nodeVars, startVars>>

RefreshClose ==
    /\ Alive /\ Close
    /\ UNCHANGED <<nodeVars, startVars>>

RefreshReturns ==
    /\ Alive /\ Drained
    /\ round' = AfterRefresh[round]
    /\ UNCHANGED <<nodeVars, at, sigHup>>

\* Steps of pgxPool, for the command and for the loop.
BuildPool ==
    /\ Alive
    /\ NewWithConfig \/ Ping \/ PingFails \/ Wake
    /\ UNCHANGED <<nodeVars, startVars>>

-----------------------------------------------------------------------------
(* The users of the handles: the heartbeat, and the others.                *)

UseHandle(h, u) ==
    /\ Running(self)
    /\ <<h, u>> # <<"admin", beat>>
    /\ Get(h, u) \/ Acquire(h, u) \/ AcquireFails(h, u) \/ Release(h, u)
    /\ UNCHANGED <<nodeVars, startVars>>

BeatGet ==
    /\ Running(self) /\ self \notin beaten
    /\ Get("admin", beat)
    /\ UNCHANGED <<nodeVars, startVars>>

BeatAcquire ==
    /\ Running(self)
    /\ Acquire("admin", beat)
    /\ UNCHANGED <<nodeVars, startVars>>

\* The pgxpool has been closed since the heartbeat fetched it.
BeatClosed ==
    /\ AcquireFails("admin", beat)
    /\ HeartbeatFails(self) /\ age' = age
    /\ UNCHANGED startVars

BeatDone ==
    /\ Release("admin", beat)
    /\ \/ up /\ Heartbeat(self)
       \/ ~up /\ misses[self] < MaxOutage /\ HeartbeatFails(self)
    /\ UNCHANGED startVars

-----------------------------------------------------------------------------

\* The grace period of a process that is ending is shorter than a minute, so
\* that its row does not age by more than one.
Minute ==
    /\ Ending /\ age[self] # NoRow => age[self] <= misses[self] + 1
    /\ Tick
    /\ UNCHANGED <<poolVars, startVars>>

ExpireRows ==
    /\ TTLJob
    /\ UNCHANGED <<poolVars, startVars>>

LoseOrFindDatabase ==
    /\ Alive
    /\ Outage
    /\ UNCHANGED <<nodeVars, startVars>>

LifecycleInit ==
    /\ Init
    /\ PoolInit
    /\ at = "admin"
    /\ sigHup = FALSE
    /\ round = "off"

Command ==
    \/ \E h \in Handles : Connect(h)
    \/ Connected
    \/ ConnectFails
    \/ Register
    \/ RegisterFails
    \/ StartServer

Ends ==
    \/ Deregister
    \/ ExitProcess

Loop ==
    \/ TakeSignal
    \/ LoopReturns
    \/ RefreshServer
    \/ \E h \in Handles : RefreshPool(h)
    \/ RefreshFatal
    \/ RefreshCancelled
    \/ RefreshSwap
    \/ RefreshClose
    \/ RefreshReturns

LifecycleNext ==
    \/ Command
    \/ StopCommand
    \/ Ends
    \/ SignalKills
    \/ Signal
    \/ Loop
    \/ BuildPool
    \/ \E h \in Handles, u \in Users : UseHandle(h, u)
    \/ BeatGet
    \/ BeatAcquire
    \/ BeatClosed
    \/ BeatDone
    \/ Minute
    \/ ExpireRows
    \/ LoseOrFindDatabase

LifecycleSpec == LifecycleInit /\ [][LifecycleNext]_allVars

(***************************************************************************)
(* The goroutines run; a stopping process exits when its grace period is   *)
(* over; the scheduler attempts its heartbeats; who has fetched a pgxpool  *)
(* goes on to use it and gives its connection back.                        *)
(***************************************************************************)
FairLifecycle ==
    /\ LifecycleSpec
    /\ WF_allVars(Command \/ Loop \/ BuildPool)
    /\ WF_allVars(Ending /\ Ends)
    /\ WF_allVars(BeatGet \/ BeatAcquire \/ BeatClosed \/ BeatDone)
    /\ \A h \in Handles, u \in Users :
         WF_allVars((fetched[h][u] # 0 \/ inUse[h][u] # 0) /\ UseHandle(h, u))
    /\ WF_allVars(Minute)
    /\ WF_allVars(ExpireRows)

-----------------------------------------------------------------------------
(* Properties.                                                             *)

(***************************************************************************)
(* A handle that is in use never points at a closed pgxpool: a user that   *)
(* fetches the pointer now can acquire a connection, at every step of a    *)
(* refresh (pool.go:69-85).                                                *)
(***************************************************************************)
HandleOpen == \A h \in Handles : pool[h] # 0 => pool[h] \in open[h]

(***************************************************************************)
(* No pgxpool is forgotten: besides the one a handle points at, only the   *)
(* one that a refresh is connecting or is about to close is open, however  *)
(* often connecting has failed (connectAndPing, Refresh).                  *)
(***************************************************************************)
NoPoolLeaked ==
    \A h \in Handles :
        open[h] \ {pool[h]} \subseteq
            IF target # h THEN {}
            ELSE CASE stage \in {"ping", "swap"} -> {pool[h] + 1}
                   [] stage = "close"            -> {pool[h] - 1}
                   [] OTHER                      -> {}

(***************************************************************************)
(* When a refresh has returned, nobody holds a connection of the replaced  *)
(* pgxpool, hence one made with the replaced certificates.                 *)
(***************************************************************************)
OldDrained ==
    \A h \in Handles, u \in Users :
        inUse[h][u] \notin {0, pool[h]} => target = h /\ stage \in {"close", "drain"}

(***************************************************************************)
(* A reload costs at most one heartbeat: the heartbeats missed in a row    *)
(* are at most those an outage accounts for and one for each time the      *)
(* admin handle was refreshed.                                             *)
(***************************************************************************)
ReloadCostsOneBeat ==
    pool["admin"] # 0 => misses[self] <= MaxOutage + (pool["admin"] - 1)

(***************************************************************************)
(* A SIGHUP is not lost, even one that comes while a reload is going on:   *)
(* once the database stays reachable, a process that goes on runs all its  *)
(* handles with the certificates that are on disk.                         *)
(***************************************************************************)
Reloads == <>[]up => <>[](~Alive \/ \A h \in Handles : conf[h] = files)
=============================================================================
