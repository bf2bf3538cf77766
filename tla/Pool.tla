-------------------------------- MODULE Pool --------------------------------
(***************************************************************************)
(* Database handles (internal/database/pool.go, factory.go).  A handle,    *)
(* *database.Pool, points at a pgxpool.Pool that Refresh replaces: it      *)
(* connects a new one, with the certificates then on disk, swaps the       *)
(* pointer and closes the old one.  A user fetches the pointer under the   *)
(* read lock (get) and only then acquires a connection; nothing keeps      *)
(* Refresh from running in between.                                        *)
(*                                                                         *)
(* The pgxpools of a handle are numbered in the order in which the handle  *)
(* points at them; 0 stands for none, and for "no connection".  A process  *)
(* builds one pgxpool at a time: the command builds the first of each      *)
(* handle, the SIGHUP loop the others.                                     *)
(***************************************************************************)
EXTENDS Naturals

CONSTANTS
    Users,    \* the goroutines that use a handle
    Rejected  \* versions of the certificate files that the database refuses

VARIABLES
    pool,     \* pool[h]: the pgxpool that h points at
    open,     \* open[h]: the pgxpools of h that are not closed
    conf,     \* conf[h]: version of the certificates that pool[h] connects with
    fetched,  \* fetched[h][u]: the pgxpool that get returned to u
    inUse,    \* inUse[h][u]: the pgxpool that u holds a connection of
    stage,    \* where pgxPool or Refresh stands
    target,   \* the handle it works for
    parsed,   \* version of the certificates it has read
    files,    \* version of the certificates on disk
    up        \* the database can be reached

\* The handles of a process: store and lease, and the collections' queries.
Handles == {"admin", "ro"}

userVars  == <<fetched, inUse>>
buildVars == <<stage, target, parsed>>
poolVars  == <<pool, open, conf, fetched, inUse, stage, target, parsed, files, up>>

Stage == {"idle", "connect", "ping", "sleep", "swap", "close", "drain"}

Fresh == pool[target] + 1

Old == pool[target] - 1

Using(h, n) == {u \in Users : inUse[h][u] = n}

-----------------------------------------------------------------------------
(* pgxPool: the files are parsed once, however often connecting is tried.  *)

ParseConfig(h) ==
    /\ stage = "idle"
    /\ stage' = "connect"
    /\ target' = h
    /\ parsed' = files
    /\ UNCHANGED <<pool, open, conf, userVars, files, up>>

NewWithConfig ==
    /\ stage = "connect"
    /\ stage' = "ping"
    /\ open' = [open EXCEPT ![target] = @ \cup {Fresh}]
    /\ UNCHANGED <<pool, conf, userVars, target, parsed, files, up>>

Ping ==
    /\ stage = "ping"
    /\ up /\ parsed \notin Rejected
    /\ stage' = "swap"
    /\ UNCHANGED <<pool, open, conf, userVars, target, parsed, files, up>>

\* Faulty variant: the pgxpool that could not be pinged stays open.
PingFailsLeaks ==
    /\ stage = "ping"
    /\ ~up \/ parsed \in Rejected
    /\ stage' = "sleep"
    /\ UNCHANGED <<pool, open, conf, userVars, target, parsed, files, up>>

PingFails ==
    /\ stage = "ping"
    /\ ~up \/ parsed \in Rejected
    /\ stage' = "sleep"
    /\ open' = [open EXCEPT ![target] = @ \ {Fresh}]
    /\ UNCHANGED <<pool, conf, userVars, target, parsed, files, up>>

Wake ==
    /\ stage = "sleep"
    /\ stage' = "connect"
    /\ UNCHANGED <<pool, open, conf, userVars, target, parsed, files, up>>

\* The context ends during the sleep: pgxPool returns its error.
Cancel ==
    /\ stage = "sleep"
    /\ stage' = "idle"
    /\ UNCHANGED <<pool, open, conf, userVars, target, parsed, files, up>>

-----------------------------------------------------------------------------
(* new and Refresh.                                                        *)

\* Faulty variant: the old pgxpool is closed before the pointer is swapped.
SwapClosed ==
    /\ stage = "swap"
    /\ IF pool[target] > 0 /\ pool[target] \in open[target]
         THEN /\ open' = [open EXCEPT ![target] = @ \ {pool[target]}]
              /\ UNCHANGED <<pool, conf, stage>>
         ELSE /\ pool' = [pool EXCEPT ![target] = Fresh]
              /\ conf' = [conf EXCEPT ![target] = parsed]
              /\ stage' = IF pool[target] = 0 THEN "idle" ELSE "close"
              /\ UNCHANGED open
    /\ UNCHANGED <<userVars, target, parsed, files, up>>

\* The handle points at the new pgxpool.  new has no old one to close.
Swap ==
    /\ stage = "swap"
    /\ pool' = [pool EXCEPT ![target] = Fresh]
    /\ conf' = [conf EXCEPT ![target] = parsed]
    /\ stage' = IF pool[target] = 0 THEN "idle" ELSE "close"
    /\ UNCHANGED <<open, userVars, target, parsed, files, up>>

\* old.Close(): nothing more is acquired from the old pgxpool ...
Close ==
    /\ stage = "close"
    /\ open' = [open EXCEPT ![target] = @ \ {Old}]
    /\ stage' = "drain"
    /\ UNCHANGED <<pool, conf, userVars, target, parsed, files, up>>

\* Faulty variant: Close does not wait.
DrainedEarly ==
    /\ stage = "drain"
    /\ stage' = "idle"
    /\ UNCHANGED <<pool, open, conf, userVars, target, parsed, files, up>>

\* ... and Close returns when all its connections have been given back.
Drained ==
    /\ stage = "drain"
    /\ Using(target, Old) = {}
    /\ stage' = "idle"
    /\ UNCHANGED <<pool, open, conf, userVars, target, parsed, files, up>>

-----------------------------------------------------------------------------
(* Begin, BeginTx, Exec, Query, QueryRow, SendBatch.                       *)

Get(h, u) ==
    /\ pool[h] # 0
    /\ fetched[h][u] = 0 /\ inUse[h][u] = 0
    /\ fetched' = [fetched EXCEPT ![h][u] = pool[h]]
    /\ UNCHANGED <<pool, open, conf, inUse, buildVars, files, up>>

Acquire(h, u) ==
    /\ fetched[h][u] \in open[h]
    /\ inUse' = [inUse EXCEPT ![h][u] = fetched[h][u]]
    /\ fetched' = [fetched EXCEPT ![h][u] = 0]
    /\ UNCHANGED <<pool, open, conf, buildVars, files, up>>

\* Faulty variant: the caller keeps the pgxpool it once fetched.
AcquireFailsKept(h, u) ==
    /\ fetched[h][u] # 0 /\ fetched[h][u] \notin open[h]
    /\ UNCHANGED poolVars

\* "closed pool".
AcquireFails(h, u) ==
    /\ fetched[h][u] # 0 /\ fetched[h][u] \notin open[h]
    /\ fetched' = [fetched EXCEPT ![h][u] = 0]
    /\ UNCHANGED <<pool, open, conf, inUse, buildVars, files, up>>

\* The statement, the rows or the transaction end, with or without an error.
Release(h, u) ==
    /\ inUse[h][u] # 0
    /\ inUse' = [inUse EXCEPT ![h][u] = 0]
    /\ UNCHANGED <<pool, open, conf, fetched, buildVars, files, up>>

-----------------------------------------------------------------------------
(* The environment.                                                        *)

\* The database is lost, or comes back.
Outage ==
    /\ up' = ~up
    /\ UNCHANGED <<pool, open, conf, userVars, buildVars, files>>

\* The process is gone, and its handles with it.
Vanish ==
    /\ pool' = [h \in Handles |-> 0]
    /\ open' = [h \in Handles |-> {}]
    /\ conf' = [h \in Handles |-> 0]
    /\ fetched' = [h \in Handles |-> [u \in Users |-> 0]]
    /\ inUse' = [h \in Handles |-> [u \in Users |-> 0]]
    /\ stage' = "idle"
    /\ target' = "admin"
    /\ parsed' = 0
    /\ UNCHANGED <<files, up>>

PoolInit ==
    /\ pool = [h \in Handles |-> 0]
    /\ open = [h \in Handles |-> {}]
    /\ conf = [h \in Handles |-> 0]
    /\ fetched = [h \in Handles |-> [u \in Users |-> 0]]
    /\ inUse = [h \in Handles |-> [u \in Users |-> 0]]
    /\ stage = "idle"
    /\ target = "admin"
    /\ parsed = 0
    /\ files = 0
    /\ up \in BOOLEAN
=============================================================================
