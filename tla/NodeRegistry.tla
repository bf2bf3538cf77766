---------------------------- MODULE NodeRegistry ----------------------------
(***************************************************************************)
(* The registry of visus processes in _visus.node: a process inserts a row *)
(* when it starts, stamps it every minute, and deletes it when it stops    *)
(* (internal/cmd/server/server.go, internal/store/node.go).  `visus node   *)
(* list` shows the rows stamped within Window minutes; a job that          *)
(* CockroachDB runs from time to time deletes the rows not stamped for TTL *)
(* minutes.                                                                *)
(*                                                                         *)
(* Every run of a process has an id of its own (unique_rowid), so a restart*)
(* is another id.  Time passes in minutes; the scheduler attempts at least *)
(* one heartbeat a minute.  A statement that fails may have taken effect   *)
(* all the same.                                                           *)
(***************************************************************************)
EXTENDS Naturals

CONSTANTS
    Ids,        \* the runs of visus processes
    NoRow,      \* no such row
    Window,     \* minutes within which a row counts as live
    TTL,        \* minutes after which a row may be deleted
    MaxMisses   \* bound on the heartbeats that fail in a row

ASSUME NoRowAssumption  == NoRow \notin Nat
ASSUME WindowAssumption == Window \in Nat /\ TTL \in Nat /\ 1 < Window /\ Window < TTL
ASSUME BoundAssumption  == MaxMisses \in Nat

VARIABLES
    phase,   \* where a run stands
    age,     \* minutes since the row of a run was stamped (TTL: or more)
    beaten,  \* runs that attempted a heartbeat in the current minute
    misses,  \* heartbeats failed since the last one that succeeded
    gone     \* history: minutes since a run ended (Window: or more)

vars == <<phase, age, beaten, misses, gone>>

Phase == {"new", "up", "stopping", "deregistered", "exited"}

Running(i) == phase[i] \in {"up", "stopping", "deregistered"}

RegisterNode(i) ==
    /\ phase[i] = "new"
    /\ phase' = [phase EXCEPT ![i] = "up"]
    /\ age' = [age EXCEPT ![i] = 0]
    /\ UNCHANGED <<beaten, misses, gone>>

\* The command returns the error.
RegisterNodeFails(i) ==
    /\ phase[i] = "new"
    /\ phase' = [phase EXCEPT ![i] = "exited"]
    /\ age' \in {age, [age EXCEPT ![i] = 0]}
    /\ UNCHANGED <<beaten, misses, gone>>

\* Faulty variant: heartbeatNode.sql as an UPSERT.
HeartbeatUpsert(i) ==
    /\ Running(i)
    /\ beaten' = beaten \cup {i}
    /\ age' = [age EXCEPT ![i] = 0]
    /\ misses' = [misses EXCEPT ![i] = 0]
    /\ UNCHANGED <<phase, gone>>

\* heartbeatNode.sql updates the row, if it is still there.
Heartbeat(i) ==
    /\ Running(i)
    /\ beaten' = beaten \cup {i}
    /\ age' = IF age[i] = NoRow THEN age ELSE [age EXCEPT ![i] = 0]
    /\ misses' = [misses EXCEPT ![i] = 0]
    /\ UNCHANGED <<phase, gone>>

\* The error is logged; the next heartbeat is a minute away.
HeartbeatFails(i) ==
    /\ Running(i)
    /\ misses[i] < MaxMisses
    /\ i \notin beaten
    /\ beaten' = beaten \cup {i}
    /\ age' \in {age, IF age[i] = NoRow THEN age ELSE [age EXCEPT ![i] = 0]}
    /\ misses' = [misses EXCEPT ![i] = @ + 1]
    /\ UNCHANGED <<phase, gone>>

Stop(i) ==
    /\ phase[i] = "up"
    /\ phase' = [phase EXCEPT ![i] = "stopping"]
    /\ UNCHANGED <<age, beaten, misses, gone>>

\* The goroutine that deregisters the process, and its failure, which is logged.
DeleteNode(i) ==
    /\ phase[i] = "stopping"
    /\ phase' = [phase EXCEPT ![i] = "deregistered"]
    /\ age' = [age EXCEPT ![i] = NoRow]
    /\ UNCHANGED <<beaten, misses, gone>>

DeleteNodeFails(i) ==
    /\ phase[i] = "stopping"
    /\ phase' = [phase EXCEPT ![i] = "deregistered"]
    /\ UNCHANGED <<age, beaten, misses, gone>>

\* The process ends, or crashes.
Exit(i) ==
    /\ Running(i)
    /\ phase' = [phase EXCEPT ![i] = "exited"]
    /\ UNCHANGED <<age, beaten, misses, gone>>

Min2(a, b) == IF a < b THEN a ELSE b

\* A minute passes, in which every process that is up attempted a heartbeat.
Tick ==
    /\ \A i \in Ids : phase[i] = "up" => i \in beaten
    /\ age' = [i \in Ids |-> IF age[i] = NoRow THEN NoRow ELSE Min2(age[i] + 1, TTL)]
    /\ gone' = [i \in Ids |-> IF phase[i] = "exited" THEN Min2(gone[i] + 1, Window) ELSE 0]
    /\ beaten' = {}
    /\ UNCHANGED <<phase, misses>>

\* Faulty variants: rows expire as soon as they are not listed; the table has
\* no ttl_expiration_expression.
ExpiredEarly == {i \in Ids : age[i] # NoRow /\ age[i] >= Window}

ExpiredNever == {}

\* The job behind ttl_expiration_expression.
Expired == {i \in Ids : age[i] # NoRow /\ age[i] >= TTL}

TTLJob ==
    /\ Expired # {}
    /\ age' = [i \in Ids |-> IF i \in Expired THEN NoRow ELSE age[i]]
    /\ UNCHANGED <<phase, beaten, misses, gone>>

\* Faulty variant: listNodes.sql without its WHERE clause.
ListedAlways(i) == age[i] # NoRow

\* GetNodes: listNodes.sql.
Listed(i) == age[i] # NoRow /\ age[i] < Window

Init ==
    /\ phase = [i \in Ids |-> "new"]
    /\ age = [i \in Ids |-> NoRow]
    /\ beaten = {}
    /\ misses = [i \in Ids |-> 0]
    /\ gone = [i \in Ids |-> 0]

Next ==
    \/ \E i \in Ids :
         \/ RegisterNode(i)
         \/ RegisterNodeFails(i)
         \/ Heartbeat(i)
         \/ HeartbeatFails(i)
         \/ Stop(i)
         \/ DeleteNode(i)
         \/ DeleteNodeFails(i)
         \/ Exit(i)
    \/ Tick
    \/ TTLJob

Spec == Init /\ [][Next]_vars

\* Time passes, the scheduler attempts its heartbeats, and the job runs.
FairSpec ==
    /\ Spec
    /\ WF_vars(Tick)
    /\ WF_vars(TTLJob)
    /\ \A i \in Ids : WF_vars(i \notin beaten /\ (Heartbeat(i) \/ HeartbeatFails(i)))

-----------------------------------------------------------------------------
(* Properties.                                                             *)

TypeOK ==
    /\ phase \in [Ids -> Phase]
    /\ age \in [Ids -> (0..TTL) \cup {NoRow}]
    /\ beaten \subseteq Ids
    /\ misses \in [Ids -> 0..MaxMisses]
    /\ gone \in [Ids -> 0..Window]

(***************************************************************************)
(* `visus node list` shows every live process: a process that is up and    *)
(* whose last heartbeats did not all fail is listed.                       *)
(***************************************************************************)
LiveListed == \A i \in Ids : phase[i] = "up" /\ misses[i] + 1 < Window => Listed(i)

(***************************************************************************)
(* A process that ended more than Window minutes ago is not listed, even   *)
(* when it crashed or could not deregister.                                *)
(***************************************************************************)
ExitedUnlisted == \A i \in Ids : gone[i] = Window => ~Listed(i)

(***************************************************************************)
(* A row that has been deleted does not come back: a heartbeat that races  *)
(* the deregistration does not resurrect a process that is going away.     *)
(***************************************************************************)
StaysDeleted ==
    [][\A i \in Ids : phase[i] # "new" /\ age[i] = NoRow => age'[i] = NoRow]_vars

(***************************************************************************)
(* The row of a process that ended is eventually removed.                  *)
(***************************************************************************)
RowsCollected == \A i \in Ids : phase[i] = "exited" ~> age[i] = NoRow
=============================================================================
