-------------------------------- MODULE Admin --------------------------------
(***************************************************************************)
(* The administrators' commands, visus collection | scan | histogram put,  *)
(* get and delete (internal/cmd/*/admin.go), on the two implementations of *)
(* store.Store: the SQL store, whose commands are transactions of several  *)
(* statements, and the in-memory store of the tests (memory.go), which     *)
(* env.Testing provides.  The three trees of commands are alike and do not *)
(* meet; a behaviour follows one of them, on one of the stores.            *)
(*                                                                         *)
(* Commands run concurrently, one per session.  CockroachDB's transactions *)
(* are serializable: what a transaction writes shows when it commits.  Any *)
(* statement may fail, and a commit that fails may have taken effect.      *)
(***************************************************************************)
EXTENDS ConfigFile

CONSTANTS
    Sessions,  \* administrators at work
    Names,     \* names of configurations
    Docs,      \* Docs[kind]: the YAML documents at hand
    None       \* no configuration; no transaction; no document

ASSUME NamesAssumption == Names \subseteq STRING \ {""}

ASSUME DocsAssumption ==
    \A k \in Kinds : \A doc \in Docs[k] : doc \in Document(k) /\ doc.name \in Names \cup {""}

ASSUME NoneAssumption ==
    \A k \in Kinds : None \notin [name : Names, cfg : Configuration(k) \cup {None}]

VARIABLES
    kind,      \* the tree of commands: "collection", "scan" or "histogram"
    testing,   \* Env.testing: the in-memory store is used
    injected,  \* the in-memory store has been told to fail
    rows,      \* rows[n]: the rows of _visus.<kind> for n, at most one
    parts,     \* parts[n]: rows of _visus.metric or _visus.pattern for n
    mem,       \* mem[n]: the entry of the in-memory store's map, or None
    op,        \* op[s]: the command that s runs
    work,      \* work[s]: what the transaction of s makes of its name
    saved      \* the file with what the last get printed, and (history) read, or None

store == <<rows, parts, mem>>
vars  == <<kind, testing, injected, rows, parts, mem, op, work, saved>>

Idle == [cmd |-> "none"]

\* What get prints.
Printed(c) == [doc |-> Marshal(kind, c), of |-> c]

\* A command ends, reporting success or an error.
Done(s) == op' = [op EXCEPT ![s] = Idle]

-----------------------------------------------------------------------------
(* The commands.                                                           *)

\* put reads and checks its document before it touches the store; a document
\* that unmarshal refuses ends it.
Put(s) ==
    /\ op[s] = Idle
    /\ \E doc \in Docs[kind] \cup (IF saved = None THEN {} ELSE {saved.doc}) :
         LET c == Unmarshal(kind, doc)
         IN  /\ c # Invalid
             /\ op' = [op EXCEPT ![s] = [cmd |-> "put", name |-> c.name, cfg |-> c, next |-> 0]]
    /\ UNCHANGED <<kind, testing, injected, store, work, saved>>

Delete(s) ==
    /\ op[s] = Idle
    /\ \E n \in Names : op' = [op EXCEPT ![s] = [cmd |-> "delete", name |-> n, next |-> 0]]
    /\ UNCHANGED <<kind, testing, injected, store, work, saved>>

Get(s) ==
    /\ op[s] = Idle
    /\ \E n \in Names : op' = [op EXCEPT ![s] = [cmd |-> "get", name |-> n, next |-> 0]]
    /\ UNCHANGED <<kind, testing, injected, store, work, saved>>

-----------------------------------------------------------------------------
(* The SQL store: a put or delete of a collection or scan is a transaction *)
(* that deletes the metrics or patterns, then writes the row, then inserts *)
(* the metrics or patterns one by one.                                     *)

Runs(s, cmds) == op[s].cmd \in cmds /\ ~testing

Begin(s) ==
    /\ Runs(s, {"put", "delete"}) /\ kind # "histogram"
    /\ op[s].next = 0
    /\ work' = [work EXCEPT ![s] = [rows |-> rows[op[s].name], parts |-> parts[op[s].name]]]
    /\ op' = [op EXCEPT ![s].next = 1]
    /\ UNCHANGED <<kind, testing, injected, store, saved>>

\* Faulty variant: delete does not delete the metrics.
DeletePartsOnPut(o, w) == IF o.cmd = "put" THEN [w EXCEPT !.parts = {}] ELSE w

\* deleteMetrics.sql, deletePatterns.sql.
DeleteParts(o, w) == [w EXCEPT !.parts = {}]

\* upsertCollection.sql, upsertScan.sql; deleteCollection.sql, deleteScan.sql.
WriteRow(o, w) == [w EXCEPT !.rows = IF o.cmd = "put" THEN {o.cfg.row} ELSE {}]

\* What the next statement may make of w.  insertMetric.sql and insertPattern.sql
\* fail on a name that is there, by the primary key.
Effects(o, w) ==
    CASE o.next = 1 -> {DeleteParts(o, w)}
      [] o.next = 2 -> {WriteRow(o, w)}
      [] o.next = 3 -> IF o.cmd = "put"
                         THEN {[w EXCEPT !.parts = @ \cup {p}] :
                                 p \in {p \in o.cfg.parts : \A q \in w.parts : q.name # p.name}}
                         ELSE {}

Advance(k) == IF k < 3 THEN k + 1 ELSE k

\* Faulty variant: the statement is run on the pool, not in the transaction.
ExecOutside(s) ==
    /\ Runs(s, {"put", "delete"}) /\ kind # "histogram" /\ op[s].next > 0
    /\ \E w \in Effects(op[s], work[s]) :
         /\ work' = [work EXCEPT ![s] = w]
         /\ rows' = [rows EXCEPT ![op[s].name] = w.rows]
         /\ parts' = [parts EXCEPT ![op[s].name] = w.parts]
    /\ op' = [op EXCEPT ![s].next = Advance(@)]
    /\ UNCHANGED <<kind, testing, injected, mem, saved>>

Exec(s) ==
    /\ Runs(s, {"put", "delete"}) /\ kind # "histogram" /\ op[s].next > 0
    /\ \E w \in Effects(op[s], work[s]) : work' = [work EXCEPT ![s] = w]
    /\ op' = [op EXCEPT ![s].next = Advance(@)]
    /\ UNCHANGED <<kind, testing, injected, store, saved>>

\* Faulty variant: the method returns without committing.
NoCommit(s) == UNCHANGED <<rows, parts>>

\* The transaction's writes take effect.
Applied(s) ==
    /\ rows' = [rows EXCEPT ![op[s].name] = work[s].rows]
    /\ parts' = [parts EXCEPT ![op[s].name] = work[s].parts]

Ready(s) ==
    /\ Runs(s, {"put", "delete"}) /\ kind # "histogram"
    /\ op[s].next = 3
    /\ op[s].cmd = "put" => work[s].parts = op[s].cfg.parts

Commit(s) ==
    /\ Ready(s)
    /\ Applied(s)
    /\ Done(s)
    /\ work' = [work EXCEPT ![s] = None]
    /\ UNCHANGED <<kind, testing, injected, mem, saved>>

\* The answer to the commit is lost.
CommitUnknown(s) ==
    /\ Ready(s)
    /\ Applied(s) \/ UNCHANGED <<rows, parts>>
    /\ Done(s)
    /\ work' = [work EXCEPT ![s] = None]
    /\ UNCHANGED <<kind, testing, injected, mem, saved>>

\* A statement fails, or the command is interrupted: the rollback drops the
\* transaction's writes.
Rollback(s) ==
    /\ op[s] # Idle /\ ~testing
    /\ Done(s)
    /\ work' = [work EXCEPT ![s] = None]
    /\ UNCHANGED <<kind, testing, injected, store, saved>>

\* upsertHistogram.sql writes neither enabled, which defaults to true, nor
\* updated; deleteHistogram.sql.
WriteHistogram(s) ==
    /\ Runs(s, {"put", "delete"}) /\ kind = "histogram"
    /\ LET n == op[s].name
           enabled == \A r \in rows[n] : r.enabled
       IN  rows' = [rows EXCEPT ![n] = IF op[s].cmd = "put"
                                         THEN {[op[s].cfg.row EXCEPT !.enabled = enabled]}
                                         ELSE {}]
    /\ Done(s)
    /\ UNCHANGED <<kind, testing, injected, parts, mem, work, saved>>

\* get reads the row, and then, in another statement, the metrics or patterns.  The
\* second result may break off: rows.Err() is not consulted after the loop.
GetRow(s) ==
    /\ Runs(s, {"get"}) /\ op[s].next = 0
    /\ IF rows[op[s].name] = {}
         THEN Done(s) /\ UNCHANGED work
         ELSE /\ op' = [op EXCEPT ![s].next = 1]
              /\ work' = [work EXCEPT ![s] = [rows |-> rows[op[s].name], parts |-> {}]]
    /\ UNCHANGED <<kind, testing, injected, store, saved>>

GetParts(s) ==
    /\ Runs(s, {"get"}) /\ op[s].next = 1
    /\ \E r \in work[s].rows, read \in SUBSET parts[op[s].name] :
         saved' = Printed([name |-> op[s].name, row |-> r, parts |-> read])
    /\ Done(s)
    /\ work' = [work EXCEPT ![s] = None]
    /\ UNCHANGED <<kind, testing, injected, store>>

-----------------------------------------------------------------------------
(* The in-memory store.                                                    *)

MemoryPut(s) ==
    /\ testing /\ ~injected /\ op[s].cmd = "put"
    /\ mem' = [mem EXCEPT ![op[s].name] = op[s].cfg]
    /\ Done(s)
    /\ UNCHANGED <<kind, testing, injected, rows, parts, work, saved>>

MemoryDelete(s) ==
    /\ testing /\ ~injected /\ op[s].cmd = "delete"
    /\ mem' = [mem EXCEPT ![op[s].name] = None]
    /\ Done(s)
    /\ UNCHANGED <<kind, testing, injected, rows, parts, work, saved>>

MemoryGet(s) ==
    /\ testing /\ ~injected /\ op[s].cmd = "get"
    /\ LET c == mem[op[s].name]
       IN  saved' = IF c = None THEN saved ELSE Printed(c)
    /\ Done(s)
    /\ UNCHANGED <<kind, testing, injected, store, work>>

MemoryFails(s) ==
    /\ testing /\ injected /\ op[s] # Idle
    /\ Done(s)
    /\ UNCHANGED <<kind, testing, injected, store, work, saved>>

InjectError ==
    /\ testing
    /\ injected' = ~injected
    /\ UNCHANGED <<kind, testing, store, op, work, saved>>

-----------------------------------------------------------------------------

Init ==
    /\ kind \in Kinds
    /\ testing \in BOOLEAN
    /\ injected = FALSE
    /\ rows = [n \in Names |-> {}]
    /\ parts = [n \in Names |-> {}]
    /\ mem = [n \in Names |-> None]
    /\ op = [s \in Sessions |-> Idle]
    /\ work = [s \in Sessions |-> None]
    /\ saved = None

Next ==
    \/ \E s \in Sessions :
         \/ Put(s)
         \/ Delete(s)
         \/ Get(s)
         \/ Begin(s)
         \/ Exec(s)
         \/ Commit(s)
         \/ CommitUnknown(s)
         \/ Rollback(s)
         \/ WriteHistogram(s)
         \/ GetRow(s)
         \/ GetParts(s)
         \/ MemoryPut(s)
         \/ MemoryDelete(s)
         \/ MemoryGet(s)
         \/ MemoryFails(s)
    \/ InjectError

Spec == Init /\ [][Next]_vars

-----------------------------------------------------------------------------
(* Properties.                                                             *)

\* The configurations that the store in use holds.
Stored ==
    [n \in Names |->
        IF testing THEN mem[n]
        ELSE IF rows[n] = {} THEN None
        ELSE [name |-> n, row |-> CHOOSE r \in rows[n] : TRUE, parts |-> parts[n]]]

\* The puts and deletes that the sessions have called.
Requested ==
    [s \in Sessions |->
        CASE op[s].cmd = "put"    -> [name |-> op[s].name, cfg |-> op[s].cfg]
          [] op[s].cmd = "delete" -> [name |-> op[s].name, cfg |-> None]
          [] OTHER                -> None]

Abstract == INSTANCE ConfigStore WITH stored <- Stored, request <- Requested

(***************************************************************************)
(* Both stores implement ConfigStore: however the statements of concurrent *)
(* commands interleave and wherever they fail, a put or delete happens at  *)
(* once, or not at all, and nothing else changes a configuration.  It      *)
(* holds while no histogram is put with enabled: false, which              *)
(* PutHistogram does not store.                                            *)
(***************************************************************************)
StoreSpec == Abstract!Spec

(***************************************************************************)
(* A configuration that get printed can be put back: put reads from the    *)
(* document the very configuration that get read, defaults, spellings and  *)
(* units of time notwithstanding.                                          *)
(***************************************************************************)
SavedRestores ==
    saved # None => LET c == Unmarshal(kind, saved.doc)
                    IN  c # Invalid /\ c = saved.of

(***************************************************************************)
(* What put checks of a document holds of whatever is stored, by whichever *)
(* put or upsert it came there: the kind of each metric is known, labels   *)
(* differ (NewDesc would panic), the scope is one of two, and in the       *)
(* database no metric name is used twice; the format of a scan has a       *)
(* parser; a histogram has a regex, and no bound is left at zero.  It is   *)
(* not all that the servers need: a frequency of zero, a negative number   *)
(* of bins and a regex that does not compile are stored, too.              *)
(***************************************************************************)
Checked(c) ==
    CASE kind = "collection" -> /\ c.row.scope \in {"node", "cluster"}
                                /\ IsInjective(c.row.labels)
                                /\ \A p \in c.parts : p.kind \in {"gauge", "counter"}
      [] kind = "scan"       -> c.row.format \in {"crdb-v2", "crdb-v2-auth"}
      [] kind = "histogram"  -> /\ c.row.regex # ""
                                /\ c.row.bins # 0 /\ c.row.start # 0 /\ c.row.end # 0

StoredChecked ==
    \A n \in Names :
        LET c == Stored[n]
        IN  c # None => /\ Checked(c)
                        /\ ~testing => \A p, q \in c.parts : p.name = q.name => p = q

(***************************************************************************)
(* No metric or pattern outlives its collection or scan.                   *)
(***************************************************************************)
NoOrphans == \A n \in Names : rows[n] = {} => parts[n] = {}

(***************************************************************************)
(* A put that reports success has stored what it read, and a delete that   *)
(* does has removed it, in either store and whoever else is at work.  It   *)
(* holds while no histogram is put with enabled: false.                    *)
(***************************************************************************)
SuccessMeansDone ==
    [][\A s \in Sessions :
         Commit(s) \/ WriteHistogram(s) \/ MemoryPut(s) \/ MemoryDelete(s) =>
             Stored'[op[s].name] = IF op[s].cmd = "put" THEN op[s].cfg ELSE None]_vars
=============================================================================
