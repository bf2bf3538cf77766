------------------------------ MODULE Collector ------------------------------
(***************************************************************************)
(* One collector (internal/collector/collector.go): Collect runs the query *)
(* of a collection, once per database, and turns its rows into prometheus  *)
(* counters and gauges.                                                    *)
(*                                                                         *)
(* A counter is fed with the differences between successive results.  The  *)
(* last value seen of every counter is kept in an LRU cache; a counter     *)
(* evicted from the cache is no longer exported.  A gauge is set to the    *)
(* value in the result; the gauges whose labels are not in the result are  *)
(* deleted at the end of the query.                                        *)
(*                                                                         *)
(* Collect holds c.mu throughout: a run that finds it taken does nothing,  *)
(* and is not a step here.  Neither is a run that fails to list the        *)
(* databases, or finds none.  The metrics handler may read the vectors     *)
(* between any two steps.                                                  *)
(*                                                                         *)
(* Assumed of the query: at most MaxResults rows (LIMIT $1), with distinct *)
(* labels; label columns come before metric columns; the values of         *)
(* counters are not negative.                                              *)
(***************************************************************************)
EXTENDS Naturals, FiniteSets

CONSTANTS
    DatabaseSets,   \* results of the databases query; one singleton without it
    Labels,         \* values of the label columns of a row
    Counters,       \* the counter columns
    Gauges,         \* the gauge columns
    Values,         \* what a column may hold
    Null,           \* a NULL, or a value of a type that is not supported
    None,           \* no such counter or gauge
    NoEntry,        \* no such cache entry
    MaxResults,     \* maxResults
    Answers,        \* the results that queries have
    Faults,         \* "error": a call fails, "decode": a row cannot be
                    \* decoded, "break": a result ends early, unnoticed
    MaxExported     \* bound on the values of the exported counters

Databases == UNION DatabaseSets
Columns == Counters \cup Gauges
Counter == Counters \X Databases \X Labels
Gauge == Gauges \X Databases \X Labels

\* A cached value, and the number of entries used more recently.
Entry == [value : Nat, age : Nat]

ASSUME ValuesAssumption == Values \subseteq Nat /\ Null \notin Nat /\ None \notin Nat
ASSUME EntryAssumption  == NoEntry \notin Entry
ASSUME KindsAssumption  == Counters \cap Gauges = {} /\ IsFiniteSet(Counters)
ASSUME BoundsAssumption == MaxResults \in Nat /\ MaxExported \in Nat
ASSUME FaultsAssumption == Faults \subseteq {"error", "decode", "break"}

VARIABLES
    cache,       \* c.countersCache
    counters,    \* the counter vectors
    gauges,      \* the gauge vectors
    gaugeLabels, \* c.gaugeLabels
    pc,          \* where Collect stands
    todo,        \* databases still to query
    db,          \* the database being queried
    result,      \* the result of the query, less the rows that could not be read
    pending,     \* labels of the rows still to read
    cells,       \* columns of the row being read, with its labels, still to read
    currGauges,  \* currGauges
    last         \* history: what was read of the last result of every database

vectors == <<counters, gauges>>
query == <<db, result, last>>
vars == <<cache, counters, gauges, gaugeLabels, pc, todo, db, result, pending,
          cells, currGauges, last>>

Row == [Columns -> Values \cup {Null}]

\* A row for some of the labels.
Results ==
    UNION {[ls -> Row] : ls \in {s \in SUBSET Labels :
                                   IsFiniteSet(s) /\ Cardinality(s) <= MaxResults}}

ASSUME AnswersAssumption == Answers \subseteq Results

NoResult == [l \in {} |-> {}]

\* The result without the rows of ls.
Without(ls) == [l \in DOMAIN result \ ls |-> result[l]]

-----------------------------------------------------------------------------
(* counterAdd, and the LRU cache behind it.                                *)

\* Faulty variant: the cache holds one result only.
CapacityOneResult == Cardinality(Counters) * MaxResults

Capacity == Cardinality(Counters) * MaxResults * 2

\* Faulty variant: a value below the last one does not count as a reset.
DeltaNoReset(k, v) == IF cache[k] # NoEntry THEN v - cache[k].value ELSE v

\* The value last seen, unless the counter is new or has been reset since.
Delta(k, v) ==
    IF cache[k] # NoEntry /\ cache[k].value <= v THEN v - cache[k].value ELSE v

\* The cache after k has been added, or moved to the front, before eviction.
Used(k, v) ==
    [j \in Counter |->
       IF j = k THEN [value |-> v, age |-> 0]
       ELSE IF cache[j] # NoEntry /\ (cache[k] = NoEntry \/ cache[j].age < cache[k].age)
       THEN [value |-> cache[j].value, age |-> cache[j].age + 1]
       ELSE cache[j]]

\* Faulty variant: one entry too many.
EvictedLate(c) ==
    {j \in Counter : c[j] # NoEntry /\ c[j].age > Capacity /\ Capacity > 0}

\* A capacity of zero means no limit.
Evicted(c) ==
    {j \in Counter : c[j] # NoEntry /\ c[j].age >= Capacity /\ Capacity > 0}

\* Faulty variant: OnEvicted does not delete the counter.
CounterAddNoDelete(k, v) ==
    LET used == Used(k, v)
    IN /\ cache' = [j \in Counter |-> IF j \in Evicted(used) THEN NoEntry ELSE used[j]]
       /\ counters' = [counters EXCEPT ![k] = (IF @ = None THEN 0 ELSE @) + Delta(k, v)]

CounterAdd(k, v) ==
    LET used == Used(k, v)
    IN /\ cache' = [j \in Counter |-> IF j \in Evicted(used) THEN NoEntry ELSE used[j]]
       /\ counters' = [j \in Counter |->
                         IF j \in Evicted(used) THEN None
                         ELSE IF j = k
                         THEN (IF counters[k] = None THEN 0 ELSE counters[k]) + Delta(k, v)
                         ELSE counters[j]]

-----------------------------------------------------------------------------
(* Collect.                                                                *)

Collect(dbs) ==
    /\ pc = "idle"
    /\ dbs # {}
    /\ todo' = dbs
    /\ pc' = "loop"
    /\ UNCHANGED <<cache, vectors, gaugeLabels, query, pending, cells, currGauges>>

\* collectLocked sends the query.  The bound leaves out the results that would
\* take a counter beyond MaxExported.
Query(d, res) ==
    /\ pc = "loop"
    /\ d \in todo
    /\ \A c \in Counters, l \in DOMAIN res :
         LET k == <<c, d, l>>
         IN res[l][c] # Null /\ counters[k] # None => counters[k] + res[l][c] <= MaxExported
    /\ db' = d
    /\ result' = res
    /\ pending' = DOMAIN res
    /\ currGauges' = {}
    /\ pc' = "rows"
    /\ UNCHANGED <<cache, vectors, gaugeLabels, todo, cells, last>>

\* Begin, USE or the query fails: Collect returns the error.
QueryFails ==
    /\ pc = "loop"
    /\ "error" \in Faults
    /\ todo' = {}
    /\ pc' = "idle"
    /\ UNCHANGED <<cache, vectors, gaugeLabels, query, pending, cells, currGauges>>

NextRow(l) ==
    /\ pc = "rows"
    /\ cells = {}
    /\ l \in pending
    /\ pending' = pending \ {l}
    /\ cells' = Columns \X {l}
    /\ UNCHANGED <<cache, vectors, gaugeLabels, pc, todo, query, currGauges>>

\* rows.Values fails: the row is logged and left out.
SkipRow(l) ==
    /\ pc = "rows"
    /\ "decode" \in Faults
    /\ cells = {}
    /\ l \in pending
    /\ pending' = pending \ {l}
    /\ result' = Without({l})
    /\ UNCHANGED <<cache, vectors, gaugeLabels, pc, todo, db, last, cells, currGauges>>

\* rows.Next returns false before the end of the result.  rows.Err() is not
\* consulted after the loop.
BreakOff ==
    /\ pc = "rows"
    /\ "break" \in Faults
    /\ cells = {}
    /\ pending # {}
    /\ pending' = {}
    /\ result' = Without(pending)
    /\ UNCHANGED <<cache, vectors, gaugeLabels, pc, todo, db, last, cells, currGauges>>

CounterColumn(c, l) ==
    /\ <<c, l>> \in cells
    /\ c \in Counters
    /\ \/ /\ result[l][c] # Null
          /\ CounterAdd(<<c, db, l>>, result[l][c])
       \/ /\ result[l][c] = Null
          /\ UNCHANGED <<cache, counters>>
    /\ cells' = cells \ {<<c, l>>}
    /\ UNCHANGED <<gauges, gaugeLabels, pc, todo, query, pending, currGauges>>

GaugeColumn(c, l) ==
    /\ <<c, l>> \in cells
    /\ c \in Gauges
    /\ currGauges' = currGauges \cup {<<c, db, l>>}
    /\ gauges' = IF result[l][c] = Null THEN gauges
                 ELSE [gauges EXCEPT ![<<c, db, l>>] = result[l][c]]
    /\ cells' = cells \ {<<c, l>>}
    /\ UNCHANGED <<cache, counters, gaugeLabels, pc, todo, query, pending>>

\* Faulty variant: the gauges of rows that are gone stay.
ClearObsoleteGaugesNever ==
    /\ gauges' = gauges
    /\ gaugeLabels' = currGauges

ClearObsoleteGauges ==
    /\ gauges' = [g \in Gauge |-> IF g \in gaugeLabels \ currGauges THEN None ELSE gauges[g]]
    /\ gaugeLabels' = currGauges

\* The rows are read: collectLocked clears the gauges and commits.  Collect
\* goes on with the next database, or returns the error of the commit.
EndQuery ==
    /\ pc = "rows"
    /\ pending = {}
    /\ cells = {}
    /\ ClearObsoleteGauges
    /\ currGauges' = {}
    /\ result' = NoResult
    /\ last' = [last EXCEPT ![db] = result]
    /\ \/ /\ todo' = todo \ {db}
          /\ pc' = IF todo = {db} THEN "idle" ELSE "loop"
       \/ /\ "error" \in Faults
          /\ todo' = {}
          /\ pc' = "idle"
    /\ UNCHANGED <<cache, counters, db, pending, cells>>

Init ==
    /\ cache = [k \in Counter |-> NoEntry]
    /\ counters = [k \in Counter |-> None]
    /\ gauges = [g \in Gauge |-> None]
    /\ gaugeLabels = {}
    /\ pc = "idle"
    /\ todo = {}
    /\ db \in Databases
    /\ result = NoResult
    /\ pending = {}
    /\ cells = {}
    /\ currGauges = {}
    /\ last = [d \in Databases |-> NoResult]

Next ==
    \/ \E dbs \in DatabaseSets : Collect(dbs)
    \/ \E d \in Databases, res \in Answers : Query(d, res)
    \/ QueryFails
    \/ \E l \in Labels : NextRow(l) \/ SkipRow(l)
    \/ BreakOff
    \/ \E c \in Columns, l \in Labels : CounterColumn(c, l) \/ GaugeColumn(c, l)
    \/ EndQuery

Spec == Init /\ [][Next]_vars

-----------------------------------------------------------------------------
(* Properties.                                                             *)

TypeOK ==
    /\ cache \in [Counter -> Entry \cup {NoEntry}]
    /\ counters \in [Counter -> Nat \cup {None}]
    /\ gauges \in [Gauge -> Nat \cup {None}]
    /\ gaugeLabels \subseteq Gauge
    /\ pc \in {"idle", "loop", "rows"}
    /\ todo \subseteq Databases
    /\ db \in Databases
    /\ result \in Results
    /\ pending \subseteq DOMAIN result
    /\ cells \subseteq Columns \X DOMAIN result
    /\ pc # "rows" => pending = {} /\ cells = {}
    /\ currGauges \subseteq Gauge
    /\ last \in [Databases -> Results]

(***************************************************************************)
(* The cache bounds what is exported and accounts for all of it: the       *)
(* exported counters are the cached ones, and none of them is behind the   *)
(* value last seen, across resets of the source, evictions and returns.    *)
(***************************************************************************)
CacheAccountsForCounters ==
    \A k \in Counter :
        /\ counters[k] = None <=> cache[k] = NoEntry
        /\ cache[k] # NoEntry => counters[k] >= cache[k].value

(***************************************************************************)
(* What counterAdd feeds a counter is never negative, at which Add would   *)
(* panic: while a counter is exported its value does not fall, across the  *)
(* resets of the source too.                                               *)
(***************************************************************************)
CountersNeverFall ==
    [][\A k \in Counter :
         counters[k] # None /\ counters'[k] # None => counters'[k] >= counters[k]]_vars

(***************************************************************************)
(* No more counters are exported than the cache may hold.                  *)
(***************************************************************************)
CountersBounded ==
    Capacity > 0 => Cardinality({k \in Counter : counters[k] # None}) <= Capacity

\* The counter k was in the last result of its database.
Seen(k) == k[3] \in DOMAIN last[k[2]] /\ last[k[2]][k[3]][k[1]] # Null

\* The counter k is in the result being read, and still to be updated.
Due(k) == k[2] = db /\ (k[3] \in pending \/ <<k[1], k[3]>> \in cells)

(***************************************************************************)
(* A counter that was read in the last result of its database and is in    *)
(* the present one keeps counting: the other rows of the result do not     *)
(* evict it before its turn, which would restart it.  This is what the     *)
(* factor 2 in the capacity of the cache is for.                           *)
(***************************************************************************)
CountersKeepCounting == \A k \in Counter : Seen(k) /\ Due(k) => counters[k] # None

(***************************************************************************)
(* Between runs the process exports what it read of the last result of     *)
(* every database: the counters and gauges of all these rows, each gauge   *)
(* with its value, and no gauge of any other row.  It holds with a single  *)
(* database.                                                               *)
(***************************************************************************)
ResultExported ==
    pc = "idle" =>
        /\ \A k \in Counter : Seen(k) => counters[k] # None
        /\ \A g \in Gauge :
             IF g[3] \in DOMAIN last[g[2]]
             THEN last[g[2]][g[3]][g[1]] \in {Null, gauges[g]}
             ELSE gauges[g] = None
=============================================================================
