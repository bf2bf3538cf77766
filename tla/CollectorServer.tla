--------------------------- MODULE CollectorServer ---------------------------
(***************************************************************************)
(* The collector server of one visus process (internal/collector/server.go)*)
(* keeps the scheduled collectors in step with the collections stored in   *)
(* the _visus schema.  A refresh runs under the mutex s.mu: it lists the   *)
(* names, loads every collection with two queries (the row, then its       *)
(* metrics), builds and schedules the collectors whose configuration       *)
(* changed, and finally removes the ones that were not confirmed.  Other   *)
(* processes put and delete collections between any two of its queries,    *)
(* and the queries may fail.                                               *)
(*                                                                         *)
(* The prometheus registry remembers, for the lifetime of the process, the *)
(* descriptor (label names and help) under which a metric name was first   *)
(* registered, and refuses any other.  A collection's metric m is exported *)
(* as "<collection>_<metric>", here the pair of its name and m.            *)
(***************************************************************************)
EXTENDS Naturals, FiniteSets

CONSTANTS
    Names,       \* names of collections
    Metrics,     \* names of metrics, within a collection
    Labels,      \* label lists
    Helps,       \* help strings
    Absent,      \* stands for a metric that a configuration does not declare
    Configs,     \* the configurations operators put in the store
    NoRow,       \* no such row
    NoJob,       \* no such entry in scheduledJobs
    Faults,      \* the ways a query may fail: "error" and "truncate"
    MaxUpdates   \* bound on the number of puts

(***************************************************************************)
(* A collection as stored, less what no step below distinguishes (query,   *)
(* databases, maxResults).  help gives the help string of every metric.    *)
(***************************************************************************)
Config == [enabled   : BOOLEAN,
           scope     : {"node", "cluster"},
           frequency : Nat,
           labels    : Labels,
           help      : [Metrics -> Helps \cup {Absent}]]

Row == [updated : Nat, cfg : Config]

\* A collector in scheduledJobs: the configuration it was built from, and
\* whether its job is still in the scheduler.
Job == [updated : Nat, cfg : Config, scheduled : BOOLEAN]

Desc == [labels : Labels, help : Helps]

(***************************************************************************)
(* What the registry exports under a metric name: nothing, the vector of   *)
(* the collector in scheduledJobs, the vector of a collector since         *)
(* replaced ("stale": its samples are still reported), or the vector of a  *)
(* collector that never ran ("empty": no samples).                         *)
(***************************************************************************)
Exported == {"none", "job", "stale", "empty"}

ASSUME ConfigsAssumption == Configs \subseteq Config
ASSUME AbsentAssumption  == Absent \notin Helps
ASSUME NoRowAssumption   == NoRow \notin Row
ASSUME NoJobAssumption   == NoJob \notin Job
ASSUME FaultsAssumption  == Faults \subseteq {"error", "truncate"}
ASSUME BoundAssumption   == MaxUpdates \in Nat

VARIABLES
    rows,        \* the _visus.collection and _visus.metric tables
    clock,       \* current_timestamp() of the last put
    leaseHolder, \* s.mu.leaseHolder
    jobs,        \* s.mu.scheduledJobs
    exported,    \* registry: vector registered under a metric name
    descs,       \* registry: descriptor remembered for a metric name, if any
    pc,          \* where the refresh that holds s.mu stands
    todo,        \* names the refresh has still to visit
    keep,        \* newCollectors
    coll,        \* the collection being loaded
    failed       \* history: names this refresh could not read

store == <<rows, clock>>
registry == <<exported, descs>>
refresh == <<pc, todo, keep, coll, failed>>
vars == <<rows, clock, leaseHolder, jobs, exported, descs, pc, todo, keep, coll,
          failed>>

\* s.mu is held exactly while a refresh runs.
MuFree == pc = "idle"

MetricsOf(cfg) == {m \in Metrics : cfg.help[m] # Absent}

-----------------------------------------------------------------------------
(* The store, as the visus command line and other processes change it.     *)

\* current_timestamp() is assumed to grow from one put to the next.
PutCollection(n, cfg) ==
    /\ clock < MaxUpdates
    /\ clock' = clock + 1
    /\ rows' = [rows EXCEPT ![n] = [updated |-> clock + 1, cfg |-> cfg]]
    /\ UNCHANGED <<leaseHolder, jobs, registry, refresh>>

DeleteCollection(n) ==
    /\ rows[n] # NoRow
    /\ rows' = [rows EXCEPT ![n] = NoRow]
    /\ UNCHANGED <<clock, leaseHolder, jobs, registry, refresh>>

-----------------------------------------------------------------------------
(* The refresh.                                                            *)

\* setLeaseHolder waits for s.mu.
SetLeaseHolder(holder) ==
    /\ MuFree
    /\ leaseHolder # holder
    /\ leaseHolder' = holder
    /\ UNCHANGED <<store, jobs, registry, refresh>>

\* Refresh waits for s.mu; maybeRefresh does nothing when it is taken.
Refresh ==
    /\ MuFree
    /\ pc' = "names"
    /\ UNCHANGED <<store, leaseHolder, failed, jobs, registry, todo, keep, coll>>

\* The result of a query for the set S, when it reports no error.  rows.Err()
\* is not consulted after the loop over the result, so a query that breaks
\* off looks like one that returned fewer rows.
QueryResults(S) == IF "truncate" \in Faults THEN SUBSET S ELSE {S}

GetCollectionNames ==
    /\ pc = "names"
    /\ todo' \in QueryResults({n \in Names : rows[n] # NoRow})
    /\ keep' = {}
    /\ pc' = "loop"
    /\ UNCHANGED <<store, leaseHolder, failed, jobs, registry, coll>>

GetCollectionNamesFails ==
    /\ pc = "names"
    /\ "error" \in Faults
    /\ pc' = "idle"
    /\ UNCHANGED <<store, leaseHolder, failed, jobs, registry, todo, keep, coll>>

\* The first query of GetCollection.
GetCollection(n) ==
    /\ pc = "loop"
    /\ n \in todo
    /\ rows[n] # NoRow
    /\ coll' = [coll EXCEPT ![n] = rows[n]]
    /\ pc' = "metrics"
    /\ UNCHANGED <<store, leaseHolder, failed, jobs, registry, todo, keep>>

\* The second query of GetCollection reads whatever metrics are stored by now.
GetMetrics(n) ==
    /\ pc = "metrics"
    /\ coll[n] # NoRow
    /\ LET stored == IF rows[n] = NoRow THEN {} ELSE MetricsOf(rows[n].cfg)
       IN \E ms \in QueryResults(stored) :
            coll' = [coll EXCEPT ![n].cfg.help =
                       [m \in Metrics |-> IF m \in ms THEN rows[n].cfg.help[m]
                                                      ELSE Absent]]
    /\ pc' = "apply"
    /\ UNCHANGED <<store, leaseHolder, failed, jobs, registry, todo, keep>>

\* The body of the loop is done with n.
Visited(n) ==
    /\ todo' = todo \ {n}
    /\ coll' = [coll EXCEPT ![n] = NoRow]
    /\ pc' = "loop"

\* Either query fails: the error is logged, and n is not confirmed.
GetCollectionFails(n) ==
    /\ "error" \in Faults
    /\ \/ pc = "loop" /\ n \in todo
       \/ pc = "metrics" /\ coll[n] # NoRow
    /\ Visited(n)
    /\ failed' = failed \cup {n}
    /\ UNCHANGED <<store, leaseHolder, jobs, registry, keep>>

\* The process loses its memory, the registry included.
Exit ==
    /\ leaseHolder' = FALSE
    /\ jobs' = [n \in Names |-> NoJob]
    /\ exported' = [n \in Names |-> [m \in Metrics |-> "none"]]
    /\ descs' = [n \in Names |-> [m \in Metrics |-> {}]]
    /\ pc' = "exited"
    /\ todo' = {}
    /\ keep' = {}
    /\ coll' = [n \in Names |-> NoRow]
    /\ failed' = {}
    /\ UNCHANGED store

\* GetCollection returns a nil collection for a name deleted since it was
\* listed, and the refresh dereferences it.
Panic(n) ==
    /\ pc = "loop"
    /\ n \in todo
    /\ rows[n] = NoRow
    /\ Exit

Runnable(cfg) == cfg.enabled /\ (cfg.scope = "cluster" => leaseHolder)

Skip(n) ==
    /\ pc = "apply"
    /\ coll[n] # NoRow
    /\ ~Runnable(coll[n].cfg)
    /\ Visited(n)
    /\ UNCHANGED <<store, leaseHolder, failed, jobs, registry, keep>>

\* Faulty variant: the timestamps are not compared.
AlreadyScheduledAnyVersion(n) == jobs[n] # NoJob

AlreadyScheduled(n) == jobs[n] # NoJob /\ jobs[n].updated >= coll[n].updated

\* Faulty variant: an unchanged collection is not added to newCollectors.
KeepScheduledUnconfirmed(n) ==
    /\ pc = "apply"
    /\ coll[n] # NoRow
    /\ Runnable(coll[n].cfg)
    /\ AlreadyScheduled(n)
    /\ Visited(n)
    /\ UNCHANGED <<store, leaseHolder, failed, jobs, registry, keep>>

KeepScheduled(n) ==
    /\ pc = "apply"
    /\ coll[n] # NoRow
    /\ Runnable(coll[n].cfg)
    /\ AlreadyScheduled(n)
    /\ keep' = keep \cup {n}
    /\ Visited(n)
    /\ UNCHANGED <<store, leaseHolder, failed, jobs, registry>>

DescOf(cfg, m) == [labels |-> cfg.labels, help |-> cfg.help[m]]

\* The metrics of cfg that the registry accepts under their new descriptor.
Registrable(n, cfg) ==
    {m \in MetricsOf(cfg) : descs[n][m] \subseteq {DescOf(cfg, m)}}

\* The registry after the vectors of ms have been registered (each one replaces
\* the vector registered under its name), as the vectors of a collector that
\* is in the given state.  Register remembers the descriptor.
Register(n, cfg, ms, as) ==
    /\ exported' = [exported EXCEPT ![n] =
                      [m \in Metrics |-> IF m \in ms THEN as
                                         ELSE IF as = "job" /\ exported[n][m] = "job"
                                         THEN "stale" ELSE exported[n][m]]]
    /\ descs' = [descs EXCEPT ![n] =
                      [m \in Metrics |-> IF m \in ms THEN {DescOf(cfg, m)}
                                         ELSE descs[n][m]]]

\* The changed (or new) collection n is about to be scheduled.
Changed(n) ==
    /\ pc = "apply"
    /\ coll[n] # NoRow
    /\ Runnable(coll[n].cfg)
    /\ ~AlreadyScheduled(n)
    /\ keep' = keep \cup {n}
    /\ Visited(n)
    /\ UNCHANGED <<store, leaseHolder, failed>>

\* Faulty variants: the old job goes on running; the entry takes the timestamp
\* of the configuration that was refused.
RemoveJobForgotten(n) == jobs' = jobs

RemoveJobStamped(n) ==
    jobs' = IF jobs[n] = NoJob THEN jobs
            ELSE [jobs EXCEPT ![n].scheduled = FALSE, ![n].updated = coll[n].updated]

\* scheduler.RemoveByReference: the entry stays, its job does not.
RemoveJob(n) ==
    jobs' = IF jobs[n] = NoJob THEN jobs ELSE [jobs EXCEPT ![n].scheduled = FALSE]

\* FromCollection registers every metric, and the scheduler accepts the job.
Schedule(n) ==
    /\ Changed(n)
    /\ Registrable(n, coll[n].cfg) = MetricsOf(coll[n].cfg)
    /\ coll[n].cfg.frequency > 0
    /\ Register(n, coll[n].cfg, MetricsOf(coll[n].cfg), "job")
    /\ jobs' = [jobs EXCEPT ![n] = [updated   |-> coll[n].updated,
                                    cfg       |-> coll[n].cfg,
                                    scheduled |-> TRUE]]

\* FromCollection stops at the first metric the registry refuses.  The metrics
\* before it (in the order of the query, which is not specified) are
\* registered, and the refused one has already been unregistered.
FromCollectionFails(n) ==
    /\ Changed(n)
    /\ LET cfg == coll[n].cfg
       IN \E refused \in MetricsOf(cfg) \ Registrable(n, cfg),
             before \in SUBSET Registrable(n, cfg) :
            /\ exported' = [exported EXCEPT ![n] =
                              [m \in Metrics |-> IF m = refused THEN "none"
                                                 ELSE IF m \in before THEN "empty"
                                                 ELSE exported[n][m]]]
            /\ descs' = [descs EXCEPT ![n] =
                              [m \in Metrics |-> IF m \in before THEN {DescOf(cfg, m)}
                                                 ELSE descs[n][m]]]
    /\ RemoveJob(n)

\* The metrics are registered, then the scheduler refuses an interval of zero.
ScheduleFails(n) ==
    /\ Changed(n)
    /\ Registrable(n, coll[n].cfg) = MetricsOf(coll[n].cfg)
    /\ coll[n].cfg.frequency = 0
    /\ Register(n, coll[n].cfg, MetricsOf(coll[n].cfg), "empty")
    /\ RemoveJob(n)

\* lockedCleanupJobs removes the entries that were not confirmed, with the
\* metrics registered under the names of theirs.
CleanupJobs ==
    /\ pc = "loop"
    /\ todo = {}
    /\ jobs' = [n \in Names |-> IF n \in keep THEN jobs[n] ELSE NoJob]
    /\ exported' = [n \in Names |->
                      IF n \in keep \/ jobs[n] = NoJob THEN exported[n]
                      ELSE [m \in Metrics |-> IF m \in MetricsOf(jobs[n].cfg)
                                              THEN "none" ELSE exported[n][m]]]
    /\ pc' = "idle"
    /\ keep' = {}
    /\ failed' = {}
    /\ UNCHANGED <<store, leaseHolder, descs, todo, coll>>

-----------------------------------------------------------------------------
(* The process.                                                            *)

\* The process is stopped, or crashes for a reason of its own.
Stop == pc # "exited" /\ Exit

\* The service manager or an operator starts it again.
Restart ==
    /\ pc = "exited"
    /\ pc' = "idle"
    /\ UNCHANGED <<store, leaseHolder, failed, jobs, registry, todo, keep, coll>>

Init ==
    /\ rows = [n \in Names |-> NoRow]
    /\ clock = 0
    /\ leaseHolder = FALSE
    /\ jobs = [n \in Names |-> NoJob]
    /\ exported = [n \in Names |-> [m \in Metrics |-> "none"]]
    /\ descs = [n \in Names |-> [m \in Metrics |-> {}]]
    /\ pc = "idle"
    /\ todo = {}
    /\ keep = {}
    /\ coll = [n \in Names |-> NoRow]
    /\ failed = {}

RefreshStep ==
    \/ GetCollectionNames
    \/ \E n \in Names :
         \/ GetCollection(n)
         \/ GetMetrics(n)
         \/ Panic(n)
         \/ Skip(n)
         \/ KeepScheduled(n)
         \/ Schedule(n)
         \/ FromCollectionFails(n)
         \/ ScheduleFails(n)
    \/ CleanupJobs

Next ==
    \/ \E n \in Names : (\E cfg \in Configs : PutCollection(n, cfg)) \/ DeleteCollection(n)
    \/ \E holder \in BOOLEAN : SetLeaseHolder(holder)
    \/ Refresh
    \/ RefreshStep
    \/ GetCollectionNamesFails
    \/ \E n \in Names : GetCollectionFails(n)
    \/ Stop
    \/ Restart

Spec == Init /\ [][Next]_vars

\* The scheduler runs a refresh every --refresh interval, queries answer or
\* fail, and the service manager restarts the process.  At most one of the
\* three is possible at a time.
FairSpec == Spec /\ WF_vars(Refresh \/ RefreshStep \/ Restart)

-----------------------------------------------------------------------------
(* Properties.                                                             *)

TypeOK ==
    /\ rows \in [Names -> Row \cup {NoRow}]
    /\ clock \in Nat
    /\ leaseHolder \in BOOLEAN
    /\ jobs \in [Names -> Job \cup {NoJob}]
    /\ exported \in [Names -> [Metrics -> Exported]]
    /\ descs \in [Names -> [Metrics -> SUBSET Desc]]
    /\ pc \in {"idle", "names", "loop", "metrics", "apply", "exited"}
    /\ todo \subseteq Names
    /\ keep \subseteq Names
    /\ coll \in [Names -> Row \cup {NoRow}]
    /\ failed \subseteq Names

(***************************************************************************)
(* A collector that a refresh takes for "already scheduled" (its timestamp *)
(* is not before the stored one) runs exactly the stored configuration,    *)
(* and its job is in the scheduler: neither a put between the two queries  *)
(* of GetCollection nor a failed attempt to replace the collector makes    *)
(* the refresh settle for the wrong one.  It needs queries that do not     *)
(* break off silently.                                                     *)
(***************************************************************************)
ScheduledIsCurrent ==
    \A n \in Names :
        (jobs[n] # NoJob /\ rows[n] # NoRow /\ jobs[n].updated >= rows[n].updated)
            => jobs[n].cfg = rows[n].cfg /\ jobs[n].scheduled

(***************************************************************************)
(* What a scheduled collector collects is what the process exports: each   *)
(* of its metrics is registered with its own vector, under the descriptor  *)
(* of its configuration.  And the other way round, a vector with samples   *)
(* belongs to the collector in scheduledJobs (whose job may be gone, after *)
(* a failed replacement), or is left over from one that it replaced, and   *)
(* then only for a metric that the new configuration dropped.  What is     *)
(* left over is reported until the process exits: nothing unregisters it.  *)
(***************************************************************************)
SeriesMatchCollectors ==
    \A n \in Names, m \in Metrics :
        /\ (jobs[n] # NoJob /\ jobs[n].scheduled /\ m \in MetricsOf(jobs[n].cfg))
              => exported[n][m] = "job" /\ descs[n][m] = {DescOf(jobs[n].cfg, m)}
        /\ exported[n][m] = "job"
              => jobs[n] # NoJob /\ m \in MetricsOf(jobs[n].cfg)
        /\ (exported[n][m] = "stale" /\ jobs[n] # NoJob)
              => m \notin MetricsOf(jobs[n].cfg)

(***************************************************************************)
(* As long as the process runs, a collector whose configuration has not    *)
(* changed and that this process is still to run is not removed, whatever  *)
(* happens to the others, unless the refresh could not read that very      *)
(* collection.                                                             *)
(***************************************************************************)
UnchangedKeepsRunning ==
    [][\A n \in Names :
        ( /\ jobs[n] # NoJob
          /\ rows[n] # NoRow
          /\ rows[n].updated = jobs[n].updated
          /\ Runnable(rows[n].cfg)
          /\ n \notin failed
          /\ pc' # "exited" ) => jobs'[n] # NoJob]_vars

\* The version of its configuration that a collector was built from.
Running == [n \in Names |-> IF jobs[n] = NoJob THEN 0 ELSE jobs[n].updated]

\* The names whose collectors the scheduler runs.
Active == {n \in Names : jobs[n] # NoJob /\ jobs[n].scheduled}

Contract == INSTANCE Reconciler WITH running <- Running, active <- Active

(***************************************************************************)
(* The server implements Reconciler: however its queries interleave with   *)
(* puts and deletes, and whichever of them fail, an entry of scheduledJobs *)
(* is replaced only by one of a newer version, and an entry left without a *)
(* job by a failed replacement keeps its old version, so that the          *)
(* replacement is retried.  A refresh may remove any entry.                *)
(***************************************************************************)
FollowsStore == Contract!Spec

\* What refreshes make of a collection that is left alone: it runs as stored,
\* or, when the registry or the scheduler refuses it, does not run at all.
Settled(n) ==
    IF rows[n] # NoRow /\ Runnable(rows[n].cfg)
    THEN IF Registrable(n, rows[n].cfg) = MetricsOf(rows[n].cfg) /\ rows[n].cfg.frequency > 0
         THEN jobs[n] # NoJob /\ jobs[n].updated = rows[n].updated
         ELSE jobs[n] = NoJob \/ ~jobs[n].scheduled
    ELSE jobs[n] = NoJob

\* Queries succeed, the lease stays where it is and the process runs.
NoDisturbance ==
    /\ leaseHolder' = leaseHolder
    /\ pc' # "exited"
    /\ pc = "names" => pc' # "idle"
    /\ failed' \subseteq failed

(***************************************************************************)
(* Refreshes converge: once nobody disturbs the process any more, every    *)
(* collection eventually is, and stays, as the store has it.               *)
(***************************************************************************)
Converges == <>[][NoDisturbance]_vars => <>[](\A n \in Names : Settled(n))
=============================================================================
