# Verification of visus

TLA+ models of visus, the sidecar that runs SQL collections against CockroachDB
and log scanners beside it, and serves the results as prometheus metrics. TLC
checks the models on small instances; TLAPS proves their main safety properties
for every instance. `PROJECT.json` maps every definition to its lines of code.

## The system and its parts

Every CockroachDB node has a visus process. Configurations (collections, scans,
histograms) live in the `_visus` schema and are edited with the command line at
any time. A process consists of servers that refresh: they read the
configurations again on a timer and on SIGHUP, and adapt what runs.

| part | code (under `src/internal`) | model |
|---|---|---|
| collection server: refresh, jobs, registry | `collector/server.go`, `store/collection.go` | `CollectorServer` |
| cluster-scoped collections: the lease | `collector/server.go` (`start`) | `ClusterCollection` |
| collector: rows to counters and gauges | `collector/collector.go` | `Collector` |
| scanner server: refresh, tails | `scanner/server.go`, `scanner/scanner.go`, `store/scan.go` | `ScannerServer` |
| what both servers promise | | `Reconciler` |
| http server, metrics writer, `translator.Load` | `http/server.go`, `metric/writer.go`, `translator/translator.go`, `store/histogram.go` | `HistogramProxy` |
| bucket arithmetic of histograms | `translator/translator.go`, `translator/bucket.go` | `Log10Histogram` |
| connection pool | `database/pool.go`, `database/factory.go` | `Pool` |
| node registry: registration, heartbeat, TTL | `cmd/server/server.go`, `store/node.go`, `sql/ddl.sql`, `sql/listNodes.sql` | `NodeRegistry` |
| start order, SIGHUP loop, ways to end | `cmd/server/server.go`, `main.go` | `Lifecycle` |
| put, get and delete commands, YAML documents | `cmd/*/admin.go`, `cmd/*/yaml.go`, `cmd/env/env.go` | `Admin`, `ConfigFile` |
| the store interface, in-memory store | `store/store.go`, `store/memory.go` | `ConfigStore`, `Admin` |
| log parsers, schema script, TLS, `list` and `test` commands, test utilities | | not modelled (below) |

The parts meet in few places, and each model takes a neighbour it does not
contain as an input that may do anything the neighbour can.

- The servers share the scheduler, the registry and the pool; SIGHUP refreshes
  them one after the other. `Lifecycle` has that loop, composed with `Pool` and
  `NodeRegistry` (it EXTENDS both): heartbeats go through the very handle that
  the loop refreshes. For the loop, the refresh of a server is a step.
- The lease callback of `ClusterCollection` sets the `leaseHolder` flag that the
  refresh of `CollectorServer` reads. `CollectorServer` has a lease that comes
  and goes, `ClusterCollection` one collection that nobody edits.
- `CollectorServer` schedules the runs that `Collector` details; there, the query
  returns any result.
- `Admin` writes the rows that the servers read. Transactions are serializable,
  so for the servers a put or delete is one step; `Admin` shows that this is so
  (`StoreSpec`), and which properties of what is stored they may rely on
  (`StoredChecked`).
- `HistogramProxy` says which translators see which family and `Log10Histogram`
  what one of them does to the buckets.

## The models

**CollectorServer.** One process and the store. `rows` are the tables, `jobs`
is `s.mu.scheduledJobs`, `exported` and `descs` what the prometheus registry
holds (the second because a registry remembers the descriptor of a metric
name), `pc`, `todo`, `keep`, `coll` the local state of `lockedRefresh`, `failed`
a history of the names it could not read. The refresh holds `s.mu` but not the
store, so its queries are steps of their own: the names, then the row and the
metrics of each collection, then the decision (`Skip`, `KeepScheduled`,
`Schedule` and its failures), then `CleanupJobs`. Puts and deletes come in
between. A query may fail, or break off unnoticed (`rows.Err()` is not
consulted; `"truncate"` in `Faults`). `Panic` is the nil dereference of a
collection deleted after it was listed; the process restarts.

**ScannerServer.** The same for scans, but its refresh holds no lock from step to
step, so several `Threads` may refresh, and scanners are objects with a
goroutine of their own that opens the file (`OpenFile`). The queries for the names
and for the patterns of a scan may break off unnoticed (`"names"`, `"patterns"` in
`Faults`). With `PromptStart` a scanner that was started opens its file before a
refresh stops it (`MayStop`).

**Reconciler.** The promise of both servers, which `FollowsStore` states of each:
a job or scanner on record was made from one stored version of its configuration
(`running`), is replaced only by one of a newer version, and may be suspended
(`active`) but not resumed. Removal is always allowed: edits, failed reads, lost
rows and restarts make jobs disappear, and a later refresh may build them anew,
from the same version too. So the promise is about replacement, not about who is
removed and when, which is the matter of `UnchangedKeepsRunning` and `Converges`.

**ClusterCollection.** Any number of processes competing for the lease row. `cb`
is where the lease goroutine stands, `mu` the refresh that holds the mutex,
`holders` the `leaseHolder` flags, `running` who has the collection scheduled,
`erred` a history of the processes that failed to list the collections. Leases
expire, processes stop, crash and start again. The lease library is external.
The `releaseLease` branch, reached by tests only, is left out.

**Collector.** `Collect` row by row and column by column, because a scrape can
come at any time. `cache` is the LRU cache (`age` orders it), `counters` and
`gauges` are the exported vectors, `last` is a history of what was read of the
last result of every database. A query may fail, a row may not decode, a result
may break off; rows that were not read count as absent, as in the code. `Answers`
are the results a query may return.

**HistogramProxy.** The refresh of the http server builds a list of translators
and hands it to the writer; `translators` is the writer's list, `Nil` when it is
nil (families are copied) and otherwise a sequence. The scheduler's and SIGHUP's
refresh may overlap. A scrape takes the list once and writes family after
family; `Written` says what it writes: a family once for every matching
translator, each applied to the result of the one before. The server is taken to
run with `--prometheus` and `--rewrite-histograms`. Failing certificates are one
reason for `RefreshFails`.

**Log10Histogram.** `translate` and `addLog10Buckets`, one iteration of a loop per
step: `buckets` are the upstream's, `at` the one the outer loop visits, `curr`
and `new` the next bound and the buckets built. `Again` feeds the result to a
second translator of the same configuration. Bounds and widths are whole
numbers (`ConfigsAssumption`), where the code has floats; the logarithm is exact.
`LogLinear` says without iterating which bounds there are: in each decade the
lowest, and multiples of the width from there.

**Pool.** A handle points at a pgxpool; `Refresh` parses the certificates on disk
once, connects and pings until it succeeds, swaps the pointer, closes the old
pgxpool and waits until its connections are back. Users fetch the pointer under
the read lock and acquire a connection after it (`Get`, `Acquire`), so the
pgxpool may have been closed in between (`AcquireFails`).

**NodeRegistry.** Runs of processes with a row each; time in minutes. A statement
that fails may have taken effect. `Window` and `TTL` are the list filter and the
row-level TTL.

**Lifecycle.** One run of `visus start`. `at` is where the command stands (two
handles, registration, three servers), `round` where the SIGHUP loop stands,
`sigHup` the channel of capacity 1. A SIGHUP that comes before `signal.Notify` or
after `signal.Stop` kills the process; a certificate that does not parse is
`log.Fatal`, whose exit handler stops the process from inside the loop. The
database is lost and found at any time. The other users of a handle are
`UseHandle`.

**Admin, ConfigFile, ConfigStore.** `ConfigFile` has the conversions between YAML
documents and configurations: defaults, lower-casing, checks, seconds to
microseconds. `Admin` runs the commands of several sessions statement by
statement, on the SQL store (`rows`, `parts`, and `work`, what an open
transaction has written) or on the in-memory store (`mem`). A statement may fail,
a command may be interrupted, and the answer to a commit may be lost. `saved` is
a file with what `get` printed, which `put` may read again. The metrics or patterns
that `get` reads may be a part of those stored, since that query may break off
unnoticed, too. `ConfigStore` is the
promise of `store.Store`: concurrent requests, each of which replaces or deletes
the one configuration of a name as a whole, or has no effect, at some point
between call and return. `Abstract` in `Admin` maps the tables, or the in-memory
map, to it.

MC modules give the configurations; `<module>_<question>.cfg` is a run.

## The runs

| run | what it shows |
|---|---|
| `CollectorServer_edits` | Two collections, edited, disabled, deleted, recreated at any point of a refresh. `ScheduledIsCurrent`: a job that passes for current runs the stored configuration. `SeriesMatchCollectors`: a scheduled collector has its metrics exported as its own; other vectors with samples are left over from a replaced collector, for metrics that the one on record does not have. `UnchangedKeepsRunning`: unedited collections are not dropped, unless they could not be read. `FollowsStore`: the server implements `Reconciler`. `Converges`: the jobs become those of the store. |
| `ClusterCollection_handover` | `OneHolder`, `OneRunner`: among processes that did not fail to list collections, one settled holder and one settled runner. `HolderServes`: the lease is never kept without being served. `OneSidecarRunsUnlessErred`: the holder alone ends up running the collection. |
| `ClusterCollection_stuck` | violated: when the refresh after acquiring the lease fails, `leaseHolder` stays set, and two processes run the collection for good (`collector/server.go:187`). |
| `Collector_rows` | One database, more labels than the cache holds. `ResultExported`: between runs the series are those of what was read. `CacheAccountsForCounters`, `CountersBounded`: the cache and the exported counters agree, and are bounded. `CountersKeepCounting`: a counter of the present result is not evicted before its turn. `CountersNeverFall`: while it is exported a counter never goes down, also when its source is reset. |
| `Collector_databases` | violated: the query of one database deletes the gauges of the others (`collector.go:383`). |
| `ScannerServer_edits` | One refresh at a time, `PromptStart`, and lists of patterns that do not break off. `ScannersOnRecord`: no scanner reads a file out of reach of refreshes. `ScheduledIsCurrent`, `FollowsStore`, `Converges` as above. |
| `ScannerServer_overlap` | violated: of two refreshes at once, one has added a scanner to the map and not started it; the clean-up of the other takes it out of the map, and it is started and runs on out of reach (`scanner/server.go:146`). |
| `HistogramProxy_rewrite` | `LoadsWhatIsStored`: a list is complete when it is installed. `OneListPerScrape`: a response is the work of one list. `Converges`. |
| `Log10Histogram_translate` | `BoundsComplete`: up to the maximum, the new bounds are all the log-linear ones of the range, against a definition that does not iterate; past it there is at most the next one, if the maximum is no bound (nothing is said of the bounds past an `end` that cuts the histogram off at a bound). `Cumulative`: counts do not go down, across the seams of old buckets too. `Bracketed`: no sample moves past a bound the upstream knew of, except that from the last finite upstream bound on, and past `end`, new buckets have all the samples. `Idempotent`: a second translation changes nothing. `Ends`: the loops end, with an exact logarithm. |
| `Lifecycle_reload` | `HandleOpen`: a handle never points at a closed pgxpool. `NoPoolLeaked`, `OldDrained`: failed attempts leave nothing open, and a refresh returns with the old connections gone. `ReloadCostsOneBeat`: a reload costs one heartbeat at most. `LiveListed`, `ExitedUnlisted`, `StaysDeleted`, `RowsCollected`: the node list shows the live processes and not the dead ones, and a late heartbeat does not revive a row. `Reloads`: a SIGHUP during a reload is not lost (with certificates that the database accepts). |
| `Admin_commands` | `StoreSpec`: both stores implement `ConfigStore`, under concurrent commands and failures. `SavedRestores`: what `get` prints can be put back. `StoredChecked`: scopes, kinds, formats, labels and the fields with defaults are in either store as `put` checks or sets them. `NoOrphans`: transactions leave nothing behind. `SuccessMeansDone`: what reports success, on either store, has been done. Histograms are put with `enabled: true` only. |
| `Admin_disable` | violated: a histogram put with `enabled: false` is reported as stored, and is stored enabled (`store/histogram.go:94`), though `docs/deployment.md:307` has a configuration disabled this way. |

A property that holds may hold because of an exception or assumption it states.
These are the ones that matter, with other observations made on the way; none
has a run of its own.

*Refreshes.*
- A collection, scan or histogram deleted after the refresh listed it comes back
  as nil and is dereferenced: the process panics (`collector/server.go:276`,
  `scanner/server.go:160`, `translator/translator.go:73`). These are the
  `Panic` actions. No property forbids them; those that hold do so across the
  restart.
- An error reading one collection makes the refresh unschedule it until the next
  one (`collector/server.go:273`); `UnchangedKeepsRunning` excepts it.
- A metrics query that breaks off leaves a job with a part of its metrics until
  the next edit (`store/collection.go:163`), and a patterns query a scanner with a
  part of its patterns (`store/scan.go:146`); `ScheduledIsCurrent` and `Converges`
  need queries that do not.
- When a collector is replaced by one without some metric of the old one, or a
  set-up fails half way, vectors stay in the registry that no collector feeds
  (`collector/server.go:287`). What has samples is reported with its last values
  until the process exits, as `SeriesMatchCollectors` allows ("stale").
- With all histograms disabled the list of translators is empty but not nil, and
  the proxy drops every upstream histogram (`metric/writer.go:116`); `Converges`
  of `HistogramProxy` accepts it.
- A result that breaks off clears the gauges of the rows not read
  (`collector.go:319`), while a NULL keeps the old value (`collector.go:373`).
- A scanner stopped before its goroutine opened the file tails it for good
  (`scanner.go:141`); the runs assume `PromptStart`.
- While the loss of a lease has not been noticed two processes run a
  cluster-scoped collection; `OneHolder` and `OneRunner` are about settled ones.

*The process.*
- After an outage longer than the TTL the row is gone, heartbeats succeed without
  it, and the process is never listed again (`store/node.go:72`). `LiveListed`
  needs fewer misses, which `MaxMisses` bounds.
- A certificate that cannot be parsed on SIGHUP is `log.Fatal` (`pgxPool`), though
  the comment at `cmd/server/server.go:159` has the process go on.
- The retry loop of `pgxPool` reuses what it parsed, so certificates that the
  database refuses block the SIGHUP loop even after the files are mended.
  `Reloads` is checked with `Rejected = {}`.
- SIGHUP kills a process that is still starting, or whose loop has returned.

*Configurations.*
- `put` accepts a frequency of zero, which the scheduler refuses, a negative number
  of bins, with which `translate` panics when it allocates buckets
  (`translator.go:127`), and a regex that does not compile, which the servers
  refuse. `StoredChecked` does not exclude them, and the documents of `MCAdmin`
  have them.
- The in-memory store honours `enabled` of a histogram, unlike the SQL store.
- `get` reads the row and the metrics in two statements, and may print the row of
  one put with the metrics of another. `SavedRestores` is about what it read.
- The in-memory store accepts two metrics of one name, which the primary key of
  the SQL store refuses; hence the exception in `StoredChecked`. Its `Heartbeat` loads
  and stores in two steps.
- A negative `start` passes `histogram put`. `Log10Histogram` has positive ones.
- What `get` prints while another session puts may be such a mix, and a later put
  of the file stores it: each store keeps its promise, the file does not.

*Histograms.*
- From the last finite upstream bound on, new buckets hold all samples, those of
  `+Inf` included.
- With an `end` that is itself a bound and below an upstream bound, the bound after
  it appears as well, with all samples (`bucket.go:90`), though the example of
  `README.md:303` is to "keep buckets between 1ms and 20sec" and
  `store/histogram.go:33` calls `end` "the maximum value in the histogram".
  `BoundsComplete` leaves out what is past such an `end` (`Cut`).
- `nextBin` relies on `math.Log10` being exact on powers of ten: a result just below
  would make it return its argument, and the loop would not end. The model's
  logarithm is exact; the faulty variant `NextBinLow` shows the other case.
- An upstream histogram with `+Inf` alone becomes one bucket at `start`, of which a
  second translator would make more; `Idempotent` leaves it out.
- The last bin of a decade is cut short at the power of ten when the width does not
  divide the decade from its lowest bound (25 bins from 10, 5 bins from 3).
  `LogLinear` has those bounds.

### Bounds

- Two names are enough for one collection to fail or change while another is
  visited, and three puts (two for scans) for an edit, a second edit during the
  refresh that reads the first, and a recreation. The four configurations of
  `MCCollectorServer` differ in metrics, labels, scope, enabling and frequency,
  so that the registry refuses some (with a part of their metrics registered) and
  the scheduler others.
- Three scanner objects are one per name and one being built.
- Two processes make a handover; the theorems have any number.
- Five labels exceed the capacity of 4 that `MaxResults = 2` gives the cache;
  `MaxExported` bounds the value of an exported counter. Labels are symmetric. The
  `Answers` of `Collector_rows` are results whose rows have the same values, among
  them NULL, and results of two different rows; `Collector_databases` and the
  theorems have all.
- Two families and two threads let a refresh come between families and overtake
  another; the tables start arbitrary, disabled rows and a refused regex
  included, so that one edit makes a list stale.
- `Lifecycle` has one run of a process, one user of each handle besides the loop
  (the heartbeat on `admin`), and two signals, so that one arrives during the
  reload that the other causes. `Window = 3` and `TTL = 5` scale the real values;
  `MaxOutage = 1` heartbeat lost to the database and one to each reload stay
  within `MaxMisses = 3`. The theorems have any number of runs, users and signals.
- `Admin` has two sessions (symmetric) and one name, because commands on different
  names touch different rows; the documents have a value of each sort that
  `yaml.go` tells apart, refused ones included. `Lower` covers the spellings in
  capitals and mixed case that the documents use.
- `Log10Histogram` has up to three finite bounds, on and off the ends of bins, three
  counts, 1, 2, 4, 5, 10, 20 and 25 bins, start 1, 3 and 10 (those combinations
  with bins of whole numbers), and an end before, at and beyond the upstream's
  bounds.

### Fairness

Refreshes recur because the scheduler runs them on a timer; a started refresh
goes on because queries answer or fail; the service manager restarts a process;
a free lease is acquired and the row of a dead process expires; `setLeaseHolder`
is strongly fair because Go's mutex does not starve its waiters. In `Lifecycle`
goroutines run, the scheduler attempts heartbeats, who has fetched a pgxpool uses
it and gives the connection back (statements end), a stopping process exits when
its grace period is over, minutes pass and the TTL job runs. The loops of
`Log10Histogram` are sequential code, which runs on. Failures, edits, signals,
outages, stops and crashes are never fair. The convergence properties assume
that they end (`NoDisturbance`, and `<>[]up` in `Reloads`), not that they do not
happen. `Admin` has no liveness properties: commands may stop anywhere.

## The proofs

For every value of the constants, from the `ASSUME`s of the modules and what the
second column names:

| theorem | argument |
|---|---|
| `CollectorServerProofs!SeriesCorrect` | `SeriesMatchCollectors` is inductive with the types and `RegistryInv`-like facts, with failing and broken-off queries |
| `CollectorServerProofs!CurrentCorrect` | `ScheduledIsCurrent`, if queries do not break off unnoticed. It is not inductive: `CurrentInv` adds that neither a job nor the collection being read is ahead of the stored row or the clock, and that equal timestamps mean equal configurations |
| `CollectorServerProofs!FollowsCorrect` | `FollowsStore`, the refinement of `Reconciler`: with `Versions` (no version is ahead of the clock) each action maps to a step of `Reconciler` or to a stutter |
| `CollectorServerProofs!UnchangedCorrect` | `UnchangedKeepsRunning`, if queries do not break off unnoticed. `KeptInv`: while a refresh runs, an unchanged job is still to be visited, kept, or among those it failed to read |
| `ScannerServerProofs!FollowsCorrect` | the same refinement, for one thread. `RefreshInv`: a scanner on record was built for its name (so no two names share one), the scan visited is not ahead of its row, and the scanner it replaces is older |
| `ScannerServerProofs!CurrentCorrect` | `ScheduledIsCurrent` for one thread, if lists of patterns do not break off. `StoredOK`: what has been read of the scan visited is what is stored, unless it was put again; in particular between the two queries of `GetScan` |
| `ScannerServerProofs!RecordCorrect` | `ScannersOnRecord` for one thread and `PromptStart`. `LiveInv`: a scanner whose file is not open yet belongs to the refresh under way, which has confirmed it, so neither the replacement nor the clean-up can meet it before `Stop` works |
| `ClusterCollectionProofs!HolderCorrect` | `ServesInv` ties the place of the callback to the flag |
| `ClusterCollectionProofs!OneHolderCorrect`, `OneRunnerCorrect` | `HandoverInv`: a process that did not fail a refresh and waits for the lease has cleared its flag, and the refresh that made up for a skipped one has dropped the job, or is going to |
| `CollectorProofs!NeverFallCorrect` | `CountersNeverFall`, from the types: the difference to the cached value, or after a reset the new value, is not negative (`CounterAddRises`) |
| `CollectorProofs!AccountsCorrect` | `CacheAccountsForCounters` is inductive; the lemma on `CounterAdd` has the eviction case |
| `CollectorProofs!BoundedCorrect` | `CountersBounded`: the series of a counter have keys of the cache, which has at most its capacity of them |
| `CollectorProofs!KeepCountingCorrect` | `CountersKeepCounting`, with one database: the keys of the rows read so far are the newest of the cache, and a result has fewer than the capacity |
| `CollectorProofs!ExportedCorrect` | `ResultExported`, with one database: row by row, the gauges are those of the rows read, and the ones left to delete are of no such row |
| `HistogramProxyProofs!LoadsCorrect` | `LoadsWhatIsStored` is inductive with the types: an edit touches every load under way |
| `HistogramProxyProofs!OneListCorrect` | `OneListPerScrape`: what a scrape has written is what the list that it took makes of the families it has passed |
| `LifecycleProofs!LiveListedCorrect` | of `NodeRegistry`, if `MaxMisses + 1 < TTL`; `AgeInv` relates the age of a row to the heartbeats missed |
| `LifecycleProofs!ExitedUnlistedCorrect`, `StaysDeletedCorrect` | of `NodeRegistry`. `GoneInv`: the row of an ended run is at least as old as its end |
| `LifecycleProofs!ReloadKeepsListed`, `ProcessLeavesCorrect` | `LiveListed`, `ExitedUnlisted` and `StaysDeleted` of the process, by the registry's theorems: every step of the process is one of `NodeRegistry` or leaves its variables alone (`RegistrySteps`) |
| `LifecycleProofs!HandleOpenCorrect`, `NoLeakCorrect`, `DrainedCorrect` | `PoolInv` says which pgxpools are open at each stage of a refresh; it is preserved by the steps of `Pool`, to which `StepsOfPool` reduces the steps of the process |
| `LifecycleProofs!ReloadCostCorrect` | `BeatInv`: the heartbeats missed are those of the outage and one per replaced pgxpool; a heartbeat that has fetched a pgxpool since replaced has not yet been counted |
| `AdminProofs!NoOrphansCorrect`, `SuccessCorrect` | the second if no histogram is put disabled (`OnlyEnabled`). `AdminInv` ties what an open transaction has written to the statement it has reached |
| `AdminProofs!SavedCorrect`, `CheckedCorrect` | `SavedRestores`, `StoredChecked`, for all documents. The lemmas on the conversions (`RoundTrip...`, `LowerFacts`, `RowTypes`) say what `yaml.go` accepts and prints; `ContentInv` follows a configuration from the document through the statements to the tables and to the file |
| `AdminProofs!StoreCorrect` | `StoreSpec`, the refinement of `ConfigStore`, if no histogram is put disabled (`OnlyEnabled`): a request takes effect when its transaction commits, whether or not the answer arrives, or when the in-memory map is written; all other steps are a call, a return or a stutter. The argument is `AdminInv`'s: at the commit, `work` is the request |
| `Log10HistogramProofs!CumulativeCorrect`, `BracketedCorrect` | `HistogramInv`: the old buckets behind `at` end at or before `curr`, the new ones before it, and no count so far exceeds the next. The share of a bucket goes up with the bound and stays between the old counts, whatever is rounded off (`CountAtIs`) |
| `Log10HistogramProofs!BoundsCorrect` | `BoundsInv`: the bounds of the new buckets are those of `LogLinear` from the first old bound up to `curr`. `BinAfterNext` is the heart: `nextBin` of a bound is the next bound, within a decade and across its end. `PastInv`: a bound past the maximum is added only when the maximum is no bound, unless `Cut` |
| `Log10HistogramProofs!IdempotentCorrect` | `ChainInv`, `FirstInv`, `SecondInv`: each new bound is `nextBin` of the one before, so the second translation meets each bucket of the first when `curr` is its bound, where the share is nothing |

Every proof module establishes the types first (`TypeCorrect`, or a part of the
invariant); the runs do not repeat them. For `HistogramProxy` they say that no
refused regex is ever installed.

`KeepCountingCorrect` and `ExportedCorrect` assume a single database, and
`Collector_databases` shows that the second needs it: the rows of different
databases share the cache and the vectors.

Three assumptions tell the provers what TLC evaluates: `StringAssumption` that the
literals of the model are strings, `PowerAssumption` what powers of ten are, and
`NoneAssumption` that `None` is no configuration. Induction over the natural
numbers, which the powers of ten need, goes through `Least`: a set of natural
numbers has a least element, since inclusion of finite sets is well-founded.

Only model-checked, because the prover does not reason about fairness and
`ENABLED`: everything about liveness (the `Converges` properties,
`OneSidecarRunsUnlessErred`, `RowsCollected`, `Reloads`, `Ends`). Every other
property of a passing run is the subject of a theorem.

## Not modelled

- The log parsers (`crdbv2.go`, `crdbv2auth.go`) are functions of a line of text.
- The schema is one idempotent script, run before everything else.
- `list` prints names; `test` runs a collector, scanner or translator once, without
  a server.
- Certificates and TLS of the http server, except that a reload may fail.
- The node registry of the in-memory store, and `testutil`, which serve tests.
- Rounding of floating-point numbers in the buckets, and numbers of bins that are
  not positive.
- Assumptions of the models: `current_timestamp()` grows from put to put; the
  prefixed metric names of different collections differ; label columns come
  first in a result, labels are distinct, and counter columns are not negative;
  whoever sends SIGHUP has replaced the certificate files before.
