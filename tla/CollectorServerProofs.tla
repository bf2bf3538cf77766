------------------------ MODULE CollectorServerProofs ------------------------
(***************************************************************************)
(* Proofs about CollectorServer for any set of collections, any set of     *)
(* configurations and any bound on the number of puts.                     *)
(***************************************************************************)
EXTENDS CollectorServer, TLAPS

-----------------------------------------------------------------------------
(* Type correctness.                                                       *)

\* A process that has just started, on an empty store, is well typed.
LEMMA InitType == Init => TypeOK
<1> SUFFICES ASSUME Init
             PROVE  TypeOK
  OBVIOUS
<1>1. exported \in [Names -> [Metrics -> Exported]]
  BY DEF Init, Exported
<1>2. descs \in [Names -> [Metrics -> SUBSET Desc]]
  BY DEF Init
<1> QED
  BY <1>1, <1>2, Zenon DEF Init, TypeOK

\* What the steps of the loop have in common.
LEMMA VisitedType ==
    ASSUME TypeOK, NEW n \in Names, Visited(n)
    PROVE  /\ todo' \subseteq Names
           /\ coll' \in [Names -> Row \cup {NoRow}]
           /\ pc' = "loop"
BY DEF TypeOK, Visited

\* A loaded collection has a configuration: its descriptors are descriptors.
LEMMA DescType ==
    ASSUME NEW cfg \in Config, NEW m \in MetricsOf(cfg)
    PROVE  DescOf(cfg, m) \in Desc
BY DEF Config, MetricsOf, DescOf, Desc

\* RemoveByReference keeps scheduledJobs well typed.
LEMMA RemoveJobType ==
    ASSUME TypeOK, NEW n \in Names, RemoveJob(n)
    PROVE  jobs' \in [Names -> Job \cup {NoJob}]
<1>1. CASE jobs[n] = NoJob
  BY <1>1 DEF TypeOK, RemoveJob
<1>2. CASE jobs[n] # NoJob
  <2>1. jobs[n] \in Job
    BY <1>2 DEF TypeOK
  <2>2. [jobs[n] EXCEPT !.scheduled = FALSE] \in Job
    BY <2>1, Zenon DEF Job
  <2>3. jobs' = [jobs EXCEPT ![n] = [jobs[n] EXCEPT !.scheduled = FALSE]]
    BY <1>2 DEF RemoveJob
  <2> QED
    BY <2>2, <2>3 DEF TypeOK
<1> QED
  BY <1>1, <1>2

\* Registering the metrics of a configuration keeps the registry well typed.
LEMMA RegisterType ==
    ASSUME TypeOK, NEW n \in Names, NEW cfg \in Config,
           NEW as \in {"job", "empty"}, Register(n, cfg, MetricsOf(cfg), as)
    PROVE  /\ exported' \in [Names -> [Metrics -> Exported]]
           /\ descs' \in [Names -> [Metrics -> SUBSET Desc]]
<1>1. exported' \in [Names -> [Metrics -> Exported]]
  BY Zenon DEF TypeOK, Register, Exported
<1>2. [m \in Metrics |-> IF m \in MetricsOf(cfg) THEN {DescOf(cfg, m)} ELSE descs[n][m]]
        \in [Metrics -> SUBSET Desc]
  BY DescType DEF TypeOK
<1>3. descs' \in [Names -> [Metrics -> SUBSET Desc]]
  BY <1>2 DEF TypeOK, Register
<1> QED
  BY <1>1, <1>3

\* Every step keeps the types.
LEMMA NextType == TypeOK /\ [Next]_vars => TypeOK'
<1> SUFFICES ASSUME TypeOK, [Next]_vars
             PROVE  TypeOK'
  OBVIOUS
<1>1. ASSUME NEW n \in Names, NEW cfg \in Configs, PutCollection(n, cfg)
      PROVE  TypeOK'
  <2>1. [updated |-> clock + 1, cfg |-> cfg] \in Row
    BY ConfigsAssumption DEF TypeOK, Row
  <2> QED
    BY <1>1, <2>1 DEF PutCollection, TypeOK, registry, refresh
<1>2. ASSUME NEW n \in Names, DeleteCollection(n)
      PROVE  TypeOK'
  BY <1>2 DEF DeleteCollection, TypeOK, registry, refresh
<1>3. ASSUME NEW holder \in BOOLEAN, SetLeaseHolder(holder)
      PROVE  TypeOK'
  BY <1>3 DEF SetLeaseHolder, TypeOK, store, registry, refresh
<1>4. CASE Refresh
  BY <1>4 DEF Refresh, TypeOK, store, registry
<1>5. CASE GetCollectionNames
  BY <1>5 DEF GetCollectionNames, QueryResults, TypeOK, store, registry
<1>6. ASSUME NEW n \in Names, GetCollection(n)
      PROVE  TypeOK'
  BY <1>6 DEF GetCollection, TypeOK, store, registry
<1>7. ASSUME NEW n \in Names, GetMetrics(n)
      PROVE  TypeOK'
  <2>1. PICK help : /\ coll' = [coll EXCEPT ![n].cfg.help = help]
                    /\ help \in [Metrics -> Helps \cup {Absent}]
    <3> DEFINE stored == IF rows[n] = NoRow THEN {} ELSE MetricsOf(rows[n].cfg)
    <3>1. PICK ms \in QueryResults(stored) :
             coll' = [coll EXCEPT ![n].cfg.help =
                        [m \in Metrics |-> IF m \in ms THEN rows[n].cfg.help[m] ELSE Absent]]
      BY <1>7 DEF GetMetrics
    <3>2. ms \subseteq stored
      BY DEF QueryResults
    <3>3. \A m \in ms : rows[n].cfg.help[m] \in Helps \cup {Absent}
      BY <3>2 DEF TypeOK, Row, Config, MetricsOf
    <3> DEFINE loaded == [m \in Metrics |-> IF m \in ms THEN rows[n].cfg.help[m] ELSE Absent]
    <3>4. loaded \in [Metrics -> Helps \cup {Absent}]
      BY <3>3
    <3>5. coll' = [coll EXCEPT ![n].cfg.help = loaded]
      BY <3>1
    <3> HIDE DEF loaded
    <3> QED
      BY <3>4, <3>5, Zenon
  <2>2. coll[n] \in Row
    BY <1>7 DEF GetMetrics, TypeOK
  <2>3. [coll[n] EXCEPT !.cfg.help = help] \in Row
    BY <2>1, <2>2 DEF Row, Config
  <2>4. coll' \in [Names -> Row \cup {NoRow}]
    BY <2>1, <2>3 DEF TypeOK
  <2> QED
    BY <1>7, <2>4 DEF GetMetrics, TypeOK, store, registry
<1>8. ASSUME NEW n \in Names, Panic(n)
      PROVE  TypeOK'
  BY <1>8, Zenon DEF Panic, Exit, TypeOK, Exported, store
<1>9. ASSUME NEW n \in Names, Skip(n) \/ KeepScheduled(n) \/ GetCollectionFails(n)
      PROVE  TypeOK'
  BY <1>9, VisitedType DEF Skip, KeepScheduled, GetCollectionFails, TypeOK, store, registry
<1>10. ASSUME NEW n \in Names, Changed(n)
       PROVE  /\ coll[n].cfg \in Config
              /\ coll[n].updated \in Nat
              /\ rows' \in [Names -> Row \cup {NoRow}]
              /\ clock' \in Nat
              /\ leaseHolder' \in BOOLEAN
              /\ pc' = "loop"
              /\ todo' \subseteq Names
              /\ keep' \subseteq Names
              /\ coll' \in [Names -> Row \cup {NoRow}]
              /\ failed' \subseteq Names
  BY <1>10, VisitedType DEF Changed, TypeOK, Row, store
<1>11. ASSUME NEW n \in Names, Schedule(n)
       PROVE  TypeOK'
  <2>1. Changed(n)
    BY <1>11 DEF Schedule
  <2>2. [updated |-> coll[n].updated, cfg |-> coll[n].cfg, scheduled |-> TRUE] \in Job
    BY <2>1, <1>10 DEF Job
  <2>3. jobs' \in [Names -> Job \cup {NoJob}]
    BY <1>11, <2>2 DEF Schedule, TypeOK
  <2>4. exported' \in [Names -> [Metrics -> Exported]] /\ descs' \in [Names -> [Metrics -> SUBSET Desc]]
    BY <1>11, <2>1, <1>10, RegisterType DEF Schedule
  <2> QED
    BY <2>1, <2>3, <2>4, <1>10 DEF TypeOK
<1>12. ASSUME NEW n \in Names, ScheduleFails(n)
       PROVE  TypeOK'
  <2>1. Changed(n) /\ RemoveJob(n)
    BY <1>12 DEF ScheduleFails
  <2>2. exported' \in [Names -> [Metrics -> Exported]] /\ descs' \in [Names -> [Metrics -> SUBSET Desc]]
    BY <1>12, <2>1, <1>10, RegisterType DEF ScheduleFails
  <2> QED
    BY <2>1, <2>2, <1>10, RemoveJobType DEF TypeOK
<1>13. ASSUME NEW n \in Names, FromCollectionFails(n)
       PROVE  TypeOK'
  <2>1. Changed(n) /\ RemoveJob(n)
    BY <1>13 DEF FromCollectionFails
  <2> DEFINE cfg == coll[n].cfg
  <2>2. PICK refused \in MetricsOf(cfg) \ Registrable(n, cfg),
             before \in SUBSET Registrable(n, cfg) :
            /\ exported' = [exported EXCEPT ![n] =
                              [m \in Metrics |-> IF m = refused THEN "none"
                                                 ELSE IF m \in before THEN "empty"
                                                 ELSE exported[n][m]]]
            /\ descs' = [descs EXCEPT ![n] =
                              [m \in Metrics |-> IF m \in before THEN {DescOf(cfg, m)}
                                                 ELSE descs[n][m]]]
    BY <1>13, Zenon DEF FromCollectionFails
  <2>3. exported' \in [Names -> [Metrics -> Exported]]
    BY <2>2 DEF TypeOK, Exported
  <2>4. before \subseteq MetricsOf(cfg) /\ cfg \in Config
    BY <2>1, <1>10 DEF Registrable
  <2>5. [m \in Metrics |-> IF m \in before THEN {DescOf(cfg, m)} ELSE descs[n][m]]
          \in [Metrics -> SUBSET Desc]
    <3> HIDE DEF cfg
    <3> QED BY <2>4, DescType DEF TypeOK
  <2>6. descs' \in [Names -> [Metrics -> SUBSET Desc]]
    BY <2>2, <2>5 DEF TypeOK
  <2> QED
    BY <2>1, <2>3, <2>6, <1>10, RemoveJobType DEF TypeOK
<1>14. CASE CleanupJobs
  <2>1. exported' \in [Names -> [Metrics -> Exported]]
    BY <1>14 DEF CleanupJobs, TypeOK, Exported
  <2> QED
    BY <1>14, <2>1 DEF CleanupJobs, TypeOK, store
<1>15. CASE GetCollectionNamesFails
  BY <1>15 DEF GetCollectionNamesFails, TypeOK, store, registry
<1>16. CASE Stop
  BY <1>16, Zenon DEF Stop, Exit, TypeOK, Exported, store
<1>17. CASE Restart
  BY <1>17 DEF Restart, TypeOK, store, registry
<1>18. CASE UNCHANGED vars
  BY <1>18 DEF vars, TypeOK
<1> QED
  BY <1>1, <1>2, <1>3, <1>4, <1>5, <1>6, <1>7, <1>8, <1>9, <1>11, <1>12, <1>13,
     <1>14, <1>15, <1>16, <1>17, <1>18 DEF Next, RefreshStep

(***************************************************************************)
(* The variables keep their types whatever collections are put and however *)
(* the queries fail.                                                       *)
(***************************************************************************)
THEOREM TypeCorrect == Spec => []TypeOK
BY InitType, NextType, PTL DEF Spec

-----------------------------------------------------------------------------
(* What runs is what is exported.                                          *)

\* The steps of a refresh that touch neither the collectors nor the registry.
LEMMA SeriesFrame ==
    SeriesMatchCollectors /\ UNCHANGED <<jobs, exported, descs>> => SeriesMatchCollectors'
BY DEF SeriesMatchCollectors, MetricsOf, DescOf

\* A failed attempt to replace the collector of n takes its job away.
LEMMA RemovedJob ==
    ASSUME TypeOK, NEW n \in Names, RemoveJob(n)
    PROVE  /\ \A k \in Names : k # n => jobs'[k] = jobs[k]
           /\ jobs[n] = NoJob => jobs'[n] = NoJob
           /\ jobs[n] # NoJob => /\ jobs'[n] # NoJob
                                /\ jobs'[n].cfg = jobs[n].cfg
                                /\ jobs'[n].updated = jobs[n].updated
                                /\ jobs'[n].scheduled = FALSE
<1>1. CASE jobs[n] = NoJob
  BY <1>1 DEF TypeOK, RemoveJob
<1>2. CASE jobs[n] # NoJob
  <2>1. jobs[n] \in Job
    BY <1>2 DEF TypeOK
  <2>2. jobs' = [jobs EXCEPT ![n] = [jobs[n] EXCEPT !.scheduled = FALSE]]
    BY <1>2 DEF RemoveJob
  <2>3. [jobs[n] EXCEPT !.scheduled = FALSE] \in Job
    BY <2>1, Zenon DEF Job
  <2>4. jobs'[n] = [jobs[n] EXCEPT !.scheduled = FALSE]
    BY <2>2 DEF TypeOK
  <2>5. \A k \in Names : k # n => jobs'[k] = jobs[k]
    BY <2>2 DEF TypeOK
  <2> QED
    BY <1>2, <2>1, <2>3, <2>4, <2>5, NoJobAssumption, Zenon DEF Job
<1> QED
  BY <1>1, <1>2, Zenon

\* Every step keeps the exported series in step with the collectors.
LEMMA NextSeries == TypeOK /\ SeriesMatchCollectors /\ [Next]_vars => SeriesMatchCollectors'
<1> SUFFICES ASSUME TypeOK, SeriesMatchCollectors, [Next]_vars
             PROVE  SeriesMatchCollectors'
  OBVIOUS
<1>1. ASSUME NEW n \in Names, NEW cfg \in Configs, PutCollection(n, cfg)
      PROVE  SeriesMatchCollectors'
  BY <1>1, SeriesFrame DEF PutCollection, registry
<1>2. ASSUME NEW n \in Names,
             \/ DeleteCollection(n) \/ GetCollection(n) \/ GetMetrics(n)
             \/ Skip(n) \/ KeepScheduled(n) \/ GetCollectionFails(n)
      PROVE  SeriesMatchCollectors'
  BY <1>2, SeriesFrame DEF DeleteCollection, GetCollection, GetMetrics, Skip,
     KeepScheduled, GetCollectionFails, registry
<1>3. ASSUME NEW holder \in BOOLEAN, SetLeaseHolder(holder)
      PROVE  SeriesMatchCollectors'
  BY <1>3, SeriesFrame DEF SetLeaseHolder, registry
<1>4. CASE Refresh \/ GetCollectionNames \/ GetCollectionNamesFails \/ Restart
  BY <1>4, SeriesFrame DEF Refresh, GetCollectionNames, GetCollectionNamesFails, Restart, registry
<1>5. CASE Exit
  BY <1>5 DEF Exit, SeriesMatchCollectors
<1>6. ASSUME NEW n \in Names, Schedule(n)
      PROVE  SeriesMatchCollectors'
  <2> DEFINE cfg == coll[n].cfg
             job == [updated |-> coll[n].updated, cfg |-> cfg, scheduled |-> TRUE]
  <2>1. coll[n] \in Row
    BY <1>6 DEF Schedule, Changed, TypeOK
  <2>2. job \in Job
    BY <2>1 DEF Job, Row
  <2>3. jobs' = [jobs EXCEPT ![n] = job]
    BY <1>6 DEF Schedule
  <2>4. Register(n, cfg, MetricsOf(cfg), "job")
    BY <1>6 DEF Schedule
  <2>5. jobs'[n] # NoJob /\ jobs'[n].cfg = cfg
    BY <2>2, <2>3, NoJobAssumption, Zenon DEF TypeOK
  <2> HIDE DEF job, cfg
  <2>6. \A m \in Metrics : /\ m \in MetricsOf(cfg) => exported'[n][m] = "job"
                                                      /\ descs'[n][m] = {DescOf(cfg, m)}
                           /\ m \notin MetricsOf(cfg) => exported'[n][m] # "job"
    BY <2>4 DEF Register, TypeOK
  <2>7. \A k \in Names : k # n => /\ exported'[k] = exported[k]
                                  /\ descs'[k] = descs[k]
                                  /\ jobs'[k] = jobs[k]
    BY <2>3, <2>4 DEF Register, TypeOK
  <2>8. ASSUME NEW k \in Names, NEW m \in Metrics, k = n
        PROVE  /\ m \in MetricsOf(jobs'[k].cfg)
                     => exported'[k][m] = "job" /\ descs'[k][m] = {DescOf(jobs'[k].cfg, m)}
               /\ exported'[k][m] = "job" => jobs'[k] # NoJob /\ m \in MetricsOf(jobs'[k].cfg)
               /\ exported'[k][m] = "stale" => m \notin MetricsOf(jobs'[k].cfg)
    BY <2>5, <2>6, <2>8
  <2> QED
    BY <2>7, <2>8 DEF SeriesMatchCollectors, MetricsOf, DescOf
<1>7. ASSUME NEW n \in Names, RemoveJob(n),
             \A m \in Metrics : exported'[n][m] \in {"job", "stale"} => exported'[n][m] = exported[n][m],
             \A k \in Names : k # n => exported'[k] = exported[k] /\ descs'[k] = descs[k]
      PROVE  SeriesMatchCollectors'
  <2>1. /\ \A k \in Names : k # n => jobs'[k] = jobs[k]
        /\ jobs[n] = NoJob => jobs'[n] = NoJob
        /\ jobs[n] # NoJob => /\ jobs'[n] # NoJob
                             /\ jobs'[n].cfg = jobs[n].cfg
                             /\ jobs'[n].scheduled = FALSE
    BY <1>7, RemovedJob, Zenon
  <2>2. ASSUME NEW k \in Names, NEW m \in Metrics, k # n
        PROVE  /\ (jobs'[k] # NoJob /\ jobs'[k].scheduled /\ m \in MetricsOf(jobs'[k].cfg))
                     => exported'[k][m] = "job" /\ descs'[k][m] = {DescOf(jobs'[k].cfg, m)}
               /\ exported'[k][m] = "job" => jobs'[k] # NoJob /\ m \in MetricsOf(jobs'[k].cfg)
               /\ (exported'[k][m] = "stale" /\ jobs'[k] # NoJob) => m \notin MetricsOf(jobs'[k].cfg)
    <3>1. jobs'[k] = jobs[k] /\ exported'[k] = exported[k] /\ descs'[k] = descs[k]
      BY <1>7, <2>1, <2>2
    <3> QED
      BY <3>1 DEF SeriesMatchCollectors
  <2>3. ASSUME NEW m \in Metrics
        PROVE  /\ ~(jobs'[n] # NoJob /\ jobs'[n].scheduled)
               /\ exported'[n][m] = "job" => jobs'[n] # NoJob /\ m \in MetricsOf(jobs'[n].cfg)
               /\ (exported'[n][m] = "stale" /\ jobs'[n] # NoJob) => m \notin MetricsOf(jobs'[n].cfg)
    <3>1. ~(jobs'[n] # NoJob /\ jobs'[n].scheduled)
      BY <2>1
    <3>2. ASSUME exported'[n][m] = "job"
          PROVE  jobs'[n] # NoJob /\ m \in MetricsOf(jobs'[n].cfg)
      <4>1. jobs[n] # NoJob /\ m \in MetricsOf(jobs[n].cfg)
        BY <1>7, <3>2 DEF SeriesMatchCollectors
      <4>2. jobs'[n] # NoJob /\ jobs'[n].cfg = jobs[n].cfg
        BY <2>1, <4>1
      <4> QED
        BY <4>1, <4>2
    <3>3. ASSUME exported'[n][m] = "stale", jobs'[n] # NoJob
          PROVE  m \notin MetricsOf(jobs'[n].cfg)
      <4>1. jobs[n] # NoJob /\ jobs'[n].cfg = jobs[n].cfg
        BY <2>1, <3>3, Zenon
      <4>2. m \notin MetricsOf(jobs[n].cfg)
        BY <1>7, <3>3, <4>1, Zenon DEF SeriesMatchCollectors
      <4> QED
        BY <4>1, <4>2
    <3> QED
      BY <3>1, <3>2, <3>3
  <2> QED
    BY <2>2, <2>3 DEF SeriesMatchCollectors, MetricsOf, DescOf
<1>8. ASSUME NEW n \in Names, ScheduleFails(n)
      PROVE  SeriesMatchCollectors'
  <2>1. RemoveJob(n) /\ Register(n, coll[n].cfg, MetricsOf(coll[n].cfg), "empty")
    BY <1>8 DEF ScheduleFails
  <2>2. \A m \in Metrics : exported'[n][m] \in {"job", "stale"} => exported'[n][m] = exported[n][m]
    BY <2>1 DEF Register, TypeOK
  <2>3. \A k \in Names : k # n => exported'[k] = exported[k] /\ descs'[k] = descs[k]
    BY <2>1 DEF Register, TypeOK
  <2> QED
    BY <2>1, <2>2, <2>3, <1>7
<1>9. ASSUME NEW n \in Names, FromCollectionFails(n)
      PROVE  SeriesMatchCollectors'
  <2>1. RemoveJob(n)
    BY <1>9 DEF FromCollectionFails
  <2>2. \A m \in Metrics : exported'[n][m] \in {"job", "stale"} => exported'[n][m] = exported[n][m]
    BY <1>9 DEF FromCollectionFails, TypeOK
  <2>3. \A k \in Names : k # n => exported'[k] = exported[k] /\ descs'[k] = descs[k]
    BY <1>9 DEF FromCollectionFails, TypeOK
  <2> QED
    BY <2>1, <2>2, <2>3, <1>7
<1>10. CASE CleanupJobs
  <2>1. \A n \in Names : jobs'[n] # NoJob => /\ jobs'[n] = jobs[n]
                                            /\ exported'[n] = exported[n]
                                            /\ descs'[n] = descs[n]
    BY <1>10 DEF CleanupJobs, TypeOK
  <2>2. ASSUME NEW n \in Names, NEW m \in Metrics, jobs'[n] = NoJob
        PROVE  exported'[n][m] # "job"
    BY <1>10, <2>2 DEF CleanupJobs, TypeOK, SeriesMatchCollectors
  <2> QED
    BY <2>1, <2>2 DEF SeriesMatchCollectors, MetricsOf, DescOf
<1>11. CASE UNCHANGED vars
  BY <1>11, SeriesFrame DEF vars
<1> QED
  BY <1>1, <1>2, <1>3, <1>4, <1>5, <1>6, <1>8, <1>9, <1>10, <1>11
     DEF Next, RefreshStep, Panic, Stop

(***************************************************************************)
(* Whatever is put, deleted and refused, and however queries fail, a       *)
(* scheduled collector's metrics are exported as its own, and a vector     *)
(* with samples is one of the collector on record, or left over for a      *)
(* metric that an edit dropped.                                            *)
(***************************************************************************)
THEOREM SeriesCorrect == Spec => []SeriesMatchCollectors
<1>1. Init => SeriesMatchCollectors
  BY DEF Init, SeriesMatchCollectors
<1> QED
  BY <1>1, TypeCorrect, NextSeries, PTL DEF Spec

-----------------------------------------------------------------------------
(* What counts as already scheduled is current.                            *)

(***************************************************************************)
(* ScheduledIsCurrent is not inductive: it has to be known, too, that      *)
(* timestamps only grow (so neither a collector nor a collection that is   *)
(* being loaded is ahead of the store), and that a collection being loaded *)
(* with the timestamp of the stored row has the configuration of that row, *)
(* although its two parts were read at different times.                    *)
(***************************************************************************)
CurrentFor(n) ==
    /\ rows[n] # NoRow => rows[n].updated <= clock
    /\ jobs[n] # NoJob => jobs[n].updated <= clock
    /\ coll[n] # NoRow => coll[n].updated <= clock
    /\ (jobs[n] # NoJob /\ rows[n] # NoRow) =>
          /\ jobs[n].updated <= rows[n].updated
          /\ jobs[n].updated = rows[n].updated => jobs[n].cfg = rows[n].cfg /\ jobs[n].scheduled
    /\ (coll[n] # NoRow /\ rows[n] # NoRow) =>
          /\ coll[n].updated <= rows[n].updated
          /\ coll[n].updated = rows[n].updated => coll[n].cfg = rows[n].cfg

CurrentInv == \A n \in Names : CurrentFor(n)

\* The strengthened invariant says what ScheduledIsCurrent says.
LEMMA CurrentImplies == TypeOK /\ CurrentInv => ScheduledIsCurrent
<1> SUFFICES ASSUME TypeOK, CurrentInv, NEW n \in Names,
                    jobs[n] # NoJob, rows[n] # NoRow, jobs[n].updated >= rows[n].updated
             PROVE  jobs[n].cfg = rows[n].cfg /\ jobs[n].scheduled
  BY DEF ScheduledIsCurrent
<1>1. jobs[n].updated \in Nat /\ rows[n].updated \in Nat
  BY DEF TypeOK, Job, Row
<1>2. CurrentFor(n)
  BY DEF CurrentInv
<1>3. jobs[n].updated = rows[n].updated
  BY <1>1, <1>2 DEF CurrentFor
<1> QED
  BY <1>2, <1>3 DEF CurrentFor

\* A step that touches nothing of n, or only forgets the collection that was
\* being loaded, leaves n current.
LEMMA CurrentFrame ==
    ASSUME CurrentInv, NEW n \in Names, clock' = clock, rows'[n] = rows[n], jobs'[n] = jobs[n],
           coll'[n] \in {coll[n], NoRow}
    PROVE  CurrentFor(n)'
BY DEF CurrentInv, CurrentFor

\* A step of the loop forgets the collection it visited, and no other.
LEMMA VisitedColl ==
    ASSUME TypeOK, NEW n \in Names, Visited(n)
    PROVE  \A k \in Names : coll'[k] \in {coll[k], NoRow}
BY DEF TypeOK, Visited

\* Every step keeps the strengthened invariant, as long as queries do not break off.
LEMMA NextCurrent ==
    ASSUME "truncate" \notin Faults, TypeOK, CurrentInv, [Next]_vars
    PROVE  CurrentInv'
<1> SUFFICES ASSUME NEW k \in Names
             PROVE  CurrentFor(k)'
  BY DEF CurrentInv
<1>1. ASSUME NEW n \in Names, NEW cfg \in Configs, PutCollection(n, cfg)
      PROVE  CurrentFor(k)'
  <2> DEFINE row == [updated |-> clock + 1, cfg |-> cfg]
  <2>1. /\ clock' = clock + 1 /\ rows' = [rows EXCEPT ![n] = row]
        /\ UNCHANGED <<jobs, coll>>
    BY <1>1 DEF PutCollection, refresh
  <2>2. /\ clock \in Nat
        /\ rows[k] # NoRow => rows[k].updated \in Nat
        /\ jobs[k] # NoJob => jobs[k].updated \in Nat
        /\ coll[k] # NoRow => coll[k].updated \in Nat
    BY DEF TypeOK, Row, Job
  <2>3. CurrentFor(k)
    BY DEF CurrentInv
  <2>4. CASE k = n
    <3>1. rows'[k].updated = clock + 1
      BY <2>1, <2>4 DEF TypeOK
    <3> QED
      BY <2>1, <2>2, <2>3, <3>1 DEF CurrentFor
  <2>5. CASE k # n
    <3>1. rows'[k] = rows[k]
      BY <2>1, <2>5 DEF TypeOK
    <3> QED
      BY <2>1, <2>2, <2>3, <3>1 DEF CurrentFor
  <2> QED
    BY <2>4, <2>5
<1>2. ASSUME NEW n \in Names, DeleteCollection(n)
      PROVE  CurrentFor(k)'
  <2>1. CurrentFor(k)
    BY DEF CurrentInv
  <2>2. rows'[k] \in {rows[k], NoRow} /\ UNCHANGED <<clock, jobs, coll>>
    BY <1>2 DEF DeleteCollection, refresh, TypeOK
  <2> QED
    BY <2>1, <2>2 DEF CurrentFor
<1>3. ASSUME NEW n \in Names, GetCollection(n)
      PROVE  CurrentFor(k)'
  <2>1. UNCHANGED <<rows, clock, jobs>> /\ coll' = [coll EXCEPT ![n] = rows[n]]
    BY <1>3 DEF GetCollection, store
  <2>2. rows[k] # NoRow => rows[k].updated \in Nat
    BY DEF TypeOK, Row
  <2>3. CurrentFor(k)
    BY DEF CurrentInv
  <2>4. CASE k = n
    <3>1. coll'[k] = rows[k]
      BY <2>1, <2>4 DEF TypeOK
    <3> QED
      BY <2>1, <2>2, <2>3, <3>1 DEF CurrentFor
  <2>5. CASE k # n
    <3>1. coll'[k] = coll[k]
      BY <2>1, <2>5 DEF TypeOK
    <3> QED
      BY <2>1, <3>1, CurrentFrame
  <2> QED
    BY <2>4, <2>5
<1>4. ASSUME NEW n \in Names, GetMetrics(n)
      PROVE  CurrentFor(k)'
  <2> DEFINE stored == IF rows[n] = NoRow THEN {} ELSE MetricsOf(rows[n].cfg)
             help == [m \in Metrics |-> IF m \in stored THEN rows[n].cfg.help[m] ELSE Absent]
  <2>1. UNCHANGED <<rows, clock, jobs>> /\ coll' = [coll EXCEPT ![n].cfg.help = help]
    BY <1>4, ZenonT(40) DEF GetMetrics, QueryResults, store
  <2>2. CASE k # n
    <3>1. coll'[k] = coll[k]
      BY <2>1, <2>2 DEF TypeOK
    <3> QED
      BY <2>1, <3>1, CurrentFrame
  <2>3. CASE k = n
    <3>1. CurrentFor(n) /\ coll[n] # NoRow /\ coll[n] \in Row /\ n \in DOMAIN coll
      BY <1>4 DEF CurrentInv, GetMetrics, TypeOK
    <3>2. coll'[n] = [coll[n] EXCEPT !.cfg.help = help]
      BY <2>1, <3>1 DEF TypeOK
    <3>3. coll'[n].updated = coll[n].updated
      BY <3>1, <3>2 DEF Row
    <3>4. ASSUME rows[n] # NoRow, coll[n].updated = rows[n].updated
          PROVE  coll'[n].cfg = rows[n].cfg
      <4>1. coll[n].cfg = rows[n].cfg /\ rows[n].cfg \in Config
        BY <3>1, <3>4 DEF CurrentFor, TypeOK, Row
      <4>2. help = rows[n].cfg.help
        BY <3>4, <4>1 DEF MetricsOf, Config
      <4>3. coll'[n].cfg = [coll[n].cfg EXCEPT !.help = help]
        BY <3>1, <3>2 DEF Row, Config
      <4> QED
        BY <4>1, <4>2, <4>3 DEF Config
    <3> QED
      BY <2>1, <2>3, <3>1, <3>3, <3>4, Zenon DEF CurrentFor
  <2> QED
    BY <2>2, <2>3
<1>5. ASSUME NEW n \in Names, Skip(n) \/ KeepScheduled(n) \/ GetCollectionFails(n)
      PROVE  CurrentFor(k)'
  BY <1>5, CurrentFrame, VisitedColl DEF Skip, KeepScheduled, GetCollectionFails, store
<1>6. ASSUME NEW n \in Names, Schedule(n)
      PROVE  CurrentFor(k)'
  <2> DEFINE job == [updated |-> coll[n].updated, cfg |-> coll[n].cfg, scheduled |-> TRUE]
  <2>1. /\ UNCHANGED <<rows, clock>> /\ coll'[k] \in {coll[k], NoRow}
        /\ jobs' = [jobs EXCEPT ![n] = job] /\ coll[n] # NoRow
    BY <1>6, VisitedColl, Zenon DEF Schedule, Changed, store
  <2>2. CASE k # n
    BY <2>1, <2>2, CurrentFrame DEF TypeOK
  <2>3. CASE k = n
    <3>1. CurrentFor(n)
      BY DEF CurrentInv
    <3>2. jobs'[n] = job
      BY <2>1 DEF TypeOK
    <3> QED
      BY <2>1, <2>3, <3>1, <3>2 DEF CurrentFor
  <2> QED
    BY <2>2, <2>3
<1>7. ASSUME NEW n \in Names, ScheduleFails(n) \/ FromCollectionFails(n)
      PROVE  CurrentFor(k)'
  <2>1. /\ UNCHANGED <<rows, clock>> /\ coll'[k] \in {coll[k], NoRow}
        /\ RemoveJob(n) /\ coll[n] # NoRow /\ ~AlreadyScheduled(n)
    BY <1>7, VisitedColl, Zenon DEF ScheduleFails, FromCollectionFails, Changed, store
  <2>2. CASE k # n
    BY <2>1, <2>2, CurrentFrame, RemovedJob, Zenon
  <2>3. CASE k = n /\ jobs[n] = NoJob
    <3>1. jobs'[n] = jobs[n]
      BY <2>1, <2>3, RemovedJob, Zenon
    <3> QED
      BY <2>1, <2>3, <3>1, CurrentFrame
  <2>4. CASE k = n /\ jobs[n] # NoJob
    <3>1. CurrentFor(n)
      BY DEF CurrentInv
    <3>2. jobs'[n] # NoJob /\ jobs'[n].cfg = jobs[n].cfg /\ jobs'[n].updated = jobs[n].updated
      BY <2>1, <2>4, RemovedJob, Zenon
    <3>3. jobs[n].updated \in Nat /\ coll[n].updated \in Nat
      BY <2>1, <2>4, Zenon DEF TypeOK, Job, Row
    <3>4. jobs[n].updated < coll[n].updated
      BY <2>1, <2>4, <3>3 DEF AlreadyScheduled
    <3>5. rows[n] # NoRow => rows[n].updated \in Nat /\ jobs[n].updated < rows[n].updated
      <4>1. rows[n] # NoRow => rows[n].updated \in Nat
        BY Zenon DEF TypeOK, Row
      <4> QED
        BY <2>1, <3>1, <3>3, <3>4, <4>1 DEF CurrentFor
    <3> QED
      BY <2>1, <2>4, <3>1, <3>2, <3>3, <3>5 DEF CurrentFor
  <2> QED
    BY <2>2, <2>3, <2>4
<1>8. CASE CleanupJobs
  <2>1. CurrentFor(k)
    BY DEF CurrentInv
  <2>2. UNCHANGED <<rows, clock, coll>> /\ jobs'[k] \in {jobs[k], NoJob}
    BY <1>8 DEF CleanupJobs, TypeOK, store
  <2> QED
    BY <2>1, <2>2, Zenon DEF CurrentFor
<1>9. CASE Exit
  <2>1. CurrentFor(k)
    BY DEF CurrentInv
  <2>2. UNCHANGED <<rows, clock>> /\ jobs'[k] = NoJob /\ coll'[k] = NoRow
    BY <1>9 DEF Exit, store
  <2> QED
    BY <2>1, <2>2, Zenon DEF CurrentFor
<1>10. ASSUME NEW holder \in BOOLEAN, SetLeaseHolder(holder)
       PROVE  CurrentFor(k)'
  BY <1>10, CurrentFrame DEF SetLeaseHolder, store, refresh
<1>11. CASE Refresh \/ GetCollectionNames \/ GetCollectionNamesFails \/ Restart
  BY <1>11, CurrentFrame DEF Refresh, GetCollectionNames, GetCollectionNamesFails, Restart, store
<1>12. CASE UNCHANGED vars
  BY <1>12, CurrentFrame DEF vars
<1> QED
  BY <1>1, <1>2, <1>3, <1>4, <1>5, <1>6, <1>7, <1>8, <1>9, <1>10, <1>11, <1>12
     DEF Next, RefreshStep, Panic, Stop

(***************************************************************************)
(* With queries that report their errors, a refresh never takes a          *)
(* collector for already scheduled that runs anything but the stored       *)
(* configuration, whatever is put and deleted between its queries.         *)
(***************************************************************************)
THEOREM CurrentCorrect ==
    ASSUME "truncate" \notin Faults
    PROVE  Spec => []ScheduledIsCurrent
<1>1. Init => CurrentInv
  BY Zenon DEF Init, CurrentInv, CurrentFor
<1>2. TypeOK /\ CurrentInv /\ [Next]_vars => CurrentInv'
  BY NextCurrent
<1> QED
  BY <1>1, <1>2, TypeCorrect, CurrentImplies, PTL DEF Spec

-----------------------------------------------------------------------------
(* The server implements Reconciler.                                       *)

\* Neither the rows nor the collection being loaded is ahead of the clock; this
\* much holds of queries that break off, too.
Versions ==
    \A n \in Names : /\ rows[n] # NoRow => rows[n].updated \in 1..clock
                     /\ coll[n] # NoRow => coll[n].updated \in 1..clock

LEMMA NextVersions ==
    ASSUME TypeOK, Versions, [Next]_vars
    PROVE  Versions'
<1>1. ASSUME NEW n \in Names, NEW cfg \in Configs, PutCollection(n, cfg)
      PROVE  Versions'
  <2> SUFFICES ASSUME NEW k \in Names
               PROVE  /\ rows'[k] # NoRow => rows'[k].updated \in 1..clock'
                      /\ coll'[k] # NoRow => coll'[k].updated \in 1..clock'
    BY DEF Versions
  <2>1. clock' = clock + 1 /\ clock \in Nat /\ coll' = coll
    BY <1>1 DEF PutCollection, refresh, TypeOK
  <2>2. rows'[k] = rows[k] \/ rows'[k].updated = clock + 1
    BY <1>1 DEF PutCollection, TypeOK
  <2> QED
    BY <2>1, <2>2 DEF Versions
<1>2. ASSUME clock' = clock, \A k \in Names : /\ rows'[k] \in {rows[k], NoRow}
                                              /\ coll'[k] \in {coll[k], rows[k], NoRow}
      PROVE  Versions'
  BY <1>2 DEF Versions
<1>3. ASSUME NEW n \in Names, DeleteCollection(n) \/ GetCollection(n) PROVE Versions'
  <2>1. /\ clock' = clock
        /\ \A k \in Names : /\ rows'[k] \in {rows[k], NoRow}
                            /\ coll'[k] \in {coll[k], rows[k], NoRow}
    BY <1>3 DEF DeleteCollection, GetCollection, store, refresh, TypeOK
  <2> QED
    BY <1>2, <2>1
<1>4. ASSUME NEW n \in Names, GetMetrics(n) PROVE Versions'
  <2>1. PICK h : coll' = [coll EXCEPT ![n].cfg.help = h]
    BY <1>4, Zenon DEF GetMetrics
  <2>2. UNCHANGED <<rows, clock>> /\ coll[n] \in Row
    BY <1>4 DEF GetMetrics, store, TypeOK
  <2>3. coll'[n].updated = coll[n].updated /\ \A k \in Names \ {n} : coll'[k] = coll[k]
    <3>1. coll'[n] = [coll[n] EXCEPT !.cfg.help = h]
      BY <2>1 DEF TypeOK
    <3> QED
      BY <2>1, <2>2, <3>1 DEF TypeOK, Row
  <2> QED
    BY <1>4, <2>2, <2>3 DEF Versions, GetMetrics
<1>5. ASSUME NEW n \in Names, Visited(n), UNCHANGED store PROVE Versions'
  BY <1>2, <1>5, VisitedColl DEF store
<1>6. ASSUME UNCHANGED <<store, coll>> PROVE Versions'
  BY <1>2, <1>6 DEF store
<1>7. CASE Exit
  BY <1>2, <1>7, Zenon DEF Exit, store
<1> QED
  BY <1>1, <1>3, <1>4, <1>5, <1>6, <1>7, Zenon
     DEF Next, RefreshStep, SetLeaseHolder, Refresh, GetCollectionNames, GetCollectionNamesFails,
         GetCollectionFails, Panic, Skip, KeepScheduled, Schedule, FromCollectionFails,
         ScheduleFails, Changed, CleanupJobs, Stop, Restart, refresh, vars, store

LEMMA NextFollows ==
    ASSUME TypeOK, Versions, [Next]_vars
    PROVE  [Contract!Next]_<<clock, Running, Active>>
<1>1. ASSUME clock' = clock, jobs' = jobs PROVE UNCHANGED <<clock, Running, Active>>
  BY <1>1 DEF Running, Active
<1>2. ASSUME NEW n \in Names, NEW cfg \in Configs, PutCollection(n, cfg)
      PROVE  Contract!Next
  <2>1. clock' = clock + 1 /\ Running' = Running /\ Active' = Active
    BY <1>2 DEF PutCollection, Running, Active
  <2> QED
    BY <2>1 DEF Contract!Next, Contract!Store
<1>3. ASSUME clock' = clock, NEW kept \in SUBSET Names,
             \A n \in Names : jobs'[n] = IF n \in kept THEN jobs[n] ELSE NoJob
      PROVE  Contract!Next
  <2>1. Running' = [n \in Names |-> IF n \in Names \ kept THEN 0 ELSE Running[n]]
    BY <1>3 DEF Running
  <2>2. Active' = Active \ (Names \ kept)
    BY <1>3 DEF Active
  <2>3. Contract!Remove(Names \ kept)
    BY <1>3, <2>1, <2>2 DEF Contract!Remove
  <2> QED
    BY <2>3 DEF Contract!Next
<1>4. ASSUME NEW n \in Names, Schedule(n) PROVE Contract!Next
  <2>1. /\ clock' = clock /\ coll[n] # NoRow /\ ~AlreadyScheduled(n)
        /\ jobs' = [jobs EXCEPT ![n] = [updated   |-> coll[n].updated,
                                        cfg       |-> coll[n].cfg,
                                        scheduled |-> TRUE]]
    BY <1>4, Zenon DEF Schedule, Changed, store
  <2>2. jobs'[n] # NoJob /\ jobs'[n].updated = coll[n].updated /\ jobs'[n].scheduled
    <3>1. coll[n] \in Row
      BY <2>1 DEF TypeOK
    <3>2. jobs'[n] \in Job /\ jobs'[n].updated = coll[n].updated /\ jobs'[n].scheduled
      BY <2>1, <3>1 DEF TypeOK, Row, Job
    <3> QED
      BY <3>2, NoJobAssumption
  <2>3. Running' = [Running EXCEPT ![n] = coll[n].updated]
    BY <2>1, <2>2, Zenon DEF Running, TypeOK
  <2>4. coll[n].updated \in Running[n] + 1..clock
    <3>1. coll[n].updated \in 1..clock /\ clock \in Nat
      BY <2>1 DEF Versions, TypeOK
    <3>2. CASE jobs[n] = NoJob
      BY <3>1, <3>2 DEF Running
    <3>3. CASE jobs[n] # NoJob
      BY <2>1, <3>1, <3>3 DEF Running, AlreadyScheduled, TypeOK, Job
    <3> QED
      BY <3>2, <3>3
  <2>5. Active' = Active \cup {n}
    BY <2>1, <2>2, Zenon DEF Active, TypeOK
  <2>6. Contract!Install(n)
    BY <2>1, <2>3, <2>4, <2>5, Zenon DEF Contract!Install
  <2> QED
    BY <2>6 DEF Contract!Next
<1>5. ASSUME NEW n \in Names, RemoveJob(n), clock' = clock PROVE Contract!Next
  <2>1. \A k \in Names : /\ jobs'[k] = NoJob <=> jobs[k] = NoJob
                         /\ jobs[k] # NoJob => jobs'[k].updated = jobs[k].updated
    BY <1>5, RemovedJob, Zenon
  <2>2. Running' = Running
    BY <2>1 DEF Running
  <2>3. Active' = Active \ {n}
    <3>1. CASE jobs[n] = NoJob
      BY <1>5, <3>1 DEF Active, RemoveJob
    <3>2. CASE jobs[n] # NoJob
      <4>1. jobs' = [jobs EXCEPT ![n].scheduled = FALSE] /\ jobs[n] \in Job
        BY <1>5, <3>2 DEF RemoveJob, TypeOK
      <4>2. ~jobs'[n].scheduled /\ \A k \in Names \ {n} : jobs'[k] = jobs[k]
        BY <4>1 DEF TypeOK, Job
      <4> QED
        BY <4>2 DEF Active
    <3> QED
      BY <3>1, <3>2
  <2>4. Contract!Suspend(n)
    BY <1>5, <2>2, <2>3 DEF Contract!Suspend
  <2> QED
    BY <2>4 DEF Contract!Next
<1>6. CASE CleanupJobs
  <2>1. clock' = clock /\ \A n \in Names : jobs'[n] = IF n \in keep THEN jobs[n] ELSE NoJob
    BY <1>6, Zenon DEF CleanupJobs, store
  <2> QED
    BY <1>3, <2>1, Zenon DEF TypeOK
<1>7. CASE Exit
  <2>1. clock' = clock /\ Running' = [n \in Names |-> 0] /\ Active' = {}
    BY <1>7 DEF Exit, store, Running, Active
  <2>2. Running' = [n \in Names |-> IF n \in Names THEN 0 ELSE Running[n]]
    BY <2>1
  <2>3. Contract!Remove(Names)
    BY <2>1, <2>2 DEF Contract!Remove, Active
  <2> QED
    BY <2>3 DEF Contract!Next
<1> QED
  BY <1>1, <1>2, <1>4, <1>5, <1>6, <1>7, Zenon
     DEF Next, RefreshStep, DeleteCollection, SetLeaseHolder, Refresh, GetCollectionNames,
         GetCollectionNamesFails, GetCollection, GetMetrics, GetCollectionFails, Panic, Skip,
         KeepScheduled, FromCollectionFails, ScheduleFails, Changed, Stop, Restart, refresh, vars,
         store

(***************************************************************************)
(* The collector server implements Reconciler, whatever the queries return *)
(* or leave out: no refresh replaces a collector by one of an older        *)
(* configuration, and a suspended one keeps the version it was built from. *)
(***************************************************************************)
THEOREM FollowsCorrect == Spec => FollowsStore
<1>1. Init => Contract!Init /\ Versions
  BY DEF Init, Contract!Init, Running, Active, Versions
<1>2. TypeOK /\ Versions /\ [Next]_vars => Versions'
  BY NextVersions
<1>3. TypeOK /\ Versions /\ [Next]_vars => [Contract!Next]_<<clock, Running, Active>>
  BY NextFollows
<1> QED
  BY <1>1, <1>2, <1>3, TypeCorrect, PTL DEF Spec, FollowsStore, Contract!Spec

-----------------------------------------------------------------------------
(* An unchanged collector goes on running.                                 *)

\* The collector of n runs what is stored, here, and the refresh has read it.
Unchanged(n) ==
    /\ jobs[n] # NoJob
    /\ rows[n] # NoRow
    /\ rows[n].updated = jobs[n].updated
    /\ Runnable(rows[n].cfg)
    /\ n \notin failed

(***************************************************************************)
(* The refresh that is about to clean up has confirmed every unchanged     *)
(* collection: it has still to visit it, or has put it into newCollectors. *)
(* A collection being loaded is not behind the collector it may replace.   *)
(***************************************************************************)
KeptFor(n) ==
    /\ coll[n] # NoRow /\ jobs[n] # NoJob => jobs[n].updated <= coll[n].updated
    /\ pc \in {"loop", "metrics", "apply"} /\ Unchanged(n) => n \in todo \cup keep

KeptInv == \A n \in Names : KeptFor(n)

\* A step that leaves n unchanged only if it was, keeps it confirmed.
LEMMA KeptFrame ==
    ASSUME KeptInv, NEW n \in Names, rows'[n] = rows[n], jobs'[n] = jobs[n], leaseHolder' = leaseHolder,
           coll'[n] \in {coll[n], NoRow}, failed \subseteq failed',
           n \in todo \cup keep => n \in todo' \cup keep' \cup failed',
           pc' \in {"loop", "metrics", "apply"} => pc \in {"loop", "metrics", "apply"}
    PROVE  KeptFor(n)'
BY DEF KeptInv, KeptFor, Unchanged, Runnable

\* The collection just loaded is the stored one, if the collector is.
LEMMA LoadedIsStored ==
    ASSUME TypeOK, CurrentInv, KeptInv, NEW n \in Names, coll[n] # NoRow, Unchanged(n)
    PROVE  coll[n].cfg = rows[n].cfg
<1>1. jobs[n].updated \in Nat /\ rows[n].updated \in Nat /\ coll[n].updated \in Nat
  BY DEF Unchanged, TypeOK, Job, Row
<1>2. CurrentFor(n) /\ KeptFor(n)
  BY DEF CurrentInv, KeptInv
<1>3. coll[n].updated = rows[n].updated
  BY <1>1, <1>2 DEF Unchanged, CurrentFor, KeptFor
<1> QED
  BY <1>2, <1>3, Zenon DEF CurrentFor, Unchanged

LEMMA NextKept ==
    ASSUME "truncate" \notin Faults, TypeOK, CurrentInv, KeptInv, [Next]_vars
    PROVE  KeptInv'
<1> SUFFICES ASSUME NEW k \in Names
             PROVE  KeptFor(k)'
  BY DEF KeptInv
<1>0. /\ clock \in Nat
      /\ rows[k] # NoRow => rows[k].updated \in Nat
      /\ jobs[k] # NoJob => jobs[k].updated \in Nat
      /\ coll[k] # NoRow => coll[k].updated \in Nat
      /\ CurrentFor(k) /\ KeptFor(k)
  BY DEF TypeOK, Row, Job, CurrentInv, KeptInv
<1>1. ASSUME NEW n \in Names, NEW cfg \in Configs, PutCollection(n, cfg)
      PROVE  KeptFor(k)'
  <2>1. UNCHANGED <<jobs, coll, pc, todo, keep, failed, leaseHolder>>
    BY <1>1 DEF PutCollection, refresh
  <2>2. CASE k # n
    <3>1. rows'[k] = rows[k]
      BY <1>1, <2>2 DEF PutCollection, TypeOK
    <3> QED
      BY <2>1, <3>1, KeptFrame, Zenon
  <2>3. CASE k = n
    <3>1. rows'[k].updated = clock + 1
      BY <1>1, <2>3 DEF PutCollection, TypeOK
    <3>2. ~Unchanged(k)'
      BY <1>0, <2>1, <3>1 DEF Unchanged, CurrentFor
    <3> QED
      BY <1>0, <2>1, <3>2, Zenon DEF KeptFor
  <2> QED
    BY <2>2, <2>3
<1>2. ASSUME NEW n \in Names, DeleteCollection(n) PROVE KeptFor(k)'
  <2>1. UNCHANGED <<jobs, coll, pc, todo, keep, failed, leaseHolder>>
    BY <1>2 DEF DeleteCollection, refresh
  <2>2. rows'[k] \in {rows[k], NoRow}
    BY <1>2 DEF DeleteCollection, TypeOK
  <2>3. Unchanged(k)' => Unchanged(k)
    BY <2>1, <2>2, Zenon DEF Unchanged, Runnable
  <2> QED
    BY <1>0, <2>1, <2>3, Zenon DEF KeptFor
<1>3. ASSUME NEW holder \in BOOLEAN, SetLeaseHolder(holder) PROVE KeptFor(k)'
  BY <1>0, <1>3, Zenon DEF SetLeaseHolder, MuFree, refresh, KeptFor
<1>4. CASE Refresh \/ GetCollectionNamesFails \/ Restart
  BY <1>0, <1>4, Zenon DEF Refresh, GetCollectionNamesFails, Restart, store, KeptFor
<1>5. CASE GetCollectionNames
  <2>1. todo' = {n \in Names : rows[n] # NoRow} /\ UNCHANGED <<store, jobs, coll>>
    BY <1>5 DEF GetCollectionNames, QueryResults
  <2>2. Unchanged(k)' => k \in todo'
    BY <2>1, Zenon DEF Unchanged, store
  <2> QED
    BY <1>0, <2>1, <2>2, Zenon DEF KeptFor
<1>6. ASSUME NEW n \in Names, GetCollection(n) PROVE KeptFor(k)'
  <2>1. UNCHANGED <<rows, jobs, leaseHolder, failed, todo, keep>> /\ pc = "loop"
    BY <1>6 DEF GetCollection, store
  <2>2. CASE k # n
    <3>1. coll'[k] = coll[k]
      BY <1>6, <2>2 DEF GetCollection, TypeOK
    <3> QED
      BY <2>1, <3>1, KeptFrame
  <2>3. CASE k = n
    <3>1. coll'[k] = rows[k] /\ rows[k] # NoRow
      BY <1>6, <2>3 DEF GetCollection, TypeOK
    <3>2. Unchanged(k)' => Unchanged(k)
      BY <2>1 DEF Unchanged, Runnable
    <3> QED
      BY <1>0, <2>1, <3>1, <3>2, Zenon DEF KeptFor, CurrentFor
  <2> QED
    BY <2>2, <2>3
<1>7. ASSUME NEW n \in Names, GetMetrics(n) PROVE KeptFor(k)'
  <2>1. PICK h : coll' = [coll EXCEPT ![n].cfg.help = h]
    BY <1>7, Zenon DEF GetMetrics
  <2>2. UNCHANGED <<rows, jobs, leaseHolder, failed, todo, keep>> /\ pc = "metrics"
        /\ coll[n] # NoRow /\ coll[n] \in Row
    BY <1>7 DEF GetMetrics, store, TypeOK
  <2>3. CASE k # n
    <3>1. coll'[k] = coll[k]
      BY <2>1, <2>3 DEF TypeOK
    <3> QED
      BY <2>2, <3>1, KeptFrame
  <2>4. CASE k = n
    <3>1. coll'[n] = [coll[n] EXCEPT !.cfg.help = h]
      BY <2>1 DEF TypeOK
    <3>2. coll'[k].updated = coll[k].updated
      BY <2>2, <2>4, <3>1 DEF Row
    <3>3. Unchanged(k)' => Unchanged(k)
      BY <2>2, Zenon DEF Unchanged, Runnable
    <3> QED
      BY <1>0, <2>2, <2>4, <3>2, <3>3, Zenon DEF KeptFor
  <2> QED
    BY <2>3, <2>4
<1>8. ASSUME NEW n \in Names, GetCollectionFails(n) PROVE KeptFor(k)'
  <2>1. /\ UNCHANGED <<rows, jobs, leaseHolder, keep>> /\ coll'[k] \in {coll[k], NoRow}
        /\ failed' = failed \cup {n} /\ todo' = todo \ {n}
        /\ pc \in {"loop", "metrics"}
    BY <1>8, VisitedColl DEF GetCollectionFails, Visited, store
  <2> QED
    BY <2>1, KeptFrame, Zenon
<1>9. ASSUME NEW n \in Names, Skip(n) PROVE KeptFor(k)'
  <2>1. /\ UNCHANGED <<rows, jobs, leaseHolder, failed, keep>> /\ coll'[k] \in {coll[k], NoRow}
        /\ todo' = todo \ {n} /\ pc = "apply"
        /\ coll[n] # NoRow /\ ~Runnable(coll[n].cfg)
    BY <1>9, VisitedColl DEF Skip, Visited, store
  <2>2. CASE k # n
    BY <2>1, <2>2, KeptFrame
  <2>3. CASE k = n
    <3>1. ~Unchanged(k)
      BY <2>1, <2>3, LoadedIsStored, Zenon DEF Unchanged
    <3>2. ~Unchanged(k)'
      BY <2>1, <3>1 DEF Unchanged, Runnable
    <3> QED
      BY <1>0, <2>1, <3>2, Zenon DEF KeptFor
  <2> QED
    BY <2>2, <2>3
<1>10. ASSUME NEW n \in Names, KeepScheduled(n) PROVE KeptFor(k)'
  <2>1. /\ UNCHANGED <<rows, jobs, leaseHolder, failed>> /\ coll'[k] \in {coll[k], NoRow}
        /\ todo' = todo \ {n} /\ keep' = keep \cup {n} /\ pc = "apply"
    BY <1>10, VisitedColl DEF KeepScheduled, Visited, store
  <2> QED
    BY <2>1, KeptFrame
<1>11. ASSUME NEW n \in Names, Changed(n),
              \A m \in Names \ {n} : jobs'[m] = jobs[m]
       PROVE  KeptFor(k)'
  <2>1. /\ UNCHANGED <<rows, leaseHolder, failed>> /\ coll'[k] \in {coll[k], NoRow}
        /\ todo' = todo \ {n} /\ keep' = keep \cup {n} /\ pc = "apply"
    BY <1>11, VisitedColl DEF Changed, Visited, store
  <2>2. CASE k # n
    BY <1>11, <2>1, <2>2, KeptFrame, Zenon
  <2>3. CASE k = n
    <3>1. coll'[k] = NoRow
      BY <1>11, <2>3 DEF Changed, Visited, TypeOK
    <3> QED
      BY <2>1, <2>3, <3>1 DEF KeptFor
  <2> QED
    BY <2>2, <2>3
<1>12. ASSUME NEW n \in Names, Schedule(n) \/ FromCollectionFails(n) \/ ScheduleFails(n)
       PROVE  KeptFor(k)'
  <2>1. Changed(n)
    BY <1>12, Zenon DEF Schedule, FromCollectionFails, ScheduleFails
  <2>2. \A m \in Names \ {n} : jobs'[m] = jobs[m]
    <3>1. CASE Schedule(n)
      BY <3>1, Zenon DEF Schedule, TypeOK
    <3>2. CASE RemoveJob(n)
      BY <3>2, RemovedJob, Zenon
    <3> QED
      BY <1>12, <3>1, <3>2, Zenon DEF FromCollectionFails, ScheduleFails
  <2> QED
    BY <1>11, <2>1, <2>2
<1>13. CASE CleanupJobs
  <2>1. pc' = "idle" /\ UNCHANGED coll /\ jobs'[k] \in {jobs[k], NoJob}
    BY <1>13, Zenon DEF CleanupJobs
  <2> QED
    BY <1>0, <2>1, Zenon DEF KeptFor
<1>14. CASE Exit
  BY <1>14 DEF Exit, KeptFor
<1>15. CASE UNCHANGED vars
  BY <1>15, KeptFrame, Zenon DEF vars
<1> QED
  BY <1>1, <1>2, <1>3, <1>4, <1>5, <1>6, <1>7, <1>8, <1>9, <1>10, <1>12, <1>13, <1>14, <1>15
     DEF Next, RefreshStep, Panic, Stop

(***************************************************************************)
(* With queries that report their errors, no refresh removes a collector   *)
(* whose collection is stored unchanged, is to run here and could be read, *)
(* whatever becomes of the others.                                         *)
(***************************************************************************)
THEOREM UnchangedCorrect ==
    ASSUME "truncate" \notin Faults
    PROVE  Spec => UnchangedKeepsRunning
<1>1. Init => CurrentInv /\ KeptInv
  BY Zenon DEF Init, CurrentInv, CurrentFor, KeptInv, KeptFor
<1>2. TypeOK /\ CurrentInv /\ [Next]_vars => CurrentInv'
  BY NextCurrent
<1>3. TypeOK /\ CurrentInv /\ KeptInv /\ [Next]_vars => KeptInv'
  BY NextKept
<1>4. ASSUME TypeOK, KeptInv, Next, NEW n \in Names, Unchanged(n), pc' # "exited"
      PROVE  jobs'[n] # NoJob
  <2>1. CASE CleanupJobs
    <3>1. n \in keep
      BY <1>4, <2>1, Zenon DEF CleanupJobs, KeptInv, KeptFor
    <3> QED
      BY <1>4, <2>1, <3>1, Zenon DEF CleanupJobs, Unchanged
  <2>2. CASE jobs' = jobs
    BY <1>4, <2>2, Zenon DEF Unchanged
  <2>3. ASSUME NEW m \in Names, Schedule(m) PROVE jobs'[n] # NoJob
    <3>1. coll[m] \in Row
      BY <1>4, <2>3, Zenon DEF Schedule, Changed, TypeOK
    <3>2. jobs'[n] = jobs[n] \/ jobs'[n] \in Job
      BY <1>4, <2>3, <3>1, Zenon DEF Schedule, TypeOK, Job, Row
    <3> QED
      BY <1>4, <3>2, NoJobAssumption DEF Unchanged
  <2>4. ASSUME NEW m \in Names, RemoveJob(m) PROVE jobs'[n] # NoJob
    BY <1>4, <2>4, RemovedJob, Zenon DEF Unchanged
  <2> QED
    BY <1>4, <2>1, <2>2, <2>3, <2>4, Zenon
       DEF Next, RefreshStep, PutCollection, DeleteCollection, SetLeaseHolder, Refresh,
           GetCollectionNames, GetCollectionNamesFails, GetCollection, GetMetrics,
           GetCollectionFails, Panic, Exit, Skip, KeepScheduled, FromCollectionFails,
           ScheduleFails, Stop, Restart
<1>5. TypeOK /\ KeptInv /\ [Next]_vars =>
        [\A n \in Names :
           ( /\ jobs[n] # NoJob
             /\ rows[n] # NoRow
             /\ rows[n].updated = jobs[n].updated
             /\ Runnable(rows[n].cfg)
             /\ n \notin failed
             /\ pc' # "exited" ) => jobs'[n] # NoJob]_vars
  BY <1>4 DEF Unchanged
<1> QED
  BY <1>1, <1>2, <1>3, <1>5, TypeCorrect, PTL DEF Spec, UnchangedKeepsRunning
=============================================================================
