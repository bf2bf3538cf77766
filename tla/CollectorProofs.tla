--------------------------- MODULE CollectorProofs ---------------------------
(***************************************************************************)
(* Proofs about Collector for any labels, metrics and databases, any       *)
(* values and every combination of faults.                                 *)
(***************************************************************************)
EXTENDS Collector, FiniteSetTheorems, TLAPS

-----------------------------------------------------------------------------
(* Type correctness.                                                       *)

\* The capacity of the cache is a number.
LEMMA CapacityType == Capacity \in Nat
  BY FS_CardinalityType, KindsAssumption, BoundsAssumption DEF Capacity

\* No rows is a result.
LEMMA NoResultType == NoResult \in Results /\ DOMAIN NoResult = {}
<1>1. {} \in {s \in SUBSET Labels : IsFiniteSet(s) /\ Cardinality(s) <= MaxResults}
  BY FS_EmptySet, BoundsAssumption
<1>2. NoResult \in [{} -> Row]
  BY DEF NoResult
<1> QED
  BY <1>1, <1>2 DEF Results, NoResult

\* A result gives a row to each of its labels.
LEMMA ResultType ==
    ASSUME NEW res \in Results, NEW l \in DOMAIN res
    PROVE  l \in Labels /\ res[l] \in Row
  BY DEF Results

\* A result without some of its rows is a result.
LEMMA WithoutType ==
    ASSUME result \in Results, NEW ls
    PROVE  Without(ls) \in Results /\ DOMAIN Without(ls) = DOMAIN result \ ls
<1> DEFINE rest == DOMAIN result \ ls
<1>1. PICK s \in SUBSET Labels : /\ IsFiniteSet(s) /\ Cardinality(s) <= MaxResults
                                 /\ result \in [s -> Row]
  BY DEF Results
<1>2. rest \subseteq s /\ DOMAIN result = s
  BY <1>1
<1>3. IsFiniteSet(rest) /\ Cardinality(rest) \in Nat /\ Cardinality(s) \in Nat
                       /\ Cardinality(rest) <= Cardinality(s)
  BY <1>1, <1>2, FS_Subset, FS_CardinalityType
<1>4. Cardinality(rest) <= MaxResults
  <2> HIDE DEF rest
  <2> QED BY <1>1, <1>3, BoundsAssumption
<1>5. Without(ls) \in [rest -> Row]
  BY <1>1, <1>2 DEF Without
<1>6. rest \in {t \in SUBSET Labels : IsFiniteSet(t) /\ Cardinality(t) <= MaxResults}
  BY <1>2, <1>3, <1>4
<1> QED
  BY <1>5, <1>6 DEF Results, Without

\* counterAdd keeps the cache and the counters well typed.
LEMMA CounterAddType ==
    ASSUME TypeOK, NEW k \in Counter, NEW v \in Nat, CounterAdd(k, v)
    PROVE  /\ cache' \in [Counter -> Entry \cup {NoEntry}]
           /\ counters' \in [Counter -> Nat \cup {None}]
<1>1. Used(k, v) \in [Counter -> Entry \cup {NoEntry}]
  BY DEF Used, TypeOK, Entry
<1>2. Delta(k, v) \in Nat
  BY DEF Delta, TypeOK, Entry
<1>3. cache' \in [Counter -> Entry \cup {NoEntry}]
  BY <1>1 DEF CounterAdd
<1>4. (IF counters[k] = None THEN 0 ELSE counters[k]) + Delta(k, v) \in Nat
  BY <1>2 DEF TypeOK
<1>5. counters' \in [Counter -> Nat \cup {None}]
  BY <1>4 DEF CounterAdd, TypeOK
<1> QED
  BY <1>3, <1>5

\* The key and the value of a counter or gauge column.
LEMMA CellType ==
    ASSUME TypeOK, NEW c \in Columns, NEW l \in Labels, <<c, l>> \in cells
    PROVE  /\ l \in DOMAIN result
           /\ result[l][c] \in Nat \cup {Null}
           /\ c \in Counters => <<c, db, l>> \in Counter
           /\ c \in Gauges => <<c, db, l>> \in Gauge
<1>1. l \in DOMAIN result
  BY DEF TypeOK
<1>2. result[l] \in Row
  BY <1>1, ResultType DEF TypeOK
<1> QED
  BY <1>1, <1>2, ValuesAssumption, Zenon DEF Row, Counter, Gauge, TypeOK

\* Every step keeps the types.
LEMMA NextType == TypeOK /\ [Next]_vars => TypeOK'
<1> SUFFICES ASSUME TypeOK, [Next]_vars
             PROVE  TypeOK'
  OBVIOUS
<1> USE DEF vectors, query
<1>1. ASSUME NEW dbs \in DatabaseSets, Collect(dbs)
      PROVE  TypeOK'
  BY <1>1 DEF Collect, TypeOK, Databases
<1>2. ASSUME NEW d \in Databases, NEW res \in Answers, Query(d, res)
      PROVE  TypeOK'
  <2>1. cells' = {}
    BY <1>2 DEF Query, TypeOK
  <2>2. res \in Results
    BY AnswersAssumption
  <2> QED
    BY <1>2, <2>1, <2>2 DEF Query, TypeOK
<1>3. CASE QueryFails
  BY <1>3 DEF QueryFails, TypeOK
<1>4. ASSUME NEW l \in Labels, NextRow(l) \/ SkipRow(l)
      PROVE  TypeOK'
  <2>1. CASE NextRow(l)
    BY <2>1 DEF NextRow, TypeOK
  <2>2. CASE SkipRow(l)
    <3>1. result' \in Results /\ DOMAIN result' = DOMAIN result \ {l}
      BY <2>2, WithoutType, Zenon DEF SkipRow, TypeOK
    <3> QED
      BY <2>2, <3>1, Zenon DEF SkipRow, TypeOK
  <2> QED
    BY <1>4, <2>1, <2>2
<1>5. CASE BreakOff
  <2>1. result' \in Results
    BY <1>5, WithoutType, Zenon DEF BreakOff, TypeOK
  <2> QED
    BY <1>5, <2>1 DEF BreakOff, TypeOK
<1>6. ASSUME NEW c \in Columns, NEW l \in Labels, CounterColumn(c, l)
      PROVE  TypeOK'
  <2>1. <<c, db, l>> \in Counter /\ result[l][c] \in Nat \cup {Null}
    BY <1>6, CellType DEF CounterColumn
  <2>2. /\ cache' \in [Counter -> Entry \cup {NoEntry}]
        /\ counters' \in [Counter -> Nat \cup {None}]
    BY <1>6, <2>1, CounterAddType DEF CounterColumn, TypeOK
  <2> QED
    BY <1>6, <2>2 DEF CounterColumn, TypeOK
<1>7. ASSUME NEW c \in Columns, NEW l \in Labels, GaugeColumn(c, l)
      PROVE  TypeOK'
  <2>1. <<c, db, l>> \in Gauge /\ result[l][c] \in Nat \cup {Null}
    BY <1>7, CellType DEF GaugeColumn
  <2>2. gauges' \in [Gauge -> Nat \cup {None}] /\ currGauges' \subseteq Gauge
    BY <1>7, <2>1 DEF GaugeColumn, TypeOK
  <2> QED
    BY <1>7, <2>2 DEF GaugeColumn, TypeOK
<1>8. CASE EndQuery
  BY <1>8, NoResultType DEF EndQuery, ClearObsoleteGauges, TypeOK
<1>9. CASE UNCHANGED vars
  BY <1>9 DEF vars, TypeOK
<1> QED
  BY <1>1, <1>2, <1>3, <1>4, <1>5, <1>6, <1>7, <1>8, <1>9 DEF Next

(***************************************************************************)
(* The variables keep their types.                                         *)
(***************************************************************************)
THEOREM TypeCorrect == Spec => []TypeOK
<1>1. Init => TypeOK
  BY NoResultType DEF Init, TypeOK
<1> QED
  BY <1>1, NextType, PTL DEF Spec

-----------------------------------------------------------------------------
(* Cache and counters.                                                     *)

\* What is added to a counter takes it at least to the value seen.
LEMMA DeltaSuffices ==
    ASSUME TypeOK, CacheAccountsForCounters, NEW k \in Counter, NEW v \in Nat
    PROVE  (IF counters[k] = None THEN 0 ELSE counters[k]) + Delta(k, v) >= v
<1>1. CASE cache[k] = NoEntry
  BY <1>1 DEF Delta, CacheAccountsForCounters, TypeOK
<1>2. CASE cache[k] # NoEntry
  <2>1. counters[k] \in Nat /\ cache[k] \in Entry /\ counters[k] >= cache[k].value
    BY <1>2 DEF CacheAccountsForCounters, TypeOK
  <2> QED
    BY <1>2, <2>1, ValuesAssumption DEF Delta, Entry
<1> QED
  BY <1>1, <1>2

\* counterAdd evicts from both the cache and the vectors, or from neither.
LEMMA CounterAddAccounts ==
    ASSUME TypeOK, CacheAccountsForCounters, NEW k \in Counter, NEW v \in Nat,
           CounterAdd(k, v)
    PROVE  CacheAccountsForCounters'
<1> DEFINE total == (IF counters[k] = None THEN 0 ELSE counters[k]) + Delta(k, v)
<1>1. total \in Nat /\ total >= v
  <2>1. Delta(k, v) \in Nat
    BY DEF Delta, TypeOK, Entry
  <2> QED
    BY <2>1, DeltaSuffices DEF TypeOK
<1> SUFFICES ASSUME NEW j \in Counter
             PROVE  /\ counters'[j] = None <=> cache'[j] = NoEntry
                    /\ cache'[j] # NoEntry => counters'[j] >= cache'[j].value
  BY DEF CacheAccountsForCounters
<1> HIDE DEF total
<1>2. CASE j \in Evicted(Used(k, v))
  BY <1>2 DEF CounterAdd
<1>3. CASE j \notin Evicted(Used(k, v)) /\ j = k
  <2>1. cache'[j] = [value |-> v, age |-> 0] /\ counters'[j] = total
    BY <1>3 DEF CounterAdd, Used, total
  <2>2. cache'[j] # NoEntry
    BY <2>1, EntryAssumption DEF Entry
  <2> QED
    BY <1>1, <2>1, <2>2, ValuesAssumption
<1>4. CASE j \notin Evicted(Used(k, v)) /\ j # k
  <2>1. cache'[j] = Used(k, v)[j] /\ counters'[j] = counters[j]
    BY <1>4 DEF CounterAdd
  <2>2. CASE cache[j] = NoEntry
    BY <1>4, <2>1, <2>2 DEF Used, CacheAccountsForCounters
  <2>3. CASE cache[j] # NoEntry
    <3>1. cache[j] \in Entry
      BY <2>3 DEF TypeOK
    <3>2. cache'[j] \in Entry /\ cache'[j].value = cache[j].value
      BY <1>4, <2>1, <2>3, <3>1 DEF Used, Entry
    <3>3. cache'[j] # NoEntry
      BY <3>2, EntryAssumption
    <3> QED
      BY <2>1, <2>3, <3>2, <3>3 DEF CacheAccountsForCounters
  <2> QED
    BY <2>2, <2>3
<1> QED
  BY <1>2, <1>3, <1>4

\* Only counterAdd changes the cache and the counters.
LEMMA NextCache ==
    ASSUME TypeOK, [Next]_vars
    PROVE  \/ UNCHANGED <<cache, counters>>
           \/ \E k \in Counter, v \in Nat : CounterAdd(k, v)
<1>1. ASSUME NEW c \in Columns, NEW l \in Labels, CounterColumn(c, l), result[l][c] # Null
      PROVE  \E k \in Counter, v \in Nat : CounterAdd(k, v)
  <2>1. <<c, db, l>> \in Counter /\ result[l][c] \in Nat
    BY <1>1, CellType DEF CounterColumn
  <2>2. CounterAdd(<<c, db, l>>, result[l][c])
    BY <1>1 DEF CounterColumn
  <2> QED
    BY <2>1, <2>2
<1>2. ASSUME NEW c \in Columns, NEW l \in Labels, CounterColumn(c, l), result[l][c] = Null
      PROVE  UNCHANGED <<cache, counters>>
  BY <1>2 DEF CounterColumn
<1>3. (\A c \in Columns, l \in Labels : ~CounterColumn(c, l)) => UNCHANGED <<cache, counters>>
  BY Zenon DEF Next, vars, vectors, Collect, Query, QueryFails, NextRow, SkipRow, BreakOff,
         GaugeColumn, EndQuery
<1> QED
  BY <1>1, <1>2, <1>3

\* Every step keeps the cache and the counters in step.
LEMMA NextAccounts ==
    TypeOK /\ CacheAccountsForCounters /\ [Next]_vars => CacheAccountsForCounters'
<1> SUFFICES ASSUME TypeOK, CacheAccountsForCounters, [Next]_vars
             PROVE  CacheAccountsForCounters'
  OBVIOUS
<1>1. CASE UNCHANGED <<cache, counters>>
  BY <1>1 DEF CacheAccountsForCounters
<1>2. CASE \E k \in Counter, v \in Nat : CounterAdd(k, v)
  BY <1>2, CounterAddAccounts
<1> QED
  BY <1>1, <1>2, NextCache

(***************************************************************************)
(* The exported counters are the cached ones, none of them behind the      *)
(* value last seen, whatever fails and whatever the capacity evicts.       *)
(***************************************************************************)
THEOREM AccountsCorrect == Spec => []CacheAccountsForCounters
<1>1. Init => CacheAccountsForCounters
  BY DEF Init, CacheAccountsForCounters
<1> QED
  BY <1>1, NextAccounts, TypeCorrect, PTL DEF Spec

\* counterAdd takes no counter down: what it adds is a natural number.
LEMMA CounterAddRises ==
    ASSUME TypeOK, NEW k \in Counter, NEW v \in Nat, CounterAdd(k, v), NEW j \in Counter,
           counters[j] # None, counters'[j] # None
    PROVE  counters'[j] >= counters[j]
<1>1. counters[j] \in Nat
  BY DEF TypeOK
<1>2. j \notin Evicted(Used(k, v))
  BY DEF CounterAdd
<1>3. CASE j = k
  <2>1. Delta(k, v) \in Nat
    BY DEF Delta, TypeOK, Entry
  <2>2. counters'[j] = counters[j] + Delta(k, v)
    BY <1>2, <1>3 DEF CounterAdd
  <2> QED
    BY <1>1, <2>1, <2>2
<1>4. CASE j # k
  BY <1>1, <1>2, <1>4 DEF CounterAdd
<1> QED
  BY <1>3, <1>4

(***************************************************************************)
(* No exported counter ever falls, whatever values the query has, smaller  *)
(* ones after a reset of the source included: counterAdd never asks a      *)
(* prometheus counter to add a negative number.                            *)
(***************************************************************************)
THEOREM NeverFallCorrect == Spec => CountersNeverFall
<1> DEFINE Rises == \A k \in Counter :
               counters[k] # None /\ counters'[k] # None => counters'[k] >= counters[k]
<1>1. TypeOK /\ [Next]_vars => [Rises]_vars
  <2> SUFFICES ASSUME TypeOK, [Next]_vars
               PROVE  Rises
    OBVIOUS
  <2>1. CASE UNCHANGED <<cache, counters>>
    BY <2>1 DEF TypeOK
  <2>2. CASE \E k \in Counter, v \in Nat : CounterAdd(k, v)
    BY <2>2, CounterAddRises
  <2> QED
    BY <2>1, <2>2, NextCache
<1> QED
  BY <1>1, TypeCorrect, PTL DEF Spec, CountersNeverFall

-----------------------------------------------------------------------------
(* The capacity bounds what is exported.                                   *)

(***************************************************************************)
(* The entries of the cache are in a row: no two have the same age, and    *)
(* none is older than the capacity allows.                                 *)
(***************************************************************************)
AgesOK ==
    /\ \A j, k \in Counter :
         j # k /\ cache[j] # NoEntry /\ cache[k] # NoEntry => cache[j].age # cache[k].age
    /\ Capacity > 0 => \A k \in Counter : cache[k] # NoEntry => cache[k].age < Capacity

\* The entries of the cache after k has been used.
LEMMA UsedEntry ==
    ASSUME TypeOK, NEW k \in Counter, NEW v \in Nat, NEW j \in Counter
    PROVE  /\ Used(k, v)[j] # NoEntry <=> j = k \/ cache[j] # NoEntry
           /\ j = k => Used(k, v)[j].age = 0
           /\ j # k /\ cache[j] # NoEntry =>
                Used(k, v)[j].age =
                  IF cache[k] = NoEntry \/ cache[j].age < cache[k].age
                  THEN cache[j].age + 1 ELSE cache[j].age
<1>1. CASE j = k
  <2>1. Used(k, v)[j] = [value |-> v, age |-> 0]
    BY <1>1 DEF Used
  <2> QED
    BY <1>1, <2>1, EntryAssumption DEF Entry
<1>2. CASE j # k /\ cache[j] = NoEntry
  BY <1>2 DEF Used
<1>3. CASE j # k /\ cache[j] # NoEntry
  <2>1. cache[j] \in Entry
    BY <1>3 DEF TypeOK
  <2>2. CASE cache[k] = NoEntry \/ cache[j].age < cache[k].age
    <3>1. Used(k, v)[j] = [value |-> cache[j].value, age |-> cache[j].age + 1]
      BY <1>3, <2>2 DEF Used
    <3> QED
      BY <1>3, <2>1, <2>2, <3>1, EntryAssumption DEF Entry
  <2>3. CASE ~(cache[k] = NoEntry \/ cache[j].age < cache[k].age)
    BY <1>3, <2>3 DEF Used
  <2> QED
    BY <2>2, <2>3
<1> QED
  BY <1>1, <1>2, <1>3

\* counterAdd keeps the entries in a row.
LEMMA CounterAddAges ==
    ASSUME TypeOK, AgesOK, NEW k \in Counter, NEW v \in Nat, CounterAdd(k, v)
    PROVE  AgesOK'
<1>1. \A j \in Counter : cache[j] # NoEntry => cache[j].age \in Nat
  BY DEF TypeOK, Entry
<1>2. \A j \in Counter : cache'[j] # NoEntry =>
        /\ cache'[j] = Used(k, v)[j]
        /\ Capacity > 0 => Used(k, v)[j].age < Capacity
  <2> SUFFICES ASSUME NEW j \in Counter, cache'[j] # NoEntry
               PROVE  /\ cache'[j] = Used(k, v)[j]
                      /\ Capacity > 0 => Used(k, v)[j].age < Capacity
    OBVIOUS
  <2>1. j \notin Evicted(Used(k, v)) /\ cache'[j] = Used(k, v)[j]
    BY DEF CounterAdd
  <2>2. Used(k, v)[j].age \in Nat
    BY <1>1, <2>1, UsedEntry
  <2> QED
    BY <2>1, <2>2, CapacityType DEF Evicted
<1>3. \A i, j \in Counter : i # j /\ cache'[i] # NoEntry /\ cache'[j] # NoEntry =>
        Used(k, v)[i].age # Used(k, v)[j].age
  <2> SUFFICES ASSUME NEW i \in Counter, NEW j \in Counter, i # j,
                      Used(k, v)[i] # NoEntry, Used(k, v)[j] # NoEntry
               PROVE  Used(k, v)[i].age # Used(k, v)[j].age
    BY <1>2
  <2>1. CASE i = k
    BY <1>1, <2>1, UsedEntry DEF AgesOK
  <2>2. CASE j = k
    BY <1>1, <2>2, UsedEntry DEF AgesOK
  <2>3. CASE i # k /\ j # k
    <3>1. cache[i] # NoEntry /\ cache[j] # NoEntry /\ cache[i].age # cache[j].age
      BY <2>3, UsedEntry DEF AgesOK
    <3>2. cache[k] # NoEntry => cache[i].age # cache[k].age /\ cache[j].age # cache[k].age
      BY <2>3, <3>1 DEF AgesOK
    <3>3. /\ Used(k, v)[i].age = IF cache[k] = NoEntry \/ cache[i].age < cache[k].age
                                 THEN cache[i].age + 1 ELSE cache[i].age
          /\ Used(k, v)[j].age = IF cache[k] = NoEntry \/ cache[j].age < cache[k].age
                                 THEN cache[j].age + 1 ELSE cache[j].age
      BY <2>3, <3>1, UsedEntry
    <3>4. cache[i].age \in Nat /\ cache[j].age \in Nat /\ (cache[k] # NoEntry => cache[k].age \in Nat)
      BY <1>1, <3>1
    <3> QED
      BY <3>1, <3>2, <3>3, <3>4
  <2> QED
    BY <2>1, <2>2, <2>3
<1> QED
  BY <1>2, <1>3, CapacityType DEF AgesOK, Capacity

\* Every step keeps the entries in a row.
LEMMA NextAges == TypeOK /\ AgesOK /\ [Next]_vars => AgesOK'
<1> SUFFICES ASSUME TypeOK, AgesOK, [Next]_vars
             PROVE  AgesOK'
  OBVIOUS
<1>1. CASE UNCHANGED cache
  BY <1>1 DEF AgesOK, Capacity
<1>2. CASE \E k \in Counter, v \in Nat : CounterAdd(k, v)
  BY <1>2, CounterAddAges
<1> QED
  BY <1>1, <1>2, NextCache

\* As many counters as there are ages to give them.
LEMMA AgesBound ==
    ASSUME TypeOK, AgesOK, CacheAccountsForCounters
    PROVE  CountersBounded
<1> SUFFICES ASSUME Capacity > 0
             PROVE  Cardinality({k \in Counter : counters[k] # None}) <= Capacity
  BY DEF CountersBounded
<1> DEFINE S == {k \in Counter : cache[k] # NoEntry}
           T == 0..(Capacity - 1)
           f == [k \in S |-> cache[k].age]
<1>1. {k \in Counter : counters[k] # None} = S
  BY DEF CacheAccountsForCounters
<1>2. IsFiniteSet(T) /\ Cardinality(T) = Capacity
  BY FS_Interval, CapacityType
<1>3. f \in [S -> T]
  BY CapacityType DEF AgesOK, TypeOK, Entry
<1>4. \A j, k \in S : f[j] = f[k] => j = k
  BY DEF AgesOK
<1> HIDE DEF S, T, f
<1>5. f \in Injection(S, T)
  BY <1>3, <1>4 DEF Injection, IsInjective
<1>6. Cardinality(S) <= Cardinality(T)
  BY <1>2, <1>5, FS_Injection
<1> QED
  BY <1>1, <1>2, <1>6

(***************************************************************************)
(* No more counters are exported than the cache may hold, whatever the     *)
(* databases return and whatever fails.                                    *)
(***************************************************************************)
THEOREM BoundedCorrect == Spec => []CountersBounded
<1>1. Init => AgesOK
  BY DEF Init, AgesOK
<1>2. TypeOK /\ AgesOK /\ CacheAccountsForCounters => CountersBounded
  BY AgesBound
<1> QED
  BY <1>1, <1>2, NextAges, TypeCorrect, AccountsCorrect, PTL DEF Spec

-----------------------------------------------------------------------------
(* Counters keep counting.                                                 *)

\* The counters in S are the ones used last.
MostRecent(S) == \A k \in S : cache[k] # NoEntry /\ cache[k].age < Cardinality(S)

\* The counters of the result being read that have had their turn.
ReadSet ==
    {k \in Counter : /\ k[3] \in DOMAIN result
                     /\ result[k[3]][k[1]] # Null
                     /\ ~Due(k)}

SeenSet == {k \in Counter : Seen(k)}

(***************************************************************************)
(* The counters read so far are the ones used last, and before them come   *)
(* the ones that were in the last result.  A row is pending or being read, *)
(* not both.                                                               *)
(***************************************************************************)
RecencyInv ==
    /\ MostRecent(ReadSet)
    /\ MostRecent(SeenSet \cup ReadSet)
    /\ pc # "rows" => DOMAIN result = {}
    /\ \A l \in pending : \A c \in Columns : <<c, l>> \notin cells

\* Using k makes it the most recent of the counters in S and k, and evicts none
\* of them as long as the cache has room for all.
LEMMA CounterAddRecent ==
    ASSUME TypeOK, NEW k \in Counter, NEW v \in Nat, CounterAdd(k, v),
           NEW S \in SUBSET Counter, IsFiniteSet(S), MostRecent(S),
           Cardinality(S \cup {k}) <= Capacity
    PROVE  MostRecent(S \cup {k})'
<1> DEFINE n == Cardinality(S)
           m == Cardinality(S \cup {k})
<1>1. n \in Nat /\ m \in Nat /\ m = IF k \in S THEN n ELSE n + 1
  BY FS_AddElement, FS_CardinalityType
<1>2. k \in S => n > 0
  BY FS_EmptySet, <1>1
<1> SUFFICES ASSUME NEW j \in S \cup {k}
             PROVE  cache'[j] # NoEntry /\ cache'[j].age < m
  BY DEF MostRecent
<1>3. Used(k, v)[j] # NoEntry /\ Used(k, v)[j].age \in Nat /\ Used(k, v)[j].age < m
  <2>1. CASE j = k
    BY <1>1, <1>2, <2>1, UsedEntry
  <2>2. CASE j # k
    <3>1. cache[j] # NoEntry /\ cache[j].age < n /\ cache[j].age \in Nat
      BY <2>2 DEF MostRecent, TypeOK, Entry
    <3>2. k \in S => cache[k] # NoEntry /\ cache[k].age < n /\ cache[k].age \in Nat
      BY DEF MostRecent, TypeOK, Entry
    <3>3. /\ Used(k, v)[j] # NoEntry
          /\ Used(k, v)[j].age = IF cache[k] = NoEntry \/ cache[j].age < cache[k].age
                                 THEN cache[j].age + 1 ELSE cache[j].age
      BY <2>2, <3>1, UsedEntry
    <3> HIDE DEF n, m
    <3> QED
      BY <1>1, <3>1, <3>2, <3>3
  <2> QED
    BY <2>1, <2>2
<1>4. j \notin Evicted(Used(k, v))
  BY <1>1, <1>3, CapacityType DEF Evicted
<1>5. cache'[j] = Used(k, v)[j]
  BY <1>4 DEF CounterAdd
<1> QED
  BY <1>3, <1>5

\* One result has room in half of the cache.
LEMMA OneResultFits ==
    ASSUME NEW d, NEW res \in Results,
           NEW S \in SUBSET {k \in Counter : k[2] = d /\ k[3] \in DOMAIN res}
    PROVE  /\ IsFiniteSet(S)
           /\ Cardinality(S) \in Nat
           /\ Cardinality(S) <= Cardinality(Counters) * MaxResults
<1> DEFINE D == DOMAIN res
           f == [k \in S |-> <<k[1], k[3]>>]
<1>1. IsFiniteSet(D) /\ Cardinality(D) \in Nat /\ Cardinality(D) <= MaxResults
  BY FS_CardinalityType, Zenon DEF Results
<1>2. IsFiniteSet(Counters) /\ Cardinality(Counters) \in Nat
  BY KindsAssumption, FS_CardinalityType
<1>3. /\ IsFiniteSet(Counters \X D)
      /\ Cardinality(Counters \X D) = Cardinality(Counters) * Cardinality(D)
  BY <1>1, <1>2, FS_Product
<1>4. f \in [S -> Counters \X D]
  BY DEF Counter
<1>5. \A j, k \in S : f[j] = f[k] => j = k
  BY DEF Counter
<1> HIDE DEF D, f
<1>6. f \in Injection(S, Counters \X D)
  BY <1>4, <1>5 DEF Injection, IsInjective
<1>7. IsFiniteSet(S) /\ Cardinality(S) <= Cardinality(Counters) * Cardinality(D)
  BY <1>3, <1>6, FS_Injection
<1>8. Cardinality(Counters) * Cardinality(D) <= Cardinality(Counters) * MaxResults
  BY <1>1, <1>2, BoundsAssumption
<1>9. Cardinality(S) \in Nat
  BY <1>7, FS_CardinalityType
<1> QED
  BY <1>1, <1>2, <1>7, <1>8, <1>9, BoundsAssumption

\* With one database, the last result and the one being read fit together.
LEMMA TwoResultsFit ==
    ASSUME NEW d, Databases = {d}, TypeOK
    PROVE  /\ IsFiniteSet(SeenSet) /\ IsFiniteSet(SeenSet \cup ReadSet)
           /\ \A k \in Counter : k[3] \in DOMAIN result =>
                /\ IsFiniteSet(ReadSet)
                /\ Cardinality(ReadSet \cup {k}) <= Capacity
                /\ Cardinality(SeenSet \cup ReadSet \cup {k}) <= Capacity
<1> DEFINE N == Cardinality(Counters) * MaxResults
           All == {k \in Counter : k[2] = d /\ k[3] \in DOMAIN result}
<1>1. \A k \in Counter : k[2] = d
  BY DEF Counter
<1>2. result \in Results /\ last[d] \in Results
  BY DEF TypeOK
<1>3. SeenSet \in SUBSET {k \in Counter : k[2] = d /\ k[3] \in DOMAIN last[d]}
  BY <1>1 DEF SeenSet, Seen
<1>4. ReadSet \in SUBSET All /\ \A k \in Counter : k[3] \in DOMAIN result => k \in All
  BY <1>1 DEF ReadSet
<1>5. IsFiniteSet(SeenSet) /\ Cardinality(SeenSet) \in Nat /\ Cardinality(SeenSet) <= N
  BY <1>2, <1>3, OneResultFits, Zenon
<1>6. \A S \in SUBSET All : IsFiniteSet(S) /\ Cardinality(S) \in Nat /\ Cardinality(S) <= N
  BY <1>2, OneResultFits, Zenon
<1>7. Capacity = 2 * N /\ N \in Nat
  BY KindsAssumption, BoundsAssumption, FS_CardinalityType DEF Capacity
<1> HIDE DEF N, All
<1>8. ASSUME NEW S \in SUBSET All
      PROVE  IsFiniteSet(SeenSet \cup S) /\ Cardinality(SeenSet \cup S) <= Capacity
  <2>1. IsFiniteSet(S) /\ Cardinality(S) \in Nat /\ Cardinality(S) <= N
    BY <1>6
  <2>2. /\ IsFiniteSet(SeenSet \cup S)
        /\ Cardinality(SeenSet \cup S)
              = Cardinality(SeenSet) + Cardinality(S) - Cardinality(SeenSet \cap S)
    BY <1>5, <2>1, FS_Union, Zenon
  <2>3. Cardinality(SeenSet \cap S) \in Nat
    BY <1>5, FS_Intersection, FS_CardinalityType, Zenon
  <2> QED
    BY <1>5, <1>7, <2>1, <2>2, <2>3
<1>9. ASSUME NEW k \in Counter, k[3] \in DOMAIN result
      PROVE  /\ IsFiniteSet(ReadSet)
             /\ Cardinality(ReadSet \cup {k}) <= Capacity
             /\ Cardinality(SeenSet \cup ReadSet \cup {k}) <= Capacity
  <2>1. ReadSet \cup {k} \in SUBSET All
    BY <1>4, <1>9
  <2>2. SeenSet \cup ReadSet \cup {k} = SeenSet \cup (ReadSet \cup {k})
    OBVIOUS
  <2>3. Cardinality(ReadSet \cup {k}) \in Nat /\ Cardinality(ReadSet \cup {k}) <= N
    BY <1>6, <2>1
  <2>4. Cardinality(ReadSet \cup {k}) <= Capacity
    BY <1>7, <2>3
  <2>5. Cardinality(SeenSet \cup (ReadSet \cup {k})) <= Capacity
    BY <1>8, <2>1, Zenon
  <2> QED
    BY <1>4, <1>6, <2>2, <2>4, <2>5
<1> QED
  BY <1>4, <1>5, <1>8, <1>9, Zenon

\* The counter whose turn it is joins those that have been read.
LEMMA ColumnRead ==
    ASSUME NEW d, Databases = {d}, TypeOK, RecencyInv, NEW c \in Counters, NEW l \in Labels,
           CounterColumn(c, l)
    PROVE  LET k == <<c, db, l>>
           IN  /\ k \in Counter /\ k[3] \in DOMAIN result
               /\ ReadSet' = IF result[l][c] = Null THEN ReadSet ELSE ReadSet \cup {k}
<1> DEFINE k == <<c, db, l>>
<1>1. k \in Counter /\ l \in DOMAIN result /\ c \in Columns
  BY CellType, Zenon DEF CounterColumn, Columns
<1>2. db = d /\ \A j \in Counter : j[2] = d /\ j = <<j[1], j[2], j[3]>>
  BY DEF TypeOK, Counter
<1>3. UNCHANGED <<result, db, pending>> /\ cells' = cells \ {<<c, l>>}
  BY DEF CounterColumn, query
<1>4. l \notin pending
  BY <1>1 DEF RecencyInv, CounterColumn
<1>5. \A j \in Counter : Due(j)' <=> Due(j) /\ j # k
  BY <1>2, <1>3, <1>4 DEF Due
<1>6. Due(k)
  BY DEF Due, CounterColumn
<1>7. \A j \in Counter : j \in ReadSet' <=> \/ j \in ReadSet
                                            \/ j = k /\ result[l][c] # Null
  BY <1>1, <1>3, <1>5, <1>6 DEF ReadSet
<1>8. ReadSet \subseteq Counter /\ ReadSet' \subseteq Counter
  BY DEF ReadSet, Counter, Databases
<1> QED
  BY <1>1, <1>7, <1>8, Zenon

\* With one database, every step keeps the order in which counters were used.
LEMMA NextRecency ==
    ASSUME NEW d, Databases = {d}, TypeOK, TypeOK', RecencyInv, [Next]_vars
    PROVE  RecencyInv'
<1> USE DEF vectors, query
<1>1. \A k \in Counter : k[2] = d /\ k[1] \in Counters
  BY DEF Counter
<1>2. db = d /\ db' = d
  BY DEF TypeOK
<1>3. ASSUME UNCHANGED cache, ReadSet' = ReadSet, SeenSet' = SeenSet
      PROVE  MostRecent(ReadSet)' /\ MostRecent(SeenSet \cup ReadSet)'
  BY <1>3, Zenon DEF RecencyInv, MostRecent
<1>4. UNCHANGED last => SeenSet' = SeenSet
  BY DEF SeenSet, Seen
<1>5. ASSUME NEW dbs \in DatabaseSets, Collect(dbs)
      PROVE  RecencyInv'
  <2>1. ReadSet' = ReadSet
    BY <1>5, Zenon DEF Collect, ReadSet, Due
  <2> QED
    BY <1>3, <1>4, <1>5, <2>1 DEF Collect, RecencyInv
<1>6. ASSUME NEW e \in Databases, NEW res \in Answers, Query(e, res)
      PROVE  RecencyInv'
  <2>1. ReadSet = {}
    BY <1>6, Zenon DEF Query, ReadSet, RecencyInv
  <2>2. ReadSet' = {}
    BY <1>1, <1>2, <1>6 DEF Query, ReadSet, Due
  <2>3. cells' = {} /\ pc' = "rows"
    BY <1>6, Zenon DEF Query, TypeOK
  <2> QED
    BY <1>3, <1>4, <1>6, <2>1, <2>2, <2>3 DEF Query, RecencyInv
<1>7. CASE QueryFails
  <2>1. ReadSet' = ReadSet
    BY <1>7 DEF QueryFails, ReadSet, Due
  <2> QED
    BY <1>3, <1>4, <1>7, <2>1 DEF QueryFails, RecencyInv
<1>8. ASSUME NEW l \in Labels, NextRow(l)
      PROVE  RecencyInv'
  <2>1. \A k \in Counter : Due(k)' <=> Due(k)
    BY <1>1, <1>8 DEF NextRow, Due, Columns
  <2>2. ReadSet' = ReadSet
    BY <1>8, <2>1, Zenon DEF NextRow, ReadSet
  <2> QED
    BY <1>3, <1>4, <1>8, <2>2 DEF NextRow, RecencyInv
<1>9. ASSUME NEW ls \in SUBSET pending, pending' = pending \ ls, result' = Without(ls),
             cells = {}, pc = "rows", UNCHANGED <<cache, cells, pc, db, last>>
      PROVE  RecencyInv'
  <2>1. \A k \in Counter : k[3] \in ls => Due(k)
    BY <1>1, <1>2, <1>9 DEF Due
  <2>2. \A k \in Counter : k[3] \notin ls => (Due(k)' <=> Due(k))
    BY <1>9 DEF Due
  <2>3. /\ DOMAIN result' = DOMAIN result \ ls
        /\ \A l \in DOMAIN result' : result'[l] = result[l]
    BY <1>9 DEF Without
  <2>4. ReadSet' = ReadSet
    BY <2>1, <2>2, <2>3 DEF ReadSet
  <2> QED
    BY <1>3, <1>4, <1>9, <2>4 DEF RecencyInv
<1>10. ASSUME NEW l \in Labels, SkipRow(l)
       PROVE  RecencyInv'
  BY <1>9, <1>10 DEF SkipRow
<1>11. CASE BreakOff
  <2>1. pending' = pending \ pending /\ pending \in SUBSET pending
    BY <1>11 DEF BreakOff
  <2> QED
    BY <1>9, <1>11, <2>1 DEF BreakOff
<1>12. ASSUME NEW c \in Columns, NEW l \in Labels, CounterColumn(c, l)
       PROVE  RecencyInv'
  <2> DEFINE k == <<c, db, l>>
  <2>1. /\ k \in Counter /\ k[3] \in DOMAIN result
        /\ ReadSet' = IF result[l][c] = Null THEN ReadSet ELSE ReadSet \cup {k}
    BY <1>12, ColumnRead, Zenon DEF CounterColumn
  <2>2. SeenSet' = SeenSet
    BY <1>4, <1>12 DEF CounterColumn
  <2>3. MostRecent(ReadSet)' /\ MostRecent(SeenSet \cup ReadSet)'
    <3>1. CASE result[l][c] = Null
      BY <1>3, <1>12, <2>1, <2>2, <3>1, Zenon DEF CounterColumn
    <3>2. CASE result[l][c] # Null
      <4>1. CounterAdd(k, result[l][c]) /\ result[l][c] \in Nat
        BY <1>12, <3>2, CellType, Zenon DEF CounterColumn
      <4>2. ReadSet \in SUBSET Counter /\ SeenSet \cup ReadSet \in SUBSET Counter
        BY Zenon DEF ReadSet, SeenSet
      <4>3. /\ IsFiniteSet(ReadSet) /\ IsFiniteSet(SeenSet \cup ReadSet)
            /\ Cardinality(ReadSet \cup {k}) <= Capacity
            /\ Cardinality(SeenSet \cup ReadSet \cup {k}) <= Capacity
        BY <2>1, TwoResultsFit, Zenon
      <4>4. MostRecent(ReadSet) /\ MostRecent(SeenSet \cup ReadSet)
        BY DEF RecencyInv
      <4> HIDE DEF k
      <4>5. \A j \in ReadSet \cup {k} :
              cache'[j] # NoEntry /\ cache'[j].age < Cardinality(ReadSet \cup {k})
        BY <2>1, <4>1, <4>2, <4>3, <4>4, CounterAddRecent, Zenon DEF MostRecent
      <4>6. \A j \in SeenSet \cup ReadSet \cup {k} :
              cache'[j] # NoEntry /\ cache'[j].age < Cardinality(SeenSet \cup ReadSet \cup {k})
        BY <2>1, <4>1, <4>2, <4>3, <4>4, CounterAddRecent, Zenon DEF MostRecent
      <4>7. SeenSet' \cup ReadSet' = SeenSet \cup ReadSet \cup {k} /\ ReadSet' = ReadSet \cup {k}
        BY <2>1, <2>2, <3>2, Zenon
      <4> QED
        BY <4>5, <4>6, <4>7, Zenon DEF MostRecent
    <3> QED
      BY <3>1, <3>2
  <2> QED
    BY <1>12, <2>3, Zenon DEF CounterColumn, RecencyInv, TypeOK
<1>13. ASSUME NEW c \in Columns, NEW l \in Labels, GaugeColumn(c, l)
       PROVE  RecencyInv'
  <2>1. c \notin Counters
    BY <1>13, KindsAssumption DEF GaugeColumn
  <2>2. \A k \in Counter : Due(k)' <=> Due(k)
    BY <1>1, <1>13, <2>1 DEF GaugeColumn, Due
  <2>3. ReadSet' = ReadSet
    BY <1>13, <2>2, Zenon DEF GaugeColumn, ReadSet
  <2> QED
    BY <1>3, <1>4, <1>13, <2>3 DEF GaugeColumn, RecencyInv
<1>14. CASE EndQuery
  <2>1. DOMAIN result' = {} /\ pending = {} /\ cells = {} /\ UNCHANGED <<cache, pending, cells>>
    BY <1>14, NoResultType, Zenon DEF EndQuery
  <2>2. ReadSet' = {}
    BY <2>1 DEF ReadSet
  <2>3. last'[d] = result
    BY <1>2, <1>14 DEF EndQuery, TypeOK
  <2>4. \A k \in Counter : ~Due(k)
    BY <2>1 DEF Due
  <2>5. SeenSet' = ReadSet
    BY <1>1, <2>3, <2>4, Zenon DEF SeenSet, Seen, ReadSet
  <2>6. SeenSet' \cup ReadSet' = ReadSet
    BY <2>2, <2>5
  <2> QED
    BY <2>1, <2>2, <2>6 DEF RecencyInv, MostRecent
<1>15. CASE UNCHANGED vars
  <2>1. ReadSet' = ReadSet
    BY <1>15 DEF vars, ReadSet, Due
  <2> QED
    BY <1>3, <1>4, <1>15, <2>1 DEF vars, RecencyInv
<1> QED
  BY <1>5, <1>6, <1>7, <1>8, <1>10, <1>11, <1>12, <1>13, <1>14, <1>15 DEF Next

\* With one database, the counters are used in this order throughout.
LEMMA RecencyInvariant ==
    ASSUME NEW d, Databases = {d}
    PROVE  Spec => []RecencyInv
<1>1. Init => RecencyInv
  <2> SUFFICES ASSUME Init
               PROVE  RecencyInv
    OBVIOUS
  <2>1. ReadSet = {} /\ SeenSet = {}
    BY NoResultType, Zenon DEF Init, ReadSet, SeenSet, Seen, Counter
  <2> QED
    BY <2>1, NoResultType DEF Init, RecencyInv, MostRecent
<1>2. TypeOK /\ TypeOK' /\ RecencyInv /\ [Next]_vars => RecencyInv'
  BY NextRecency
<1> QED
  BY <1>1, <1>2, TypeCorrect, PTL DEF Spec

(***************************************************************************)
(* A counter that is in two successive results keeps counting, whichever   *)
(* other rows come and go in the second: for collections without a         *)
(* databases query, the capacity of the cache is enough.                   *)
(***************************************************************************)
THEOREM KeepCountingCorrect ==
    ASSUME NEW d, Databases = {d}
    PROVE  Spec => []CountersKeepCounting
<1>1. RecencyInv /\ CacheAccountsForCounters => CountersKeepCounting
  BY Zenon DEF RecencyInv, MostRecent, SeenSet, CacheAccountsForCounters, CountersKeepCounting
<1> QED
  BY <1>1, RecencyInvariant, AccountsCorrect, PTL

-----------------------------------------------------------------------------
(* Gauges.                                                                 *)

(***************************************************************************)
(* What ClearObsoleteGauges relies on: a gauge that is exported is in one  *)
(* of the two sets of labels, and currGauges has exactly the gauges of the *)
(* rows read so far, with their values.                                    *)
(***************************************************************************)
GaugeInv ==
    /\ \A g \in Gauge : gauges[g] # None => g \in gaugeLabels \cup currGauges
    /\ \A g \in Gauge : g \in currGauges <=> g[3] \in DOMAIN result /\ ~Due(g)
    /\ \A g \in currGauges : result[g[3]][g[1]] \in {Null, gauges[g]}
    /\ pc # "rows" =>
         \A g \in Gauge :
           IF g[3] \in DOMAIN last[g[2]]
           THEN last[g[2]][g[3]][g[1]] \in {Null, gauges[g]}
           ELSE gauges[g] = None

\* With one database, every step keeps the two sets of gauges in step.
LEMMA NextGauges ==
    ASSUME NEW d, Databases = {d}, TypeOK, TypeOK', RecencyInv, GaugeInv, [Next]_vars
    PROVE  GaugeInv'
<1> USE DEF vectors, query
<1>1. \A g \in Gauge : g[2] = d /\ g[1] \in Gauges /\ g[3] \in Labels /\ g = <<g[1], d, g[3]>>
  BY DEF Gauge
<1>2. db = d /\ db' = d
  BY DEF TypeOK
<1>3. ASSUME NEW dbs \in DatabaseSets, Collect(dbs)
      PROVE  GaugeInv'
  BY <1>3, Zenon DEF Collect, GaugeInv, Due
<1>4. ASSUME NEW e \in Databases, NEW res \in Answers, Query(e, res)
      PROVE  GaugeInv'
  <2>1. \A g \in Gauge : g[3] \in DOMAIN res => Due(g)'
    BY <1>1, <1>2, <1>4 DEF Query, Due
  <2>2. currGauges = {}
    BY <1>4, Zenon DEF Query, RecencyInv, GaugeInv, TypeOK
  <2> QED
    BY <1>4, <2>1, <2>2, Zenon DEF Query, GaugeInv
<1>5. CASE QueryFails
  BY <1>5, Zenon DEF QueryFails, GaugeInv, Due
<1>6. ASSUME NEW l \in Labels, NextRow(l)
      PROVE  GaugeInv'
  <2>1. \A g \in Gauge : Due(g)' <=> Due(g)
    BY <1>1, <1>6 DEF NextRow, Due, Columns
  <2> QED
    BY <1>6, <2>1, Zenon DEF NextRow, GaugeInv
<1>7. ASSUME NEW ls \in SUBSET pending, pending' = pending \ ls, result' = Without(ls),
             cells = {}, pc = "rows", UNCHANGED <<gauges, gaugeLabels, currGauges, cells, pc, db, last>>
      PROVE  GaugeInv'
  <2>1. \A g \in Gauge : g[3] \in ls => Due(g)
    BY <1>1, <1>2, <1>7 DEF Due
  <2>2. \A g \in Gauge : g[3] \notin ls => (Due(g)' <=> Due(g))
    BY <1>7 DEF Due
  <2>3. /\ DOMAIN result' = DOMAIN result \ ls
        /\ \A l \in DOMAIN result' : result'[l] = result[l]
    BY <1>7 DEF Without
  <2>4. currGauges \subseteq Gauge
    BY DEF TypeOK
  <2>5. \A g \in Gauge : g \in currGauges <=> g[3] \in DOMAIN result' /\ ~Due(g)'
    BY <2>1, <2>2, <2>3, Zenon DEF GaugeInv
  <2> QED
    BY <1>7, <2>3, <2>4, <2>5, Zenon DEF GaugeInv
<1>8. ASSUME NEW l \in Labels, SkipRow(l)
      PROVE  GaugeInv'
  BY <1>7, <1>8 DEF SkipRow
<1>9. CASE BreakOff
  <2>1. pending' = pending \ pending /\ pending \in SUBSET pending
    BY <1>9 DEF BreakOff
  <2> QED
    BY <1>7, <1>9, <2>1 DEF BreakOff
<1>10. ASSUME NEW c \in Columns, NEW l \in Labels, CounterColumn(c, l)
       PROVE  GaugeInv'
  <2>1. \A g \in Gauge : Due(g)' <=> Due(g)
    BY <1>1, <1>10, KindsAssumption DEF CounterColumn, Due
  <2> QED
    BY <1>10, <2>1, Zenon DEF CounterColumn, GaugeInv
<1>11. ASSUME NEW c \in Columns, NEW l \in Labels, GaugeColumn(c, l)
       PROVE  GaugeInv'
  <2> DEFINE h == <<c, d, l>>
  <2>1. h \in Gauge /\ l \in DOMAIN result /\ l \notin pending /\ h[1] = c /\ h[3] = l
    BY <1>2, <1>11, CellType, Zenon DEF GaugeColumn, RecencyInv
  <2>2. \A g \in Gauge : Due(g)' <=> Due(g) /\ g # h
    BY <1>1, <1>2, <1>11, <2>1, Zenon DEF GaugeColumn, Due
  <2>3. \A g \in Gauge : g \in currGauges' <=> g[3] \in DOMAIN result' /\ ~Due(g)'
    BY <1>2, <1>11, <2>1, <2>2, Zenon DEF GaugeColumn, GaugeInv
  <2>4. \A g \in Gauge : gauges'[g] = IF g = h /\ result[l][c] # Null THEN result[l][c] ELSE gauges[g]
    BY <1>2, <1>11, <2>1, Zenon DEF GaugeColumn, TypeOK
  <2>5. currGauges' = currGauges \cup {h} /\ currGauges' \subseteq Gauge
    BY <1>2, <1>11, <2>1, Zenon DEF GaugeColumn, TypeOK
  <2>6. UNCHANGED <<result, gaugeLabels, pc>> /\ pc = "rows"
    BY <1>11, Zenon DEF GaugeColumn, TypeOK
  <2>7. \A g \in currGauges' : result'[g[3]][g[1]] \in {Null, gauges'[g]}
    BY <2>1, <2>4, <2>5, <2>6 DEF GaugeInv
  <2>8. \A g \in Gauge : gauges'[g] # None => g \in gaugeLabels' \cup currGauges'
    BY <2>4, <2>5, <2>6, Zenon DEF GaugeInv
  <2> QED
    BY <2>3, <2>6, <2>7, <2>8, Zenon DEF GaugeInv
<1>12. CASE EndQuery
  <2>1. /\ DOMAIN result' = {} /\ pending = {} /\ cells = {} /\ currGauges' = {}
        /\ gaugeLabels' = currGauges /\ last'[d] = result
        /\ \A g \in Gauge : gauges'[g] = IF g \in gaugeLabels \ currGauges THEN None ELSE gauges[g]
    BY <1>2, <1>12, NoResultType, Zenon DEF EndQuery, ClearObsoleteGauges, TypeOK
  <2>2. \A g \in Gauge : g \in currGauges <=> g[3] \in DOMAIN result
    BY <2>1, Zenon DEF GaugeInv, Due
  <2>3. \A g \in Gauge : gauges'[g] # None => g \in currGauges
    BY <2>1, Zenon DEF GaugeInv
  <2>4. \A g \in Gauge : IF g[3] \in DOMAIN last'[g[2]]
                         THEN last'[g[2]][g[3]][g[1]] \in {Null, gauges'[g]}
                         ELSE gauges'[g] = None
    BY <1>1, <2>1, <2>2, <2>3, Zenon DEF GaugeInv
  <2> QED
    BY <2>1, <2>3, <2>4, Zenon DEF GaugeInv
<1>13. CASE UNCHANGED vars
  BY <1>13, Zenon DEF vars, GaugeInv, Due
<1> QED
  BY <1>3, <1>4, <1>5, <1>6, <1>8, <1>9, <1>10, <1>11, <1>12, <1>13 DEF Next

(***************************************************************************)
(* With one database, the process exports between runs what it read of the *)
(* last result: all of its counters and gauges, and no gauge of a row that *)
(* is gone, through rows that cannot be decoded and results that break off.*)
(***************************************************************************)
THEOREM ExportedCorrect ==
    ASSUME NEW d, Databases = {d}
    PROVE  Spec => []ResultExported
<1>1. Init => GaugeInv
  <2> SUFFICES ASSUME Init
               PROVE  GaugeInv
    OBVIOUS
  <2>1. \A g \in Gauge : g[2] \in Databases
    BY DEF Gauge
  <2> QED
    BY <2>1, NoResultType, Zenon DEF Init, GaugeInv
<1>2. TypeOK /\ TypeOK' /\ RecencyInv /\ GaugeInv /\ [Next]_vars => GaugeInv'
  BY NextGauges
<1>3. RecencyInv /\ GaugeInv /\ CacheAccountsForCounters => ResultExported
  BY Zenon DEF RecencyInv, MostRecent, SeenSet, GaugeInv, CacheAccountsForCounters, ResultExported
<1> QED
  BY <1>1, <1>2, <1>3, TypeCorrect, RecencyInvariant, AccountsCorrect, PTL DEF Spec
=============================================================================
