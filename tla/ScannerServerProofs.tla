------------------------- MODULE ScannerServerProofs -------------------------
(***************************************************************************)
(* Proofs about the scanner server when refreshes do not overlap (there is *)
(* one thread, t): its scanners follow the store, those taken for "already *)
(* scheduled" are current, and, when a started scanner opens its file      *)
(* before it is stopped, the ones that read a file are the ones on record. *)
(***************************************************************************)
EXTENDS ScannerServer, TLAPS

\* A scan has been read, and is being visited.
Busy(t) == pc[t] \in {"patterns", "visit", "stop", "build", "add", "start"}

\* Versions are not ahead of the clock, and the scan visited is not ahead of
\* its row.
VersionsOK(t) ==
    /\ \A n \in Names : rows[n] # NoRow => rows[n].updated \in 1..clock
    /\ Busy(t) => /\ scan[t] \in Target
                  /\ scan[t].scan.updated \in 1..clock
                  /\ rows[scan[t].name] # NoRow =>
                        scan[t].scan.updated <= rows[scan[t].name].updated

\* A scanner on record was built for its name.
RecordOK ==
    \A n \in Names : scanners[n] # None =>
        /\ target[scanners[n]] \in Target
        /\ target[scanners[n]].name = n
        /\ target[scanners[n]].scan.updated \in 1..clock

\* The scanner that is being replaced, and the one that replaces it.
ReplacedOK(t) ==
    /\ pc[t] \in {"stop", "build", "add"} =>
         LET old == scanners[scan[t].name]
         IN  old # None => target[old].scan.updated < scan[t].scan.updated
    /\ pc[t] = "stop" => found[t] = scanners[scan[t].name]
    /\ pc[t] \in {"add", "start"} =>
         found[t] \in Scanners /\ target[found[t]] = scan[t] /\ state[found[t]] = "built"
    /\ pc[t] = "add" => \A n \in Names : scanners[n] # found[t]
    /\ pc[t] = "start" => scanners[scan[t].name] = found[t]

RefreshInv(t) == TypeOK /\ VersionsOK(t) /\ RecordOK /\ ReplacedOK(t)

\* What the invariants are about, when only the rows change.
LEMMA StoreStep ==
    ASSUME NEW t, Threads = {t}, RefreshInv(t),
           NEW n \in Names,
           (\E enabled \in BOOLEAN, p \in Lists : PutScan(n, enabled, p)) \/ DeleteScan(n)
    PROVE  RefreshInv(t)'
<1>1. UNCHANGED <<scanners, state, target, exported, pc, todo, keep, scan, found>>
  BY DEF PutScan, DeleteScan, locals
<1>2. /\ clock \in Nat /\ clock' \in Nat /\ clock <= clock'
      /\ \A k \in Names : \/ rows'[k] = rows[k]
                          \/ rows'[k] = NoRow
                          \/ rows'[k] \in Scan /\ rows'[k].updated = clock' /\ clock' = clock + 1
      /\ rows' \in [Names -> Scan \cup {NoRow}]
  <2>1. CASE DeleteScan(n)
    BY <2>1 DEF DeleteScan, RefreshInv, TypeOK
  <2>2. ASSUME NEW enabled \in BOOLEAN, NEW p \in Lists, PutScan(n, enabled, p)
        PROVE  <1>2!1 /\ <1>2!2 /\ <1>2!3
    BY <2>2, PatternsAssumption DEF PutScan, RefreshInv, TypeOK, Scan
  <2> QED
    BY <2>1, <2>2
<1>3. TypeOK'
  BY <1>1, <1>2 DEF RefreshInv, TypeOK
<1>4. VersionsOK(t)'
  <2>1. \A k \in Names : rows'[k] # NoRow => rows'[k].updated \in 1..clock'
    BY <1>2 DEF RefreshInv, TypeOK, VersionsOK, Scan
  <2>2. ASSUME Busy(t)'
        PROVE  /\ scan'[t] \in Target
               /\ scan'[t].scan.updated \in 1..clock'
               /\ rows'[scan'[t].name] # NoRow =>
                     scan'[t].scan.updated <= rows'[scan'[t].name].updated
    <3>1. Busy(t) /\ scan' = scan
      BY <1>1, <2>2 DEF Busy
    <3>2. /\ scan[t] \in Target /\ scan[t].name \in Names /\ scan[t].scan.updated \in 1..clock
          /\ rows[scan[t].name] # NoRow => scan[t].scan.updated <= rows[scan[t].name].updated
      BY <3>1 DEF RefreshInv, VersionsOK, Target
    <3> QED
      BY <1>2, <3>1, <3>2
  <2> QED
    BY <2>1, <2>2 DEF VersionsOK
<1>5. RecordOK'
  BY <1>1, <1>2 DEF RefreshInv, RecordOK
<1>6. ReplacedOK(t)'
  BY <1>1 DEF RefreshInv, ReplacedOK
<1> QED
  BY <1>3, <1>4, <1>5, <1>6 DEF RefreshInv

\* Steps of a refresh that leave the scanners alone.
LEMMA ReadStep ==
    ASSUME NEW t, Threads = {t}, RefreshInv(t),
           \/ Refresh(t)
           \/ GetScanNames(t) \/ GetScanNamesFails(t) \/ GetScanNamesBreakOff(t)
           \/ \E n \in Names : GetScan(t, n) \/ GetScanFails(t, n)
           \/ GetScanPatterns(t) \/ Skip(t) \/ Get(t) \/ FromConfigFails(t)
    PROVE  RefreshInv(t)'
<1> USE DEF RefreshInv
<1>1. UNCHANGED <<rows, clock, scanners, state, target>>
  BY DEF Refresh, GetScanNames, GetScanNamesFails, GetScanNamesBreakOff, GetScan, GetScanFails,
         GetScanPatterns, Skip, Get, FromConfigFails, store
<1>2. RecordOK'
  BY <1>1 DEF RecordOK
<1>3. ASSUME TypeOK', ~Busy(t)' PROVE RefreshInv(t)'
  BY <1>1, <1>2, <1>3 DEF VersionsOK, ReplacedOK, Busy
<1>4. ASSUME NEW n \in Names, Visited(t, n), keep' \in [Threads -> SUBSET Names],
             exported' \in [Names -> Scanners \cup {None}]
      PROVE  RefreshInv(t)'
  <2>1. TypeOK' /\ ~Busy(t)'
    BY <1>1, <1>4 DEF TypeOK, Visited, Busy
  <2> QED
    BY <1>3, <2>1
<1>5. ASSUME Busy(t) PROVE scan[t] \in Target /\ scan[t].name \in Names /\ scan[t].scan \in Scan
  BY <1>5 DEF VersionsOK, Target
<1>6. CASE Refresh(t) \/ GetScanNames(t) \/ GetScanNamesFails(t) \/ GetScanNamesBreakOff(t)
  <2>1. TypeOK' /\ ~Busy(t)'
    BY <1>1, <1>6
       DEF TypeOK, Busy, Refresh, GetScanNames, GetScanNamesFails, GetScanNamesBreakOff
  <2> QED
    BY <1>3, <2>1
<1>7. ASSUME NEW n \in Names, GetScan(t, n) PROVE RefreshInv(t)'
  <2>1. /\ pc'[t] = "patterns"
        /\ scan'[t] = [name |-> n, scan |-> rows[n]]
        /\ rows[n] \in Scan
        /\ rows[n].updated \in 1..clock
    BY <1>7 DEF GetScan, TypeOK, VersionsOK
  <2>2. scan'[t] \in Target /\ scan'[t].name = n /\ scan'[t].scan = rows[n]
    BY <2>1 DEF Target
  <2>3. TypeOK'
    BY <1>1, <1>7, <2>2 DEF GetScan, TypeOK
  <2>4. VersionsOK(t)'
    <3>1. \A x \in 1..clock : x <= x
      OBVIOUS
    <3> QED
      BY <1>1, <2>1, <2>2, <3>1, Zenon DEF VersionsOK
  <2>5. ReplacedOK(t)'
    BY <2>1, Zenon DEF ReplacedOK
  <2> QED
    BY <1>2, <2>3, <2>4, <2>5
<1>8. ASSUME NEW n \in Names, GetScanFails(t, n) PROVE RefreshInv(t)'
  BY <1>4, <1>8 DEF GetScanFails, TypeOK
<1>9. CASE GetScanPatterns(t)
  <2>1. PICK p \in SUBSET Patterns : scan' = [scan EXCEPT ![t].scan.patterns = p]
    <3> DEFINE stored == StoredPatterns(scan[t].name)
    <3>1. Busy(t)
      BY <1>9 DEF GetScanPatterns, Busy
    <3>2. stored \subseteq Patterns
      BY <1>5, <3>1 DEF TypeOK, Scan, StoredPatterns
    <3>3. \E p \in SUBSET stored : scan' = [scan EXCEPT ![t].scan.patterns = p]
      BY <1>9, Zenon DEF GetScanPatterns
    <3> HIDE DEF stored
    <3> QED
      BY <3>2, <3>3, Zenon
  <2>2. pc'[t] = "visit" /\ Busy(t)
    BY <1>9 DEF GetScanPatterns, Busy, TypeOK
  <2>3. /\ scan'[t] \in Target
        /\ scan'[t].name = scan[t].name
        /\ scan'[t].scan.updated = scan[t].scan.updated
    <3>1. scan'[t] = [scan[t] EXCEPT !.scan.patterns = p]
      BY <2>1 DEF TypeOK
    <3> QED
      BY <1>5, <2>2, <3>1 DEF Target, Scan
  <2>4. TypeOK'
    <3>1. scan' \in [Threads -> Target \cup {None}]
      BY <2>1, <2>3 DEF TypeOK
    <3> QED
      BY <1>1, <1>9, <3>1 DEF GetScanPatterns, TypeOK
  <2>5. VersionsOK(t)'
    BY <1>1, <2>2, <2>3, Zenon DEF VersionsOK
  <2>6. ReplacedOK(t)'
    BY <2>2, Zenon DEF ReplacedOK
  <2> QED
    BY <1>2, <2>4, <2>5, <2>6
<1>10. CASE Skip(t)
  <2>1. Busy(t)
    BY <1>10, Zenon DEF Skip, Busy
  <2> QED
    BY <1>4, <1>5, <1>10, <2>1 DEF Skip, TypeOK
<1>11. CASE Get(t)
  <2>1. Busy(t)
    BY <1>11, Zenon DEF Get, Busy
  <2>2. keep' \in [Threads -> SUBSET Names] /\ exported' = exported
    BY <1>5, <1>11, <2>1 DEF Get, TypeOK
  <2>3. CASE Visited(t, scan[t].name)
    BY <1>4, <1>5, <2>1, <2>2, <2>3 DEF TypeOK
  <2>4. CASE /\ ~AlreadyScheduled(t)
             /\ found' = [found EXCEPT ![t] = scanners[scan[t].name]]
             /\ pc' = [pc EXCEPT ![t] = "stop"]
             /\ UNCHANGED <<todo, scan>>
    <3>1. TypeOK'
      BY <1>1, <1>5, <2>1, <2>2, <2>4 DEF TypeOK
    <3>2. pc'[t] = "stop" /\ found'[t] = scanners[scan[t].name] /\ scan' = scan
      BY <2>4 DEF TypeOK
    <3>3. VersionsOK(t)'
      BY <1>1, <2>1, <3>2 DEF VersionsOK
    <3>4. LET old == scanners[scan[t].name]
          IN  old # None => target[old].scan.updated < scan[t].scan.updated
      <4>1. /\ scan[t].scan.updated \in Nat
            /\ scanners[scan[t].name] # None =>
                 target[scanners[scan[t].name]].scan.updated \in Nat
        <5>1. scan[t].name \in Names /\ scan[t].scan.updated \in Nat
          BY <1>5, <2>1, Zenon DEF Scan
        <5>2. \A x \in 1..clock : x \in Nat
          OBVIOUS
        <5> QED
          BY <5>1, <5>2, Zenon DEF RecordOK
      <4>2. \A a, b \in Nat : ~(a >= b) => a < b
        OBVIOUS
      <4> QED
        BY <2>4, <4>1, <4>2, Zenon DEF AlreadyScheduled
    <3>5. ReplacedOK(t)'
      BY <1>1, <3>2, <3>4, Zenon DEF ReplacedOK
    <3> QED
      BY <1>2, <3>1, <3>3, <3>5
  <2> QED
    BY <1>11, <2>3, <2>4, Zenon DEF Get
<1>12. CASE FromConfigFails(t)
  <2>1. Busy(t)
    BY <1>12, Zenon DEF FromConfigFails, Busy
  <2> QED
    BY <1>4, <1>5, <1>12, <2>1 DEF FromConfigFails, TypeOK
<1> QED
  BY <1>6, <1>7, <1>8, <1>9, <1>10, <1>11, <1>12

\* Steps that build, replace, start, open or stop scanners.
LEMMA ScannerStep ==
    ASSUME NEW t, Threads = {t}, RefreshInv(t),
           \/ StopExisting(t) \/ Add(t) \/ Start(t) \/ Cleanup(t)
           \/ \E i \in Scanners : FromConfig(t, i) \/ OpenFile(i)
           \/ \E n \in Names : Panic(t, n)
    PROVE  RefreshInv(t)'
<1> USE DEF RefreshInv
<1>1. UNCHANGED <<rows, clock>>
  BY DEF StopExisting, Add, Start, Cleanup, FromConfig, OpenFile, Panic, store
<1>2. ASSUME TypeOK', RecordOK', ~Busy(t)' PROVE RefreshInv(t)'
  BY <1>1, <1>2, Zenon DEF VersionsOK, ReplacedOK, Busy
<1>3. ASSUME Busy(t)
      PROVE  /\ scan[t] \in Target /\ scan[t].name \in Names /\ scan[t].scan \in Scan
             /\ scan[t].scan.updated \in 1..clock
  BY <1>3, Zenon DEF VersionsOK, Target
<1>4. ASSUME Busy(t), scan' = scan PROVE VersionsOK(t)'
  BY <1>1, <1>4, Zenon DEF VersionsOK
<1>5. CASE StopExisting(t)
  <2>1. Busy(t) /\ pc[t] = "stop" /\ pc'[t] = "build" /\ UNCHANGED <<scanners, target, scan>>
    BY <1>5 DEF StopExisting, Busy, TypeOK
  <2>2. TypeOK'
    <3>1. state' \in [Scanners -> State]
      BY <1>5 DEF StopExisting, Stopped, TypeOK, State
    <3> QED
      BY <1>1, <1>5, <3>1, Zenon DEF StopExisting, TypeOK
  <2>3. RecordOK' /\ ReplacedOK(t)'
    BY <1>1, <2>1, Zenon DEF RecordOK, ReplacedOK
  <2> QED
    BY <1>4, <2>1, <2>2, <2>3
<1>6. ASSUME NEW i \in Scanners, FromConfig(t, i) PROVE RefreshInv(t)'
  <2>1. /\ Busy(t) /\ pc[t] = "build" /\ pc'[t] = "add" /\ found'[t] = i
        /\ UNCHANGED <<scanners, scan>>
        /\ \A n \in Names : scanners[n] # i
        /\ state'[i] = "built"
        /\ target' = [target EXCEPT ![i] = scan[t]]
    BY <1>6 DEF FromConfig, Busy, TypeOK, Unused
  <2>2. TypeOK'
    <3>1. exported' \in [Names -> Scanners \cup {None}]
      BY <1>6 DEF FromConfig, TypeOK
    <3> QED
      BY <1>1, <1>6, <3>1 DEF FromConfig, TypeOK, State
  <2>3. target'[i] = scan[t] /\ \A n \in Names : scanners[n] # None =>
                                   target'[scanners[n]] = target[scanners[n]]
    BY <2>1, Zenon DEF TypeOK
  <2>4. RecordOK'
    <3> SUFFICES ASSUME NEW n \in Names, scanners[n] # None
                 PROVE  /\ target'[scanners[n]] \in Target
                        /\ target'[scanners[n]].name = n
                        /\ target'[scanners[n]].scan.updated \in 1..clock
      BY <1>1, <2>1, Zenon DEF RecordOK
    <3> QED
      BY <2>3, Zenon DEF RecordOK
  <2>5. ReplacedOK(t)'
    <3>1. scan[t].name \in Names
      BY <1>3, <2>1, Zenon
    <3> QED
      BY <2>1, <2>3, <3>1, Zenon DEF ReplacedOK
  <2> QED
    BY <1>4, <2>1, <2>2, <2>4, <2>5, Zenon
<1>7. CASE Add(t)
  <2>1. /\ Busy(t) /\ pc[t] = "add" /\ pc'[t] = "start"
        /\ UNCHANGED <<scan, found, target, state>>
        /\ scanners' = [scanners EXCEPT ![scan[t].name] = found[t]]
    BY <1>7 DEF Add, Busy, TypeOK
  <2>2. found[t] \in Scanners /\ target[found[t]] = scan[t] /\ state[found[t]] = "built"
    BY <2>1, Zenon DEF ReplacedOK
  <2>3. TypeOK'
    BY <1>1, <1>7, <2>2, Zenon DEF Add, TypeOK
  <2>4. scanners'[scan[t].name] = found[t] /\ \A n \in Names \ {scan[t].name} :
                                                 scanners'[n] = scanners[n]
    BY <1>3, <2>1, Zenon DEF TypeOK
  <2>5. RecordOK'
    <3> SUFFICES ASSUME NEW n \in Names, scanners'[n] # None
                 PROVE  /\ target[scanners'[n]] \in Target
                        /\ target[scanners'[n]].name = n
                        /\ target[scanners'[n]].scan.updated \in 1..clock
      BY <1>1, <2>1, Zenon DEF RecordOK
    <3>1. CASE n = scan[t].name
      BY <1>3, <2>1, <2>2, <2>4, <3>1, Zenon
    <3>2. CASE n # scan[t].name
      BY <2>4, <3>2, Zenon DEF RecordOK
    <3> QED
      BY <3>1, <3>2, Zenon
  <2>6. ReplacedOK(t)'
    BY <2>1, <2>2, <2>4, Zenon DEF ReplacedOK
  <2> QED
    BY <1>4, <2>1, <2>3, <2>5, <2>6, Zenon
<1>8. CASE Start(t)
  <2>1. Busy(t) /\ UNCHANGED <<scanners, target>>
    BY <1>8, Zenon DEF Start, Busy
  <2>2. TypeOK' /\ ~Busy(t)'
    BY <1>1, <1>3, <1>8, <2>1, Zenon DEF Start, Visited, TypeOK, State, Busy
  <2>3. RecordOK'
    BY <1>1, <2>1, Zenon DEF RecordOK
  <2> QED
    BY <1>2, <2>2, <2>3
<1>9. CASE Cleanup(t)
  <2>1. /\ target' = target /\ pc'[t] = "idle"
        /\ \A n \in Names : scanners'[n] \in {scanners[n], None}
    BY <1>9 DEF Cleanup, TypeOK
  <2>2. TypeOK'
    <3>1. state' \in [Scanners -> State] /\ scanners' \in [Names -> Scanners \cup {None}]
      BY <1>9 DEF Cleanup, Stopped, TypeOK, State
    <3> QED
      BY <1>1, <1>9, <3>1 DEF Cleanup, TypeOK
  <2>3. RecordOK' /\ ~Busy(t)'
    BY <1>1, <2>1, Zenon DEF RecordOK, Busy
  <2> QED
    BY <1>2, <2>2, <2>3
<1>10. ASSUME NEW i \in Scanners, OpenFile(i) PROVE RefreshInv(t)'
  <2>1. /\ state[i] = "started" /\ state' = [state EXCEPT ![i] = "tailing"]
        /\ UNCHANGED <<scanners, target, exported, pc, todo, keep, scan, found>>
    BY <1>10 DEF OpenFile, locals
  <2>2. TypeOK' /\ RecordOK'
    BY <1>1, <2>1, Zenon DEF TypeOK, State, RecordOK
  <2>3. VersionsOK(t)'
    BY <1>1, <2>1, Zenon DEF VersionsOK, Busy
  <2>4. ReplacedOK(t)'
    BY <2>1, Zenon DEF ReplacedOK, TypeOK
  <2> QED
    BY <2>2, <2>3, <2>4
<1>11. ASSUME NEW n \in Names, Panic(t, n) PROVE RefreshInv(t)'
  <2>1. TypeOK'
    BY <1>1, <1>11 DEF Panic, TypeOK, State
  <2>2. RecordOK' /\ ~Busy(t)'
    BY <1>11, Zenon DEF Panic, RecordOK, Busy
  <2> QED
    BY <1>2, <2>1, <2>2
<1> QED
  BY <1>5, <1>6, <1>7, <1>8, <1>9, <1>10, <1>11

LEMMA RefreshNext ==
    ASSUME NEW t, Threads = {t}, RefreshInv(t), [Next]_vars
    PROVE  RefreshInv(t)'
<1>1. CASE UNCHANGED vars
  BY <1>1, Zenon DEF vars, RefreshInv, TypeOK, VersionsOK, RecordOK, ReplacedOK, Busy
<1>2. CASE Next
  BY <1>2, StoreStep, ReadStep, ScannerStep DEF Next, RefreshStep
<1> QED
  BY <1>1, <1>2

LEMMA RefreshInit == ASSUME NEW t, Threads = {t}, Init PROVE RefreshInv(t)
  BY DEF Init, RefreshInv, TypeOK, State, VersionsOK, RecordOK, ReplacedOK, Busy

-----------------------------------------------------------------------------
(* The scanners follow the store.                                          *)

\* The scanners on record for two names are different.
LEMMA RecordInjective ==
    ASSUME RecordOK, NEW m \in Names, NEW n \in Names, scanners[m] # None,
           scanners[m] = scanners[n]
    PROVE  m = n
  BY DEF RecordOK

LEMMA NextFollows ==
    ASSUME NEW t, Threads = {t}, RefreshInv(t), [Next]_vars
    PROVE  [Contract!Next]_<<clock, Running, Active>>
<1>1. TypeOK /\ VersionsOK(t) /\ RecordOK /\ ReplacedOK(t)
  BY DEF RefreshInv
<1>2. ASSUME UNCHANGED <<clock, scanners, state, target>>
      PROVE  UNCHANGED <<clock, Running, Active>>
  BY <1>2 DEF Running, Active
<1>3. ASSUME UNCHANGED <<clock, scanners, target>>,
             \A n \in Names : scanners[n] # None =>
                (state'[scanners[n]] = "off" <=> state[scanners[n]] = "off")
      PROVE  UNCHANGED <<clock, Running, Active>>
  BY <1>3 DEF Running, Active
<1>4. ASSUME NEW n \in Names, NEW enabled \in BOOLEAN, NEW p \in Lists, PutScan(n, enabled, p)
      PROVE  Contract!Next
  <2>1. clock' = clock + 1 /\ Running' = Running /\ Active' = Active
    BY <1>4 DEF PutScan, Running, Active
  <2> QED
    BY <2>1 DEF Contract!Next, Contract!Store
<1>5. CASE StopExisting(t)
  <2> DEFINE n == scan[t].name
  <2>1. /\ UNCHANGED <<clock, scanners, target>>
        /\ state' = Stopped({scanners[n]})
        /\ n \in Names
    BY <1>1, <1>5, Zenon DEF StopExisting, store, ReplacedOK, VersionsOK, Busy, Target
  <2>2. \A m \in Names \ {n} : scanners[m] # None => state'[scanners[m]] = state[scanners[m]]
    <3> SUFFICES ASSUME NEW m \in Names \ {n}, scanners[m] # None
                 PROVE  state'[scanners[m]] = state[scanners[m]]
      OBVIOUS
    <3>1. scanners[m] # scanners[n] /\ scanners[m] \in Scanners
      BY <1>1, <2>1, RecordInjective DEF TypeOK
    <3> QED
      BY <2>1, <3>1 DEF Stopped
  <2>3. CASE n \in Active'
    <3>1. scanners[n] # None /\ scanners[n] \in Scanners /\ state'[scanners[n]] # "off"
      BY <1>1, <2>1, <2>3, Zenon DEF Active, TypeOK
    <3>2. state'[scanners[n]] = state[scanners[n]]
      BY <2>1, <3>1, Zenon DEF Stopped
    <3> QED
      BY <1>3, <2>1, <2>2, <3>2, Zenon
  <2>4. CASE n \notin Active'
    <3>1. Active' = Active \ {n}
      BY <2>1, <2>2, <2>4, Zenon DEF Active
    <3>2. Running' = Running
      BY <2>1 DEF Running
    <3>3. Contract!Suspend(n)
      BY <2>1, <3>1, <3>2 DEF Contract!Suspend
    <3> QED
      BY <2>1, <3>3 DEF Contract!Next
  <2> QED
    BY <2>3, <2>4
<1>6. ASSUME NEW i \in Scanners, FromConfig(t, i) PROVE UNCHANGED <<clock, Running, Active>>
  <2>1. /\ UNCHANGED <<clock, scanners>>
        /\ \A n \in Names : scanners[n] # i
        /\ state' = [state EXCEPT ![i] = "built"]
        /\ target' = [target EXCEPT ![i] = scan[t]]
    BY <1>6 DEF FromConfig, Unused, store
  <2>2. \A n \in Names : scanners[n] # None => /\ state'[scanners[n]] = state[scanners[n]]
                                               /\ target'[scanners[n]] = target[scanners[n]]
    BY <1>1, <2>1 DEF TypeOK
  <2> QED
    BY <2>1, <2>2 DEF Running, Active
<1>7. CASE Add(t)
  <2> DEFINE n == scan[t].name
             v == scan[t].scan.updated
  <2>1. /\ UNCHANGED <<clock, target, state>>
        /\ scanners' = [scanners EXCEPT ![n] = found[t]]
        /\ n \in Names /\ v \in 1..clock
        /\ found[t] \in Scanners /\ target[found[t]] = scan[t] /\ state[found[t]] = "built"
        /\ scanners[n] # None => target[scanners[n]].scan.updated < v
    BY <1>1, <1>7, Zenon DEF Add, store, ReplacedOK, VersionsOK, Busy, Target
  <2>2. scanners'[n] = found[t] /\ \A m \in Names \ {n} : scanners'[m] = scanners[m]
    BY <1>1, <2>1, Zenon DEF TypeOK
  <2>3. Running' = [Running EXCEPT ![n] = v]
    <3>1. /\ Running' = [m \in Names |-> IF scanners'[m] = None THEN 0
                                        ELSE target[scanners'[m]].scan.updated]
          /\ Running = [m \in Names |-> IF scanners[m] = None THEN 0
                                       ELSE target[scanners[m]].scan.updated]
      BY <2>1 DEF Running
    <3>2. scanners'[n] # None /\ target[scanners'[n]].scan.updated = v
      BY <2>1, <2>2, NoneAssumption, Zenon
    <3> HIDE DEF n, v
    <3> QED
      BY <2>2, <3>1, <3>2
  <2>4. Active' = Active \cup {n}
    BY <2>1, <2>2, NoneAssumption, Zenon DEF Active
  <2>5. v \in Running[n] + 1..clock
    <3>1. clock \in Nat /\ Running[n] \in Nat /\ Running[n] < v
      <4>1. clock \in Nat
        BY <1>1, Zenon DEF TypeOK
      <4>2. CASE scanners[n] = None
        <5>1. Running[n] = 0
          BY <2>1, <4>2, Zenon DEF Running
        <5> HIDE DEF n, v
        <5> QED
          BY <2>1, <4>1, <5>1
      <4>3. CASE scanners[n] # None
        <5>1. /\ Running[n] = target[scanners[n]].scan.updated
              /\ target[scanners[n]].scan.updated \in 1..clock
          BY <1>1, <2>1, <4>3, Zenon DEF Running, RecordOK
        <5> HIDE DEF n, v
        <5> QED
          BY <2>1, <4>1, <4>3, <5>1
      <4> QED
        BY <4>2, <4>3, Zenon
    <3> QED
      BY <2>1, <3>1
  <2>6. Contract!Install(n)
    BY <2>1, <2>3, <2>4, <2>5, Zenon DEF Contract!Install
  <2> QED
    BY <2>1, <2>6, Zenon DEF Contract!Next
<1>8. CASE Start(t)
  <2>1. /\ UNCHANGED <<clock, scanners, target>>
        /\ state' = [state EXCEPT ![found[t]] = "started"]
        /\ state[found[t]] = "built"
    BY <1>1, <1>8, Zenon DEF Start, store, ReplacedOK
  <2>2. \A n \in Names : scanners[n] # None =>
           (state'[scanners[n]] = "off" <=> state[scanners[n]] = "off")
    BY <1>1, <2>1 DEF TypeOK
  <2> QED
    BY <1>3, <2>1, <2>2, Zenon
<1>9. CASE Cleanup(t)
  <2> DEFINE removed == {n \in Names \ keep[t] : scanners[n] # None}
  <2>1. /\ UNCHANGED <<clock, target>>
        /\ state' = Stopped({scanners[n] : n \in removed})
        /\ scanners' = [n \in Names |-> IF n \in removed THEN None ELSE scanners[n]]
    BY <1>9, Zenon DEF Cleanup, store
  <2>2. \A m \in Names \ removed : scanners[m] # None =>
           state'[scanners[m]] = state[scanners[m]]
    <3> SUFFICES ASSUME NEW m \in Names \ removed, scanners[m] # None
                 PROVE  state'[scanners[m]] = state[scanners[m]]
      OBVIOUS
    <3>1. scanners[m] \in Scanners /\ scanners[m] \notin {scanners[n] : n \in removed}
      BY <1>1, RecordInjective DEF TypeOK
    <3> QED
      BY <2>1, <3>1 DEF Stopped
  <2>3. Running' = [n \in Names |-> IF n \in removed THEN 0 ELSE Running[n]]
    BY <2>1 DEF Running
  <2>4. Active' = Active \ removed
    BY <2>1, <2>2 DEF Active
  <2>5. Contract!Remove(removed)
    BY <2>1, <2>3, <2>4 DEF Contract!Remove
  <2> QED
    BY <2>5 DEF Contract!Next
<1>10. ASSUME NEW i \in Scanners, OpenFile(i) PROVE UNCHANGED <<clock, Running, Active>>
  <2>1. /\ UNCHANGED <<clock, scanners, target>>
        /\ state[i] = "started" /\ state' = [state EXCEPT ![i] = "tailing"]
    BY <1>10 DEF OpenFile, store
  <2>2. \A n \in Names : scanners[n] # None =>
           (state'[scanners[n]] = "off" <=> state[scanners[n]] = "off")
    BY <1>1, <2>1 DEF TypeOK
  <2> QED
    BY <1>3, <2>1, <2>2
<1>11. ASSUME NEW n \in Names, Panic(t, n) PROVE Contract!Next
  <2>1. clock' = clock /\ Running' = [m \in Names |-> 0] /\ Active' = {}
    BY <1>11, Zenon DEF Panic, store, Running, Active
  <2>2. Running' = [m \in Names |-> IF m \in Names THEN 0 ELSE Running[m]]
    BY <2>1
  <2>3. Contract!Remove(Names)
    BY <2>1, <2>2 DEF Contract!Remove, Active
  <2> QED
    BY <2>3 DEF Contract!Next
<1>12. CASE \/ UNCHANGED vars
            \/ \E n \in Names : DeleteScan(n)
            \/ Refresh(t)
            \/ GetScanNames(t) \/ GetScanNamesFails(t) \/ GetScanNamesBreakOff(t)
            \/ \E n \in Names : GetScan(t, n) \/ GetScanFails(t, n)
            \/ GetScanPatterns(t) \/ Skip(t) \/ Get(t) \/ FromConfigFails(t)
  <2>1. UNCHANGED <<clock, scanners, state, target>>
    BY <1>12 DEF vars, DeleteScan, Refresh, GetScanNames, GetScanNamesFails, GetScanNamesBreakOff,
                 GetScan, GetScanFails, GetScanPatterns, Skip, Get, FromConfigFails, store
  <2> QED
    BY <1>2, <2>1
<1> QED
  BY <1>4, <1>5, <1>6, <1>7, <1>8, <1>9, <1>10, <1>11, <1>12 DEF Next, RefreshStep

(***************************************************************************)
(* When refreshes do not overlap, the scanner server implements            *)
(* Reconciler, whatever the queries return or leave out: while a name has  *)
(* a scanner on record, that one is replaced only by one of a newer        *)
(* version of the scan.                                                    *)
(***************************************************************************)
THEOREM FollowsCorrect ==
    ASSUME NEW t, Threads = {t}
    PROVE  Spec => FollowsStore
<1>1. Init => Contract!Init /\ RefreshInv(t)
  BY RefreshInit DEF Init, Contract!Init, Running, Active
<1>2. RefreshInv(t) /\ [Next]_vars => RefreshInv(t)'
  BY RefreshNext
<1>3. RefreshInv(t) /\ [Next]_vars => [Contract!Next]_<<clock, Running, Active>>
  BY NextFollows
<1> QED
  BY <1>1, <1>2, <1>3, PTL DEF Spec, FollowsStore, Contract!Spec

-----------------------------------------------------------------------------
(* The scanners that are scheduled are current.                            *)

\* What has been read of the scan visited is what is stored, unless the row has
\* been put again.
StoredOK(t) ==
    LET n == scan[t].name
        s == scan[t].scan
    IN /\ (pc[t] = "patterns" /\ rows[n] # NoRow /\ s.updated >= rows[n].updated)
             => s.enabled = rows[n].enabled
       /\ (pc[t] \in {"visit", "stop", "build", "add", "start"}
             /\ rows[n] # NoRow /\ s.updated >= rows[n].updated)
             => s = rows[n]

LEMMA CurrentNext ==
    ASSUME NEW t, Threads = {t}, "patterns" \notin Faults,
           RefreshInv(t), StoredOK(t), ScheduledIsCurrent, [Next]_vars
    PROVE  StoredOK(t)' /\ ScheduledIsCurrent'
<1>1. TypeOK /\ VersionsOK(t) /\ RecordOK /\ ReplacedOK(t)
  BY DEF RefreshInv
<1>2. ASSUME UNCHANGED <<rows, scanners, target>>,
             \A n \in Names : scanners[n] # None =>
                (state[scanners[n]] # "off" => state'[scanners[n]] # "off")
      PROVE  ScheduledIsCurrent'
  BY <1>2, Zenon DEF ScheduledIsCurrent
<1>3. ASSUME NEW n \in Names, NEW enabled \in BOOLEAN, NEW p \in Lists, PutScan(n, enabled, p)
      PROVE  StoredOK(t)' /\ ScheduledIsCurrent'
  <2>1. /\ UNCHANGED <<scanners, state, target, pc, scan>>
        /\ rows'[n].updated = clock + 1
        /\ \A m \in Names \ {n} : rows'[m] = rows[m]
    BY <1>1, <1>3 DEF PutScan, locals, TypeOK
  <2>2. clock \in Nat
    BY <1>1 DEF TypeOK
  <2>3. StoredOK(t)'
    <3>1. CASE Busy(t)
      <4>1. scan[t].name \in Names /\ scan[t].scan.updated \in 1..clock
        BY <1>1, <3>1, Zenon DEF VersionsOK, Target
      <4>2. ~(scan[t].scan.updated >= clock + 1)
        BY <2>2, <4>1
      <4> QED
        BY <2>1, <4>1, <4>2, Zenon DEF StoredOK
    <3>2. CASE ~Busy(t)
      BY <2>1, <3>2, Zenon DEF StoredOK, Busy
    <3> QED
      BY <3>1, <3>2
  <2>4. ScheduledIsCurrent'
    <3> SUFFICES ASSUME NEW m \in Names, rows'[m] # NoRow, scanners[m] # None,
                        target[scanners[m]].scan.updated >= rows'[m].updated
                 PROVE  target[scanners[m]].scan = rows'[m] /\ state[scanners[m]] # "off"
      BY <2>1, Zenon DEF ScheduledIsCurrent
    <3>1. target[scanners[m]].scan.updated \in 1..clock
      BY <1>1, Zenon DEF RecordOK
    <3>2. ~(target[scanners[m]].scan.updated >= clock + 1)
      BY <2>2, <3>1
    <3>3. m # n
      BY <2>1, <3>2, Zenon
    <3> QED
      BY <2>1, <3>3, Zenon DEF ScheduledIsCurrent
  <2> QED
    BY <2>3, <2>4
<1>4. ASSUME NEW n \in Names, DeleteScan(n) PROVE StoredOK(t)' /\ ScheduledIsCurrent'
  <2>1. /\ UNCHANGED <<scanners, state, target, pc, scan>>
        /\ rows'[n] = NoRow
        /\ \A m \in Names \ {n} : rows'[m] = rows[m]
    BY <1>1, <1>4 DEF DeleteScan, locals, TypeOK
  <2>2. ScheduledIsCurrent'
    BY <2>1, Zenon DEF ScheduledIsCurrent
  <2>3. CASE Busy(t)
    <3>1. scan[t].name \in Names
      BY <1>1, <2>3, Zenon DEF VersionsOK, Target
    <3> QED
      BY <2>1, <2>2, <3>1, Zenon DEF StoredOK
  <2>4. CASE ~Busy(t)
    BY <2>1, <2>2, <2>4, Zenon DEF StoredOK, Busy
  <2> QED
    BY <2>3, <2>4
<1>5. CASE \/ Refresh(t)
           \/ GetScanNames(t) \/ GetScanNamesFails(t) \/ GetScanNamesBreakOff(t)
           \/ \E n \in Names : GetScanFails(t, n)
           \/ Skip(t) \/ FromConfigFails(t)
  <2>1. UNCHANGED <<rows, scanners, target, state>>
    BY <1>5, Zenon DEF Refresh, GetScanNames, GetScanNamesFails, GetScanNamesBreakOff,
       GetScanFails, Skip,
                FromConfigFails, store
  <2>2. pc'[t] \in {"idle", "names", "loop"}
    BY <1>1, <1>5, Zenon DEF Refresh, GetScanNames, GetScanNamesFails, GetScanNamesBreakOff,
       GetScanFails,
                      Skip, FromConfigFails, Visited, TypeOK
  <2> QED
    BY <1>2, <2>1, <2>2, Zenon DEF StoredOK
<1>6. ASSUME NEW n \in Names, GetScan(t, n) PROVE StoredOK(t)' /\ ScheduledIsCurrent'
  <2>1. /\ UNCHANGED <<rows, scanners, target, state>>
        /\ pc'[t] = "patterns" /\ scan'[t].name = n /\ scan'[t].scan = rows[n]
    BY <1>1, <1>6, Zenon DEF GetScan, store, TypeOK
  <2> QED
    BY <1>2, <2>1, Zenon DEF StoredOK
<1>7. CASE GetScanPatterns(t)
  <2> DEFINE n == scan[t].name
             s == scan[t].scan
  <2>1. /\ UNCHANGED <<rows, scanners, target, state>>
        /\ pc[t] = "patterns" /\ pc'[t] = "visit"
        /\ scan'[t] = [scan[t] EXCEPT !.scan.patterns = StoredPatterns(n)]
    BY <1>1, <1>7 DEF GetScanPatterns, store, TypeOK
  <2>2. scan[t] \in Target /\ n \in Names /\ s \in Scan
    BY <1>1, <2>1 DEF VersionsOK, Busy, Target
  <2>3. scan'[t].name = n
    BY <2>1, <2>2 DEF Target
  <2>4. /\ scan'[t].scan \in Scan
        /\ scan'[t].scan.updated = s.updated
        /\ scan'[t].scan.enabled = s.enabled
        /\ rows[n] # NoRow => scan'[t].scan.patterns = rows[n].patterns
    BY <1>1, <2>1, <2>2 DEF Target, Scan, TypeOK, StoredPatterns
  <2>5. ASSUME rows[n] # NoRow, s.updated >= rows[n].updated PROVE scan'[t].scan = rows[n]
    <3>1. rows[n] \in Scan
      BY <1>1, <2>2, <2>5, Zenon DEF TypeOK
    <3>2. s.updated <= rows[n].updated
      BY <1>1, <2>1, <2>5 DEF VersionsOK, Busy
    <3>3. s.updated = rows[n].updated
      BY <2>2, <2>5, <3>1, <3>2 DEF Scan
    <3>4. s.enabled = rows[n].enabled
      BY <2>1, <2>5 DEF StoredOK
    <3> QED
      BY <2>4, <2>5, <3>1, <3>3, <3>4 DEF Scan
  <2> QED
    BY <1>2, <2>1, <2>3, <2>4, <2>5 DEF StoredOK
<1>8. CASE Get(t)
  <2>1. UNCHANGED <<rows, scanners, target, state>> /\ pc[t] = "visit"
    BY <1>8, Zenon DEF Get, store
  <2>2. pc'[t] = "loop" \/ (pc'[t] = "stop" /\ scan' = scan)
    BY <1>1, <1>8, Zenon DEF Get, Visited, TypeOK
  <2> QED
    BY <1>2, <2>1, <2>2, Zenon DEF StoredOK
<1>9. CASE StopExisting(t)
  <2> DEFINE n == scan[t].name
  <2>1. /\ UNCHANGED <<rows, scanners, target, scan>>
        /\ pc[t] = "stop" /\ pc'[t] = "build"
        /\ state' = Stopped({scanners[n]})
        /\ n \in Names
        /\ scanners[n] # None => target[scanners[n]].scan.updated < scan[t].scan.updated
        /\ rows[n] # NoRow => scan[t].scan.updated <= rows[n].updated
    BY <1>1, <1>9, Zenon DEF StopExisting, store, ReplacedOK, VersionsOK, Busy, Target, TypeOK
  <2>2. StoredOK(t)'
    BY <2>1, Zenon DEF StoredOK
  <2>3. ScheduledIsCurrent'
    <3> SUFFICES ASSUME NEW m \in Names, rows[m] # NoRow, scanners[m] # None,
                        target[scanners[m]].scan.updated >= rows[m].updated
                 PROVE  target[scanners[m]].scan = rows[m] /\ state'[scanners[m]] # "off"
      BY <2>1, Zenon DEF ScheduledIsCurrent
    <3>1. m # n
      <4> SUFFICES ASSUME m = n PROVE FALSE
        OBVIOUS
      <4> DEFINE old     == target[scanners[m]].scan.updated
                 visited == scan[t].scan.updated
                 stored  == rows[m].updated
      <4>1. clock \in Nat /\ old \in 1..clock
        BY <1>1, Zenon DEF TypeOK, RecordOK
      <4>2. visited \in 1..clock
        BY <1>1, <2>1, Zenon DEF VersionsOK, Busy
      <4>3. stored \in 1..clock
        BY <1>1, Zenon DEF VersionsOK
      <4>4. old < visited /\ visited <= stored /\ old >= stored
        BY <2>1, Zenon
      <4> HIDE DEF old, visited, stored
      <4> QED
        BY <4>1, <4>2, <4>3, <4>4
    <3>2. scanners[m] # scanners[n] /\ scanners[m] \in Scanners
      BY <1>1, <2>1, <3>1, RecordInjective, Zenon DEF TypeOK
    <3> QED
      BY <2>1, <3>2, Zenon DEF ScheduledIsCurrent, Stopped
  <2> QED
    BY <2>2, <2>3
<1>10. ASSUME NEW i \in Scanners, FromConfig(t, i) PROVE StoredOK(t)' /\ ScheduledIsCurrent'
  <2>1. /\ UNCHANGED <<rows, scanners, scan>>
        /\ pc[t] = "build" /\ pc'[t] = "add"
        /\ \A n \in Names : scanners[n] # i
        /\ state' = [state EXCEPT ![i] = "built"]
        /\ target' = [target EXCEPT ![i] = scan[t]]
    BY <1>1, <1>10, Zenon DEF FromConfig, Unused, store, TypeOK
  <2>2. \A n \in Names : scanners[n] # None => /\ state'[scanners[n]] = state[scanners[n]]
                                               /\ target'[scanners[n]] = target[scanners[n]]
    BY <1>1, <2>1 DEF TypeOK
  <2>3. ScheduledIsCurrent'
    BY <2>1, <2>2, ZenonT(40) DEF ScheduledIsCurrent
  <2> QED
    BY <2>1, <2>3, Zenon DEF StoredOK
<1>11. CASE Add(t)
  <2> DEFINE n == scan[t].name
  <2>1. /\ UNCHANGED <<rows, target, state, scan>>
        /\ pc[t] = "add" /\ pc'[t] = "start"
        /\ n \in Names
        /\ scanners' = [scanners EXCEPT ![n] = found[t]]
        /\ target[found[t]] = scan[t] /\ state[found[t]] = "built"
    BY <1>1, <1>11, Zenon DEF Add, store, ReplacedOK, VersionsOK, Busy, Target, TypeOK
  <2>2. scanners'[n] = found[t] /\ \A m \in Names \ {n} : scanners'[m] = scanners[m]
    BY <1>1, <2>1, Zenon DEF TypeOK
  <2>3. ScheduledIsCurrent'
    BY <2>1, <2>2, ZenonT(40) DEF ScheduledIsCurrent, StoredOK
  <2> QED
    BY <2>1, <2>3, Zenon DEF StoredOK
<1>12. CASE Start(t)
  <2>1. /\ UNCHANGED <<rows, scanners, target>>
        /\ state' = [state EXCEPT ![found[t]] = "started"]
        /\ pc'[t] = "loop"
    BY <1>1, <1>12, Zenon DEF Start, store, Visited, TypeOK
  <2>2. \A n \in Names : scanners[n] # None =>
           (state[scanners[n]] # "off" => state'[scanners[n]] # "off")
    BY <1>1, <2>1 DEF TypeOK
  <2> QED
    BY <1>2, <2>1, <2>2, Zenon DEF StoredOK
<1>13. CASE Cleanup(t)
  <2> DEFINE removed == {n \in Names \ keep[t] : scanners[n] # None}
  <2>1. /\ UNCHANGED <<rows, target>>
        /\ state' = Stopped({scanners[n] : n \in removed})
        /\ scanners' = [n \in Names |-> IF n \in removed THEN None ELSE scanners[n]]
        /\ pc'[t] = "idle"
    BY <1>1, <1>13, Zenon DEF Cleanup, store, TypeOK
  <2>2. ScheduledIsCurrent'
    <3> SUFFICES ASSUME NEW m \in Names \ removed, rows[m] # NoRow, scanners[m] # None,
                        target[scanners[m]].scan.updated >= rows[m].updated
                 PROVE  target[scanners[m]].scan = rows[m] /\ state'[scanners[m]] # "off"
      BY <2>1, Zenon DEF ScheduledIsCurrent
    <3>1. scanners[m] \in Scanners /\ scanners[m] \notin {scanners[n] : n \in removed}
      BY <1>1, RecordInjective DEF TypeOK
    <3> QED
      BY <2>1, <3>1, Zenon DEF ScheduledIsCurrent, Stopped
  <2> QED
    BY <2>1, <2>2, Zenon DEF StoredOK
<1>14. ASSUME NEW i \in Scanners, OpenFile(i) PROVE StoredOK(t)' /\ ScheduledIsCurrent'
  <2>1. /\ UNCHANGED <<rows, scanners, target, pc, scan>>
        /\ state' = [state EXCEPT ![i] = "tailing"]
    BY <1>14 DEF OpenFile, store, locals
  <2>2. \A n \in Names : scanners[n] # None =>
           (state[scanners[n]] # "off" => state'[scanners[n]] # "off")
    BY <1>1, <2>1 DEF TypeOK
  <2> QED
    BY <1>2, <2>1, <2>2, Zenon DEF StoredOK
<1>15. ASSUME NEW n \in Names, Panic(t, n) PROVE StoredOK(t)' /\ ScheduledIsCurrent'
  BY <1>15, Zenon DEF Panic, StoredOK, ScheduledIsCurrent
<1>16. CASE UNCHANGED vars
  BY <1>16, Zenon DEF vars, StoredOK, ScheduledIsCurrent
<1> QED
  BY <1>3, <1>4, <1>5, <1>6, <1>7, <1>8, <1>9, <1>10, <1>11, <1>12, <1>13, <1>14, <1>15, <1>16,
     Zenon
  DEF Next, RefreshStep

(***************************************************************************)
(* When refreshes do not overlap and no list of patterns breaks off        *)
(* unnoticed, a scanner that a refresh takes for "already scheduled" was   *)
(* built from the stored scan and is not stopped, whatever else queries    *)
(* return or leave out.                                                    *)
(***************************************************************************)
THEOREM CurrentCorrect ==
    ASSUME NEW t, Threads = {t}, "patterns" \notin Faults
    PROVE  Spec => []ScheduledIsCurrent
<1>1. Init => RefreshInv(t) /\ StoredOK(t) /\ ScheduledIsCurrent
  <2>1. ASSUME Init PROVE StoredOK(t) /\ ScheduledIsCurrent
    <3>1. pc[t] = "idle" /\ \A n \in Names : rows[n] = NoRow
      BY <2>1 DEF Init
    <3>2. StoredOK(t)
      BY <3>1 DEF StoredOK
    <3>3. ScheduledIsCurrent
      BY <3>1, Zenon DEF ScheduledIsCurrent
    <3> QED
      BY <3>2, <3>3
  <2> QED
    BY <2>1, RefreshInit
<1>2. RefreshInv(t) /\ [Next]_vars => RefreshInv(t)'
  BY RefreshNext
<1>3. RefreshInv(t) /\ StoredOK(t) /\ ScheduledIsCurrent /\ [Next]_vars
        => StoredOK(t)' /\ ScheduledIsCurrent'
  BY CurrentNext
<1> QED
  BY <1>1, <1>2, <1>3, PTL DEF Spec

-----------------------------------------------------------------------------
(* The scanners that read a file are on record.                            *)

Live(i) == state[i] \in {"started", "tailing"}

\* A scanner that reads a file, or is about to, is on record and exported.
LiveOK ==
    \A i \in Scanners : Live(i) => /\ target[i] \in Target
                                   /\ scanners[target[i].name] = i
                                   /\ exported[target[i].name] = i

\* A scanner has been built but not started only in the refresh that built it.
BuiltOK(t) ==
    /\ \A i \in Scanners : state[i] = "built" => pc[t] \in {"add", "start"} /\ found[t] = i
    /\ pc[t] \in {"add", "start"} => exported[scan[t].name] = found[t]

\* From the moment the old scanner of a scan is stopped, none reads its file.
VisitOK(t) ==
    pc[t] \in {"build", "add", "start"} =>
        \A i \in Scanners : Live(i) => target[i].name # scan[t].name

LiveInv(t) == LiveOK /\ BuiltOK(t) /\ VisitOK(t)

\* Steps that leave the scanners alone, and the store.
LEMMA LiveRead ==
    ASSUME NEW t, Threads = {t}, RefreshInv(t), LiveInv(t),
           \/ UNCHANGED vars
           \/ \E n \in Names : \/ \E enabled \in BOOLEAN, p \in Lists : PutScan(n, enabled, p)
                               \/ DeleteScan(n)
           \/ Refresh(t)
           \/ GetScanNames(t) \/ GetScanNamesFails(t) \/ GetScanNamesBreakOff(t)
           \/ \E n \in Names : GetScan(t, n) \/ GetScanFails(t, n)
           \/ GetScanPatterns(t) \/ Skip(t) \/ Get(t)
    PROVE  LiveInv(t)'
<1>1. TypeOK /\ VersionsOK(t) /\ LiveOK /\ BuiltOK(t) /\ VisitOK(t)
  BY DEF RefreshInv, LiveInv
<1>2. UNCHANGED <<scanners, state, target, exported>>
  BY DEF vars, PutScan, DeleteScan, Refresh, GetScanNames, GetScanNamesFails, GetScanNamesBreakOff,
         GetScan, GetScanFails, GetScanPatterns, Skip, Get
<1>3. LiveOK'
  BY <1>1, <1>2, Zenon DEF LiveOK, Live
<1>4. ASSUME NEW n \in Names, Visited(t, n), pc[t] \in {"loop", "patterns", "visit"}
      PROVE  LiveInv(t)'
  <2>1. pc'[t] = "loop"
    BY <1>1, <1>4, Zenon DEF Visited, TypeOK
  <2>2. BuiltOK(t)' /\ VisitOK(t)'
    BY <1>1, <1>2, <1>4, <2>1, Zenon DEF BuiltOK, VisitOK, Busy
  <2> QED
    BY <1>3, <2>2 DEF LiveInv
<1>5. CASE UNCHANGED vars \/ \E n \in Names :
             \/ \E enabled \in BOOLEAN, p \in Lists : PutScan(n, enabled, p)
             \/ DeleteScan(n)
  <2>1. UNCHANGED <<pc, todo, keep, scan, found>>
    BY <1>5, Zenon DEF vars, PutScan, DeleteScan, locals
  <2> QED
    BY <1>1, <1>2, <1>3, <2>1, Zenon DEF LiveInv, BuiltOK, VisitOK, Busy, Live
<1>6. CASE Refresh(t)
  <2>1. pc[t] = "idle" /\ pc'[t] = "names"
    BY <1>1, <1>6, Zenon DEF Refresh, TypeOK
  <2> QED
    BY <1>1, <1>2, <1>3, <2>1, Zenon DEF LiveInv, BuiltOK, VisitOK, Busy
<1>7. CASE GetScanNames(t) \/ GetScanNamesFails(t) \/ GetScanNamesBreakOff(t)
  <2>1. pc[t] = "names" /\ pc'[t] \in {"loop", "idle"}
    BY <1>1, <1>7, Zenon DEF GetScanNames, GetScanNamesFails, GetScanNamesBreakOff, TypeOK
  <2> QED
    BY <1>1, <1>2, <1>3, <2>1, Zenon DEF LiveInv, BuiltOK, VisitOK, Busy
<1>8. ASSUME NEW n \in Names, GetScan(t, n) PROVE LiveInv(t)'
  <2>1. /\ pc[t] = "loop" /\ pc'[t] = "patterns"
        /\ scan'[t].name = n
    BY <1>1, <1>8, Zenon DEF GetScan, TypeOK
  <2> QED
    BY <1>1, <1>2, <1>3, <2>1, Zenon DEF LiveInv, BuiltOK, VisitOK, Busy
<1>9. CASE GetScanPatterns(t)
  <2>1. /\ pc[t] = "patterns" /\ pc'[t] = "visit"
        /\ scan[t] \in Target
    BY <1>1, <1>9 DEF GetScanPatterns, TypeOK, VersionsOK, Busy
  <2>2. scan'[t].name = scan[t].name
    BY <1>1, <1>9, <2>1 DEF GetScanPatterns, TypeOK, Target
  <2> QED
    BY <1>1, <1>2, <1>3, <2>1, <2>2, Zenon DEF LiveInv, BuiltOK, VisitOK, Busy
<1>10. ASSUME NEW n \in Names, GetScanFails(t, n) PROVE LiveInv(t)'
  BY <1>4, <1>10, Zenon DEF GetScanFails
<1>11. CASE Skip(t)
  <2>1. scan[t].name \in Names
    BY <1>1, <1>11, Zenon DEF Skip, VersionsOK, Busy, Target
  <2> QED
    BY <1>4, <1>11, <2>1, Zenon DEF Skip
<1>12. CASE Get(t)
  <2>1. /\ pc[t] = "visit" /\ scan[t].name \in Names
        /\ keep'[t] = keep[t] \cup {scan[t].name}
    BY <1>1, <1>12, Zenon DEF Get, VersionsOK, Busy, Target, TypeOK
  <2>2. CASE Visited(t, scan[t].name)
    BY <1>4, <2>1, <2>2, Zenon
  <2>3. CASE pc' = [pc EXCEPT ![t] = "stop"] /\ UNCHANGED <<todo, scan>>
    <3>1. pc'[t] = "stop"
      BY <1>1, <2>3, Zenon DEF TypeOK
    <3> QED
      BY <1>1, <1>2, <1>3, <2>1, <2>3, <3>1, Zenon DEF LiveInv, BuiltOK, VisitOK, Busy
  <2> QED
    BY <1>12, <2>2, <2>3, Zenon DEF Get
<1> QED
  BY <1>5, <1>6, <1>7, <1>8, <1>9, <1>10, <1>11, <1>12

\* Steps that replace, start, stop and remove scanners.
LEMMA LiveScanner ==
    ASSUME NEW t, Threads = {t}, PromptStart, RefreshInv(t), LiveInv(t),
           \/ StopExisting(t)
           \/ \E i \in Scanners : FromConfig(t, i) \/ OpenFile(i)
           \/ FromConfigFails(t) \/ Add(t) \/ Start(t) \/ Cleanup(t)
           \/ \E n \in Names : Panic(t, n)
    PROVE  LiveInv(t)'
<1>1. /\ TypeOK /\ VersionsOK(t) /\ RecordOK /\ ReplacedOK(t)
      /\ LiveOK /\ BuiltOK(t) /\ VisitOK(t)
  BY DEF RefreshInv, LiveInv
<1>2. ASSUME Busy(t) PROVE scan[t] \in Target /\ scan[t].name \in Names
  BY <1>1, <1>2, Zenon DEF VersionsOK, Target
<1>3. CASE StopExisting(t)
  <2> DEFINE n == scan[t].name
  <2>1. /\ UNCHANGED <<scanners, target, exported, todo, keep, scan>>
        /\ pc[t] = "stop" /\ pc'[t] = "build"
        /\ state' = Stopped({scanners[n]})
        /\ MayStop({scanners[n]})
        /\ n \in Names
    BY <1>1, <1>2, <1>3, Zenon DEF StopExisting, ReplacedOK, Busy, TypeOK
  <2>2. \A i \in Scanners : \/ state'[i] = state[i] /\ (i = scanners[n] => state[i] # "tailing")
                            \/ i = scanners[n] /\ state'[i] = "off"
    BY <2>1, Zenon DEF Stopped
  <2>3. LiveOK'
    BY <1>1, <2>1, <2>2, Zenon DEF LiveOK, Live
  <2>4. BuiltOK(t)'
    BY <1>1, <2>1, <2>2, Zenon DEF BuiltOK
  <2>5. ASSUME NEW i \in Scanners, Live(i)', target[i].name = n PROVE FALSE
    <3>1. Live(i)
      BY <2>2, <2>5, Zenon DEF Live
    <3>2. scanners[n] = i
      BY <1>1, <2>5, <3>1, Zenon DEF LiveOK
    <3>3. state[i] = "started"
      BY <2>2, <2>5, <3>2, Zenon DEF Live
    <3> QED
      BY <2>1, <3>2, <3>3, Zenon DEF MayStop
  <2>6. VisitOK(t)'
    BY <2>1, <2>5, Zenon DEF VisitOK
  <2> QED
    BY <2>3, <2>4, <2>6 DEF LiveInv
<1>4. ASSUME NEW i \in Scanners, FromConfig(t, i) PROVE LiveInv(t)'
  <2> DEFINE n == scan[t].name
  <2>1. /\ UNCHANGED <<scanners, todo, keep, scan>>
        /\ pc[t] = "build" /\ pc'[t] = "add" /\ found'[t] = i
        /\ n \in Names
        /\ state[i] = "off" /\ state' = [state EXCEPT ![i] = "built"]
        /\ target' = [target EXCEPT ![i] = scan[t]]
        /\ exported' = [m \in Names |-> IF m = n THEN i
                                        ELSE IF exported[m] = i THEN None ELSE exported[m]]
    BY <1>1, <1>2, <1>4, Zenon DEF FromConfig, Unused, Busy, TypeOK
  <2>2. /\ state'[i] = "built"
        /\ \A j \in Scanners \ {i} : state'[j] = state[j] /\ target'[j] = target[j]
    BY <1>1, <2>1, Zenon DEF TypeOK
  <2>3. LiveOK'
    <3> SUFFICES ASSUME NEW j \in Scanners, Live(j)'
                 PROVE  /\ target'[j] \in Target
                        /\ scanners'[target'[j].name] = j
                        /\ exported'[target'[j].name] = j
      BY Zenon DEF LiveOK
    <3>1. j # i /\ Live(j) /\ target'[j] = target[j]
      BY <2>2, Zenon DEF Live
    <3>2. /\ target[j] \in Target /\ target[j].name \in Names
          /\ scanners[target[j].name] = j /\ exported[target[j].name] = j
      BY <1>1, <3>1, Zenon DEF LiveOK, Target
    <3>3. target[j].name # n
      BY <1>1, <2>1, <3>1, Zenon DEF VisitOK
    <3> QED
      BY <2>1, <3>1, <3>2, <3>3, Zenon
  <2>4. BuiltOK(t)'
    BY <1>1, <2>1, <2>2, Zenon DEF BuiltOK
  <2>5. VisitOK(t)'
    BY <1>1, <2>1, <2>2, Zenon DEF VisitOK, Busy, Live
  <2> QED
    BY <2>3, <2>4, <2>5 DEF LiveInv
<1>5. CASE FromConfigFails(t)
  <2> DEFINE n == scan[t].name
  <2>1. /\ UNCHANGED <<scanners, state, target, keep>>
        /\ pc[t] = "build" /\ pc'[t] = "loop" /\ todo'[t] = todo[t] \ {n}
        /\ \A m \in Names : m # n => exported'[m] = exported[m]
    BY <1>1, <1>2, <1>5, Zenon DEF FromConfigFails, Visited, Busy, TypeOK
  <2>2. LiveOK'
    BY <1>1, <2>1, Zenon DEF LiveOK, Live, VisitOK, Target
  <2> QED
    BY <1>1, <2>1, <2>2, Zenon DEF LiveInv, BuiltOK, VisitOK, Busy
<1>6. CASE Add(t)
  <2> DEFINE n == scan[t].name
  <2>1. /\ UNCHANGED <<state, target, exported, todo, keep, scan, found>>
        /\ pc[t] = "add" /\ pc'[t] = "start"
        /\ \A m \in Names : m # n => scanners'[m] = scanners[m]
    BY <1>1, <1>2, <1>6, Zenon DEF Add, Busy, TypeOK
  <2>2. LiveOK'
    BY <1>1, <2>1, Zenon DEF LiveOK, Live, VisitOK, Target
  <2>3. BuiltOK(t)'
    BY <1>1, <2>1, Zenon DEF BuiltOK
  <2>4. VisitOK(t)'
    BY <1>1, <2>1, Zenon DEF VisitOK, Busy, Live
  <2> QED
    BY <2>2, <2>3, <2>4 DEF LiveInv
<1>7. CASE Start(t)
  <2> DEFINE n == scan[t].name
  <2>1. /\ UNCHANGED <<scanners, target, exported, keep>>
        /\ pc[t] = "start" /\ pc'[t] = "loop" /\ todo'[t] = todo[t] \ {n}
        /\ n \in Names /\ scan[t] \in Target
        /\ found[t] \in Scanners /\ target[found[t]] = scan[t]
        /\ scanners[n] = found[t] /\ exported[n] = found[t]
        /\ state' = [state EXCEPT ![found[t]] = "started"]
    BY <1>1, <1>2, <1>7, Zenon DEF Start, Visited, ReplacedOK, BuiltOK, VisitOK, Busy, TypeOK
  <2>2. /\ state'[found[t]] = "started"
        /\ \A j \in Scanners \ {found[t]} : state'[j] = state[j]
    BY <1>1, <2>1, Zenon DEF TypeOK
  <2>3. LiveOK'
    BY <1>1, <2>1, <2>2, ZenonT(40) DEF LiveOK, Live
  <2>4. BuiltOK(t)'
    BY <1>1, <2>1, <2>2, Zenon DEF BuiltOK
  <2>5. VisitOK(t)'
    BY <2>1, Zenon DEF VisitOK, Busy
  <2> QED
    BY <2>3, <2>4, <2>5 DEF LiveInv
<1>8. CASE Cleanup(t)
  <2> DEFINE removed == {n \in Names \ keep[t] : scanners[n] # None}
  <2>1. /\ UNCHANGED <<target, exported>>
        /\ pc[t] = "loop" /\ pc'[t] = "idle"
        /\ state' = Stopped({scanners[n] : n \in removed})
        /\ scanners' = [n \in Names |-> IF n \in removed THEN None ELSE scanners[n]]
        /\ MayStop({scanners[n] : n \in removed})
    BY <1>1, <1>8, Zenon DEF Cleanup, TypeOK
  <2>2. \A i \in Scanners : \/ state'[i] = "off"
                            \/ state'[i] = state[i] /\ (i \in {scanners[n] : n \in removed}
                                                            => state[i] # "tailing")
    BY <2>1, Zenon DEF Stopped
  <2>3. LiveOK'
    <3> SUFFICES ASSUME NEW i \in Scanners, Live(i)'
                 PROVE  /\ target[i] \in Target
                        /\ scanners'[target[i].name] = i
                        /\ exported[target[i].name] = i
      BY <2>1, Zenon DEF LiveOK
    <3>1. state'[i] = state[i] /\ Live(i)
      BY <2>2, Zenon DEF Live
    <3>2. /\ target[i] \in Target /\ target[i].name \in Names
          /\ scanners[target[i].name] = i /\ exported[target[i].name] = i
      BY <1>1, <3>1, Zenon DEF LiveOK, Target
    <3>3. target[i].name \notin removed
      <4> SUFFICES ASSUME target[i].name \in removed PROVE FALSE
        BY Zenon
      <4>1. i \in {scanners[n] : n \in removed}
        BY <3>2, Zenon
      <4>2. state[i] = "started"
        BY <2>2, <3>1, <4>1, Zenon DEF Live
      <4> QED
        BY <2>1, <4>1, <4>2, Zenon DEF MayStop
    <3> QED
      BY <2>1, <3>2, <3>3, Zenon
  <2>4. BuiltOK(t)'
    BY <1>1, <2>1, <2>2, Zenon DEF BuiltOK
  <2> QED
    BY <2>1, <2>3, <2>4, Zenon DEF LiveInv, VisitOK, Busy
<1>9. ASSUME NEW i \in Scanners, OpenFile(i) PROVE LiveInv(t)'
  <2>1. /\ UNCHANGED <<scanners, target, exported, pc, todo, keep, scan, found>>
        /\ state[i] = "started" /\ state' = [state EXCEPT ![i] = "tailing"]
    BY <1>9 DEF OpenFile, locals
  <2>2. state'[i] = "tailing" /\ \A j \in Scanners \ {i} : state'[j] = state[j]
    BY <1>1, <2>1, Zenon DEF TypeOK
  <2>3. \A j \in Scanners : /\ Live(j)' <=> Live(j)
                            /\ state'[j] = "built" <=> state[j] = "built"
                            /\ state'[j] = "started" => state[j] = "started"
    BY <2>1, <2>2 DEF Live
  <2>4. LiveOK'
    BY <1>1, <2>1, <2>3, Zenon DEF LiveOK
  <2>5. BuiltOK(t)'
    BY <1>1, <2>1, <2>3, Zenon DEF BuiltOK
  <2>6. VisitOK(t)'
    BY <1>1, <2>1, <2>3, Zenon DEF VisitOK, Busy
  <2> QED
    BY <2>4, <2>5, <2>6 DEF LiveInv
<1>10. ASSUME NEW n \in Names, Panic(t, n) PROVE LiveInv(t)'
  <2>1. pc'[t] = "idle" /\ \A i \in Scanners : state'[i] = "off"
    BY <1>10, Zenon DEF Panic
  <2> QED
    BY <2>1, Zenon DEF LiveInv, LiveOK, Live, BuiltOK, VisitOK, Busy
<1> QED
  BY <1>3, <1>4, <1>5, <1>6, <1>7, <1>8, <1>9, <1>10

(***************************************************************************)
(* When refreshes do not overlap and a started scanner opens its file      *)
(* before it is stopped, every scanner that reads a file is the one on     *)
(* record for its name and feeds the counters that are exported, whatever  *)
(* queries fail or break off and whatever patterns are refused.            *)
(***************************************************************************)
THEOREM RecordCorrect ==
    ASSUME NEW t, Threads = {t}, PromptStart
    PROVE  Spec => []ScannersOnRecord
<1>1. Init => RefreshInv(t) /\ LiveInv(t)
  <2>1. Init => LiveInv(t)
    BY Zenon DEF Init, LiveInv, LiveOK, Live, BuiltOK, VisitOK, Busy
  <2> QED
    BY <2>1, RefreshInit
<1>2. RefreshInv(t) /\ [Next]_vars => RefreshInv(t)'
  BY RefreshNext
<1>3. RefreshInv(t) /\ LiveInv(t) /\ [Next]_vars => LiveInv(t)'
  BY LiveRead, LiveScanner, Zenon DEF Next, RefreshStep
<1>4. LiveInv(t) => ScannersOnRecord
  BY Zenon DEF LiveInv, LiveOK, Live, ScannersOnRecord, Tails
<1> QED
  BY <1>1, <1>2, <1>3, <1>4, PTL DEF Spec
=============================================================================
