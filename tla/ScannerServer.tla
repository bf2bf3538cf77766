---------------------------- MODULE ScannerServer ----------------------------
(***************************************************************************)
(* The scanner server of one visus process (internal/scanner/server.go and *)
(* scanner.go) keeps the log scanners in step with the scans stored in the *)
(* _visus schema.  Unlike the refresh of the collector server, its refresh *)
(* holds no lock from one step to the next: the lock protects the map of   *)
(* scanners only, and the scheduler and SIGHUP may refresh at the same     *)
(* time.  A scanner opens its file in a goroutine of its own, some time    *)
(* after Start.                                                            *)
(*                                                                         *)
(* FromConfig refuses the patterns in BadPatterns, because a regular       *)
(* expression does not compile or the registry has another descriptor for  *)
(* a metric of that name.  A format it does not know would be refused in   *)
(* the same way, and is not distinguished.                                 *)
(***************************************************************************)
EXTENDS Naturals, FiniteSets

CONSTANTS
    Names,        \* names of scans
    Patterns,     \* patterns
    BadPatterns,  \* the ones that FromConfig refuses
    Lists,        \* the sets of patterns that scans are put with
    NoRow,        \* no such row
    None,         \* no scanner
    Threads,      \* the goroutines that refresh
    Scanners,     \* scanner objects
    PromptStart,  \* whether a started scanner opens its file before it is stopped
    Faults,       \* what may happen to queries: "error", "names", "patterns"
    MaxUpdates    \* bound on the number of puts

Scan == [updated : Nat, enabled : BOOLEAN, patterns : SUBSET Patterns]

ASSUME PatternsAssumption == BadPatterns \subseteq Patterns /\ Lists \subseteq SUBSET Patterns
ASSUME NoRowAssumption    == NoRow \notin Scan
ASSUME NoneAssumption     == None \notin Scanners
ASSUME BoundAssumption    == MaxUpdates \in Nat
ASSUME FlagsAssumption    == PromptStart \in BOOLEAN

\* A query fails, or the list of names or of patterns breaks off unnoticed: the
\* loops over the results do not ask rows.Err.
ASSUME FaultsAssumption   == Faults \subseteq {"error", "names", "patterns"}

VARIABLES
    rows,      \* the _visus.scan and _visus.pattern tables
    clock,     \* current_timestamp() of the last put
    scanners,  \* s.mu.scanners
    state,     \* state of a scanner object
    target,    \* what a scanner object was built from, and its name
    exported,  \* registry: the scanner whose counters are registered for a name
    pc,        \* where a refresh stands
    todo,      \* names it has still to visit
    keep,      \* newScans
    scan,      \* the scan being visited
    found      \* the scanner being replaced, or being built

store == <<rows, clock>>
locals == <<pc, todo, keep, scan, found>>
vars == <<rows, clock, scanners, state, target, exported, pc, todo, keep, scan, found>>

\* Stopped, or not in use; built; waiting for the goroutine that Start spawned;
\* tailing the file.
State == {"off", "built", "started", "tailing"}

Target == [name : Names, scan : Scan]

\* Stop closes the file, if it is open: a scanner whose goroutine has not
\* opened it yet is not stopped.
Stopped(S) ==
    [i \in Scanners |-> IF i \in S /\ state[i] = "tailing" THEN "off" ELSE state[i]]

\* Whether the scanners in S may be stopped now.  Without PromptStart, a scanner
\* may be stopped before its goroutine has opened the file.
MayStop(S) == PromptStart => \A i \in Scanners : i \in S => state[i] # "started"

\* A scanner object that nothing refers to: one that is yet to be allocated.
Unused(i) ==
    /\ state[i] = "off"
    /\ \A n \in Names : scanners[n] # i
    /\ \A t \in Threads : found[t] # i

-----------------------------------------------------------------------------
(* The store.                                                              *)

PutScan(n, enabled, patterns) ==
    /\ clock < MaxUpdates
    /\ clock' = clock + 1
    /\ rows' = [rows EXCEPT ![n] = [updated |-> clock + 1, enabled |-> enabled,
                                    patterns |-> patterns]]
    /\ UNCHANGED <<scanners, state, target, exported, locals>>

DeleteScan(n) ==
    /\ rows[n] # NoRow
    /\ rows' = [rows EXCEPT ![n] = NoRow]
    /\ UNCHANGED <<clock, scanners, state, target, exported, locals>>

-----------------------------------------------------------------------------
(* The refresh of thread t.                                                *)

Refresh(t) ==
    /\ pc[t] = "idle"
    /\ pc' = [pc EXCEPT ![t] = "names"]
    /\ UNCHANGED <<store, scanners, state, target, exported, todo, keep, scan, found>>

GetScanNames(t) ==
    /\ pc[t] = "names"
    /\ todo' = [todo EXCEPT ![t] = {n \in Names : rows[n] # NoRow}]
    /\ keep' = [keep EXCEPT ![t] = {}]
    /\ pc' = [pc EXCEPT ![t] = "loop"]
    /\ UNCHANGED <<store, scanners, state, target, exported, scan, found>>

GetScanNamesFails(t) ==
    /\ pc[t] = "names"
    /\ "error" \in Faults
    /\ pc' = [pc EXCEPT ![t] = "idle"]
    /\ UNCHANGED <<store, scanners, state, target, exported, todo, keep, scan, found>>

\* The result breaks off: the scans left out pass for deleted.
GetScanNamesBreakOff(t) ==
    /\ pc[t] = "names"
    /\ "names" \in Faults
    /\ \E names \in SUBSET {n \in Names : rows[n] # NoRow} : todo' = [todo EXCEPT ![t] = names]
    /\ keep' = [keep EXCEPT ![t] = {}]
    /\ pc' = [pc EXCEPT ![t] = "loop"]
    /\ UNCHANGED <<store, scanners, state, target, exported, scan, found>>

\* The first query of GetScan.
GetScan(t, n) ==
    /\ pc[t] = "loop"
    /\ n \in todo[t]
    /\ rows[n] # NoRow
    /\ scan' = [scan EXCEPT ![t] = [name |-> n, scan |-> rows[n]]]
    /\ pc' = [pc EXCEPT ![t] = "patterns"]
    /\ UNCHANGED <<store, scanners, state, target, exported, todo, keep, found>>

\* Faulty variant: the patterns are read before the row.
GetScanPatternsFirst(t) ==
    /\ pc[t] = "patterns"
    /\ rows[scan[t].name] # NoRow
    /\ scan' = [scan EXCEPT ![t].scan.updated = rows[scan[t].name].updated,
                            ![t].scan.enabled = rows[scan[t].name].enabled]
    /\ pc' = [pc EXCEPT ![t] = "visit"]
    /\ UNCHANGED <<store, scanners, state, target, exported, todo, keep, found>>

\* The second query reads the patterns stored by now, or some of them: if it
\* breaks off, the scan has the timestamp of the row and a part of its patterns.
StoredPatterns(n) == IF rows[n] = NoRow THEN {} ELSE rows[n].patterns

GetScanPatterns(t) ==
    /\ pc[t] = "patterns"
    /\ LET stored == StoredPatterns(scan[t].name)
       IN \E ps \in IF "patterns" \in Faults THEN SUBSET stored ELSE {stored} :
            scan' = [scan EXCEPT ![t].scan.patterns = ps]
    /\ pc' = [pc EXCEPT ![t] = "visit"]
    /\ UNCHANGED <<store, scanners, state, target, exported, todo, keep, found>>

Visited(t, n) ==
    /\ todo' = [todo EXCEPT ![t] = @ \ {n}]
    /\ scan' = [scan EXCEPT ![t] = None]
    /\ found' = [found EXCEPT ![t] = None]
    /\ pc' = [pc EXCEPT ![t] = "loop"]

\* Either query fails: the error is logged, and n is not confirmed.
GetScanFails(t, n) ==
    /\ "error" \in Faults
    /\ \/ pc[t] = "loop" /\ n \in todo[t]
       \/ pc[t] = "patterns" /\ n = scan[t].name
    /\ Visited(t, n)
    /\ UNCHANGED <<store, scanners, state, target, exported, keep>>

Skip(t) ==
    /\ pc[t] = "visit"
    /\ ~scan[t].scan.enabled
    /\ Visited(t, scan[t].name)
    /\ UNCHANGED <<store, scanners, state, target, exported, keep>>

\* Faulty variants: the timestamps are not compared; a scanner is not told from
\* an older one.
AlreadyScheduledAnyVersion(t) == scanners[scan[t].name] # None

AlreadyScheduledOlder(t) ==
    LET existing == scanners[scan[t].name]
    IN existing # None /\ target[existing].scan.updated > scan[t].scan.updated

AlreadyScheduled(t) ==
    LET existing == scanners[scan[t].name]
    IN existing # None /\ target[existing].scan.updated >= scan[t].scan.updated

\* get: the scan is confirmed, and the scanner for it looked up.
Get(t) ==
    /\ pc[t] = "visit"
    /\ scan[t].scan.enabled
    /\ keep' = [keep EXCEPT ![t] = @ \cup {scan[t].name}]
    /\ \/ /\ AlreadyScheduled(t)
          /\ Visited(t, scan[t].name)
       \/ /\ ~AlreadyScheduled(t)
          /\ found' = [found EXCEPT ![t] = scanners[scan[t].name]]
          /\ pc' = [pc EXCEPT ![t] = "stop"]
          /\ UNCHANGED <<todo, scan>>
    /\ UNCHANGED <<store, scanners, state, target, exported>>

\* Faulty variant: the existing scanner is not stopped.
StopExistingForgotten(t) ==
    /\ pc[t] = "stop"
    /\ found' = [found EXCEPT ![t] = None]
    /\ pc' = [pc EXCEPT ![t] = "build"]
    /\ UNCHANGED <<store, scanners, state, target, exported, todo, keep, scan>>

\* existing.Stop(), if there is one.
StopExisting(t) ==
    /\ pc[t] = "stop"
    /\ MayStop({found[t]})
    /\ state' = Stopped({found[t]})
    /\ found' = [found EXCEPT ![t] = None]
    /\ pc' = [pc EXCEPT ![t] = "build"]
    /\ UNCHANGED <<store, scanners, target, exported, todo, keep, scan>>

\* FromConfig builds a scanner and registers its counters, in the place of the
\* ones registered under the same names.
FromConfig(t, i) ==
    /\ pc[t] = "build"
    /\ Unused(i)
    /\ scan[t].scan.patterns \cap BadPatterns = {}
    /\ state' = [state EXCEPT ![i] = "built"]
    /\ target' = [target EXCEPT ![i] = scan[t]]
    /\ exported' = [n \in Names |-> IF n = scan[t].name THEN i
                                   ELSE IF exported[n] = i THEN None ELSE exported[n]]
    /\ found' = [found EXCEPT ![t] = i]
    /\ pc' = [pc EXCEPT ![t] = "add"]
    /\ UNCHANGED <<store, scanners, todo, keep, scan>>

\* The counters before the one refused are replaced, those after it are not.
FromConfigFails(t) ==
    /\ pc[t] = "build"
    /\ scan[t].scan.patterns \cap BadPatterns # {}
    /\ exported' = [exported EXCEPT ![scan[t].name] = None]
    /\ Visited(t, scan[t].name)
    /\ UNCHANGED <<store, scanners, state, target, keep>>

Add(t) ==
    /\ pc[t] = "add"
    /\ scanners' = [scanners EXCEPT ![scan[t].name] = found[t]]
    /\ pc' = [pc EXCEPT ![t] = "start"]
    /\ UNCHANGED <<store, state, target, exported, todo, keep, scan, found>>

\* Start spawns the goroutine, and never fails.
Start(t) ==
    /\ pc[t] = "start"
    /\ state' = [state EXCEPT ![found[t]] = "started"]
    /\ Visited(t, scan[t].name)
    /\ UNCHANGED <<store, scanners, target, exported, keep>>

\* cleanup stops and removes the scanners that were not confirmed, under the
\* lock.  Their counters stay registered.
Cleanup(t) ==
    /\ pc[t] = "loop"
    /\ todo[t] = {}
    /\ LET removed == {n \in Names \ keep[t] : scanners[n] # None}
       IN /\ MayStop({scanners[n] : n \in removed})
          /\ state' = Stopped({scanners[n] : n \in removed})
          /\ scanners' = [n \in Names |-> IF n \in removed THEN None ELSE scanners[n]]
    /\ pc' = [pc EXCEPT ![t] = "idle"]
    /\ UNCHANGED <<store, target, exported, todo, keep, scan, found>>

\* The goroutine of a scanner opens the file and tails it from its end.
OpenFile(i) ==
    /\ state[i] = "started"
    /\ state' = [state EXCEPT ![i] = "tailing"]
    /\ UNCHANGED <<store, scanners, target, exported, locals>>

\* GetScan returns a nil scan for a name deleted since it was listed, and the
\* refresh dereferences it.  The service manager restarts the process.
Panic(t, n) ==
    /\ pc[t] = "loop"
    /\ n \in todo[t]
    /\ rows[n] = NoRow
    /\ scanners' = [m \in Names |-> None]
    /\ state' = [i \in Scanners |-> "off"]
    /\ exported' = [m \in Names |-> None]
    /\ pc' = [u \in Threads |-> "idle"]
    /\ todo' = [u \in Threads |-> {}]
    /\ keep' = [u \in Threads |-> {}]
    /\ scan' = [u \in Threads |-> None]
    /\ found' = [u \in Threads |-> None]
    /\ target' = [i \in Scanners |-> None]
    /\ UNCHANGED store

Init ==
    /\ rows = [n \in Names |-> NoRow]
    /\ clock = 0
    /\ scanners = [n \in Names |-> None]
    /\ state = [i \in Scanners |-> "off"]
    /\ target = [i \in Scanners |-> None]
    /\ exported = [n \in Names |-> None]
    /\ pc = [t \in Threads |-> "idle"]
    /\ todo = [t \in Threads |-> {}]
    /\ keep = [t \in Threads |-> {}]
    /\ scan = [t \in Threads |-> None]
    /\ found = [t \in Threads |-> None]

RefreshStep(t) ==
    \/ GetScanNames(t)
    \/ \E n \in Names : GetScan(t, n) \/ Panic(t, n)
    \/ GetScanPatterns(t)
    \/ Skip(t)
    \/ Get(t)
    \/ StopExisting(t)
    \/ \E i \in Scanners : FromConfig(t, i)
    \/ FromConfigFails(t)
    \/ Add(t)
    \/ Start(t)
    \/ Cleanup(t)

Next ==
    \/ \E n \in Names : \/ \E enabled \in BOOLEAN, ps \in Lists : PutScan(n, enabled, ps)
                        \/ DeleteScan(n)
    \/ \E t \in Threads : \/ Refresh(t)
                          \/ RefreshStep(t)
                          \/ GetScanNamesFails(t)
                          \/ GetScanNamesBreakOff(t)
                          \/ \E n \in Names : GetScanFails(t, n)
    \/ \E i \in Scanners : OpenFile(i)

Spec == Init /\ [][Next]_vars

\* The scheduler refreshes again and again, queries answer or fail, and the
\* goroutine of a scanner runs.
FairSpec ==
    /\ Spec
    /\ \A t \in Threads : WF_vars(Refresh(t)) /\ WF_vars(RefreshStep(t))
    /\ \A i \in Scanners : WF_vars(OpenFile(i))

-----------------------------------------------------------------------------
(* Properties.                                                             *)

TypeOK ==
    /\ rows \in [Names -> Scan \cup {NoRow}]
    /\ clock \in Nat
    /\ scanners \in [Names -> Scanners \cup {None}]
    /\ state \in [Scanners -> State]
    /\ target \in [Scanners -> Target \cup {None}]
    /\ exported \in [Names -> Scanners \cup {None}]
    /\ pc \in [Threads -> {"idle", "names", "loop", "patterns", "visit", "stop",
                           "build", "add", "start"}]
    /\ todo \in [Threads -> SUBSET Names]
    /\ keep \in [Threads -> SUBSET Names]
    /\ scan \in [Threads -> Target \cup {None}]
    /\ found \in [Threads -> Scanners \cup {None}]

\* The scanner i is tailing, or about to tail, the file of the scan n.
Tails(i, n) == state[i] \in {"started", "tailing"} /\ target[i].name = n

(***************************************************************************)
(* Every scanner that reads a file is the one on record for its name, and  *)
(* the counters it feeds are the ones that are exported: no scanner is     *)
(* left behind, out of the reach of later refreshes, and no line is        *)
(* counted twice or in vain.                                               *)
(***************************************************************************)
ScannersOnRecord ==
    \A i \in Scanners, n \in Names : Tails(i, n) => scanners[n] = i /\ exported[n] = i

(***************************************************************************)
(* A scanner that a refresh takes for "already scheduled" was built from   *)
(* the stored scan, and has been started: neither a put between the two    *)
(* queries of GetScan nor a failed attempt to replace the scanner makes    *)
(* refreshes settle for the wrong one.  It needs lists of patterns that do *)
(* not break off unnoticed ("patterns" is not in Faults): a scanner built  *)
(* from a part of them has the timestamp of the stored scan.               *)
(***************************************************************************)
ScheduledIsCurrent ==
    \A n \in Names :
        ( /\ rows[n] # NoRow
          /\ scanners[n] # None
          /\ target[scanners[n]].scan.updated >= rows[n].updated )
            => /\ target[scanners[n]].scan = rows[n]
               /\ state[scanners[n]] # "off"

\* The version of its scan that a scanner was built from.
Running == [n \in Names |-> IF scanners[n] = None THEN 0 ELSE target[scanners[n]].scan.updated]

\* The names whose scanners are not stopped.
Active == {n \in Names : scanners[n] # None /\ state[scanners[n]] # "off"}

Contract == INSTANCE Reconciler WITH running <- Running, active <- Active

(***************************************************************************)
(* The server implements Reconciler, as long as refreshes do not overlap:  *)
(* while a name has a scanner on record, that one is replaced only by one  *)
(* of a newer version of the scan, and once stopped for a replacement it   *)
(* is not taken up again.  A refresh that could not read the scan, or got  *)
(* a list of names without it, removes the scanner, and the next one may   *)
(* build it anew from the same version.                                    *)
(***************************************************************************)
FollowsStore == Contract!Spec

\* Queries succeed and nobody deletes a scan.
NoDisturbance ==
    /\ rows' = rows
    /\ \A t \in Threads : /\ ~GetScanNamesFails(t)
                          /\ GetScanNamesBreakOff(t) => GetScanNames(t)
                          /\ \A n \in Names : ~GetScanFails(t, n)

(***************************************************************************)
(* Once the store is left alone and queries succeed, an enabled scan whose *)
(* patterns are accepted is eventually tailed as it is stored, and no      *)
(* other scan is tailed.  No list of patterns may ever have broken off     *)
(* ("patterns" is not in Faults): the scanner built from it would stay as  *)
(* it is until the next edit.                                              *)
(***************************************************************************)
Converges ==
    <>[][NoDisturbance]_vars =>
        <>[](\A n \in Names :
               IF /\ rows[n] # NoRow
                  /\ rows[n].enabled
                  /\ rows[n].patterns \cap BadPatterns = {}
               THEN \E i \in Scanners : Tails(i, n) /\ target[i].scan = rows[n]
               ELSE \A i \in Scanners : ~Tails(i, n))

\* The cleanup of a refresh that runs alone leaves no scanner that reads a file
\* for a scan that is not to be kept.
CleanupRemovesAll ==
    [][\A t \in Threads :
         (Cleanup(t) /\ \A u \in Threads \ {t} : pc[u] = "idle")
            => \A i \in Scanners : state'[i] = "tailing" => target[i].name \in keep[t]]_vars
=============================================================================
