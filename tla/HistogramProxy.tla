---------------------------- MODULE HistogramProxy ----------------------------
(***************************************************************************)
(* The proxy for upstream histograms: the refresh of the http server       *)
(* (internal/http/server.go) loads a translator for every enabled row of   *)
(* _visus.histogram (internal/translator/translator.go) and hands them to  *)
(* the writer (internal/metric/writer.go), which applies them to the       *)
(* histogram families of a scrape.  The refresh takes no lock, so that the *)
(* scheduler's and SIGHUP's may overlap; the writer's lock covers single   *)
(* reads and writes of its list of translators.                            *)
(*                                                                         *)
(* The server runs with --prometheus and --rewrite-histograms.  Families   *)
(* that are not histograms are copied as they are, and left out.  A regex  *)
(* is the set of families it matches.                                      *)
(***************************************************************************)
EXTENDS Naturals, Sequences, FiniteSets

CONSTANTS
    Names,       \* names of histogram configurations
    Families,    \* the histogram families of the upstream
    Configs,     \* the configurations operators put in the store
    BadConfigs,  \* the ones whose regex does not compile
    NoRow,       \* no such row
    Nil,         \* the nil slice
    Threads,     \* the goroutines that refresh
    MaxUpdates   \* bound on the number of puts and deletes

Config == [regex : SUBSET Families, bins : Nat]

ASSUME ConfigsAssumption == Configs \subseteq Config /\ BadConfigs \subseteq Configs
ASSUME NoRowAssumption   == NoRow \notin [cfg : Configs, enabled : BOOLEAN]
ASSUME NilAssumption     == Nil \notin Seq(Configs)
ASSUME BoundAssumption   == MaxUpdates \in Nat

VARIABLES
    rows,        \* the _visus.histogram table
    updates,     \* puts and deletes so far
    translators, \* w.mu.translators
    pc,          \* where a refresh stands
    todo,        \* names it has still to load
    loaded,      \* the translators it has built
    touched,     \* history: rows changed since it listed the names, or missed by the list
    scrape,      \* where a request stands
    snapshot,    \* the translators it applies
    left,        \* families it has still to write
    out,         \* what it has written of every family
    seen         \* history: translators in effect since it fetched its own

store == <<rows, updates>>
load == <<pc, todo, loaded, touched>>
request == <<scrape, snapshot, left, out, seen>>
vars == <<rows, updates, translators, pc, todo, loaded, touched, scrape, snapshot,
          left, out, seen>>

Row == [cfg : Configs, enabled : BOOLEAN]

-----------------------------------------------------------------------------
(* The store.                                                              *)

\* A refresh that is loading will have read n before or after this.
Touch(n) == touched' = [t \in Threads |-> IF pc[t] = "loop" THEN touched[t] \cup {n} ELSE {}]

\* upsertHistogram.sql writes neither enabled, which defaults to true, nor updated.
PutHistogram(n, cfg) ==
    /\ updates < MaxUpdates
    /\ updates' = updates + 1
    /\ rows' = [rows EXCEPT ![n] = [cfg     |-> cfg,
                                    enabled |-> rows[n] = NoRow \/ rows[n].enabled]]
    /\ Touch(n)
    /\ UNCHANGED <<translators, pc, todo, loaded, request>>

DeleteHistogram(n) ==
    /\ updates < MaxUpdates
    /\ updates' = updates + 1
    /\ rows[n] # NoRow
    /\ rows' = [rows EXCEPT ![n] = NoRow]
    /\ Touch(n)
    /\ UNCHANGED <<translators, pc, todo, loaded, request>>

-----------------------------------------------------------------------------
(* The refresh of thread t.                                                *)

Refresh(t) ==
    /\ pc[t] = "idle"
    /\ pc' = [pc EXCEPT ![t] = "names"]
    /\ UNCHANGED <<store, translators, todo, loaded, touched, request>>

\* Load returns nil when there are no names, and a slice, maybe empty, when
\* there are.
GetHistogramNames(t) ==
    /\ pc[t] = "names"
    /\ LET names == {n \in Names : rows[n] # NoRow}
       IN /\ todo' = [todo EXCEPT ![t] = names]
          /\ loaded' = [loaded EXCEPT ![t] = IF names = {} THEN Nil ELSE << >>]
    /\ pc' = [pc EXCEPT ![t] = "loop"]
    /\ UNCHANGED <<store, translators, touched, request>>

\* The query breaks off, which rows.Err would tell but nobody asks: the names
\* read so far pass for all of them.
NamesBreakOff(t, names) ==
    /\ pc[t] = "names"
    /\ \A n \in names : rows[n] # NoRow
    /\ \E n \in Names \ names : rows[n] # NoRow
    /\ todo' = [todo EXCEPT ![t] = names]
    /\ loaded' = [loaded EXCEPT ![t] = IF names = {} THEN Nil ELSE << >>]
    /\ touched' = [touched EXCEPT ![t] = {n \in Names \ names : rows[n] # NoRow}]
    /\ pc' = [pc EXCEPT ![t] = "loop"]
    /\ UNCHANGED <<store, translators, request>>

\* The thread is done: what it built, and what it was to build, is forgotten.
Idle(t) ==
    /\ pc' = [pc EXCEPT ![t] = "idle"]
    /\ todo' = [todo EXCEPT ![t] = {}]
    /\ loaded' = [loaded EXCEPT ![t] = Nil]
    /\ touched' = [touched EXCEPT ![t] = {}]

\* Faulty variant: a disabled configuration is translated all the same.
GetHistogramDisabledToo(t, n) ==
    /\ pc[t] = "loop"
    /\ n \in todo[t]
    /\ rows[n] # NoRow
    /\ ~(rows[n].enabled /\ rows[n].cfg \in BadConfigs)
    /\ todo' = [todo EXCEPT ![t] = @ \ {n}]
    /\ loaded' = [loaded EXCEPT ![t] = Append(@, rows[n].cfg)]
    /\ UNCHANGED <<store, translators, pc, touched, request>>

\* A translator is built for n, if it is enabled.
GetHistogram(t, n) ==
    /\ pc[t] = "loop"
    /\ n \in todo[t]
    /\ rows[n] # NoRow
    /\ ~(rows[n].enabled /\ rows[n].cfg \in BadConfigs)
    /\ todo' = [todo EXCEPT ![t] = @ \ {n}]
    /\ loaded' = IF rows[n].enabled
                 THEN [loaded EXCEPT ![t] = Append(@, rows[n].cfg)] ELSE loaded
    /\ UNCHANGED <<store, translators, pc, touched, request>>

\* New refuses the regex, and Load returns the error.
NewFails(t, n) ==
    /\ pc[t] = "loop"
    /\ n \in todo[t]
    /\ rows[n] # NoRow
    /\ rows[n].enabled
    /\ rows[n].cfg \in BadConfigs
    /\ Idle(t)
    /\ UNCHANGED <<store, translators, request>>

\* The certificates or the names cannot be read, or a histogram cannot.
RefreshFails(t) ==
    /\ pc[t] = "names" \/ (pc[t] = "loop" /\ todo[t] # {})
    /\ Idle(t)
    /\ UNCHANGED <<store, translators, request>>

\* Faulty variant: an empty list leaves the old one in place.
SetTranslatorsNonEmpty(t) ==
    /\ pc[t] = "loop"
    /\ todo[t] = {}
    /\ translators' = IF loaded[t] \in {Nil, << >>} THEN translators ELSE loaded[t]
    /\ seen' = IF scrape = "idle" THEN {} ELSE seen \cup {translators'}
    /\ Idle(t)
    /\ UNCHANGED <<store, scrape, snapshot, left, out>>

SetTranslators(t) ==
    /\ pc[t] = "loop"
    /\ todo[t] = {}
    /\ translators' = loaded[t]
    /\ seen' = IF scrape = "idle" THEN {} ELSE seen \cup {loaded[t]}
    /\ Idle(t)
    /\ UNCHANGED <<store, scrape, snapshot, left, out>>

-----------------------------------------------------------------------------
(* A scrape.                                                               *)

\* The families are written one after the other: raw without translators, else
\* once for every translator that matches.  A translator changes the family in
\* place, so that the next one applies to its result.
Written(trs, f) ==
    IF trs = Nil THEN << << >> >>
    ELSE LET matching == SelectSeq(trs, LAMBDA tr : f \in tr.regex)
         IN [i \in 1..Len(matching) |-> SubSeq(matching, 1, i)]

\* The upstream has answered, and the writer fetches its translators.
GetTranslators ==
    /\ scrape = "idle"
    /\ scrape' = "copy"
    /\ snapshot' = translators
    /\ seen' = {translators}
    /\ left' = Families
    /\ UNCHANGED <<store, translators, load, out>>

Done ==
    /\ scrape' = "idle"
    /\ snapshot' = Nil
    /\ left' = {}
    /\ out' = [f \in Families |-> << >>]
    /\ seen' = {}

\* Faulty variant: the translators are looked up anew for every family.
CopyFamilyUnlocked(f) ==
    /\ scrape = "copy"
    /\ f \in left
    /\ left' = left \ {f}
    /\ out' = [out EXCEPT ![f] = Written(translators, f)]
    /\ UNCHANGED <<store, translators, load, scrape, snapshot, seen>>

CopyFamily(f) ==
    /\ scrape = "copy"
    /\ f \in left
    /\ left' = left \ {f}
    /\ out' = [out EXCEPT ![f] = Written(snapshot, f)]
    /\ UNCHANGED <<store, translators, load, scrape, snapshot, seen>>

\* The metrics of the registry follow, and the response is complete; or the
\* client is gone before that.  If the upstream does not answer, there is no
\* request to model: the handler returns.
MetricsHandlerReturns ==
    /\ scrape = "copy"
    /\ Done
    /\ UNCHANGED <<store, translators, load>>

-----------------------------------------------------------------------------
\* GetHistogram returns nil for a name deleted since it was listed, and Load
\* dereferences it.  The service manager restarts the process.
Panic(t, n) ==
    /\ pc[t] = "loop"
    /\ n \in todo[t]
    /\ rows[n] = NoRow
    /\ translators' = Nil
    /\ pc' = [u \in Threads |-> "idle"]
    /\ todo' = [u \in Threads |-> {}]
    /\ loaded' = [u \in Threads |-> Nil]
    /\ touched' = [u \in Threads |-> {}]
    /\ Done
    /\ UNCHANGED store

\* The table may hold anything; only SQL sets enabled to false.
Init ==
    /\ rows \in [Names -> Row \cup {NoRow}]
    /\ updates = 0
    /\ translators = Nil
    /\ pc = [t \in Threads |-> "idle"]
    /\ todo = [t \in Threads |-> {}]
    /\ loaded = [t \in Threads |-> Nil]
    /\ touched = [t \in Threads |-> {}]
    /\ scrape = "idle"
    /\ snapshot = Nil
    /\ left = {}
    /\ out = [f \in Families |-> << >>]
    /\ seen = {}

RefreshStep(t) ==
    \/ GetHistogramNames(t)
    \/ \E n \in Names : GetHistogram(t, n) \/ NewFails(t, n) \/ Panic(t, n)
    \/ SetTranslators(t)

Next ==
    \/ \E n \in Names : (\E cfg \in Configs : PutHistogram(n, cfg)) \/ DeleteHistogram(n)
    \/ \E t \in Threads :
        \/ Refresh(t)
        \/ RefreshStep(t)
        \/ RefreshFails(t)
        \/ \E names \in SUBSET Names : NamesBreakOff(t, names)
    \/ GetTranslators
    \/ \E f \in Families : CopyFamily(f)
    \/ MetricsHandlerReturns

Spec == Init /\ [][Next]_vars

\* The scheduler refreshes again and again, and queries answer or fail.
FairSpec == Spec /\ \A t \in Threads : WF_vars(Refresh(t)) /\ WF_vars(RefreshStep(t))

-----------------------------------------------------------------------------
(* Properties.                                                             *)

Translators == Seq(Configs \ BadConfigs) \cup {Nil}

TypeOK ==
    /\ rows \in [Names -> Row \cup {NoRow}]
    /\ updates \in Nat
    /\ translators \in Translators
    /\ pc \in [Threads -> {"idle", "names", "loop"}]
    /\ todo \in [Threads -> SUBSET Names]
    /\ loaded \in [Threads -> Translators]
    /\ \A t \in Threads : todo[t] # {} => loaded[t] # Nil
    /\ touched \in [Threads -> SUBSET Names]
    /\ scrape \in {"idle", "copy"}
    /\ snapshot \in Translators
    /\ left \subseteq Families
    /\ seen \subseteq Translators

Stored(n) == rows[n] # NoRow /\ rows[n].enabled

InList(cfg, trs) == trs # Nil /\ \E i \in DOMAIN trs : trs[i] = cfg

(***************************************************************************)
(* What a refresh is about to install accounts for every row that it       *)
(* listed and that did not change while it was reading: the enabled ones   *)
(* it has visited are in the list, and if there is no other row, there is  *)
(* nothing else in the list.                                               *)
(***************************************************************************)
LoadsWhatIsStored ==
    \A t \in Threads :
        pc[t] = "loop" =>
            /\ \A n \in Names \ (touched[t] \cup todo[t]) :
                 Stored(n) => InList(rows[n].cfg, loaded[t])
            /\ touched[t] = {} =>
                 \A cfg \in Configs :
                   InList(cfg, loaded[t]) =>
                     \E n \in Names \ todo[t] : Stored(n) /\ rows[n].cfg = cfg

(***************************************************************************)
(* A response is the work of one list of translators, which was in effect  *)
(* at some time of the copying: no family is rewritten by an old list next *)
(* to one rewritten by a new list, however refreshes come in between.      *)
(***************************************************************************)
OneListPerScrape ==
    scrape = "copy" =>
        \E trs \in seen : \A f \in Families \ left : out[f] = Written(trs, f)

\* The store is left alone and its queries answer in full.
NoDisturbance ==
    /\ rows' = rows
    /\ \A t \in Threads :
         ~RefreshFails(t) /\ \A names \in SUBSET Names : ~NamesBreakOff(t, names)

\* The translators in effect are those of the store.
Current ==
    IF \A n \in Names : rows[n] = NoRow THEN translators = Nil
    ELSE /\ translators # Nil
         /\ \A cfg \in Configs :
              InList(cfg, translators) <=> \E n \in Names : Stored(n) /\ rows[n].cfg = cfg

(***************************************************************************)
(* Once the store is left alone, and holds no regex that is refused, the   *)
(* translators become those of the store and stay so: a refresh that       *)
(* overlaps with others does not bring an old list back for good.          *)
(***************************************************************************)
Converges ==
    <>[][NoDisturbance]_vars =>
        <>[]((\A n \in Names : Stored(n) => rows[n].cfg \notin BadConfigs) => Current)
===============================================================================
