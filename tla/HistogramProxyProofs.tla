------------------------- MODULE HistogramProxyProofs -------------------------
(***************************************************************************)
(* Proofs about HistogramProxy, for any set of names, families and threads *)
(* and any configurations.                                                 *)
(***************************************************************************)
EXTENDS HistogramProxy, TLAPS

\* A list of translators is not nil.
LEMMA ListNotNil ==
    ASSUME NEW trs \in Seq(Configs \ BadConfigs)
    PROVE  trs # Nil
<1>1. trs \in Seq(Configs)
  OBVIOUS
<1> QED BY <1>1, NilAssumption

\* The list that Load starts with is not nil.
LEMMA EmptyList == << >> \in Translators /\ << >> # Nil /\ Nil \in Translators
<1>1. << >> \in Seq(Configs \ BadConfigs)
  OBVIOUS
<1> QED BY <1>1, ListNotNil, Zenon DEF Translators

\* What Load's append adds to a list.
LEMMA InListAppend ==
    ASSUME NEW trs \in Seq(Configs \ BadConfigs), NEW c \in Configs \ BadConfigs,
           NEW cfg
    PROVE  InList(cfg, Append(trs, c)) <=> (InList(cfg, trs) \/ cfg = c)
<1>1. Append(trs, c) \in Seq(Configs \ BadConfigs)
  OBVIOUS
<1>2. Append(trs, c) # Nil /\ trs # Nil
  BY <1>1, ListNotNil
<1>3. (\E i \in DOMAIN Append(trs, c) : Append(trs, c)[i] = cfg)
        <=> ((\E i \in DOMAIN trs : trs[i] = cfg) \/ cfg = c)
  <2>1. DOMAIN Append(trs, c) = 1..(Len(trs) + 1) /\ DOMAIN trs = 1..Len(trs)
    BY <1>1
  <2>2. Append(trs, c)[Len(trs) + 1] = c /\ \A i \in 1..Len(trs) : Append(trs, c)[i] = trs[i]
    OBVIOUS
  <2> QED BY <2>1, <2>2
<1> QED BY <1>2, <1>3 DEF InList

\* Load appends a configuration that New accepts to a list of such.
LEMMA AppendType ==
    ASSUME TypeOK, NEW t \in Threads, NEW n \in Names, GetHistogram(t, n), rows[n].enabled
    PROVE  /\ rows[n].cfg \in Configs \ BadConfigs
           /\ loaded[t] \in Seq(Configs \ BadConfigs)
           /\ loaded' = [loaded EXCEPT ![t] = Append(loaded[t], rows[n].cfg)]
  BY Zenon DEF TypeOK, GetHistogram, Row, Translators

\* The types, which the program keeps: a list that is installed holds only
\* translators whose regex compiles, and a load under way has a list to add to.
LEMMA TypeStep == TypeOK /\ [Next]_vars => TypeOK'
<1> SUFFICES ASSUME TypeOK, [Next]_vars PROVE TypeOK'
  OBVIOUS
<1> USE NilAssumption
<1>1. ASSUME NEW n \in Names, NEW cfg \in Configs, PutHistogram(n, cfg) PROVE TypeOK'
  <2>1. rows' \in [Names -> Row \cup {NoRow}]
    BY <1>1 DEF TypeOK, PutHistogram, Row
  <2> QED BY <1>1, <2>1 DEF TypeOK, PutHistogram, Touch, request
<1>2. ASSUME NEW n \in Names, DeleteHistogram(n) PROVE TypeOK'
  BY <1>2 DEF TypeOK, DeleteHistogram, Touch, request
<1>3. ASSUME NEW t \in Threads, Refresh(t) PROVE TypeOK'
  BY <1>3 DEF TypeOK, Refresh, store, request
<1>4. ASSUME NEW t \in Threads, GetHistogramNames(t) PROVE TypeOK'
  <2>1. << >> \in Translators /\ << >> # Nil /\ Nil \in Translators
    BY EmptyList
  <2>2. loaded' \in [Threads -> Translators] /\ todo' \in [Threads -> SUBSET Names]
    BY <1>4, <2>1 DEF TypeOK, GetHistogramNames
  <2>3. \A u \in Threads : todo'[u] # {} => loaded'[u] # Nil
    BY <1>4, <2>1 DEF TypeOK, GetHistogramNames
  <2>4. pc' \in [Threads -> {"idle", "names", "loop"}]
    BY <1>4 DEF TypeOK, GetHistogramNames
  <2> QED BY <1>4, <2>2, <2>3, <2>4 DEF TypeOK, GetHistogramNames, store, request
<1>5. ASSUME NEW t \in Threads, NEW names \in SUBSET Names, NamesBreakOff(t, names) PROVE TypeOK'
  <2>1. << >> \in Translators /\ << >> # Nil /\ Nil \in Translators
    BY EmptyList
  <2>2. loaded' \in [Threads -> Translators] /\ todo' \in [Threads -> SUBSET Names]
    BY <1>5, <2>1 DEF TypeOK, NamesBreakOff
  <2>3. \A u \in Threads : todo'[u] # {} => loaded'[u] # Nil
    BY <1>5, <2>1 DEF TypeOK, NamesBreakOff
  <2>4. pc' \in [Threads -> {"idle", "names", "loop"}] /\ touched' \in [Threads -> SUBSET Names]
    BY <1>5 DEF TypeOK, NamesBreakOff
  <2> QED BY <1>5, <2>2, <2>3, <2>4 DEF TypeOK, NamesBreakOff, store, request
<1>6. ASSUME NEW t \in Threads, NEW n \in Names, GetHistogram(t, n) PROVE TypeOK'
  <2>1. CASE rows[n].enabled
    <3>1. Append(loaded[t], rows[n].cfg) \in Seq(Configs \ BadConfigs)
      BY <1>6, <2>1, AppendType
    <3>2. Append(loaded[t], rows[n].cfg) \in Translators /\ Append(loaded[t], rows[n].cfg) # Nil
      BY <3>1, ListNotNil, Zenon DEF Translators
    <3> QED BY <1>6, <2>1, <3>2, AppendType DEF TypeOK, GetHistogram, store, request
  <2>2. CASE ~rows[n].enabled
    BY <1>6, <2>2 DEF TypeOK, GetHistogram, store, request
  <2> QED BY <2>1, <2>2
<1>7. ASSUME NEW t \in Threads, Idle(t), UNCHANGED <<store, translators, request>> PROVE TypeOK'
  BY <1>7 DEF TypeOK, Idle, store, request, Translators
<1>8. ASSUME NEW t \in Threads, SetTranslators(t) PROVE TypeOK'
  <2>1. loaded[t] \in Translators
    BY DEF TypeOK
  <2> QED BY <1>8, <2>1 DEF TypeOK, SetTranslators, Idle, store, Translators
<1>9. ASSUME NEW t \in Threads, NEW n \in Names, Panic(t, n) PROVE TypeOK'
  BY <1>9 DEF TypeOK, Panic, Done, store, Translators
<1>10. ASSUME GetTranslators PROVE TypeOK'
  BY <1>10 DEF TypeOK, GetTranslators, store, load
<1>11. ASSUME NEW f \in Families, CopyFamily(f) PROVE TypeOK'
  BY <1>11 DEF TypeOK, CopyFamily, store, load
<1>12. ASSUME MetricsHandlerReturns PROVE TypeOK'
  BY <1>12 DEF TypeOK, MetricsHandlerReturns, Done, store, load, Translators
<1>13. ASSUME UNCHANGED vars PROVE TypeOK'
  BY <1>13 DEF TypeOK, vars
<1> QED BY <1>1, <1>2, <1>3, <1>4, <1>5, <1>6, <1>7, <1>8, <1>9, <1>10, <1>11, <1>12, <1>13
        DEF Next, RefreshStep, NewFails, RefreshFails

\* The variables of the proxy keep their types.
THEOREM TypeCorrect == Spec => []TypeOK
<1>1. Init => TypeOK
  BY DEF Init, TypeOK, Translators
<1> QED BY <1>1, TypeStep, PTL DEF Spec

-----------------------------------------------------------------------------
(* LoadsWhatIsStored is inductive together with the types.                 *)

\* What LoadsWhatIsStored says of one thread.
LoadOK(t) ==
    pc[t] = "loop" =>
        /\ \A n \in Names \ (touched[t] \cup todo[t]) :
             Stored(n) => InList(rows[n].cfg, loaded[t])
        /\ touched[t] = {} =>
             \A cfg \in Configs :
               InList(cfg, loaded[t]) =>
                 \E n \in Names \ todo[t] : Stored(n) /\ rows[n].cfg = cfg

\* A change of one row, which every load under way takes note of.
LEMMA EditKeepsLoads ==
    ASSUME TypeOK, LoadsWhatIsStored, NEW n \in Names, Touch(n),
           \A m \in Names \ {n} : rows'[m] = rows[m],
           UNCHANGED <<pc, todo, loaded>>
    PROVE  LoadsWhatIsStored'
<1> SUFFICES ASSUME NEW t \in Threads PROVE LoadOK(t)'
  BY DEF LoadsWhatIsStored, LoadOK
<1> SUFFICES ASSUME pc[t] = "loop" PROVE LoadOK(t)'
  BY DEF LoadOK
<1>1. touched'[t] = touched[t] \cup {n}
  BY DEF TypeOK, Touch
<1>2. ASSUME NEW m \in Names \ (touched'[t] \cup todo[t]), Stored(m)'
      PROVE  InList(rows'[m].cfg, loaded[t])
  BY <1>1, <1>2 DEF LoadsWhatIsStored, Stored
<1> QED BY <1>1, <1>2 DEF LoadOK, InList

\* Other threads do not mind what one thread does with its own load.
LEMMA OthersKeepLoads ==
    ASSUME LoadsWhatIsStored, NEW t \in Threads, rows' = rows, LoadOK(t)',
           \A u \in Threads \ {t} : /\ pc'[u] = pc[u]
                                     /\ todo'[u] = todo[u]
                                     /\ loaded'[u] = loaded[u]
                                     /\ touched'[u] = touched[u]
    PROVE  LoadsWhatIsStored'
<1> SUFFICES ASSUME NEW u \in Threads PROVE LoadOK(u)'
  BY DEF LoadsWhatIsStored, LoadOK
<1>1. CASE u = t
  BY <1>1
<1>2. CASE u # t
  BY <1>2 DEF LoadsWhatIsStored, LoadOK, Stored, InList
<1> QED BY <1>1, <1>2

\* Every step keeps LoadsWhatIsStored.
LEMMA LoadsStep == TypeOK /\ LoadsWhatIsStored /\ [Next]_vars => LoadsWhatIsStored'
<1> SUFFICES ASSUME TypeOK, LoadsWhatIsStored, [Next]_vars PROVE LoadsWhatIsStored'
  OBVIOUS
<1>1. ASSUME NEW n \in Names, NEW cfg \in Configs, PutHistogram(n, cfg) PROVE LoadsWhatIsStored'
  BY <1>1, EditKeepsLoads DEF PutHistogram, TypeOK
<1>2. ASSUME NEW n \in Names, DeleteHistogram(n) PROVE LoadsWhatIsStored'
  BY <1>2, EditKeepsLoads DEF DeleteHistogram, TypeOK
<1>3. ASSUME NEW t \in Threads, Refresh(t) PROVE LoadsWhatIsStored'
  <2>1. pc'[t] = "names" /\ LoadOK(t)'
    BY <1>3 DEF Refresh, TypeOK, LoadOK
  <2> QED BY <1>3, <2>1, OthersKeepLoads DEF Refresh, TypeOK, store
<1>4. ASSUME NEW t \in Threads, NEW names \in SUBSET Names,
             \A n \in Names \ names : rows[n] = NoRow \/ n \in touched'[t],
             todo' = [todo EXCEPT ![t] = names],
             loaded' = [loaded EXCEPT ![t] = IF names = {} THEN Nil ELSE << >>],
             pc' = [pc EXCEPT ![t] = "loop"],
             \A u \in Threads \ {t} : touched'[u] = touched[u],
             UNCHANGED store
      PROVE  LoadsWhatIsStored'
  <2>1. todo'[t] = names /\ loaded'[t] \in {Nil, << >>} /\ rows' = rows
    BY <1>4 DEF TypeOK, store
  <2>2. \A cfg : ~InList(cfg, loaded'[t])
    BY <2>1 DEF InList
  <2>3. LoadOK(t)'
    BY <1>4, <2>1, <2>2 DEF LoadOK, Stored, InList
  <2> QED BY <1>4, <2>1, <2>3, OthersKeepLoads DEF TypeOK
<1>5. ASSUME NEW t \in Threads, GetHistogramNames(t) PROVE LoadsWhatIsStored'
  <2> DEFINE names == {n \in Names : rows[n] # NoRow}
  <2>1. /\ names \in SUBSET Names
        /\ \A n \in Names \ names : rows[n] = NoRow
    OBVIOUS
  <2>2. /\ todo' = [todo EXCEPT ![t] = names]
        /\ loaded' = [loaded EXCEPT ![t] = IF names = {} THEN Nil ELSE << >>]
        /\ pc' = [pc EXCEPT ![t] = "loop"]
        /\ touched' = touched
        /\ UNCHANGED store
    BY <1>5 DEF GetHistogramNames
  <2> HIDE DEF names
  <2> QED BY <1>4, <2>1, <2>2, Zenon
<1>6. ASSUME NEW t \in Threads, NEW names \in SUBSET Names, NamesBreakOff(t, names)
      PROVE  LoadsWhatIsStored'
  <2>1. /\ touched'[t] = {n \in Names \ names : rows[n] # NoRow}
        /\ \A u \in Threads \ {t} : touched'[u] = touched[u]
    BY <1>6 DEF NamesBreakOff, TypeOK
  <2> QED BY <1>4, <1>6, <2>1, Zenon DEF NamesBreakOff
<1>7. ASSUME NEW t \in Threads, NEW n \in Names, GetHistogram(t, n) PROVE LoadsWhatIsStored'
  <2>1. /\ rows' = rows
        /\ pc' = pc /\ pc[t] = "loop"
        /\ touched' = touched
        /\ todo'[t] = todo[t] \ {n}
        /\ n \in todo[t]
        /\ rows[n] # NoRow
    BY <1>7 DEF GetHistogram, TypeOK, store
  <2>2. \A u \in Threads \ {t} : todo'[u] = todo[u] /\ loaded'[u] = loaded[u]
    BY <1>7 DEF GetHistogram, TypeOK
  <2>3. \A cfg \in Configs :
          InList(cfg, loaded'[t]) <=> (InList(cfg, loaded[t]) \/ (Stored(n) /\ rows[n].cfg = cfg))
    <3>1. CASE rows[n].enabled
      <4>1. loaded'[t] = Append(loaded[t], rows[n].cfg)
        BY <1>7, <3>1, AppendType DEF TypeOK
      <4>2. rows[n].cfg \in Configs \ BadConfigs /\ loaded[t] \in Seq(Configs \ BadConfigs)
        BY <1>7, <3>1, AppendType
      <4>3. ASSUME NEW cfg \in Configs
            PROVE  InList(cfg, loaded'[t]) <=> (InList(cfg, loaded[t]) \/ cfg = rows[n].cfg)
        <5>1. InList(cfg, Append(loaded[t], rows[n].cfg))
                <=> (InList(cfg, loaded[t]) \/ cfg = rows[n].cfg)
          BY <4>2, InListAppend, Zenon
        <5> QED BY <4>1, <5>1, Zenon
      <4> QED BY <2>1, <3>1, <4>3 DEF Stored
    <3>2. CASE ~rows[n].enabled
      BY <1>7, <3>2 DEF GetHistogram, Stored
    <3> QED BY <3>1, <3>2
  <2>4. \A m \in Names : Stored(m) => rows[m].cfg \in Configs
    BY DEF TypeOK, Stored, Row
  <2>5. LoadOK(t)'
    <3>1. ASSUME NEW m \in Names \ (touched[t] \cup todo'[t]), Stored(m)
          PROVE  InList(rows[m].cfg, loaded'[t])
      BY <2>1, <2>3, <2>4, <3>1 DEF LoadsWhatIsStored
    <3>2. ASSUME touched[t] = {}, NEW cfg \in Configs, InList(cfg, loaded'[t])
          PROVE  \E m \in Names \ todo'[t] : Stored(m) /\ rows[m].cfg = cfg
      BY <2>1, <2>3, <3>2 DEF LoadsWhatIsStored
    <3> QED BY <2>1, <3>1, <3>2 DEF LoadOK, Stored, InList
  <2> QED BY <2>1, <2>2, <2>5, OthersKeepLoads
<1>8. ASSUME NEW t \in Threads, Idle(t), UNCHANGED store PROVE LoadsWhatIsStored'
  <2>1. pc'[t] = "idle" /\ LoadOK(t)'
    BY <1>8 DEF Idle, TypeOK, LoadOK
  <2> QED BY <1>8, <2>1, OthersKeepLoads DEF Idle, TypeOK, store
<1>9. ASSUME NEW t \in Threads, NEW n \in Names, Panic(t, n) PROVE LoadsWhatIsStored'
  BY <1>9 DEF Panic, LoadsWhatIsStored
<1>10. ASSUME UNCHANGED <<store, load>> PROVE LoadsWhatIsStored'
  BY <1>10 DEF LoadsWhatIsStored, Stored, InList, store, load
<1> QED BY <1>1, <1>2, <1>3, <1>5, <1>6, <1>7, <1>8, <1>9, <1>10
        DEF Next, RefreshStep, NewFails, RefreshFails, SetTranslators, GetTranslators,
            CopyFamily, MetricsHandlerReturns, vars, store, load

(***************************************************************************)
(* Whatever edits, failures and other refreshes come in between, the list  *)
(* that Load builds accounts for the rows it listed that did not change.   *)
(***************************************************************************)
THEOREM LoadsCorrect == Spec => []LoadsWhatIsStored
<1>1. Init => LoadsWhatIsStored
  BY DEF Init, LoadsWhatIsStored
<1>2. Spec => []TypeOK
  BY TypeCorrect
<1> QED BY <1>1, <1>2, LoadsStep, PTL DEF Spec

-----------------------------------------------------------------------------
(* A scrape uses one list.                                                 *)

(***************************************************************************)
(* The list that a request applies is one of those in effect since it      *)
(* began, and has made all of what the request has written.                *)
(***************************************************************************)
ScrapeInv ==
    /\ out = [f \in Families |-> out[f]]
    /\ scrape = "copy" =>
         snapshot \in seen /\ \A f \in Families \ left : out[f] = Written(snapshot, f)

\* Refreshes add to the lists seen, and only the request itself writes.
LEMMA ScrapeStep == ScrapeInv /\ [Next]_vars => ScrapeInv'
<1> SUFFICES ASSUME ScrapeInv, [Next]_vars PROVE ScrapeInv'
  OBVIOUS
<1>1. ASSUME UNCHANGED request PROVE ScrapeInv'
  BY <1>1 DEF ScrapeInv, request
<1>2. ASSUME NEW t \in Threads, SetTranslators(t) PROVE ScrapeInv'
  BY <1>2 DEF ScrapeInv, SetTranslators
<1>3. ASSUME Done PROVE ScrapeInv'
  BY <1>3 DEF ScrapeInv, Done
<1>4. ASSUME GetTranslators PROVE ScrapeInv'
  BY <1>4 DEF ScrapeInv, GetTranslators
<1>5. ASSUME NEW f \in Families, CopyFamily(f) PROVE ScrapeInv'
  <2>1. /\ left' = left \ {f} /\ out' = [out EXCEPT ![f] = Written(snapshot, f)]
        /\ UNCHANGED <<scrape, snapshot, seen>> /\ scrape = "copy"
    BY <1>5 DEF CopyFamily
  <2>2. out' = [g \in Families |-> out'[g]]
    BY <2>1 DEF ScrapeInv
  <2>3. \A g \in Families : out'[g] = IF g = f THEN Written(snapshot, f) ELSE out[g]
    BY <2>1 DEF ScrapeInv
  <2>4. \A g \in Families \ left' : out'[g] = Written(snapshot, g)
    BY <2>1, <2>3 DEF ScrapeInv
  <2> QED BY <2>1, <2>2, <2>4 DEF ScrapeInv
<1> QED BY <1>1, <1>2, <1>3, <1>4, <1>5
        DEF Next, RefreshStep, PutHistogram, DeleteHistogram, Refresh, GetHistogramNames,
            GetHistogram, NewFails, Panic, RefreshFails, NamesBreakOff, MetricsHandlerReturns,
            vars, request

(***************************************************************************)
(* However many refreshes install new lists while a response is written,   *)
(* all of the response is the work of one list.                            *)
(***************************************************************************)
THEOREM OneListCorrect == Spec => []OneListPerScrape
<1>1. Init => ScrapeInv
  BY DEF Init, ScrapeInv
<1>2. ScrapeInv => OneListPerScrape
  BY DEF ScrapeInv, OneListPerScrape
<1> QED BY <1>1, <1>2, ScrapeStep, PTL DEF Spec
===============================================================================
