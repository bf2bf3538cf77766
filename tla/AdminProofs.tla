----------------------------- MODULE AdminProofs -----------------------------
(***************************************************************************)
(* Proofs about Admin for any number of sessions, names and documents: the *)
(* statements of a transaction add up to what the command was to store,    *)
(* only configurations that put has checked are stored, a document that    *)
(* was printed can be put back, and the commands implement the abstract    *)
(* ConfigStore as long as no histogram is put with enabled: false.         *)
(***************************************************************************)
EXTENDS Admin, TLAPS

\* A configuration read from a document carries the document's name.
LEMMA UnmarshalShape ==
    ASSUME NEW k \in Kinds, NEW doc, Unmarshal(k, doc) # Invalid
    PROVE  /\ doc.name # ""
           /\ \E r, p : Unmarshal(k, doc) = [name |-> doc.name, row |-> r, parts |-> p]
<1>1. CASE k = "collection"
  <2>1. Unmarshal(k, doc) = UnmarshalCollection(doc)
    BY <1>1 DEF Unmarshal
  <2> QED
    BY <2>1, Zenon DEF UnmarshalCollection
<1>2. CASE k = "scan"
  <2>1. Unmarshal(k, doc) = UnmarshalScan(doc)
    BY <1>2 DEF Unmarshal
  <2> QED
    BY <2>1, Zenon DEF UnmarshalScan
<1>3. CASE k = "histogram"
  <2>1. Unmarshal(k, doc) = UnmarshalHistogram(doc)
    BY <1>3 DEF Unmarshal
  <2> QED
    BY <2>1, Zenon DEF UnmarshalHistogram
<1> QED
  BY <1>1, <1>2, <1>3, Zenon DEF Kinds

\* So does the document printed for a configuration.
LEMMA MarshalName ==
    ASSUME NEW k \in Kinds, NEW c
    PROVE  Marshal(k, c).name = c.name
BY DEF Kinds, Marshal, MarshalCollection, MarshalScan, MarshalHistogram

-----------------------------------------------------------------------------
(* Documents and configurations.                                           *)

\* No histogram is put with enabled: false, which upsertHistogram.sql leaves out.
OnlyEnabled == \A doc \in Docs["histogram"] : doc.enabled = TRUE

\* What unmarshal makes sure of: the rows of each kind of configuration, ...
RowOK(k, r) ==
    /\ r \in Row(k)
    /\ k = "collection" => /\ r.scope \in {"node", "cluster"}
                           /\ r.frequency % MicrosPerSecond = 0
                           /\ IsInjective(r.labels)
                           /\ r.query # ""
    /\ k = "scan"       => r.format \in {"crdb-v2", "crdb-v2-auth"}
    /\ k = "histogram"  => /\ r.regex # "" /\ r.bins # 0 /\ r.start # 0 /\ r.end # 0
                           /\ OnlyEnabled => r.enabled = TRUE

\* ... its metrics or patterns, ...
PartsOK(k, p) ==
    /\ p \in Parts(k)
    /\ k = "collection" => \A m \in p : m.kind \in {"gauge", "counter"}

\* ... and the configuration.
ConfigOK(k, c) ==
    /\ c \in Configuration(k)
    /\ c.name # ""
    /\ RowOK(k, c.row)
    /\ PartsOK(k, c.parts)

\* The spellings that are stored are in lower case already.
LEMMA LowerFacts ==
    /\ \A s \in {"node", "cluster", "gauge", "counter", "crdb-v2", "crdb-v2-auth"} : Lower(s) = s
    /\ \A s \in STRING : Lower(s) \in STRING
<1>1. Lower("node") = "node"
  BY SMT DEF Lower
<1>2. Lower("cluster") = "cluster"
  BY SMT DEF Lower
<1>3. Lower("gauge") = "gauge"
  BY SMT DEF Lower
<1>4. Lower("counter") = "counter"
  BY SMT DEF Lower
<1>5. Lower("crdb-v2") = "crdb-v2"
  BY SMT DEF Lower
<1>6. Lower("crdb-v2-auth") = "crdb-v2-auth"
  BY SMT DEF Lower
<1>7. ASSUME NEW s \in STRING PROVE Lower(s) \in STRING
  <2>1. Lower(s) \in {"node", "cluster", "gauge", "counter", "crdb-v2", "crdb-v2-auth", s}
    BY DEF Lower
  <2> QED
    BY <2>1, StringAssumption
<1> QED
  BY <1>1, <1>2, <1>3, <1>4, <1>5, <1>6, <1>7, Zenon

\* The types of the rows and their parts.
LEMMA RowTypes ==
    /\ Row("collection") = [enabled : BOOLEAN, scope : STRING, frequency : Int,
                            labels : Seq(STRING), query : STRING]
    /\ Row("scan") = [enabled : BOOLEAN, format : STRING, path : STRING]
    /\ Row("histogram") = [enabled : BOOLEAN, regex : STRING, bins : Int, start : Int, end : Int]
    /\ Parts("collection") = SUBSET Metric
    /\ Parts("scan") = SUBSET Pattern
    /\ Parts("histogram") = {{}}
BY Zenon DEF Row, Parts

LEMMA RowShapes ==
    /\ \A r \in Row("collection") : r = [enabled |-> r.enabled, scope |-> r.scope,
                                         frequency |-> r.frequency, labels |-> r.labels,
                                         query |-> r.query]
    /\ \A r \in Row("scan") : r = [enabled |-> r.enabled, format |-> r.format, path |-> r.path]
    /\ \A r \in Row("histogram") : r = [enabled |-> r.enabled, regex |-> r.regex,
                                        bins |-> r.bins, start |-> r.start, end |-> r.end]
<1>1. ASSUME NEW r \in Row("collection")
      PROVE  r = [enabled |-> r.enabled, scope |-> r.scope, frequency |-> r.frequency,
                  labels |-> r.labels, query |-> r.query]
  <2>1. r \in [enabled : BOOLEAN, scope : STRING, frequency : Int, labels : Seq(STRING), query : STRING]
    BY RowTypes, Zenon
  <2> QED
    BY <2>1
<1>2. ASSUME NEW r \in Row("scan")
      PROVE  r = [enabled |-> r.enabled, format |-> r.format, path |-> r.path]
  <2>1. r \in [enabled : BOOLEAN, format : STRING, path : STRING]
    BY RowTypes, Zenon
  <2> QED
    BY <2>1
<1>3. ASSUME NEW r \in Row("histogram")
      PROVE  r = [enabled |-> r.enabled, regex |-> r.regex, bins |-> r.bins,
                  start |-> r.start, end |-> r.end]
  <2>1. r \in [enabled : BOOLEAN, regex : STRING, bins : Int, start : Int, end : Int]
    BY RowTypes, Zenon
  <2> QED
    BY <2>1
<1> QED
  BY <1>1, <1>2, <1>3

\* unmarshal of a collection checks what it is to check.
LEMMA UnmarshalCollectionOK ==
    ASSUME NEW doc \in Document("collection"), UnmarshalCollection(doc) # Invalid
    PROVE  ConfigOK("collection", UnmarshalCollection(doc))
<1> DEFINE scope   == Lower(Default(doc.scope, "", "node"))
           metrics == {[name |-> m.name, kind |-> Lower(m.kind)] : m \in doc.metrics}
           r == [enabled |-> doc.enabled, scope |-> scope,
                 frequency |-> doc.frequency * MicrosPerSecond,
                 labels |-> doc.labels, query |-> doc.query]
           c == [name |-> doc.name, row |-> r, parts |-> metrics]
<1>1. /\ doc.name \in STRING /\ doc.enabled \in BOOLEAN /\ doc.frequency \in Int
      /\ doc.scope \in STRING /\ doc.labels \in Seq(STRING) /\ doc.query \in STRING
      /\ doc.metrics \in SUBSET Metric
  BY DEF Document
<1>2. /\ UnmarshalCollection(doc) = c
      /\ \A m \in metrics : m.kind \in {"gauge", "counter"}
      /\ IsInjective(doc.labels) /\ scope \in {"node", "cluster"}
      /\ doc.query # "" /\ doc.name # ""
  BY Zenon DEF UnmarshalCollection
<1>3. metrics \in SUBSET Metric
  <2>1. ASSUME NEW m \in doc.metrics
        PROVE  [name |-> m.name, kind |-> Lower(m.kind)] \in Metric
    <3>1. m.name \in STRING /\ m.kind \in STRING
      BY <1>1, <2>1 DEF Metric
    <3>2. Lower(m.kind) \in STRING
      BY <3>1, LowerFacts, Zenon
    <3> QED
      BY <3>1, <3>2, Zenon DEF Metric
  <2> QED
    BY <2>1, Zenon
<1>4. /\ doc.frequency * MicrosPerSecond \in Int
      /\ (doc.frequency * MicrosPerSecond) % MicrosPerSecond = 0
  BY <1>1, SMT DEF MicrosPerSecond
<1> HIDE DEF metrics, scope
<1>5. r \in Row("collection")
  <2>1. scope \in STRING
    BY <1>2, StringAssumption, Zenon
  <2> QED
    BY <1>1, <1>4, <2>1, RowTypes, Zenon
<1>6. RowOK("collection", r)
  BY <1>1, <1>2, <1>4, <1>5, Zenon DEF RowOK
<1>7. PartsOK("collection", metrics)
  BY <1>2, <1>3, RowTypes, Zenon DEF PartsOK
<1> HIDE DEF r
<1>8. c \in Configuration("collection") /\ c.name # ""
  BY <1>1, <1>2, <1>3, <1>5, RowTypes, Zenon DEF Configuration
<1>9. c.row = r /\ c.parts = metrics
  OBVIOUS
<1> QED
  BY <1>2, <1>6, <1>7, <1>8, <1>9, Zenon DEF ConfigOK

\* So does that of a scan, ...
LEMMA UnmarshalScanOK ==
    ASSUME NEW doc \in Document("scan"), UnmarshalScan(doc) # Invalid
    PROVE  ConfigOK("scan", UnmarshalScan(doc))
<1> DEFINE r == [enabled |-> doc.enabled, format |-> Lower(doc.format), path |-> doc.path]
           c == [name |-> doc.name, row |-> r, parts |-> doc.patterns]
<1>1. /\ doc.name \in STRING /\ doc.enabled \in BOOLEAN /\ doc.format \in STRING
      /\ doc.path \in STRING /\ doc.patterns \in SUBSET Pattern
  BY DEF Document
<1>2. /\ UnmarshalScan(doc) = c
      /\ doc.name # "" /\ Lower(doc.format) \in {"crdb-v2", "crdb-v2-auth"}
  BY Zenon DEF UnmarshalScan
<1>3. r \in Row("scan")
  <2>1. Lower(doc.format) \in STRING
    BY <1>1, LowerFacts, Zenon
  <2> QED
    BY <1>1, <2>1, RowTypes, Zenon
<1>4. RowOK("scan", r)
  BY <1>2, <1>3, Zenon DEF RowOK
<1>5. PartsOK("scan", doc.patterns)
  BY <1>1, RowTypes DEF PartsOK
<1> HIDE DEF r
<1>6. c \in Configuration("scan") /\ c.name # ""
  BY <1>1, <1>2, <1>3, RowTypes, Zenon DEF Configuration
<1>7. c.row = r /\ c.parts = doc.patterns
  OBVIOUS
<1> QED
  BY <1>2, <1>4, <1>5, <1>6, <1>7, Zenon DEF ConfigOK

\* ... and that of a histogram, with the help of the defaults.
LEMMA UnmarshalHistogramOK ==
    ASSUME NEW doc \in Document("histogram"), UnmarshalHistogram(doc) # Invalid,
           OnlyEnabled => doc.enabled = TRUE
    PROVE  ConfigOK("histogram", UnmarshalHistogram(doc))
<1> DEFINE r == [enabled |-> doc.enabled, regex |-> doc.regex, bins |-> Default(doc.bins, 0, 10),
                 start |-> Default(doc.start, 0, 1), end |-> Default(doc.end, 0, DefaultEnd)]
           c == [name |-> doc.name, row |-> r, parts |-> {}]
<1>1. /\ doc.name \in STRING /\ doc.enabled \in BOOLEAN /\ doc.regex \in STRING
      /\ doc.bins \in Int /\ doc.start \in Int /\ doc.end \in Int
  BY DEF Document
<1>2. UnmarshalHistogram(doc) = c /\ doc.regex # "" /\ doc.name # ""
  BY Zenon DEF UnmarshalHistogram
<1>3. /\ r \in Row("histogram") /\ r.regex # "" /\ r.bins # 0 /\ r.start # 0 /\ r.end # 0
  <2>1. /\ Default(doc.bins, 0, 10) \in Int \ {0}
        /\ Default(doc.start, 0, 1) \in Int \ {0}
        /\ Default(doc.end, 0, DefaultEnd) \in Int \ {0}
    BY <1>1 DEF Default, DefaultEnd
  <2>2. r \in Row("histogram")
    BY <1>1, <2>1, RowTypes, Zenon
  <2> QED
    BY <1>2, <2>1, <2>2, Zenon
<1>4. RowOK("histogram", r)
  <2>1. r.enabled = doc.enabled
    BY Zenon
  <2> QED
    BY <1>3, <2>1, Zenon DEF RowOK
<1>5. PartsOK("histogram", {})
  BY RowTypes DEF PartsOK
<1> HIDE DEF r
<1>6. c \in Configuration("histogram") /\ c.name # ""
  BY <1>1, <1>2, <1>3, RowTypes, Zenon DEF Configuration
<1>7. c.row = r /\ c.parts = {}
  OBVIOUS
<1> QED
  BY <1>2, <1>4, <1>5, <1>6, <1>7, Zenon DEF ConfigOK

\* What put reads from a document at hand has passed the checks.
LEMMA UnmarshalOK ==
    ASSUME NEW k \in Kinds, NEW doc \in Document(k), Unmarshal(k, doc) # Invalid,
           k = "histogram" /\ OnlyEnabled => doc.enabled = TRUE
    PROVE  ConfigOK(k, Unmarshal(k, doc))
<1>1. CASE k = "collection"
  BY <1>1, UnmarshalCollectionOK DEF Unmarshal
<1>2. CASE k = "scan"
  BY <1>2, UnmarshalScanOK DEF Unmarshal
<1>3. CASE k = "histogram"
  BY <1>3, UnmarshalHistogramOK DEF Unmarshal
<1> QED
  BY <1>1, <1>2, <1>3 DEF Kinds

\* put reads from what get printed the configuration that get read: a
\* collection, whose period is a whole number of seconds, ...
LEMMA RoundTripCollection ==
    ASSUME NEW c, ConfigOK("collection", c)
    PROVE  UnmarshalCollection(MarshalCollection(c)) = c
<1> DEFINE doc == MarshalCollection(c)
           metrics == {[name |-> m.name, kind |-> Lower(m.kind)] : m \in c.parts}
<1>1. /\ c = [name |-> c.name, row |-> c.row, parts |-> c.parts] /\ c.name # ""
      /\ RowOK("collection", c.row) /\ PartsOK("collection", c.parts)
  BY Zenon DEF ConfigOK, Configuration
<1>2. /\ c.row = [enabled |-> c.row.enabled, scope |-> c.row.scope, frequency |-> c.row.frequency,
                  labels |-> c.row.labels, query |-> c.row.query]
      /\ c.row.scope \in {"node", "cluster"} /\ IsInjective(c.row.labels) /\ c.row.query # ""
      /\ c.row.frequency % MicrosPerSecond = 0
  <2>1. /\ c.row \in Row("collection")
        /\ c.row.scope \in {"node", "cluster"} /\ IsInjective(c.row.labels) /\ c.row.query # ""
        /\ c.row.frequency % MicrosPerSecond = 0
    BY <1>1, Zenon DEF RowOK
  <2> QED
    BY <2>1, RowShapes, Zenon
<1>3. /\ doc.name = c.name /\ doc.enabled = c.row.enabled /\ doc.scope = c.row.scope
      /\ doc.frequency = c.row.frequency \div MicrosPerSecond /\ doc.labels = c.row.labels
      /\ doc.query = c.row.query /\ doc.metrics = c.parts
  BY Zenon DEF MarshalCollection
<1> HIDE DEF doc
<1>4. Lower(Default(doc.scope, "", "node")) = c.row.scope
  <2>1. Default(doc.scope, "", "node") = c.row.scope
    BY <1>2, <1>3, Zenon DEF Default
  <2> QED
    BY <2>1, <1>2, LowerFacts, Zenon
<1>5. doc.frequency * MicrosPerSecond = c.row.frequency
  <2>1. c.row.frequency \in Int
    <3>1. c.row \in Row("collection")
      BY <1>1, Zenon DEF RowOK
    <3>2. c.row \in [enabled : BOOLEAN, scope : STRING, frequency : Int, labels : Seq(STRING),
                     query : STRING]
      BY <3>1, RowTypes, Zenon
    <3> QED
      BY <3>2
  <2>2. \A x \in Int : x % MicrosPerSecond = 0 => (x \div MicrosPerSecond) * MicrosPerSecond = x
    BY SMT DEF MicrosPerSecond
  <2>3. (c.row.frequency \div MicrosPerSecond) * MicrosPerSecond = c.row.frequency
    BY <1>2, <2>1, <2>2, Zenon
  <2> QED
    BY <1>3, <2>3, Zenon
<1>6. metrics = c.parts
  <2>1. ASSUME NEW m \in c.parts PROVE [name |-> m.name, kind |-> Lower(m.kind)] = m
    <3>1. m = [name |-> m.name, kind |-> m.kind] /\ m.kind \in {"gauge", "counter"}
      BY <1>1, RowTypes, Zenon DEF PartsOK, Metric
    <3>2. Lower(m.kind) = m.kind
      BY <3>1, LowerFacts, Zenon
    <3> QED
      BY <3>1, <3>2, Zenon
  <2> QED
    BY <2>1, Zenon
<1>7. \A m \in c.parts : m.kind \in {"gauge", "counter"}
  BY <1>1, Zenon DEF PartsOK
<1>8. UnmarshalCollection(doc) =
         [name |-> doc.name,
          row  |-> [enabled |-> doc.enabled, scope |-> c.row.scope, frequency |-> c.row.frequency,
                    labels |-> doc.labels, query |-> doc.query],
          parts |-> c.parts]
  <2>1. {[name |-> m.name, kind |-> Lower(m.kind)] : m \in doc.metrics} = c.parts
    BY <1>3, <1>6, Zenon
  <2> QED
    BY <1>1, <1>2, <1>3, <1>4, <1>5, <1>7, <2>1, Zenon DEF UnmarshalCollection
<1> QED
  BY <1>1, <1>2, <1>3, <1>8, Zenon DEF doc

\* ... a scan, ...
LEMMA RoundTripScan ==
    ASSUME NEW c, ConfigOK("scan", c)
    PROVE  UnmarshalScan(MarshalScan(c)) = c
<1> DEFINE doc == MarshalScan(c)
<1>1. /\ c = [name |-> c.name, row |-> c.row, parts |-> c.parts] /\ c.name # ""
      /\ RowOK("scan", c.row)
  BY Zenon DEF ConfigOK, Configuration
<1>2. /\ c.row = [enabled |-> c.row.enabled, format |-> c.row.format, path |-> c.row.path]
      /\ c.row.format \in {"crdb-v2", "crdb-v2-auth"}
  <2>1. /\ c.row \in Row("scan")
        /\ c.row.format \in {"crdb-v2", "crdb-v2-auth"}
    BY <1>1, Zenon DEF RowOK
  <2> QED
    BY <2>1, RowShapes, Zenon
<1>3. /\ doc.name = c.name /\ doc.enabled = c.row.enabled /\ doc.format = c.row.format
      /\ doc.path = c.row.path /\ doc.patterns = c.parts
  BY Zenon DEF MarshalScan
<1> HIDE DEF doc
<1>4. Lower(doc.format) = c.row.format
  BY <1>2, <1>3, LowerFacts, Zenon
<1>5. UnmarshalScan(doc) =
         [name |-> doc.name,
          row  |-> [enabled |-> doc.enabled, format |-> c.row.format, path |-> doc.path],
          parts |-> doc.patterns]
  BY <1>1, <1>2, <1>3, <1>4, Zenon DEF UnmarshalScan
<1> QED
  BY <1>1, <1>2, <1>3, <1>5, Zenon DEF doc

\* ... and a histogram, none of whose numbers is taken for a missing one.
LEMMA RoundTripHistogram ==
    ASSUME NEW c, ConfigOK("histogram", c)
    PROVE  UnmarshalHistogram(MarshalHistogram(c)) = c
<1> DEFINE doc == MarshalHistogram(c)
<1>1. /\ c = [name |-> c.name, row |-> c.row, parts |-> c.parts] /\ c.name # ""
      /\ RowOK("histogram", c.row) /\ c.parts = {}
  BY RowTypes, Zenon DEF ConfigOK, Configuration
<1>2. /\ c.row = [enabled |-> c.row.enabled, regex |-> c.row.regex, bins |-> c.row.bins,
                  start |-> c.row.start, end |-> c.row.end]
      /\ c.row.regex # "" /\ c.row.bins # 0 /\ c.row.start # 0 /\ c.row.end # 0
  <2>1. /\ c.row \in Row("histogram")
        /\ c.row.regex # "" /\ c.row.bins # 0 /\ c.row.start # 0 /\ c.row.end # 0
    BY <1>1, Zenon DEF RowOK
  <2> QED
    BY <2>1, RowShapes, Zenon
<1>3. /\ doc.name = c.name /\ doc.enabled = c.row.enabled /\ doc.regex = c.row.regex
      /\ doc.bins = c.row.bins /\ doc.start = c.row.start /\ doc.end = c.row.end
  BY Zenon DEF MarshalHistogram
<1> HIDE DEF doc
<1>4. /\ Default(doc.bins, 0, 10) = doc.bins /\ Default(doc.start, 0, 1) = doc.start
      /\ Default(doc.end, 0, DefaultEnd) = doc.end
  BY <1>2, <1>3, Zenon DEF Default
<1>5. UnmarshalHistogram(doc) =
         [name |-> doc.name,
          row  |-> [enabled |-> doc.enabled, regex |-> doc.regex, bins |-> doc.bins,
                    start |-> doc.start, end |-> doc.end],
          parts |-> {}]
  BY <1>1, <1>2, <1>3, <1>4, Zenon DEF UnmarshalHistogram
<1> QED
  BY <1>1, <1>2, <1>3, <1>5, Zenon DEF doc

LEMMA RoundTrip ==
    ASSUME NEW k \in Kinds, NEW c, ConfigOK(k, c)
    PROVE  Unmarshal(k, Marshal(k, c)) = c /\ c # Invalid
<1>1. c # Invalid
  BY InvalidAssumption, Zenon DEF ConfigOK
<1>2. CASE k = "collection"
  BY <1>1, <1>2, RoundTripCollection DEF Unmarshal, Marshal
<1>3. CASE k = "scan"
  BY <1>1, <1>3, RoundTripScan DEF Unmarshal, Marshal
<1>4. CASE k = "histogram"
  BY <1>1, <1>4, RoundTripHistogram DEF Unmarshal, Marshal
<1> QED
  BY <1>2, <1>3, <1>4 DEF Kinds

-----------------------------------------------------------------------------

IsPut(o) ==
    /\ o = [cmd |-> "put", name |-> o.name, cfg |-> o.cfg, next |-> o.next]
    /\ o.cfg = [name |-> o.name, row |-> o.cfg.row, parts |-> o.cfg.parts]

IsOther(o) ==
    /\ o = [cmd |-> o.cmd, name |-> o.name, next |-> o.next]
    /\ o.cmd \in {"delete", "get"}

\* A command in progress.
Command(o) == /\ IsPut(o) \/ IsOther(o)
              /\ o.name \in Names
              /\ o.next \in 0..3

OpsOK(f) == /\ f = [s \in Sessions |-> f[s]]
            /\ \A s \in Sessions : f[s] # Idle => Command(f[s])

(***************************************************************************)
(* The variables are functions, and a command knows its name.              *)
(***************************************************************************)
ShapeOK ==
    /\ kind \in Kinds
    /\ rows = [n \in Names |-> rows[n]]
    /\ parts = [n \in Names |-> parts[n]]
    /\ OpsOK(op)
    /\ work = [s \in Sessions |-> work[s]]
    /\ mem = [n \in Names |-> mem[n]]
    /\ \A n \in Names : mem[n] # None => mem[n].name = n
    /\ saved # None => saved.doc.name \in Names

(***************************************************************************)
(* How far the transaction of a put or delete has come.                    *)
(***************************************************************************)
Progress(o, w) ==
    o.cmd \in {"put", "delete"} =>
        /\ o.next > 0 => w = [rows |-> w.rows, parts |-> w.parts]
        /\ o.next = 2 => w.parts = {}
        /\ o.next = 3 => /\ w.rows = IF o.cmd = "put" THEN {o.cfg.row} ELSE {}
                         /\ o.cmd = "delete" => w.parts = {}

StoreInv ==
    /\ NoOrphans
    /\ kind = "histogram" => \A n \in Names : parts[n] = {}
    /\ ~testing /\ kind # "histogram" => \A s \in Sessions : Progress(op[s], work[s])

AdminInv == ShapeOK /\ StoreInv

LEMMA IdleShape ==
    /\ Idle.cmd = "none"
    /\ \A o : IsPut(o) => o # Idle /\ o.cmd = "put"
    /\ \A o : IsOther(o) => o # Idle /\ o.cmd \in {"delete", "get"}
<1>1. Idle.cmd = "none"
  BY DEF Idle
<1>2. ASSUME NEW o, IsPut(o) PROVE o.cmd = "put"
  BY <1>2 DEF IsPut
<1> QED
  BY <1>1, <1>2 DEF IsOther

-----------------------------------------------------------------------------
(* The shape of the state.                                                 *)

LEMMA OpsUpdate ==
    ASSUME NEW f, OpsOK(f), NEW s \in Sessions, NEW o, o = Idle \/ Command(o)
    PROVE  OpsOK([f EXCEPT ![s] = o])
BY DEF OpsOK

LEMMA CommandNext ==
    ASSUME NEW o, Command(o), NEW k \in 0..3
    PROVE  Command([o EXCEPT !.next = k])
<1>1. CASE IsPut(o)
  <2> DEFINE t == [cmd |-> "put", name |-> o.name, cfg |-> o.cfg, next |-> k]
  <2>1. [o EXCEPT !.next = k] = t
    BY <1>1 DEF IsPut
  <2>2. IsPut(t) /\ t.name \in Names /\ t.next \in 0..3
    BY <1>1 DEF IsPut, Command
  <2> QED
    BY <2>1, <2>2 DEF Command
<1>2. CASE IsOther(o)
  <2> DEFINE t == [cmd |-> o.cmd, name |-> o.name, next |-> k]
  <2>1. [o EXCEPT !.next = k] = t
    BY <1>2 DEF IsOther
  <2>2. IsOther(t) /\ t.name \in Names /\ t.next \in 0..3
    BY <1>2 DEF IsOther, Command
  <2> QED
    BY <2>1, <2>2 DEF Command
<1> QED
  BY <1>1, <1>2 DEF Command

LEMMA PutShape ==
    ASSUME ShapeOK, NEW s \in Sessions, Put(s)
    PROVE  OpsOK(op')
<1> PICK doc \in Docs[kind] \cup (IF saved = None THEN {} ELSE {saved.doc}) :
           LET c == Unmarshal(kind, doc)
           IN  /\ c # Invalid
               /\ op' = [op EXCEPT ![s] = [cmd |-> "put", name |-> c.name, cfg |-> c, next |-> 0]]
  BY Zenon DEF Put
<1> DEFINE c == Unmarshal(kind, doc)
           o == [cmd |-> "put", name |-> c.name, cfg |-> c, next |-> 0]
<1>1. kind \in Kinds /\ OpsOK(op)
  BY DEF ShapeOK
<1>2. PICK r, p : c = [name |-> doc.name, row |-> r, parts |-> p]
  BY UnmarshalShape, <1>1, Zenon
<1>3. doc.name # ""
  BY UnmarshalShape, <1>1, Zenon
<1>4. doc.name \in Names
  <2>1. CASE doc \in Docs[kind]
    BY <2>1, <1>1, <1>3, DocsAssumption, Zenon DEF Kinds
  <2>2. CASE saved # None /\ doc = saved.doc
    BY <2>2 DEF ShapeOK
  <2> QED
    BY <2>1, <2>2
<1> HIDE DEF c
<1>5. o.name \in Names /\ o.next \in 0..3
  BY <1>2, <1>4
<1>6. IsPut(o)
  <2>1. o.cfg = c /\ o.name = c.name /\ o.next = 0 /\ o.name = doc.name
    BY <1>2
  <2>2. c.row = r /\ c.parts = p
    BY <1>2
  <2>3. o = [cmd |-> "put", name |-> o.name, cfg |-> o.cfg, next |-> o.next]
    BY <2>1
  <2>4. o.cfg = [name |-> o.name, row |-> o.cfg.row, parts |-> o.cfg.parts]
    BY <2>1, <2>2, <1>2
  <2> HIDE DEF o
  <2> QED
    BY <2>3, <2>4 DEF IsPut
<1>7. op' = [op EXCEPT ![s] = o]
  BY DEF c
<1> HIDE DEF o
<1>8. Command(o)
  BY <1>5, <1>6 DEF Command
<1>9. OpsOK([op EXCEPT ![s] = o])
  BY <1>1, <1>8, OpsUpdate, Zenon
<1> QED
  BY <1>7, <1>9, Zenon

\* What get prints carries the name it was asked for.
LEMMA PrintedName ==
    ASSUME kind \in Kinds, NEW c
    PROVE  Printed(c).doc.name = c.name
BY MarshalName DEF Printed

LEMMA ShapeStep ==
    ASSUME ShapeOK, [Next]_vars
    PROVE  ShapeOK'
<1>1. ASSUME NEW s \in Sessions, Done(s) PROVE OpsOK(op')
  BY <1>1, OpsUpdate, Zenon DEF Done, ShapeOK
<1>2. ASSUME NEW s \in Sessions, NEW k \in 0..3, op[s] # Idle, op' = [op EXCEPT ![s].next = k]
      PROVE  OpsOK(op')
  <2>1. op' = [op EXCEPT ![s] = [op[s] EXCEPT !.next = k]]
    BY <1>2
  <2>2. Command([op[s] EXCEPT !.next = k])
    BY <1>2, CommandNext, Zenon DEF ShapeOK, OpsOK
  <2> QED
    BY <2>1, <2>2, OpsUpdate, Zenon DEF ShapeOK
<1>3. ASSUME NEW s \in Sessions, Put(s) PROVE ShapeOK'
  BY <1>3, PutShape, Zenon DEF Put, store, ShapeOK
<1>4. ASSUME NEW s \in Sessions, Delete(s) PROVE ShapeOK'
  <2> PICK n \in Names : op' = [op EXCEPT ![s] = [cmd |-> "delete", name |-> n, next |-> 0]]
    BY <1>4, Zenon DEF Delete
  <2>1. Command([cmd |-> "delete", name |-> n, next |-> 0])
    BY DEF Command, IsOther
  <2>2. OpsOK(op')
    BY <2>1, OpsUpdate, Zenon DEF ShapeOK
  <2> QED
    BY <1>4, <2>2 DEF Delete, store, ShapeOK
<1>5. ASSUME NEW s \in Sessions, Get(s) PROVE ShapeOK'
  <2> PICK n \in Names : op' = [op EXCEPT ![s] = [cmd |-> "get", name |-> n, next |-> 0]]
    BY <1>5, Zenon DEF Get
  <2>1. Command([cmd |-> "get", name |-> n, next |-> 0])
    BY DEF Command, IsOther
  <2>2. OpsOK(op')
    BY <2>1, OpsUpdate, Zenon DEF ShapeOK
  <2> QED
    BY <1>5, <2>2 DEF Get, store, ShapeOK
<1>6. ASSUME NEW s \in Sessions, Begin(s) PROVE ShapeOK'
  <2>1. op[s] # Idle /\ op' = [op EXCEPT ![s].next = 1]
    BY <1>6, IdleShape DEF Begin, Runs
  <2>2. 1 \in 0..3
    OBVIOUS
  <2>3. OpsOK(op')
    BY <2>1, <2>2, <1>2, Zenon
  <2> QED
    BY <1>6, <2>3, Zenon DEF Begin, store, ShapeOK
<1>7. ASSUME NEW s \in Sessions, Exec(s) PROVE ShapeOK'
  <2>1. op[s] # Idle
    BY <1>7, IdleShape DEF Exec, Runs
  <2>2. Advance(op[s].next) \in 0..3
    BY <2>1 DEF ShapeOK, OpsOK, Command, Advance
  <2>3. op' = [op EXCEPT ![s].next = Advance(op[s].next)]
    BY <1>7 DEF Exec
  <2>4. OpsOK(op')
    BY <2>1, <2>2, <2>3, <1>2, Zenon
  <2> QED
    BY <1>7, <2>4, Zenon DEF Exec, store, ShapeOK
<1>8. ASSUME NEW s \in Sessions, Commit(s) \/ CommitUnknown(s) \/ Rollback(s) PROVE ShapeOK'
  <2>1. OpsOK(op')
    BY <1>8, <1>1 DEF Commit, CommitUnknown, Rollback
  <2> QED
    BY <1>8, <2>1 DEF Commit, CommitUnknown, Rollback, Applied, store, ShapeOK
<1>9. ASSUME NEW s \in Sessions, WriteHistogram(s) PROVE ShapeOK'
  <2>1. OpsOK(op')
    BY <1>9, <1>1 DEF WriteHistogram
  <2>2. rows' = [n \in Names |-> rows'[n]]
    BY <1>9, Zenon DEF WriteHistogram, ShapeOK
  <2> QED
    BY <1>9, <2>1, <2>2 DEF WriteHistogram, store, ShapeOK
<1>10. ASSUME NEW s \in Sessions, GetRow(s) PROVE ShapeOK'
  <2>1. OpsOK(op')
    BY <1>10, <1>1, <1>2, IdleShape DEF GetRow, Runs
  <2> QED
    BY <1>10, <2>1, Zenon DEF GetRow, store, ShapeOK
<1>11. ASSUME NEW s \in Sessions, GetParts(s) PROVE ShapeOK'
  <2>1. OpsOK(op')
    BY <1>11, <1>1 DEF GetParts
  <2>2. PICK r \in work[s].rows, read \in SUBSET parts[op[s].name] :
           saved' = Printed([name |-> op[s].name, row |-> r, parts |-> read])
    BY <1>11, Zenon DEF GetParts
  <2>3. saved'.doc.name = op[s].name
    BY <2>2, PrintedName DEF ShapeOK
  <2>4. op[s].name \in Names
    BY <1>11, IdleShape DEF GetParts, Runs, ShapeOK, OpsOK, Command
  <2> QED
    BY <1>11, <2>1, <2>3, <2>4, Zenon DEF GetParts, store, ShapeOK
<1>12. ASSUME NEW s \in Sessions, MemoryPut(s) PROVE ShapeOK'
  <2>1. OpsOK(op')
    BY <1>12, <1>1 DEF MemoryPut
  <2>2. Command(op[s])
    BY <1>12, IdleShape DEF MemoryPut, ShapeOK, OpsOK
  <2>3. IsPut(op[s])
    BY <1>12, <2>2, IdleShape DEF MemoryPut, Command, IsOther
  <2>4. op[s].cfg.name = op[s].name
    BY <2>3 DEF IsPut
  <2> QED
    BY <1>12, <2>1, <2>4 DEF MemoryPut, ShapeOK
<1>13. ASSUME NEW s \in Sessions, MemoryDelete(s) PROVE ShapeOK'
  <2>1. OpsOK(op')
    BY <1>13, <1>1 DEF MemoryDelete
  <2> QED
    BY <1>13, <2>1 DEF MemoryDelete, ShapeOK
<1>14. ASSUME NEW s \in Sessions, MemoryGet(s) PROVE ShapeOK'
  <2>1. OpsOK(op')
    BY <1>14, <1>1 DEF MemoryGet
  <2>2. op[s].name \in Names
    BY <1>14, IdleShape DEF MemoryGet, ShapeOK, OpsOK, Command
  <2>3. CASE mem[op[s].name] = None
    BY <1>14, <2>1, <2>3 DEF MemoryGet, store, ShapeOK
  <2>4. CASE mem[op[s].name] # None
    <3>1. saved' = Printed(mem[op[s].name])
      BY <1>14, <2>4 DEF MemoryGet
    <3>2. saved'.doc.name = op[s].name
      BY <3>1, <2>2, <2>4, PrintedName DEF ShapeOK
    <3> QED
      BY <1>14, <2>1, <2>2, <3>2, Zenon DEF MemoryGet, store, ShapeOK
  <2> QED
    BY <2>3, <2>4
<1>15. ASSUME NEW s \in Sessions, MemoryFails(s) PROVE ShapeOK'
  <2>1. OpsOK(op')
    BY <1>15, <1>1 DEF MemoryFails
  <2> QED
    BY <1>15, <2>1 DEF MemoryFails, store, ShapeOK
<1>16. ASSUME InjectError \/ UNCHANGED vars PROVE ShapeOK'
  BY <1>16 DEF InjectError, vars, store, ShapeOK
<1> QED
  BY <1>3, <1>4, <1>5, <1>6, <1>7, <1>8, <1>9, <1>10, <1>11, <1>12, <1>13, <1>14, <1>15, <1>16
     DEF Next

-----------------------------------------------------------------------------
(* What a transaction has made of its rows when it commits.                *)

\* The commands that end in a commit have the rows they were to write.
LEMMA ReadyRows ==
    ASSUME AdminInv, NEW s \in Sessions, Ready(s)
    PROVE  /\ op[s].name \in Names
           /\ ~testing /\ kind # "histogram"
           /\ \/ /\ op[s].cmd = "put"
                 /\ work[s].rows = {op[s].cfg.row}
                 /\ work[s].parts = op[s].cfg.parts
                 /\ op[s].cfg = [name |-> op[s].name, row |-> op[s].cfg.row,
                                 parts |-> op[s].cfg.parts]
              \/ /\ op[s].cmd = "delete"
                 /\ work[s].rows = {}
                 /\ work[s].parts = {}
<1>1. op[s].cmd \in {"put", "delete"} /\ ~testing /\ kind # "histogram" /\ op[s].next = 3
  BY DEF Ready, Runs
<1>2. Command(op[s])
  BY <1>1, IdleShape DEF AdminInv, ShapeOK, OpsOK
<1>3. Progress(op[s], work[s])
  BY <1>1 DEF AdminInv, StoreInv
<1>4. CASE op[s].cmd = "put"
  <2>1. IsPut(op[s])
    BY <1>2, <1>4, IdleShape DEF Command
  <2>2. op[s].cfg = [name |-> op[s].name, row |-> op[s].cfg.row, parts |-> op[s].cfg.parts]
    BY <2>1, Zenon DEF IsPut
  <2>3. work[s].rows = {op[s].cfg.row}
    BY <1>1, <1>3, <1>4 DEF Progress
  <2> QED
    BY <1>1, <1>2, <1>4, <2>2, <2>3 DEF Ready, Command
<1>5. CASE op[s].cmd = "delete"
  BY <1>1, <1>2, <1>3, <1>5 DEF Progress, Command
<1> QED
  BY <1>1, <1>4, <1>5

LEMMA AppliedInv ==
    ASSUME AdminInv, NEW s \in Sessions, Ready(s),
           Applied(s) \/ UNCHANGED <<rows, parts>>
    PROVE  \A n \in Names : rows'[n] = {} => parts'[n] = {}
<1>1. CASE UNCHANGED <<rows, parts>>
  BY <1>1 DEF AdminInv, StoreInv, NoOrphans
<1>2. CASE Applied(s)
  <2>1. work[s].rows = {} => work[s].parts = {}
    BY ReadyRows, Zenon
  <2>2. \A n \in Names : rows'[n] = IF n = op[s].name THEN work[s].rows ELSE rows[n]
    BY <1>2, ReadyRows, Zenon DEF Applied, AdminInv, ShapeOK
  <2>3. \A n \in Names : parts'[n] = IF n = op[s].name THEN work[s].parts ELSE parts[n]
    BY <1>2, ReadyRows DEF Applied, AdminInv, ShapeOK
  <2> QED
    BY <2>1, <2>2, <2>3 DEF AdminInv, StoreInv, NoOrphans
<1> QED
  BY <1>1, <1>2

\* A statement takes the transaction one step further.
LEMMA ExecProgress ==
    ASSUME NEW o, Command(o), NEW w, Progress(o, w), o.cmd \in {"put", "delete"},
           o.next > 0, NEW v \in Effects(o, w)
    PROVE  Progress([o EXCEPT !.next = Advance(@)], v)
<1> DEFINE q == [o EXCEPT !.next = Advance(@)]
<1>1. o.next \in 1..3
  BY DEF Command
<1>2. w = [rows |-> w.rows, parts |-> w.parts]
  BY <1>1 DEF Progress
<1>3. q.cmd = o.cmd /\ q.next = Advance(o.next) /\ (o.cmd = "put" => q.cfg = o.cfg)
  <2>1. CASE IsPut(o)
    BY <2>1 DEF IsPut
  <2>2. CASE IsOther(o)
    BY <2>2, IdleShape DEF IsOther
  <2> QED
    BY <2>1, <2>2 DEF Command
<1> HIDE DEF q
<1>4. CASE o.next = 1
  <2>1. v = DeleteParts(o, w)
    BY <1>4 DEF Effects
  <2>2. v = [rows |-> w.rows, parts |-> {}]
    BY <2>1, <1>2 DEF DeleteParts
  <2> QED
    BY <1>3, <1>4, <2>2 DEF Progress, Advance
<1>5. CASE o.next = 2
  <2>1. v = WriteRow(o, w)
    BY <1>5 DEF Effects
  <2>2. v = [rows |-> IF o.cmd = "put" THEN {o.cfg.row} ELSE {}, parts |-> w.parts]
    BY <2>1, <1>2 DEF WriteRow
  <2>3. w.parts = {}
    BY <1>5 DEF Progress
  <2> QED
    BY <1>3, <1>5, <2>2, <2>3 DEF Progress, Advance
<1>6. CASE o.next = 3
  <2> DEFINE S == {p \in o.cfg.parts : \A q2 \in w.parts : q2.name # p.name}
  <2>0. Effects(o, w) = IF o.cmd = "put" THEN {[w EXCEPT !.parts = @ \cup {p}] : p \in S} ELSE {}
    BY <1>6 DEF Effects
  <2> HIDE DEF S
  <2>1. o.cmd = "put"
    BY <2>0
  <2>2. PICK p : v = [w EXCEPT !.parts = @ \cup {p}]
    BY <2>0, <2>1
  <2>3. v = [rows |-> w.rows, parts |-> w.parts \cup {p}]
    BY <2>2, <1>2
  <2>4. w.rows = {o.cfg.row}
    BY <1>6, <2>1 DEF Progress
  <2> QED
    BY <1>3, <1>6, <2>1, <2>3, <2>4 DEF Progress, Advance
<1> QED
  BY <1>1, <1>4, <1>5, <1>6 DEF q

LEMMA StoreStep ==
    ASSUME AdminInv, [Next]_vars
    PROVE  StoreInv'
<1> DEFINE Going(o, w) == ~testing /\ kind # "histogram" => Progress(o, w)
<1>0. ShapeOK /\ StoreInv /\ OpsOK(op)
  BY DEF AdminInv, ShapeOK
<1>1. \A w : Progress(Idle, w)
  BY IdleShape DEF Progress
\* A step of s that leaves the tables alone.
<1>2. ASSUME NEW s \in Sessions,
             \A t \in Sessions \ {s} : op'[t] = op[t] /\ work'[t] = work[t],
             Going(op'[s], work'[s]), UNCHANGED <<kind, testing, rows, parts>>
      PROVE  StoreInv'
  <2>1. \A t \in Sessions : Going(op'[t], work'[t])
    BY <1>0, <1>2 DEF StoreInv
  <2> HIDE DEF Going
  <2>2. NoOrphans' /\ (kind' = "histogram" => \A n \in Names : parts'[n] = {})
    BY <1>0, <1>2 DEF StoreInv, NoOrphans
  <2> QED
    BY <1>2, <2>1, <2>2 DEF StoreInv, Going
\* A command ends.
<1>3. ASSUME NEW s \in Sessions, Done(s), UNCHANGED <<kind, testing>>,
             work' = [work EXCEPT ![s] = None] \/ work' = work,
             \A n \in Names : rows'[n] = {} => parts'[n] = {},
             kind = "histogram" => parts' = parts
      PROVE  StoreInv'
  <2>1. \A t \in Sessions : op'[t] = IF t = s THEN Idle ELSE op[t]
    BY <1>0, <1>3 DEF OpsOK, Done
  <2>2. \A t \in Sessions : t # s => work'[t] = work[t]
    BY <1>0, <1>3 DEF ShapeOK
  <2>3. \A t \in Sessions : Going(op'[t], work'[t])
    BY <1>0, <1>1, <2>1, <2>2 DEF StoreInv
  <2> HIDE DEF Going
  <2> QED
    BY <1>0, <1>3, <2>3 DEF StoreInv, NoOrphans, Going
<1>4. ASSUME NEW s \in Sessions, Put(s) \/ Delete(s) \/ Get(s) PROVE StoreInv'
  <2>1. PICK o : op' = [op EXCEPT ![s] = o] /\ o.next = 0
    <3>1. \A c : [cmd |-> "put", name |-> c.name, cfg |-> c, next |-> 0].next = 0
      OBVIOUS
    <3>2. \A n : /\ [cmd |-> "delete", name |-> n, next |-> 0].next = 0
                 /\ [cmd |-> "get", name |-> n, next |-> 0].next = 0
      OBVIOUS
    <3>3. CASE Put(s)
      BY <3>1, <3>3, Zenon DEF Put
    <3>4. CASE Delete(s)
      BY <3>2, <3>4, Zenon DEF Delete
    <3>5. CASE Get(s)
      BY <3>2, <3>5, Zenon DEF Get
    <3> QED
      BY <1>4, <3>3, <3>4, <3>5
  <2>2. UNCHANGED <<kind, testing, rows, parts, work>>
    BY <1>4 DEF Put, Delete, Get, store
  <2>3. op'[s].next = 0 /\ \A t \in Sessions \ {s} : op'[t] = op[t]
    BY <1>0, <2>1 DEF OpsOK
  <2>4. Going(op'[s], work'[s])
    BY <2>3 DEF Progress
  <2> HIDE DEF Going
  <2> QED
    BY <1>2, <2>2, <2>3, <2>4
<1>5. ASSUME NEW s \in Sessions, Begin(s) PROVE StoreInv'
  <2>1. Command(op[s])
    BY <1>0, <1>5, IdleShape DEF Begin, Runs, OpsOK
  <2>2. [op[s] EXCEPT !.next = 1].next = 1
    BY <2>1 DEF Command, IsPut, IsOther
  <2>3. op'[s].next = 1 /\ \A t \in Sessions \ {s} : op'[t] = op[t]
    BY <1>0, <1>5, <2>2, Zenon DEF Begin, OpsOK
  <2>4. /\ work'[s] = [rows |-> rows[op[s].name], parts |-> parts[op[s].name]]
        /\ \A t \in Sessions \ {s} : work'[t] = work[t]
    BY <1>0, <1>5 DEF Begin, ShapeOK
  <2>5. Going(op'[s], work'[s])
    BY <2>3, <2>4 DEF Progress
  <2>6. UNCHANGED <<kind, testing, rows, parts>>
    BY <1>5 DEF Begin, store
  <2> HIDE DEF Going
  <2> QED
    BY <1>2, <2>3, <2>4, <2>5, <2>6
<1>6. ASSUME NEW s \in Sessions, Exec(s) PROVE StoreInv'
  <2>1. PICK w \in Effects(op[s], work[s]) : work' = [work EXCEPT ![s] = w]
    BY <1>6, Zenon DEF Exec
  <2>2. work'[s] = w /\ \A t \in Sessions \ {s} : work'[t] = work[t]
    BY <1>0, <2>1 DEF ShapeOK
  <2>3. /\ op'[s] = [op[s] EXCEPT !.next = Advance(@)]
        /\ \A t \in Sessions \ {s} : op'[t] = op[t]
    BY <1>0, <1>6 DEF Exec, OpsOK
  <2>4. /\ op[s].cmd \in {"put", "delete"} /\ op[s].next > 0
        /\ UNCHANGED <<kind, testing, rows, parts>>
    BY <1>6 DEF Exec, Runs, store
  <2>5. Command(op[s])
    BY <1>0, <2>4, IdleShape DEF OpsOK
  <2>6. Going(op'[s], work'[s])
    <3>1. CASE Progress(op[s], work[s])
      <4>1. Progress([op[s] EXCEPT !.next = Advance(@)], w)
        BY <2>4, <2>5, <3>1, ExecProgress
      <4> QED
        BY <2>2, <2>3, <4>1
    <3>2. CASE testing \/ kind = "histogram"
      BY <3>2
    <3> QED
      BY <1>0, <3>1, <3>2 DEF StoreInv
  <2> HIDE DEF Going
  <2> QED
    BY <1>2, <2>2, <2>3, <2>4, <2>6
<1>7. ASSUME NEW s \in Sessions, Commit(s) \/ CommitUnknown(s) PROVE StoreInv'
  <2>1. /\ Ready(s) /\ Done(s) /\ UNCHANGED <<kind, testing>>
        /\ work' = [work EXCEPT ![s] = None]
        /\ Applied(s) \/ UNCHANGED <<rows, parts>>
    BY <1>7 DEF Commit, CommitUnknown
  <2>2. \A n \in Names : rows'[n] = {} => parts'[n] = {}
    BY <2>1, AppliedInv
  <2>3. kind # "histogram"
    BY <2>1 DEF Ready
  <2> QED
    BY <1>3, <2>1, <2>2, <2>3, Zenon
<1>8. ASSUME NEW s \in Sessions, WriteHistogram(s) PROVE StoreInv'
  <2>1. /\ kind = "histogram" /\ Done(s) /\ UNCHANGED <<kind, testing, parts, work>>
    BY <1>8 DEF WriteHistogram
  <2>2. \A n \in Names : parts'[n] = {}
    BY <1>0, <2>1 DEF StoreInv
  <2> QED
    BY <1>3, <2>1, <2>2
<1>9. ASSUME NEW s \in Sessions, GetRow(s) PROVE StoreInv'
  <2>1. Command(op[s]) /\ op[s].cmd = "get"
    BY <1>0, <1>9, IdleShape DEF GetRow, Runs, OpsOK
  <2>2. [op[s] EXCEPT !.next = 1].cmd = "get"
    BY <2>1, IdleShape DEF Command, IsPut, IsOther
  <2>3. op'[s].cmd \in {"get", "none"} /\ \A t \in Sessions \ {s} : op'[t] = op[t]
    BY <1>0, <1>9, <2>2, IdleShape, Zenon DEF GetRow, Done, OpsOK
  <2>4. \A t \in Sessions \ {s} : work'[t] = work[t]
    BY <1>0, <1>9 DEF GetRow, ShapeOK
  <2>5. Going(op'[s], work'[s])
    BY <2>3 DEF Progress
  <2>6. UNCHANGED <<kind, testing, rows, parts>>
    BY <1>9 DEF GetRow, store
  <2> HIDE DEF Going
  <2> QED
    BY <1>2, <2>3, <2>4, <2>5, <2>6
<1>10. ASSUME NEW s \in Sessions, Rollback(s) \/ GetParts(s) \/ MemoryPut(s) \/ MemoryDelete(s)
                                  \/ MemoryGet(s) \/ MemoryFails(s)
       PROVE  StoreInv'
  <2>1. /\ Done(s) /\ UNCHANGED <<kind, testing, rows, parts>>
        /\ work' = [work EXCEPT ![s] = None] \/ work' = work
    BY <1>10, Zenon DEF Rollback, GetParts, MemoryPut, MemoryDelete, MemoryGet, MemoryFails, store
  <2>2. \A n \in Names : rows'[n] = {} => parts'[n] = {}
    BY <1>0, <2>1 DEF StoreInv, NoOrphans
  <2> QED
    BY <1>3, <2>1, <2>2
<1>11. ASSUME InjectError \/ UNCHANGED vars PROVE StoreInv'
  BY <1>0, <1>11 DEF InjectError, vars, store, StoreInv, NoOrphans
<1> QED
  BY <1>4, <1>5, <1>6, <1>7, <1>8, <1>9, <1>10, <1>11 DEF Next

LEMMA AdminInvariant == Spec => []AdminInv
<1>1. Init => AdminInv
  <2> SUFFICES ASSUME Init PROVE AdminInv
    OBVIOUS
  <2>1. ShapeOK
    BY DEF Init, ShapeOK, OpsOK
  <2>2. \A s \in Sessions : Progress(op[s], work[s])
    BY IdleShape DEF Init, Progress
  <2> QED
    BY <2>1, <2>2 DEF Init, AdminInv, StoreInv, NoOrphans
<1>2. AdminInv /\ [Next]_vars => AdminInv'
  BY ShapeStep, StoreStep DEF AdminInv
<1> QED
  BY <1>1, <1>2, PTL DEF Spec

(***************************************************************************)
(* No metric or pattern outlives its collection or scan, whichever         *)
(* statements fail and whatever the answer to a commit was: put and delete *)
(* remove the metrics in the transaction that writes the row.              *)
(***************************************************************************)
THEOREM NoOrphansCorrect == Spec => []NoOrphans
<1>1. AdminInv => NoOrphans
  BY DEF AdminInv, StoreInv
<1> QED
  BY <1>1, AdminInvariant, PTL

-----------------------------------------------------------------------------
(* What the commands carry and the stores hold.                            *)

UniqueNames(p) == \A a, b \in p : a.name = b.name => a = b

\* What a command carries; a put has inserted no name twice.
OpContent(k, t, o, w) ==
    /\ o.cmd = "put" => ConfigOK(k, o.cfg)
    /\ ~t /\ o.cmd = "get" /\ o.next = 1 => \A r \in w.rows : RowOK(k, r)
    /\ ~t /\ k # "histogram" /\ o.cmd = "put" /\ o.next = 3 => UniqueNames(w.parts)

\* What the tables hold for a name.
TableContent(k, R, P) ==
    /\ \A r \in R : RowOK(k, r) /\ (k = "histogram" => r.enabled = TRUE)
    /\ \A r, q \in R : r = q
    /\ PartsOK(k, P) /\ UniqueNames(P)

(***************************************************************************)
(* Every configuration on its way to the store, in it or printed from it   *)
(* has passed the checks of unmarshal.  A get may put together a row and   *)
(* the parts of two configurations, and each of them has passed.           *)
(***************************************************************************)
ContentInv ==
    /\ \A s \in Sessions : OpContent(kind, testing, op[s], work[s])
    /\ \A n \in Names : TableContent(kind, rows[n], parts[n])
    /\ \A n \in Names : mem[n] # None => ConfigOK(kind, mem[n])
    /\ saved # None => ConfigOK(kind, saved.of) /\ saved.doc = Marshal(kind, saved.of)

\* A command that is not a put, nor a get that has read its row, carries nothing.
LEMMA EmptyHanded ==
    ASSUME NEW k, NEW t, NEW o, NEW w, o.cmd # "put", o.cmd = "get" => o.next = 0
    PROVE  OpContent(k, t, o, w)
BY DEF OpContent

LEMMA NextFields ==
    ASSUME NEW o, Command(o), NEW k \in 0..3
    PROVE  LET q == [o EXCEPT !.next = k]
           IN  q.cmd = o.cmd /\ q.name = o.name /\ q.next = k /\ (o.cmd = "put" => q.cfg = o.cfg)
<1>1. CASE IsPut(o)
  BY <1>1 DEF IsPut
<1>2. CASE IsOther(o)
  BY <1>2, IdleShape DEF IsOther
<1> QED
  BY <1>1, <1>2 DEF Command

\* The document that a put reads, from the command line or from a get.
LEMMA PutContent ==
    ASSUME AdminInv, ContentInv, NEW s \in Sessions, Put(s)
    PROVE  \E o : /\ op' = [op EXCEPT ![s] = o]
                  /\ o.cmd = "put" /\ o.next = 0 /\ ConfigOK(kind, o.cfg)
<1>1. PICK doc \in Docs[kind] \cup (IF saved = None THEN {} ELSE {saved.doc}) :
           LET c == Unmarshal(kind, doc)
           IN  /\ c # Invalid
               /\ op' = [op EXCEPT ![s] = [cmd |-> "put", name |-> c.name, cfg |-> c, next |-> 0]]
  BY Zenon DEF Put
<1> DEFINE c == Unmarshal(kind, doc)
           o == [cmd |-> "put", name |-> c.name, cfg |-> c, next |-> 0]
<1>2. kind \in Kinds
  BY DEF AdminInv, ShapeOK
<1>3. ConfigOK(kind, c)
  <2>1. CASE doc \in Docs[kind]
    <3>1. doc \in Document(kind)
      BY <2>1, <1>2, DocsAssumption, Zenon
    <3>2. kind = "histogram" /\ OnlyEnabled => doc.enabled = TRUE
      BY <2>1, Zenon DEF OnlyEnabled
    <3> QED
      BY <1>1, <1>2, <3>1, <3>2, UnmarshalOK, Zenon
  <2>2. CASE saved # None /\ doc = saved.doc
    <3>1. ConfigOK(kind, saved.of) /\ saved.doc = Marshal(kind, saved.of)
      BY <2>2 DEF ContentInv
    <3>2. c = saved.of
      BY <1>2, <2>2, <3>1, RoundTrip
    <3> QED
      BY <3>1, <3>2
  <2> QED
    BY <2>1, <2>2
<1> HIDE DEF c
<1>4. o.cmd = "put" /\ o.next = 0 /\ o.cfg = c
  OBVIOUS
<1>5. op' = [op EXCEPT ![s] = o]
  BY <1>1 DEF c
<1> QED
  BY <1>3, <1>4, <1>5, Zenon

\* What a statement leaves in the transaction.
LEMMA ExecContent ==
    ASSUME NEW k, NEW t, NEW o, Command(o), NEW w, Progress(o, w), OpContent(k, t, o, w),
           o.cmd \in {"put", "delete"}, o.next > 0, NEW v \in Effects(o, w)
    PROVE  OpContent(k, t, [o EXCEPT !.next = Advance(@)], v)
<1> DEFINE q == [o EXCEPT !.next = Advance(o.next)]
<1>1. o.next \in 1..3 /\ Advance(o.next) \in 0..3
  BY DEF Command, Advance
<1>2. q.cmd = o.cmd /\ q.next = Advance(o.next) /\ (o.cmd = "put" => q.cfg = o.cfg)
  BY <1>1, NextFields
<1> HIDE DEF q
<1>3. CASE o.cmd = "delete"
  BY <1>2, <1>3 DEF OpContent, q
<1>4. CASE o.cmd = "put"
  <2>1. w = [rows |-> w.rows, parts |-> w.parts]
    BY <1>1 DEF Progress
  <2>2. ASSUME q.next = 3, ~t, k # "histogram" PROVE UniqueNames(v.parts)
    <3>1. CASE o.next = 2
      <4>1. v.parts = w.parts
        BY <3>1, <2>1 DEF Effects, WriteRow
      <4>2. w.parts = {}
        BY <1>4, <3>1 DEF Progress
      <4> QED
        BY <4>1, <4>2 DEF UniqueNames
    <3>2. CASE o.next = 3
      <4>1. Effects(o, w) = {[w EXCEPT !.parts = @ \cup {p}] :
                                p \in {p \in o.cfg.parts : \A a \in w.parts : a.name # p.name}}
        BY <1>4, <3>2 DEF Effects
      <4>2. PICK p : (\A a \in w.parts : a.name # p.name) /\ v = [w EXCEPT !.parts = @ \cup {p}]
        BY <4>1
      <4>3. v.parts = w.parts \cup {p}
        BY <2>1, <4>2
      <4>4. UniqueNames(w.parts)
        BY <1>4, <2>2, <3>2 DEF OpContent
      <4> QED
        BY <4>2, <4>3, <4>4 DEF UniqueNames
    <3> QED
      BY <1>1, <1>2, <2>2, <3>1, <3>2 DEF Advance
  <2> QED
    BY <1>2, <1>4, <2>2 DEF OpContent, q
<1> QED
  BY <1>3, <1>4

LEMMA SameTree ==
    ASSUME [Next]_vars
    PROVE  kind' = kind /\ testing' = testing
BY Zenon DEF Next, Put, Delete, Get, Begin, Exec, Commit, CommitUnknown, Rollback, WriteHistogram,
       GetRow, GetParts, MemoryPut, MemoryDelete, MemoryGet, MemoryFails, InjectError, vars

LEMMA OpContentStep ==
    ASSUME AdminInv, ContentInv, [Next]_vars
    PROVE  \A t \in Sessions : OpContent(kind, testing, op'[t], work'[t])
<1>0. /\ OpsOK(op) /\ work = [s \in Sessions |-> work[s]]
      /\ \A t \in Sessions : OpContent(kind, testing, op[t], work[t])
  BY DEF AdminInv, ShapeOK, ContentInv
\* A step of s.
<1>1. ASSUME NEW s \in Sessions, NEW o, op' = [op EXCEPT ![s] = o],
             work' = work \/ \E w : work' = [work EXCEPT ![s] = w],
             OpContent(kind, testing, o, work'[s])
      PROVE  \A t \in Sessions : OpContent(kind, testing, op'[t], work'[t])
  <2>1. op'[s] = o /\ \A t \in Sessions \ {s} : op'[t] = op[t]
    BY <1>0, <1>1 DEF OpsOK
  <2>2. \A t \in Sessions \ {s} : work'[t] = work[t]
    BY <1>0, <1>1
  <2> QED
    BY <1>0, <1>1, <2>1, <2>2
\* A command ends.
<1>2. ASSUME NEW s \in Sessions, Done(s), work' = work \/ \E w : work' = [work EXCEPT ![s] = w]
      PROVE  \A t \in Sessions : OpContent(kind, testing, op'[t], work'[t])
  <2>1. OpContent(kind, testing, Idle, work'[s])
    BY IdleShape, EmptyHanded
  <2> QED
    BY <1>1, <1>2, <2>1, Zenon DEF Done
<1>3. ASSUME NEW s \in Sessions, Put(s)
      PROVE  \A t \in Sessions : OpContent(kind, testing, op'[t], work'[t])
  <2>1. PICK o : /\ op' = [op EXCEPT ![s] = o]
                 /\ o.cmd = "put" /\ o.next = 0 /\ ConfigOK(kind, o.cfg)
    BY <1>3, PutContent
  <2>2. OpContent(kind, testing, o, work'[s])
    BY <2>1 DEF OpContent
  <2>3. work' = work
    BY <1>3 DEF Put
  <2> QED
    BY <1>1, <2>1, <2>2, <2>3, Zenon
<1>4. ASSUME NEW s \in Sessions, Delete(s) \/ Get(s)
      PROVE  \A t \in Sessions : OpContent(kind, testing, op'[t], work'[t])
  <2>1. PICK o : op' = [op EXCEPT ![s] = o] /\ o.cmd \in {"delete", "get"} /\ o.next = 0
    <3>1. \A n : /\ [cmd |-> "delete", name |-> n, next |-> 0].cmd = "delete"
                 /\ [cmd |-> "delete", name |-> n, next |-> 0].next = 0
                 /\ [cmd |-> "get", name |-> n, next |-> 0].cmd = "get"
                 /\ [cmd |-> "get", name |-> n, next |-> 0].next = 0
      OBVIOUS
    <3>2. CASE Delete(s)
      BY <3>1, <3>2, Zenon DEF Delete
    <3>3. CASE Get(s)
      BY <3>1, <3>3, Zenon DEF Get
    <3> QED
      BY <1>4, <3>2, <3>3
  <2>2. OpContent(kind, testing, o, work'[s])
    BY <2>1, EmptyHanded
  <2>3. work' = work
    BY <1>4 DEF Delete, Get
  <2> QED
    BY <1>1, <2>1, <2>2, <2>3, Zenon
<1>5. ASSUME NEW s \in Sessions, Begin(s)
      PROVE  \A t \in Sessions : OpContent(kind, testing, op'[t], work'[t])
  <2> DEFINE o == [op[s] EXCEPT !.next = 1]
  <2>1. op[s].cmd \in {"put", "delete"} /\ Command(op[s])
    BY <1>0, <1>5, IdleShape DEF Begin, Runs, OpsOK
  <2>2. o.cmd = op[s].cmd /\ o.next = 1 /\ (op[s].cmd = "put" => o.cfg = op[s].cfg)
    BY <2>1, NextFields
  <2>3. /\ op' = [op EXCEPT ![s] = o]
        /\ \E w : work' = [work EXCEPT ![s] = w]
    BY <1>5, Zenon DEF Begin
  <2> HIDE DEF o
  <2>4. OpContent(kind, testing, o, work'[s])
    BY <1>0, <2>1, <2>2 DEF OpContent
  <2> QED
    BY <1>1, <2>3, <2>4, Zenon
<1>6. ASSUME NEW s \in Sessions, Exec(s)
      PROVE  \A t \in Sessions : OpContent(kind, testing, op'[t], work'[t])
  <2>1. PICK w \in Effects(op[s], work[s]) : work' = [work EXCEPT ![s] = w]
    BY <1>6, Zenon DEF Exec
  <2>2. /\ op[s].cmd \in {"put", "delete"} /\ op[s].next > 0 /\ ~testing /\ kind # "histogram"
        /\ op' = [op EXCEPT ![s] = [op[s] EXCEPT !.next = Advance(@)]]
    BY <1>6 DEF Exec, Runs
  <2>3. Command(op[s])
    BY <1>0, <2>2, IdleShape DEF OpsOK
  <2>4. Progress(op[s], work[s])
    BY <2>2 DEF AdminInv, StoreInv
  <2>5. OpContent(kind, testing, [op[s] EXCEPT !.next = Advance(@)], w)
    BY <1>0, <2>2, <2>3, <2>4, ExecContent
  <2>6. work'[s] = w
    BY <1>0, <2>1
  <2> QED
    BY <1>1, <2>1, <2>2, <2>5, <2>6, Zenon
<1>7. ASSUME NEW s \in Sessions, GetRow(s)
      PROVE  \A t \in Sessions : OpContent(kind, testing, op'[t], work'[t])
  <2>1. op[s].cmd = "get" /\ Command(op[s])
    BY <1>0, <1>7, IdleShape DEF GetRow, Runs, OpsOK
  <2>2. CASE rows[op[s].name] = {}
    BY <1>2, <1>7, <2>2 DEF GetRow
  <2>3. CASE rows[op[s].name] # {}
    <3> DEFINE o == [op[s] EXCEPT !.next = 1]
               w == [rows |-> rows[op[s].name], parts |-> {}]
    <3>1. op' = [op EXCEPT ![s] = o] /\ work' = [work EXCEPT ![s] = w]
      BY <1>7, <2>3 DEF GetRow
    <3>2. work'[s] = w /\ w.rows = rows[op[s].name]
      BY <1>0, <3>1
    <3>3. o.cmd = "get" /\ o.next = 1
      BY <2>1, NextFields
    <3>4. \A r \in rows[op[s].name] : RowOK(kind, r)
      BY <2>1 DEF ContentInv, TableContent, Command
    <3> HIDE DEF o, w
    <3>5. OpContent(kind, testing, o, work'[s])
      BY <3>2, <3>3, <3>4 DEF OpContent
    <3> QED
      BY <1>1, <3>1, <3>5, Zenon
  <2> QED
    BY <2>2, <2>3
<1>8. ASSUME NEW s \in Sessions,
             \/ Commit(s) \/ CommitUnknown(s) \/ Rollback(s) \/ WriteHistogram(s) \/ GetParts(s)
             \/ MemoryPut(s) \/ MemoryDelete(s) \/ MemoryGet(s) \/ MemoryFails(s)
      PROVE  \A t \in Sessions : OpContent(kind, testing, op'[t], work'[t])
  <2>1. Done(s) /\ (work' = [work EXCEPT ![s] = None] \/ work' = work)
    BY <1>8 DEF Commit, CommitUnknown, Rollback, WriteHistogram, GetParts, MemoryPut, MemoryDelete,
                MemoryGet, MemoryFails
  <2> QED
    BY <1>2, <2>1
<1>9. ASSUME InjectError \/ UNCHANGED vars
      PROVE  \A t \in Sessions : OpContent(kind, testing, op'[t], work'[t])
  BY <1>0, <1>9 DEF InjectError, vars
<1> QED
  BY <1>3, <1>4, <1>5, <1>6, <1>7, <1>8, <1>9, Zenon DEF Next

\* upsertHistogram.sql, on a configuration that passed the checks.
LEMMA EnabledRow ==
    ASSUME NEW r, RowOK("histogram", r)
    PROVE  LET e == [r EXCEPT !.enabled = TRUE]
           IN  RowOK("histogram", e) /\ e.enabled = TRUE
<1> DEFINE e == [enabled |-> TRUE, regex |-> r.regex, bins |-> r.bins, start |-> r.start,
                 end |-> r.end]
<1>1. /\ r \in Row("histogram")
      /\ r.regex # "" /\ r.bins # 0 /\ r.start # 0 /\ r.end # 0
  BY Zenon DEF RowOK
<1>2. r \in [enabled : BOOLEAN, regex : STRING, bins : Int, start : Int, end : Int]
  BY <1>1, RowTypes, Zenon
<1>3. [r EXCEPT !.enabled = TRUE] = e
  <2>1. \A b : [r EXCEPT !.enabled = b] = [enabled |-> b, regex |-> r.regex, bins |-> r.bins,
                                          start |-> r.start, end |-> r.end]
    BY <1>2
  <2> QED
    BY <2>1, Zenon
<1>4. e \in [enabled : BOOLEAN, regex : STRING, bins : Int, start : Int, end : Int]
  BY <1>2
<1>5. /\ e.enabled = TRUE /\ e.regex = r.regex /\ e.bins = r.bins /\ e.start = r.start
      /\ e.end = r.end
  BY Zenon
<1> HIDE DEF e
<1>6. e \in Row("histogram")
  BY <1>4, RowTypes, Zenon
<1>7. RowOK("histogram", e)
  BY <1>1, <1>5, <1>6, Zenon DEF RowOK
<1> QED
  BY <1>3, <1>5, <1>7, Zenon

LEMMA WrittenHistogram ==
    ASSUME AdminInv, ContentInv, NEW s \in Sessions, WriteHistogram(s)
    PROVE  /\ kind = "histogram" /\ ~testing /\ op[s].name \in Names /\ parts' = parts
           /\ \/ /\ op[s].cmd = "put"
                 /\ rows' = [rows EXCEPT ![op[s].name] = {[op[s].cfg.row EXCEPT !.enabled = TRUE]}]
              \/ /\ op[s].cmd = "delete"
                 /\ rows' = [rows EXCEPT ![op[s].name] = {}]
<1>1. kind = "histogram" /\ ~testing /\ op[s].cmd \in {"put", "delete"} /\ parts' = parts
  BY DEF WriteHistogram, Runs
<1>2. op[s].name \in Names
  BY <1>1, IdleShape DEF AdminInv, ShapeOK, OpsOK, Command
<1> DEFINE enabled == \A r \in rows[op[s].name] : r.enabled
<1>3. enabled = TRUE
  <2>1. \A r \in rows[op[s].name] : r.enabled = TRUE
    BY <1>1, <1>2, Zenon DEF ContentInv, TableContent
  <2> QED
    BY <2>1, Zenon
<1>4. rows' = [rows EXCEPT ![op[s].name] = IF op[s].cmd = "put"
                                             THEN {[op[s].cfg.row EXCEPT !.enabled = enabled]}
                                             ELSE {}]
  BY Zenon DEF WriteHistogram
<1> HIDE DEF enabled
<1>5. CASE op[s].cmd = "put"
  BY <1>1, <1>2, <1>3, <1>4, <1>5, Zenon
<1>6. CASE op[s].cmd = "delete"
  BY <1>1, <1>2, <1>4, <1>6
<1> QED
  BY <1>1, <1>5, <1>6

LEMMA TableContentStep ==
    ASSUME AdminInv, ContentInv, [Next]_vars
    PROVE  \A n \in Names : TableContent(kind, rows'[n], parts'[n])
<1>0. /\ rows = [n \in Names |-> rows[n]] /\ parts = [n \in Names |-> parts[n]] /\ kind \in Kinds
      /\ \A n \in Names : TableContent(kind, rows[n], parts[n])
      /\ \A s \in Sessions : OpContent(kind, testing, op[s], work[s])
  BY DEF AdminInv, ShapeOK, ContentInv
<1>1. TableContent(kind, {}, {})
  BY <1>0, RowTypes DEF TableContent, PartsOK, UniqueNames, Kinds
<1>2. ASSUME NEW s \in Sessions, Commit(s) \/ CommitUnknown(s)
      PROVE  \A n \in Names : TableContent(kind, rows'[n], parts'[n])
  <2>1. Ready(s) /\ (Applied(s) \/ UNCHANGED <<rows, parts>>)
    BY <1>2 DEF Commit, CommitUnknown
  <2>2. TableContent(kind, work[s].rows, work[s].parts)
    <3>1. CASE op[s].cmd = "delete"
      BY <1>1, <2>1, <3>1, ReadyRows, Zenon
    <3>2. CASE op[s].cmd = "put"
      <4>1. /\ work[s].rows = {op[s].cfg.row} /\ work[s].parts = op[s].cfg.parts
            /\ ~testing /\ kind # "histogram"
        BY <2>1, <3>2, ReadyRows, Zenon
      <4>2. op[s].next = 3
        BY <2>1 DEF Ready
      <4>3. ConfigOK(kind, op[s].cfg) /\ UniqueNames(work[s].parts)
        BY <1>0, <3>2, <4>1, <4>2 DEF OpContent
      <4> QED
        BY <4>1, <4>3, Zenon DEF ConfigOK, TableContent
    <3> QED
      BY <2>1, <3>1, <3>2, ReadyRows, Zenon
  <2>3. CASE Applied(s)
    <3>1. op[s].name \in Names
      BY <2>1, ReadyRows, Zenon
    <3>2. \A n \in Names : /\ rows'[n] = IF n = op[s].name THEN work[s].rows ELSE rows[n]
                           /\ parts'[n] = IF n = op[s].name THEN work[s].parts ELSE parts[n]
      BY <1>0, <2>3, <3>1, Zenon DEF Applied
    <3> QED
      BY <1>0, <2>2, <3>2
  <2> QED
    BY <1>0, <2>1, <2>3
<1>3. ASSUME NEW s \in Sessions, WriteHistogram(s)
      PROVE  \A n \in Names : TableContent(kind, rows'[n], parts'[n])
  <2>1. kind = "histogram" /\ op[s].name \in Names /\ parts' = parts
    BY <1>3, WrittenHistogram
  <2>2. \A n \in Names : PartsOK(kind, parts[n]) /\ UniqueNames(parts[n])
    BY <1>0 DEF TableContent
  <2>3. CASE op[s].cmd = "put"
    <3> DEFINE e == [op[s].cfg.row EXCEPT !.enabled = TRUE]
    <3>1. rows' = [rows EXCEPT ![op[s].name] = {e}]
      BY <1>3, <2>3, WrittenHistogram
    <3>2. RowOK("histogram", op[s].cfg.row)
      BY <1>0, <2>1, <2>3, Zenon DEF OpContent, ConfigOK
    <3>3. RowOK("histogram", e) /\ e.enabled = TRUE
      BY <3>2, EnabledRow, Zenon
    <3> HIDE DEF e
    <3>4. \A n \in Names : rows'[n] = IF n = op[s].name THEN {e} ELSE rows[n]
      BY <1>0, <3>1
    <3>5. TableContent(kind, {e}, parts[op[s].name])
      BY <2>1, <2>2, <3>3, Zenon DEF TableContent
    <3> QED
      BY <1>0, <2>1, <3>4, <3>5
  <2>4. CASE op[s].cmd # "put"
    <3>1. rows' = [rows EXCEPT ![op[s].name] = {}]
      BY <1>3, <2>4, WrittenHistogram
    <3>2. \A n \in Names : rows'[n] = IF n = op[s].name THEN {} ELSE rows[n]
      BY <1>0, <3>1
    <3>3. \A n \in Names : TableContent(kind, {}, parts[n])
      BY <2>2 DEF TableContent
    <3> QED
      BY <1>0, <2>1, <3>2, <3>3
  <2> QED
    BY <2>3, <2>4
<1>4. CASE UNCHANGED <<rows, parts>>
  BY <1>0, <1>4
<1> QED
  BY <1>2, <1>3, <1>4, ZenonT(40)
     DEF Next, Put, Delete, Get, Begin, Exec, Rollback, GetRow, GetParts, MemoryPut, MemoryDelete,
         MemoryGet, MemoryFails, InjectError, vars, store

LEMMA MemoryContentStep ==
    ASSUME AdminInv, ContentInv, [Next]_vars
    PROVE  \A n \in Names : mem'[n] # None => ConfigOK(kind, mem'[n])
<1>0. /\ mem = [n \in Names |-> mem[n]]
      /\ \A n \in Names : mem[n] # None => ConfigOK(kind, mem[n])
  BY DEF AdminInv, ShapeOK, ContentInv
<1>1. ASSUME NEW s \in Sessions, MemoryPut(s)
      PROVE  \A n \in Names : mem'[n] # None => ConfigOK(kind, mem'[n])
  <2>1. ConfigOK(kind, op[s].cfg)
    BY <1>1 DEF MemoryPut, ContentInv, OpContent
  <2>2. \A n \in Names : mem'[n] = IF n = op[s].name THEN op[s].cfg ELSE mem[n]
    BY <1>0, <1>1 DEF MemoryPut
  <2> QED
    BY <1>0, <2>1, <2>2
<1>2. ASSUME NEW s \in Sessions, MemoryDelete(s)
      PROVE  \A n \in Names : mem'[n] # None => ConfigOK(kind, mem'[n])
  <2>1. \A n \in Names : mem'[n] = IF n = op[s].name THEN None ELSE mem[n]
    BY <1>0, <1>2 DEF MemoryDelete
  <2> QED
    BY <1>0, <2>1
<1>3. CASE UNCHANGED mem
  BY <1>0, <1>3
<1> QED
  BY <1>1, <1>2, <1>3, Zenon
     DEF Next, Put, Delete, Get, Begin, Exec, Commit, CommitUnknown, Rollback, WriteHistogram,
         GetRow, GetParts, MemoryGet, MemoryFails, InjectError, vars, store

\* A part of what passed the checks passes them.
LEMMA PartsSubset ==
    ASSUME NEW k \in Kinds, NEW P, PartsOK(k, P), NEW Q \in SUBSET P
    PROVE  PartsOK(k, Q)
<1>1. CASE k = "collection"
  BY <1>1, RowTypes DEF PartsOK
<1>2. CASE k = "scan"
  BY <1>2, RowTypes DEF PartsOK
<1>3. CASE k = "histogram"
  BY <1>3, RowTypes DEF PartsOK
<1> QED
  BY <1>1, <1>2, <1>3 DEF Kinds

\* A get puts together a row and parts that have each passed the checks.
LEMMA SavedContentStep ==
    ASSUME AdminInv, ContentInv, [Next]_vars
    PROVE  saved' # None => ConfigOK(kind, saved'.of) /\ saved'.doc = Marshal(kind, saved'.of)
<1>0. saved # None => ConfigOK(kind, saved.of) /\ saved.doc = Marshal(kind, saved.of)
  BY Zenon DEF ContentInv
<1>1. ASSUME NEW c, ConfigOK(kind, c), saved' = Printed(c)
      PROVE  ConfigOK(kind, saved'.of) /\ saved'.doc = Marshal(kind, saved'.of)
  <2>1. saved'.of = c /\ saved'.doc = Marshal(kind, c)
    BY <1>1 DEF Printed
  <2> QED
    BY <1>1, <2>1
<1>2. ASSUME NEW s \in Sessions, GetParts(s)
      PROVE  ConfigOK(kind, saved'.of) /\ saved'.doc = Marshal(kind, saved'.of)
  <2>1. op[s].cmd = "get" /\ op[s].next = 1 /\ ~testing
    BY <1>2 DEF GetParts, Runs
  <2>2. PICK r \in work[s].rows, read \in SUBSET parts[op[s].name] :
           saved' = Printed([name |-> op[s].name, row |-> r, parts |-> read])
    BY <1>2, Zenon DEF GetParts
  <2> DEFINE n == op[s].name
             c == [name |-> n, row |-> r, parts |-> read]
  <2>3. n \in Names
    BY <2>1, IdleShape DEF AdminInv, ShapeOK, OpsOK, Command
  <2>4. n \in STRING /\ n # ""
    BY <2>3, NamesAssumption, Zenon
  <2>5. RowOK(kind, r)
    BY <2>1, <2>2, Zenon DEF ContentInv, OpContent
  <2>6. PartsOK(kind, read)
    <3>1. PartsOK(kind, parts[n]) /\ kind \in Kinds
      BY <2>3, Zenon DEF ContentInv, TableContent, AdminInv, ShapeOK
    <3> QED
      BY <3>1, <2>2, PartsSubset, Zenon
  <2>7. c.name = n /\ c.row = r /\ c.parts = read
    OBVIOUS
  <2>8. c \in Configuration(kind)
    BY <2>4, <2>5, <2>6, Zenon DEF Configuration, RowOK, PartsOK
  <2> HIDE DEF c
  <2>9. ConfigOK(kind, c)
    BY <2>4, <2>5, <2>6, <2>7, <2>8, Zenon DEF ConfigOK
  <2>10. saved' = Printed(c)
    BY <2>2 DEF c
  <2> QED
    BY <1>1, <2>9, <2>10
<1>3. ASSUME NEW s \in Sessions, MemoryGet(s)
      PROVE  saved' # None => ConfigOK(kind, saved'.of) /\ saved'.doc = Marshal(kind, saved'.of)
  <2> DEFINE c == mem[op[s].name]
  <2>1. saved' = IF c = None THEN saved ELSE Printed(c)
    BY <1>3 DEF MemoryGet
  <2>2. op[s].name \in Names
    BY <1>3, IdleShape DEF MemoryGet, AdminInv, ShapeOK, OpsOK, Command
  <2>3. c # None => ConfigOK(kind, c)
    BY <2>2, Zenon DEF ContentInv
  <2> HIDE DEF c
  <2> QED
    BY <1>0, <1>1, <2>1, <2>3
<1>4. CASE UNCHANGED saved
  BY <1>0, <1>4
<1> QED
  BY <1>2, <1>3, <1>4, Zenon
     DEF Next, Put, Delete, Get, Begin, Exec, Commit, CommitUnknown, Rollback, WriteHistogram,
         GetRow, MemoryPut, MemoryDelete, MemoryFails, InjectError, vars

LEMMA ContentInvariant == Spec => [](AdminInv /\ ContentInv)
<1>1. Init => ContentInv
  <2> SUFFICES ASSUME Init PROVE ContentInv
    OBVIOUS
  <2>1. \A s \in Sessions : OpContent(kind, testing, op[s], work[s])
    BY IdleShape, EmptyHanded DEF Init
  <2>2. \A n \in Names : TableContent(kind, rows[n], parts[n])
    BY RowTypes DEF Init, Kinds, TableContent, PartsOK, UniqueNames
  <2> QED
    BY <2>1, <2>2 DEF Init, ContentInv
<1>2. ASSUME AdminInv, ContentInv, [Next]_vars PROVE ContentInv'
  BY <1>2, SameTree, OpContentStep, TableContentStep, MemoryContentStep, SavedContentStep, Zenon
     DEF ContentInv
<1> QED
  BY <1>1, <1>2, AdminInvariant, PTL DEF Spec

(***************************************************************************)
(* A configuration that get printed can be put back: put reads from the    *)
(* document the configuration that get read.  The period is stored in      *)
(* whole seconds, the spellings in lower case and the numbers with their   *)
(* defaults, so that nothing is lost in print.                             *)
(***************************************************************************)
THEOREM SavedCorrect == Spec => []SavedRestores
<1>1. AdminInv /\ ContentInv => SavedRestores
  BY RoundTrip DEF AdminInv, ShapeOK, ContentInv, SavedRestores
<1> QED
  BY <1>1, ContentInvariant, PTL

(***************************************************************************)
(* Whatever either store holds has passed the checks of put, although the  *)
(* database enforces none of them, and a get may have mixed the row of one *)
(* configuration with metrics of another before it was put back; and the   *)
(* primary key has kept out metrics and patterns of the same name.         *)
(***************************************************************************)
THEOREM CheckedCorrect == Spec => []StoredChecked
<1>1. ASSUME AdminInv, ContentInv PROVE StoredChecked
  <2> SUFFICES ASSUME NEW n \in Names, Stored[n] # None
               PROVE  /\ Checked(Stored[n])
                      /\ ~testing => \A p, q \in Stored[n].parts : p.name = q.name => p = q
    BY Zenon DEF StoredChecked
  <2>1. kind \in Kinds
    BY <1>1 DEF AdminInv, ShapeOK
  <2>2. ASSUME NEW c, RowOK(kind, c.row), PartsOK(kind, c.parts) PROVE Checked(c)
    BY <2>1, <2>2, Zenon DEF RowOK, PartsOK, Checked, Kinds
  <2>3. CASE testing
    <3>1. Stored[n] = mem[n]
      BY <2>3, Zenon DEF Stored
    <3> QED
      BY <1>1, <2>2, <2>3, <3>1, Zenon DEF ContentInv, ConfigOK
  <2>4. CASE ~testing
    <3> DEFINE r == CHOOSE r \in rows[n] : TRUE
    <3>1. rows[n] # {} /\ Stored[n] = [name |-> n, row |-> r, parts |-> parts[n]]
      BY <2>4 DEF Stored
    <3>2. r \in rows[n]
      BY <3>1
    <3> HIDE DEF r
    <3>3. Stored[n].row = r /\ Stored[n].parts = parts[n]
      BY <3>1
    <3>4. RowOK(kind, r) /\ PartsOK(kind, parts[n]) /\ UniqueNames(parts[n])
      BY <1>1, <3>2, Zenon DEF ContentInv, TableContent
    <3> QED
      BY <2>2, <3>3, <3>4 DEF UniqueNames
  <2> QED
    BY <2>3, <2>4
<1> QED
  BY <1>1, ContentInvariant, PTL

-----------------------------------------------------------------------------
(* The stores implement ConfigStore.                                       *)

\* Stored and Requested, as functions of what they depend on.
StoredFor(t, n, R, P, m) ==
    IF t THEN m ELSE IF R = {} THEN None
    ELSE [name |-> n, row |-> CHOOSE r \in R : TRUE, parts |-> P]

Ask(o) ==
    CASE o.cmd = "put"    -> [name |-> o.name, cfg |-> o.cfg]
      [] o.cmd = "delete" -> [name |-> o.name, cfg |-> None]
      [] OTHER            -> None

LEMMA StoredIs ==
    Stored = [n \in Names |-> StoredFor(testing, n, rows[n], parts[n], mem[n])]
BY Zenon DEF Stored, StoredFor

LEMMA RequestedIs ==
    Requested = [s \in Sessions |-> Ask(op[s])]
BY Zenon DEF Requested, Ask

LEMMA PrimedIs ==
    ASSUME [Next]_vars
    PROVE  /\ Stored' = [n \in Names |-> StoredFor(testing, n, rows'[n], parts'[n], mem'[n])]
           /\ Requested' = [s \in Sessions |-> Ask(op'[s])]
<1>1. kind' = kind /\ testing' = testing
  BY SameTree
<1>2. Stored' = [n \in Names |-> StoredFor(testing', n, rows'[n], parts'[n], mem'[n])]
  BY Zenon DEF Stored, StoredFor
<1>3. Requested' = [s \in Sessions |-> Ask(op'[s])]
  BY Zenon DEF Requested, Ask
<1> QED
  BY <1>1, <1>2, <1>3, Zenon

LEMMA AskFields ==
    ASSUME NEW o
    PROVE  /\ o.cmd = "put" => Ask(o) = [name |-> o.name, cfg |-> o.cfg]
           /\ o.cmd = "delete" => Ask(o) = [name |-> o.name, cfg |-> None]
           /\ o.cmd \notin {"put", "delete"} => Ask(o) = None
BY DEF Ask

\* upsertHistogram.sql stores a configuration that is enabled.
LEMMA EnabledSame ==
    ASSUME NEW c, ConfigOK("histogram", c), OnlyEnabled
    PROVE  c = [name |-> c.name, row |-> [c.row EXCEPT !.enabled = TRUE], parts |-> {}]
<1>1. /\ c = [name |-> c.name, row |-> c.row, parts |-> c.parts]
      /\ c.parts \in Parts("histogram") /\ c.row \in Row("histogram") /\ c.row.enabled = TRUE
  BY Zenon DEF ConfigOK, Configuration, RowOK
<1>2. c.parts = {}
  BY <1>1, RowTypes
<1>3. [c.row EXCEPT !.enabled = c.row.enabled] = c.row
  <2>1. c.row \in [enabled : BOOLEAN, regex : STRING, bins : Int, start : Int, end : Int]
    BY <1>1, RowTypes, Zenon
  <2> QED
    BY <2>1
<1> QED
  BY <1>1, <1>2, <1>3, Zenon

\* A request is not mistaken for none.
LEMMA AskNotNone ==
    ASSUME NEW k \in Kinds, NEW o, o.name \in Names,
           o.cmd = "delete" \/ (o.cmd = "put" /\ ConfigOK(k, o.cfg))
    PROVE  Ask(o) # None
<1> DEFINE R == [name : Names, cfg : Configuration(k) \cup {None}]
<1>1. CASE o.cmd = "delete"
  <2>1. [name |-> o.name, cfg |-> None] \in R
    OBVIOUS
  <2> QED
    BY <1>1, <2>1, AskFields, NoneAssumption
<1>2. CASE o.cmd = "put" /\ ConfigOK(k, o.cfg)
  <2>1. o.cfg \in Configuration(k)
    BY <1>2, Zenon DEF ConfigOK
  <2>2. [name |-> o.name, cfg |-> o.cfg] \in R
    BY <2>1
  <2> QED
    BY <1>2, <2>2, AskFields, NoneAssumption
<1> QED
  BY <1>1, <1>2

\* What a step of s does to the requests.
LEMMA RequestStep ==
    ASSUME AdminInv, [Next]_vars, NEW s \in Sessions, NEW o, op' = [op EXCEPT ![s] = o]
    PROVE  Requested' = [Requested EXCEPT ![s] = Ask(o)]
<1>1. op'[s] = o /\ \A t \in Sessions \ {s} : op'[t] = op[t]
  BY DEF AdminInv, ShapeOK, OpsOK
<1> QED
  BY <1>1, RequestedIs, PrimedIs

LEMMA StoredSame ==
    ASSUME [Next]_vars, UNCHANGED store
    PROVE  Stored' = Stored
BY StoredIs, PrimedIs DEF store

\* A put or delete that is called.
LEMMA CallStep ==
    ASSUME AdminInv, AdminInv', ContentInv, ContentInv', [Next]_vars,
           NEW s \in Sessions, Put(s) \/ Delete(s)
    PROVE  Abstract!Call(s)
<1>1. PICK o : /\ op' = [op EXCEPT ![s] = o] /\ op[s] = Idle /\ UNCHANGED store
               /\ o.cmd \in {"put", "delete"}
  <2>1. CASE Put(s)
    BY <2>1, PutContent, Zenon DEF Put
  <2>2. CASE Delete(s)
    <3>1. \A n : [cmd |-> "delete", name |-> n, next |-> 0].cmd = "delete"
      OBVIOUS
    <3> QED
      BY <2>2, <3>1, Zenon DEF Delete
  <2> QED
    BY <2>1, <2>2
<1>2. kind \in Kinds /\ op'[s] = o
  BY <1>1 DEF AdminInv, ShapeOK, OpsOK
<1>3. Command(o)
  BY <1>1, <1>2, IdleShape DEF AdminInv, ShapeOK, OpsOK
<1>4. o.name \in Names
  BY <1>3 DEF Command
<1>5. o.cmd = "put" => ConfigOK(kind, o.cfg) /\ o.cfg.name = o.name
  <2>1. o.cmd = "put" => ConfigOK(kind, o.cfg)
    BY <1>2, SameTree, Zenon DEF ContentInv, OpContent
  <2>2. o.cmd = "put" => o.cfg.name = o.name
    <3>1. o.cmd = "put" => IsPut(o)
      BY <1>3, IdleShape DEF Command
    <3> QED
      BY <3>1 DEF IsPut
  <2> QED
    BY <2>1, <2>2
<1>6. Ask(o) # None
  BY <1>1, <1>2, <1>4, <1>5, AskNotNone, Zenon
<1>7. Ask(o).name = o.name
  BY <1>1, AskFields
<1>8. Ask(o).cfg # None => Ask(o).cfg.name = o.name
  <2>1. CASE o.cmd = "put"
    <3>1. Ask(o).cfg = o.cfg
      BY <2>1, AskFields
    <3> QED
      BY <1>5, <2>1, <3>1
  <2>2. CASE o.cmd = "delete"
    BY <2>2, AskFields
  <2> QED
    BY <1>1, <2>1, <2>2
<1>9. Requested[s] = None
  BY <1>1, AskFields, IdleShape, RequestedIs
<1>10. Requested' = [Requested EXCEPT ![s] = Ask(o)] /\ Stored' = Stored
  BY <1>1, RequestStep, StoredSame, Zenon
<1>11. Requested'[s] = Ask(o)
  BY <1>10, RequestedIs
<1> QED
  BY <1>4, <1>6, <1>7, <1>8, <1>9, <1>10, <1>11, Zenon DEF Abstract!Call

\* A put or delete returns, and has the effect that was requested.
LEMMA ReturnStep ==
    ASSUME AdminInv, ContentInv, [Next]_vars, NEW s \in Sessions, Done(s),
           op[s].cmd \in {"put", "delete"}
    PROVE  /\ Abstract!Return(s)
           /\ Stored' = Stored => Abstract!NoEffect(s)
           /\ Stored' = [Stored EXCEPT ![Requested[s].name] = Requested[s].cfg] =>
                Abstract!Put(s) \/ Abstract!Delete(s)
<1>1. kind \in Kinds /\ Command(op[s])
  BY IdleShape DEF AdminInv, ShapeOK, OpsOK
<1>2. op[s].cmd = "put" => ConfigOK(kind, op[s].cfg)
  BY Zenon DEF ContentInv, OpContent
<1>3. Requested[s] # None
  BY <1>1, <1>2, AskNotNone, RequestedIs DEF Command
<1>4. Requested' = [Requested EXCEPT ![s] = None]
  <2>1. Ask(Idle) = None
    BY IdleShape, AskFields, ZenonT(40)
  <2> QED
    BY <2>1, RequestStep, Zenon DEF Done
<1>5. Abstract!Return(s)
  BY <1>3, <1>4 DEF Abstract!Return
<1> QED
  BY <1>5 DEF Abstract!NoEffect, Abstract!Put, Abstract!Delete

\* The store changes where the command says, to what it says.
LEMMA StoredChange ==
    ASSUME AdminInv, [Next]_vars, NEW n \in Names, NEW c,
           \A i \in Names \ {n} : rows'[i] = rows[i] /\ parts'[i] = parts[i] /\ mem'[i] = mem[i],
           StoredFor(testing, n, rows'[n], parts'[n], mem'[n]) = c
    PROVE  Stored' = [Stored EXCEPT ![n] = c]
BY StoredIs, PrimedIs, ZenonT(40)

LEMMA CommitStep ==
    ASSUME AdminInv, ContentInv, [Next]_vars, NEW s \in Sessions, Ready(s), Applied(s),
           UNCHANGED mem
    PROVE  Stored' = [Stored EXCEPT ![Requested[s].name] = Requested[s].cfg]
<1> DEFINE n == op[s].name
<1>1. /\ n \in Names /\ ~testing /\ kind # "histogram"
      /\ op[s].cmd \in {"put", "delete"}
  BY ReadyRows, Zenon
<1>2. /\ rows'[n] = work[s].rows /\ parts'[n] = work[s].parts
      /\ \A i \in Names \ {n} : rows'[i] = rows[i] /\ parts'[i] = parts[i] /\ mem'[i] = mem[i]
  BY <1>1 DEF Applied, AdminInv, ShapeOK
<1>3. CASE op[s].cmd = "put"
  <2>1. /\ rows'[n] = {op[s].cfg.row} /\ parts'[n] = op[s].cfg.parts
        /\ op[s].cfg = [name |-> n, row |-> op[s].cfg.row, parts |-> op[s].cfg.parts]
    BY <1>2, <1>3, ReadyRows, Zenon
  <2>2. (CHOOSE r \in {op[s].cfg.row} : TRUE) = op[s].cfg.row
    OBVIOUS
  <2>3. StoredFor(testing, n, rows'[n], parts'[n], mem'[n]) = op[s].cfg
    BY <1>1, <2>1, <2>2, Zenon DEF StoredFor
  <2>4. Requested[s] = [name |-> n, cfg |-> op[s].cfg]
    BY <1>3, RequestedIs, AskFields, ZenonT(40)
  <2>5. Requested[s].name = n /\ Requested[s].cfg = op[s].cfg
    BY <2>4
  <2>6. Stored' = [Stored EXCEPT ![n] = op[s].cfg]
    BY <1>1, <1>2, <2>3, StoredChange
  <2> QED
    BY <2>5, <2>6, Zenon
<1>4. CASE op[s].cmd = "delete"
  <2>1. rows'[n] = {}
    BY <1>2, <1>4, ReadyRows, Zenon
  <2>2. StoredFor(testing, n, rows'[n], parts'[n], mem'[n]) = None
    BY <1>1, <2>1, Zenon DEF StoredFor
  <2>3. Requested[s].name = n /\ Requested[s].cfg = None
    BY <1>4, RequestedIs, AskFields
  <2>4. Stored' = [Stored EXCEPT ![n] = None]
    BY <1>1, <1>2, <2>2, StoredChange, Zenon
  <2> QED
    BY <2>3, <2>4, Zenon
<1> QED
  BY <1>1, <1>3, <1>4

LEMMA HistogramStep ==
    ASSUME OnlyEnabled, AdminInv, ContentInv, [Next]_vars, NEW s \in Sessions, WriteHistogram(s)
    PROVE  /\ Stored' = [Stored EXCEPT ![Requested[s].name] = Requested[s].cfg]
           /\ op[s].cmd \in {"put", "delete"}
<1> DEFINE n == op[s].name
<1>1. /\ kind = "histogram" /\ ~testing /\ n \in Names /\ parts' = parts /\ mem' = mem
      /\ op[s].cmd \in {"put", "delete"}
  BY WrittenHistogram, Zenon DEF WriteHistogram
<1>2. parts'[n] = {}
  BY <1>1, Zenon DEF AdminInv, StoreInv
<1>3. rows = [i \in Names |-> rows[i]] /\ kind \in Kinds
  BY DEF AdminInv, ShapeOK
<1>4. CASE op[s].cmd = "put"
  <2> DEFINE e == [op[s].cfg.row EXCEPT !.enabled = TRUE]
  <2>1. rows' = [rows EXCEPT ![n] = {e}]
    BY <1>4, WrittenHistogram
  <2>2. ConfigOK(kind, op[s].cfg)
    BY <1>4, Zenon DEF ContentInv, OpContent
  <2>3. op[s].cfg.name = n
    <3>1. IsPut(op[s])
      BY <1>4, IdleShape DEF AdminInv, ShapeOK, OpsOK, Command
    <3> QED
      BY <3>1 DEF IsPut
  <2>4. op[s].cfg = [name |-> n, row |-> e, parts |-> {}]
    <3> DEFINE c == op[s].cfg
    <3> HIDE DEF c
    <3>0. ConfigOK("histogram", c)
      BY <1>1, <2>2 DEF c
    <3>1. c = [name |-> c.name, row |-> [c.row EXCEPT !.enabled = TRUE], parts |-> {}]
      BY <3>0, EnabledSame, Zenon
    <3> QED
      BY <2>3, <3>1, Zenon DEF c
  <2> HIDE DEF e
  <2>5. rows'[n] = {e} /\ \A i \in Names \ {n} : rows'[i] = rows[i]
    BY <1>1, <1>3, <2>1
  <2>6. (CHOOSE r \in {e} : TRUE) = e
    OBVIOUS
  <2>7. StoredFor(testing, n, rows'[n], parts'[n], mem'[n]) = [name |-> n, row |-> e, parts |-> {}]
    BY <1>1, <1>2, <2>5, <2>6, Zenon DEF StoredFor
  <2>8. Requested[s].name = n /\ Requested[s].cfg = op[s].cfg
    BY <1>4, RequestedIs, AskFields
  <2>9. \A i \in Names \ {n} : rows'[i] = rows[i] /\ parts'[i] = parts[i] /\ mem'[i] = mem[i]
    BY <1>1, <2>5
  <2>10. Stored' = [Stored EXCEPT ![n] = [name |-> n, row |-> e, parts |-> {}]]
    BY <1>1, <2>7, <2>9, StoredChange, Zenon
  <2> QED
    BY <1>1, <2>4, <2>8, <2>10, Zenon
<1>5. CASE op[s].cmd = "delete"
  <2>1. rows'[n] = {} /\ \A i \in Names \ {n} : rows'[i] = rows[i]
    BY <1>1, <1>3, <1>5, WrittenHistogram
  <2>2. StoredFor(testing, n, rows'[n], parts'[n], mem'[n]) = None
    BY <1>1, <2>1, Zenon DEF StoredFor
  <2>3. Requested[s].name = n /\ Requested[s].cfg = None
    BY <1>5, RequestedIs, AskFields
  <2>4. \A i \in Names \ {n} : rows'[i] = rows[i] /\ parts'[i] = parts[i] /\ mem'[i] = mem[i]
    BY <1>1, <2>1, Zenon
  <2>5. Stored' = [Stored EXCEPT ![n] = None]
    BY <1>1, <2>2, <2>4, StoredChange, Zenon
  <2> QED
    BY <1>1, <2>3, <2>5, Zenon
<1> QED
  BY <1>1, <1>4, <1>5

LEMMA MemoryStep ==
    ASSUME AdminInv, ContentInv, [Next]_vars, NEW s \in Sessions, MemoryPut(s) \/ MemoryDelete(s)
    PROVE  Stored' = [Stored EXCEPT ![Requested[s].name] = Requested[s].cfg]
<1> DEFINE n == op[s].name
<1>1. /\ testing /\ rows' = rows /\ parts' = parts /\ op[s].cmd \in {"put", "delete"}
      /\ mem = [i \in Names |-> mem[i]]
  BY DEF MemoryPut, MemoryDelete, AdminInv, ShapeOK
<1>2. n \in Names
  BY <1>1, IdleShape DEF AdminInv, ShapeOK, OpsOK, Command
<1>3. CASE MemoryPut(s)
  <2>1. mem'[n] = op[s].cfg /\ \A i \in Names \ {n} : mem'[i] = mem[i]
    BY <1>1, <1>2, <1>3 DEF MemoryPut
  <2>2. StoredFor(testing, n, rows'[n], parts'[n], mem'[n]) = op[s].cfg
    BY <1>1, <2>1 DEF StoredFor
  <2>3. Requested[s] = [name |-> n, cfg |-> op[s].cfg]
    BY <1>3, RequestedIs, AskFields, Zenon DEF MemoryPut
  <2>4. Requested[s].name = n /\ Requested[s].cfg = op[s].cfg
    BY <2>3
  <2>5. \A i \in Names \ {n} : rows'[i] = rows[i] /\ parts'[i] = parts[i] /\ mem'[i] = mem[i]
    BY <1>1, <2>1
  <2>6. Stored' = [Stored EXCEPT ![n] = op[s].cfg]
    BY <1>2, <2>2, <2>5, StoredChange
  <2> QED
    BY <2>4, <2>6
<1>4. CASE MemoryDelete(s)
  <2>1. mem'[n] = None /\ \A i \in Names \ {n} : mem'[i] = mem[i]
    BY <1>1, <1>2, <1>4 DEF MemoryDelete
  <2>2. StoredFor(testing, n, rows'[n], parts'[n], mem'[n]) = None
    BY <1>1, <2>1 DEF StoredFor
  <2>3. Requested[s].name = n /\ Requested[s].cfg = None
    <3>1. op[s].cmd = "delete"
      BY <1>4 DEF MemoryDelete
    <3> QED
      BY <3>1, RequestedIs, AskFields
  <2>4. \A i \in Names \ {n} : rows'[i] = rows[i] /\ parts'[i] = parts[i] /\ mem'[i] = mem[i]
    BY <1>1, <2>1
  <2>5. Stored' = [Stored EXCEPT ![n] = None]
    BY <1>2, <2>2, <2>4, StoredChange, Zenon
  <2> QED
    BY <2>3, <2>5
<1> QED
  BY <1>3, <1>4

\* The statements of a transaction before its commit, and every step of a get.
LEMMA QuietStep ==
    ASSUME AdminInv, [Next]_vars, NEW s \in Sessions,
           \/ Get(s) \/ Begin(s) \/ Exec(s) \/ GetRow(s) \/ GetParts(s) \/ MemoryGet(s)
           \/ (Rollback(s) \/ MemoryFails(s)) /\ op[s].cmd \notin {"put", "delete"}
    PROVE  Stored' = Stored /\ Requested' = Requested
<1>1. Stored' = Stored
  BY StoredSame DEF Get, Begin, Exec, GetRow, GetParts, MemoryGet, Rollback, MemoryFails
<1>2. ASSUME NEW o, op' = [op EXCEPT ![s] = o],
             Ask(o) = Ask(op[s])
      PROVE  Requested' = Requested
  <2>1. Requested' = [Requested EXCEPT ![s] = Ask(o)]
    BY <1>2, RequestStep, Zenon
  <2>2. Requested[s] = Ask(op[s])
    BY RequestedIs, Zenon
  <2> QED
    BY <1>2, <2>1, <2>2, RequestedIs
<1>3. Ask(Idle) = None
  BY IdleShape, AskFields, ZenonT(40)
<1>4. CASE Get(s)
  <2>1. PICK n : op' = [op EXCEPT ![s] = [cmd |-> "get", name |-> n, next |-> 0]] /\ op[s] = Idle
    BY <1>4, Zenon DEF Get
  <2>2. Ask([cmd |-> "get", name |-> n, next |-> 0]) = None
    BY AskFields
  <2>3. Ask(op[s]) = None
    BY <1>3, <2>1, Zenon
  <2>4. Requested' = Requested
    BY <1>2, <2>1, <2>2, <2>3, Zenon
  <2> QED
    BY <1>1, <2>4
<1>5. ASSUME NEW k \in 0..3, op' = [op EXCEPT ![s] = [op[s] EXCEPT !.next = k]],
             op[s].cmd \in {"put", "delete", "get"}
      PROVE  Requested' = Requested
  <2> DEFINE o == [op[s] EXCEPT !.next = k]
  <2>1. Command(op[s])
    BY <1>5, IdleShape DEF AdminInv, ShapeOK, OpsOK
  <2>2. o.cmd = op[s].cmd /\ o.name = op[s].name /\ (o.cmd = "put" => o.cfg = op[s].cfg)
    BY <2>1, NextFields
  <2>3. op' = [op EXCEPT ![s] = o]
    BY <1>5
  <2> HIDE DEF o
  <2>4. Ask(o) = Ask(op[s])
    BY <1>5, <2>2, AskFields
  <2> QED
    BY <1>2, <2>3, <2>4, Zenon
<1>6. CASE Begin(s)
  <2>1. /\ op' = [op EXCEPT ![s] = [op[s] EXCEPT !.next = 1]]
        /\ op[s].cmd \in {"put", "delete", "get"} /\ 1 \in 0..3
    BY <1>6 DEF Begin, Runs
  <2> QED
    BY <1>1, <1>5, <2>1
<1>7. CASE Exec(s)
  <2>1. /\ op' = [op EXCEPT ![s] = [op[s] EXCEPT !.next = Advance(op[s].next)]]
        /\ op[s].cmd \in {"put", "delete", "get"}
    BY <1>7 DEF Exec, Runs
  <2>2. Advance(op[s].next) \in 0..3
    BY <2>1, IdleShape DEF AdminInv, ShapeOK, OpsOK, Command, Advance
  <2> QED
    BY <1>1, <1>5, <2>1, <2>2, Zenon
<1>8. ASSUME Done(s), op[s].cmd \notin {"put", "delete"} PROVE Requested' = Requested
  BY <1>2, <1>3, <1>8, AskFields, Zenon DEF Done
<1>9. CASE GetRow(s)
  <2>1. op[s].cmd = "get" /\ 1 \in 0..3
    BY <1>9 DEF GetRow, Runs
  <2>2. Done(s) \/ op' = [op EXCEPT ![s] = [op[s] EXCEPT !.next = 1]]
    BY <1>9 DEF GetRow
  <2> QED
    BY <1>1, <1>5, <1>8, <2>1, <2>2
<1>10. CASE \/ GetParts(s) \/ MemoryGet(s)
            \/ (Rollback(s) \/ MemoryFails(s)) /\ op[s].cmd \notin {"put", "delete"}
  <2>1. Done(s) /\ op[s].cmd \notin {"put", "delete"}
    BY <1>10, Zenon DEF GetParts, Runs, MemoryGet, Rollback, MemoryFails
  <2> QED
    BY <1>1, <1>8, <2>1, Zenon
<1> QED
  BY <1>4, <1>6, <1>7, <1>9, <1>10, Zenon

(***************************************************************************)
(* A put or delete that reports success has done all of its work, in both  *)
(* stores, in spite of the commands that run beside it, provided that no   *)
(* histogram is put with enabled: false.                                   *)
(***************************************************************************)
THEOREM SuccessCorrect ==
    ASSUME OnlyEnabled
    PROVE  Spec => SuccessMeansDone
<1> DEFINE Succeeds(s) == Commit(s) \/ WriteHistogram(s) \/ MemoryPut(s) \/ MemoryDelete(s)
           Goal(s) == Stored'[op[s].name] = IF op[s].cmd = "put" THEN op[s].cfg ELSE None
<1>1. ASSUME AdminInv, ContentInv, [Next]_vars, NEW s \in Sessions, Succeeds(s)
      PROVE  Goal(s)
  <2>1. Stored' = [Stored EXCEPT ![Requested[s].name] = Requested[s].cfg]
    <3>1. CASE Commit(s)
      <4>1. Ready(s) /\ Applied(s) /\ UNCHANGED mem
        BY <3>1, Zenon DEF Commit
      <4> QED
        BY <1>1, <4>1, CommitStep
    <3>2. CASE WriteHistogram(s)
      BY <1>1, <3>2, HistogramStep
    <3>3. CASE MemoryPut(s) \/ MemoryDelete(s)
      BY <1>1, <3>3, MemoryStep
    <3> QED
      BY <1>1, <3>1, <3>2, <3>3, Zenon
  <2>2. op[s].cmd \in {"put", "delete"}
    BY <1>1, Zenon DEF Commit, Ready, WriteHistogram, Runs, MemoryPut, MemoryDelete
  <2>3. op[s].name \in Names
    BY <1>1, <2>2, IdleShape DEF AdminInv, ShapeOK, OpsOK, Command
  <2>4. Requested[s].name = op[s].name
        /\ Requested[s].cfg = IF op[s].cmd = "put" THEN op[s].cfg ELSE None
    BY <2>2, RequestedIs, AskFields
  <2>5. Stored = [n \in Names |-> Stored[n]]
    BY StoredIs
  <2> QED
    BY <2>1, <2>3, <2>4, <2>5
<1>2. AdminInv /\ ContentInv /\ [Next]_vars => [\A s \in Sessions : Succeeds(s) => Goal(s)]_vars
  BY <1>1
<1> QED
  BY <1>2, ContentInvariant, PTL DEF Spec, SuccessMeansDone

(***************************************************************************)
(* Both stores implement ConfigStore, for any number of administrators: a  *)
(* put or delete takes effect as a whole and at once, at its commit, and a *)
(* command that fails has had its effect or none, although the database    *)
(* store runs several statements and any of them may fail.  The exception  *)
(* are histograms that are put with enabled: false.                        *)
(***************************************************************************)
THEOREM StoreCorrect ==
    ASSUME OnlyEnabled
    PROVE  Spec => StoreSpec
<1>1. Init => Abstract!Init
  <2> SUFFICES ASSUME Init PROVE Abstract!Init
    OBVIOUS
  <2>1. Stored = [n \in Names |-> None]
    BY StoredIs DEF Init, StoredFor
  <2>2. Requested = [s \in Sessions |-> None]
    BY RequestedIs, IdleShape, AskFields DEF Init
  <2> QED
    BY <2>1, <2>2 DEF Abstract!Init
<1>2. ASSUME AdminInv, AdminInv', ContentInv, ContentInv', [Next]_vars
      PROVE  [Abstract!Next]_<<Stored, Requested>>
  <2>1. ASSUME NEW s \in Sessions, Put(s) \/ Delete(s) PROVE Abstract!Call(s)
    BY <1>2, <2>1, CallStep
  <2>2. ASSUME NEW s \in Sessions, Commit(s) \/ CommitUnknown(s)
        PROVE  Abstract!Put(s) \/ Abstract!Delete(s) \/ Abstract!NoEffect(s)
    <3>1. /\ Ready(s) /\ Done(s) /\ UNCHANGED mem /\ op[s].cmd \in {"put", "delete"}
          /\ Applied(s) \/ UNCHANGED <<rows, parts>>
      BY <2>2, Zenon DEF Commit, CommitUnknown, Ready, Runs
    <3>2. CASE Applied(s)
      BY <1>2, <3>1, <3>2, CommitStep, ReturnStep, Zenon
    <3>3. CASE UNCHANGED <<rows, parts>>
      BY <1>2, <3>1, <3>3, StoredSame, ReturnStep, Zenon DEF store
    <3> QED
      BY <3>1, <3>2, <3>3
  <2>3. ASSUME NEW s \in Sessions, WriteHistogram(s) PROVE Abstract!Put(s) \/ Abstract!Delete(s)
    BY <1>2, <2>3, HistogramStep, ReturnStep, Zenon DEF WriteHistogram
  <2>4. ASSUME NEW s \in Sessions, MemoryPut(s) \/ MemoryDelete(s)
        PROVE  Abstract!Put(s) \/ Abstract!Delete(s)
    BY <1>2, <2>4, MemoryStep, ReturnStep, Zenon DEF MemoryPut, MemoryDelete
  <2>5. ASSUME NEW s \in Sessions, Rollback(s) \/ MemoryFails(s), op[s].cmd \in {"put", "delete"}
        PROVE  Abstract!NoEffect(s)
    BY <1>2, <2>5, StoredSame, ReturnStep, Zenon DEF Rollback, MemoryFails
  <2>6. ASSUME NEW s \in Sessions,
               \/ Get(s) \/ Begin(s) \/ Exec(s) \/ GetRow(s) \/ GetParts(s) \/ MemoryGet(s)
               \/ (Rollback(s) \/ MemoryFails(s)) /\ op[s].cmd \notin {"put", "delete"}
        PROVE  Stored' = Stored /\ Requested' = Requested
    BY <1>2, <2>6, QuietStep, Zenon
  <2>7. ASSUME InjectError \/ UNCHANGED vars PROVE Stored' = Stored /\ Requested' = Requested
    <3>1. UNCHANGED store /\ op' = op
      BY <2>7 DEF InjectError, vars, store
    <3> QED
      BY <1>2, <3>1, StoredSame, RequestedIs, PrimedIs, Zenon
  <2>8. CASE UNCHANGED vars
    BY <2>7, <2>8
  <2>9. CASE Next
    BY <2>9, <2>1, <2>2, <2>3, <2>4, <2>5, <2>6, <2>7, Zenon DEF Next, Abstract!Next
  <2> QED
    BY <1>2, <2>8, <2>9
<1> QED
  BY <1>1, <1>2, ContentInvariant, PTL DEF Spec, StoreSpec, Abstract!Spec
=============================================================================
