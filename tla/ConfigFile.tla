----------------------------- MODULE ConfigFile -----------------------------
(***************************************************************************)
(* The YAML documents of the put and get commands, and the configurations  *)
(* they stand for (internal/cmd/collection, scan, histogram: yaml.go).  A  *)
(* document is a record of the document's fields; a missing field reads as *)
(* "", 0, FALSE, <<>> or {}, as it does in Go.  The lists of metrics and   *)
(* patterns are sets here: the database does not keep their order.         *)
(*                                                                         *)
(* A configuration is what internal/store keeps of it: a row, and the      *)
(* metrics of a collection or the patterns of a scan.                      *)
(***************************************************************************)
EXTENDS Integers, Sequences, Functions

CONSTANT Invalid   \* the document is refused

Kinds == {"collection", "scan", "histogram"}

\* The types of the documents' fields.
Metric  == [name : STRING, kind : STRING]
Pattern == [name : STRING, regex : STRING]

Document(kind) ==
    CASE kind = "collection" -> [name : STRING, enabled : BOOLEAN, frequency : Int, scope : STRING,
                                 labels : Seq(STRING), query : STRING, metrics : SUBSET Metric]
      [] kind = "scan"       -> [name : STRING, enabled : BOOLEAN, format : STRING, path : STRING,
                                 patterns : SUBSET Pattern]
      [] kind = "histogram"  -> [name : STRING, enabled : BOOLEAN, regex : STRING,
                                 bins : Int, start : Int, end : Int]

\* The types of the rows and of what goes with them.
Row(kind) ==
    CASE kind = "collection" -> [enabled : BOOLEAN, scope : STRING, frequency : Int,
                                 labels : Seq(STRING), query : STRING]
      [] kind = "scan"       -> [enabled : BOOLEAN, format : STRING, path : STRING]
      [] kind = "histogram"  -> [enabled : BOOLEAN, regex : STRING, bins : Int, start : Int, end : Int]

Parts(kind) ==
    CASE kind = "collection" -> SUBSET Metric
      [] kind = "scan"       -> SUBSET Pattern
      [] kind = "histogram"  -> {{}}

Configuration(kind) == [name : STRING, row : Row(kind), parts : Parts(kind)]

ASSUME InvalidAssumption == \A kind \in Kinds : Invalid \notin Configuration(kind)

MicrosPerSecond == 1000000

\* strings.ToLower, on the words that are compared with constants, capitalised or
\* in capitals; any other string is in lower case.
Lower(s) ==
    CASE s \in {"Node", "NODE"}            -> "node"
      [] s \in {"Cluster", "CLUSTER"}      -> "cluster"
      [] s \in {"Gauge", "GAUGE"}          -> "gauge"
      [] s \in {"Counter", "COUNTER"}      -> "counter"
      [] s \in {"CRDB-v2", "CRDB-V2"}      -> "crdb-v2"
      [] s \in {"CRDB-v2-auth", "CRDB-V2-AUTH"} -> "crdb-v2-auth"
      [] OTHER                             -> s

\* The constants of the code are strings, which the provers need to be told.
ASSUME StringAssumption ==
    {"node", "cluster", "gauge", "counter", "crdb-v2", "crdb-v2-auth"} \subseteq STRING

\* defaults.Set: a field that has its zero value takes the tag's.
Default(v, zero, d) == IF v = zero THEN d ELSE v

-----------------------------------------------------------------------------
(* Collections.                                                            *)

UnmarshalCollection(doc) ==
    LET scope   == Lower(Default(doc.scope, "", "node"))
        metrics == {[name |-> m.name, kind |-> Lower(m.kind)] : m \in doc.metrics}
    IN  IF /\ \A m \in metrics : m.kind \in {"gauge", "counter"}
           /\ IsInjective(doc.labels)
           /\ scope \in {"node", "cluster"}
           /\ doc.query # "" /\ doc.name # ""
          THEN [name  |-> doc.name,
                row   |-> [enabled   |-> doc.enabled,
                           scope     |-> scope,
                           frequency |-> doc.frequency * MicrosPerSecond,
                           labels    |-> doc.labels,
                           query     |-> doc.query],
                parts |-> metrics]
          ELSE Invalid

\* Faulty variant: the scope is left out.
MarshalCollectionNoScope(c) ==
    [name      |-> c.name,
     enabled   |-> c.row.enabled,
     scope     |-> "",
     frequency |-> c.row.frequency \div MicrosPerSecond,
     labels    |-> c.row.labels,
     query     |-> c.row.query,
     metrics   |-> c.parts]

MarshalCollection(c) ==
    [name      |-> c.name,
     enabled   |-> c.row.enabled,
     scope     |-> c.row.scope,
     frequency |-> c.row.frequency \div MicrosPerSecond,
     labels    |-> c.row.labels,
     query     |-> c.row.query,
     metrics   |-> c.parts]

-----------------------------------------------------------------------------
(* Scans.                                                                  *)

UnmarshalScan(doc) ==
    LET format == Lower(doc.format)
    IN  IF doc.name # "" /\ format \in {"crdb-v2", "crdb-v2-auth"}
          THEN [name  |-> doc.name,
                row   |-> [enabled |-> doc.enabled, format |-> format, path |-> doc.path],
                parts |-> doc.patterns]
          ELSE Invalid

MarshalScan(c) ==
    [name     |-> c.name,
     enabled  |-> c.row.enabled,
     format   |-> c.row.format,
     path     |-> c.row.path,
     patterns |-> c.parts]

-----------------------------------------------------------------------------
(* Histograms.  The bounds are in milliseconds here, nanoseconds in YAML.  *)

DefaultEnd == 20000

\* Faulty variant: the defaults are not set.
UnmarshalHistogramNoDefaults(doc) ==
    IF doc.regex # "" /\ doc.name # ""
      THEN [name  |-> doc.name,
            row   |-> [enabled |-> doc.enabled, regex |-> doc.regex, bins |-> doc.bins,
                       start |-> doc.start, end |-> doc.end],
            parts |-> {}]
      ELSE Invalid

UnmarshalHistogram(doc) ==
    IF doc.regex # "" /\ doc.name # ""
      THEN [name  |-> doc.name,
            row   |-> [enabled |-> doc.enabled,
                       regex   |-> doc.regex,
                       bins    |-> Default(doc.bins, 0, 10),
                       start   |-> Default(doc.start, 0, 1),
                       end     |-> Default(doc.end, 0, DefaultEnd)],
            parts |-> {}]
      ELSE Invalid

MarshalHistogram(c) ==
    [name    |-> c.name,
     enabled |-> c.row.enabled,
     regex   |-> c.row.regex,
     bins    |-> c.row.bins,
     start   |-> c.row.start,
     end     |-> c.row.end]

-----------------------------------------------------------------------------

Unmarshal(kind, doc) ==
    CASE kind = "collection" -> UnmarshalCollection(doc)
      [] kind = "scan"       -> UnmarshalScan(doc)
      [] kind = "histogram"  -> UnmarshalHistogram(doc)

Marshal(kind, c) ==
    CASE kind = "collection" -> MarshalCollection(c)
      [] kind = "scan"       -> MarshalScan(c)
      [] kind = "histogram"  -> MarshalHistogram(c)
=============================================================================
