------------------------------ MODULE MCAdmin ------------------------------
(***************************************************************************)
(* Documents for Admin: for each field a value of each sort that yaml.go   *)
(* tells apart.                                                            *)
(***************************************************************************)
EXTENDS Admin, TLC

M(n, k) == [name |-> n, kind |-> k]

CollectionDocs ==
    [name : {"a"}, enabled : {FALSE}, frequency : {10}, scope : {"", "Cluster", "region"},
     labels : {<<"l">>, <<"l", "l">>}, query : {"q"},
     metrics : {{}, {M("m", "GAUGE")}, {M("m", "counter"), M("m", "gauge")}, {M("m", "histogram")}}]
    \cup
    [name : {"a"}, enabled : {TRUE}, frequency : {0}, scope : {"NODE"}, labels : {<<>>},
     query : {"q", ""}, metrics : {{M("m", "Counter")}}]

ScanDocs ==
    [name : {"a", ""}, enabled : {TRUE}, format : {"CRDB-v2", "crdb-v2-auth", "json"}, path : {"p"},
     patterns : {{}, {[name |-> "m", regex |-> "r"], [name |-> "x", regex |-> "("]}}]

HistogramDocs ==
    [name : {"a"}, enabled : {TRUE}, regex : {"r", ""}, bins : {0, 5}, start : {0}, end : {0}]
    \cup
    [name : {"a"}, enabled : {TRUE}, regex : {"("}, bins : {-1}, start : {3}, end : {2}]

SessionSymmetry == Permutations(Sessions)

MCDocs == [collection |-> CollectionDocs, scan |-> ScanDocs, histogram |-> HistogramDocs]

\* One histogram, enabled and disabled.
MCDisable ==
    [collection |-> {}, scan |-> {},
     histogram  |-> [name : {"a"}, enabled : BOOLEAN, regex : {"r"}, bins : {10}, start : {1}, end : {2}]]
=============================================================================
