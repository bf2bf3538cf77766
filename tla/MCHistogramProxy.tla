--------------------------- MODULE MCHistogramProxy ---------------------------
(***************************************************************************)
(* HistogramProxy with two families: a regex that matches one of them and  *)
(* one that does not compile.                                              *)
(***************************************************************************)
EXTENDS HistogramProxy

CONSTANTS f1, f2

MCBadConfigs == {[regex |-> {}, bins |-> 10]}

MCConfigs == {[regex |-> {f1}, bins |-> 20]} \cup MCBadConfigs
===============================================================================
