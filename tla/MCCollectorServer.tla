-------------------------- MODULE MCCollectorServer --------------------------
(***************************************************************************)
(* CollectorServer on small instances.                                     *)
(***************************************************************************)
EXTENDS CollectorServer

CONSTANTS m1, m2, l1, l2, h

Cfg(enabled, scope, frequency, labels, metrics) ==
    [enabled |-> enabled, scope |-> scope, frequency |-> frequency, labels |-> labels,
     help |-> [m \in Metrics |-> IF m \in metrics THEN h ELSE Absent]]

\* One metric, or two for the cluster; the first one switched off; and with
\* another label, at a frequency the scheduler refuses.
MCConfigs ==
    {Cfg(TRUE,  "node",    1, l1, {m1}),
     Cfg(TRUE,  "cluster", 1, l1, {m1, m2}),
     Cfg(FALSE, "node",    1, l1, {m1}),
     Cfg(TRUE,  "node",    0, l2, {m1})}
=============================================================================
