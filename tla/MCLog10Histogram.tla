-------------------------- MODULE MCLog10Histogram --------------------------
(***************************************************************************)
(* Bounds on and off the ends of bins, equal counts and jumps, ends before *)
(* and beyond the upstream's bounds, and upstreams with +Inf alone.        *)
(***************************************************************************)
EXTENDS Log10Histogram

CONSTANTS MaxBounds, Bounds, Counts

MCConfigs ==
    {c \in [bins : {1, 2, 4, 5, 10, 20, 25}, start : {1, 3, 10}, end : MaxBounds] :
        10^(Log10(c.start) + 1) % c.bins = 0}

\* The sequences of k elements of S in ascending order, for k \in 0..3.
Ascending(S) ==
    {<<>>} \cup {<<a>> : a \in S}
           \cup {s \in S \X S : s[1] < s[2]}
           \cup {s \in S \X S \X S : s[1] < s[2] /\ s[2] < s[3]}

MCInputs ==
    UNION {{[i \in 1..Len(b) + 1 |-> Bucket(IF i > Len(b) THEN Inf ELSE b[i], n[i])] :
              n \in {n \in [1..Len(b) + 1 -> Counts] : \A i \in 1..Len(b) : n[i] <= n[i + 1]}} :
           b \in Ascending(Bounds)}
=============================================================================
