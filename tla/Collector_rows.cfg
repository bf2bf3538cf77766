\* One database, and more counters than the cache holds: resets, NULLs, rows that
\* come and go.
SPECIFICATION Spec
CONSTANTS
    d1 = d1
    d2 = d2
    DatabaseSets <- MCOneDatabase
    Labels = {a, b, c, d, e}
    Counters = {n}
    Gauges = {g}
    Values = {0, 1, 2}
    Null = Null
    None = None
    NoEntry = NoEntry
    MaxResults = 2
    Answers <- MCAnswers
    Faults = {"error", "decode", "break"}
    MaxExported = 3
SYMMETRY LabelSymmetry
INVARIANTS CacheAccountsForCounters CountersBounded CountersKeepCounting ResultExported
PROPERTY CountersNeverFall
