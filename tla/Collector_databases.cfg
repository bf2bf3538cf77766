\* Two databases.
SPECIFICATION Spec
CONSTANTS
    d1 = d1
    d2 = d2
    DatabaseSets <- MCTwoDatabases
    Labels = {a}
    Counters = {}
    Gauges = {g}
    Values = {0, 1}
    Null = Null
    None = None
    NoEntry = NoEntry
    MaxResults = 1
    Answers <- Results
    Faults = {}
    MaxExported = 0
INVARIANTS ResultExported
