SPECIFICATION FairLifecycle
CONSTANTS
    Ids = {i1}
    NoRow = NoRow
    Window = 3
    TTL = 5
    MaxMisses = 3
    Users = {u1}
    Rejected = {}
    self = i1
    beat = u1
    MaxSignals = 2
    MaxOutage = 1
INVARIANTS HandleOpen NoPoolLeaked OldDrained ReloadCostsOneBeat LiveListed ExitedUnlisted
PROPERTIES StaysDeleted RowsCollected Reloads
