\* Overlapping refreshes and scrapes while rows change.
SPECIFICATION FairSpec
CONSTANTS
    f1 = f1
    f2 = f2
    Names = {h1, h2}
    Families = {f1, f2}
    Configs <- MCConfigs
    BadConfigs <- MCBadConfigs
    NoRow = NoRow
    Nil = Nil
    Threads = {t1, t2}
    MaxUpdates = 1
INVARIANTS LoadsWhatIsStored OneListPerScrape
PROPERTIES Converges
