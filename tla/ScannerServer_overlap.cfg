SPECIFICATION Spec
CONSTANTS
    Names = {s1}
    Patterns = {p}
    BadPatterns = {}
    Lists = {{p}}
    NoRow = NoRow
    None = None
    Threads = {t1, t2}
    Scanners = {i1, i2, i3, i4}
    PromptStart = TRUE
    Faults = {}
    MaxUpdates = 2
PROPERTIES CleanupRemovesAll
